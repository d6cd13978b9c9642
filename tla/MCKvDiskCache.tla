--------------------------- MODULE MCKvDiskCache ---------------------------
(***************************************************************************)
(* Instances of KvDiskCache for TLC.  The text <<"a">> is a prefix of      *)
(* <<"a", d1>>; a visible key can be shorter than a rendered one and hold  *)
(* more tokens, so token counts do not follow the lengths.                 *)
(***************************************************************************)
EXTENDS KvDiskCache

CONSTANTS i1, i2, i3, d1, d2

short == <<"a">>
long == <<"a", d1>>

MCTexts == {short, long}
MCPrompts == {<<"a", "c">>, <<"a", d1, "c">>}
MCTokens == (short :> 4) @@ (long :> 3)
MCBody == (short :> 2) @@ (long :> 60)
MCBlockBytes == (d1 :> 2) @@ (d2 :> 3)

MCServers == {[ctx |-> 1, quant |-> 2], [ctx |-> 2, quant |-> 2]}

MCSymmetry == Permutations(Ids)
=============================================================================

-------------------------- MODULE MCSpeculativeDecode --------------------------
(***************************************************************************)
(* A small instance of SpeculativeDecode: answers with and without an end, *)
(* and the option sets that select the different verifiers.                *)
(***************************************************************************)
EXTENDS SpeculativeDecode

SmallTargets == {<<"a", "b", "a", "a", "b", "a", "a">>, <<"a", "b", "a", "eos", "a", "b", "a">>}

Plain(depth, strict) ==
    [depth |-> depth, strict |-> strict, batch |-> FALSE, capture |-> FALSE,
     force |-> FALSE, replay |-> FALSE, margin |-> FALSE]

SmallOptions ==
    {Plain(2, TRUE), Plain(2, FALSE), Plain(4, FALSE),
     [Plain(2, TRUE) EXCEPT !.batch = TRUE],
     [Plain(2, TRUE) EXCEPT !.batch = TRUE, !.capture = TRUE],
     [Plain(2, FALSE) EXCEPT !.force = TRUE],
     [Plain(3, FALSE) EXCEPT !.replay = TRUE],
     [Plain(2, FALSE) EXCEPT !.margin = TRUE, !.replay = TRUE]}
=============================================================================

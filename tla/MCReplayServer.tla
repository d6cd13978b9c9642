--------------------------- MODULE MCReplayServer ---------------------------
(***************************************************************************)
(* Small instances of ReplayServer.                                        *)
(***************************************************************************)
EXTENDS ReplayServer

Generate(tokens, len) == [kind |-> "generate", tokens |-> tokens, len |-> len]
Other(kind) == [kind |-> kind, tokens |-> 1, len |-> 1]

\* Requests that can and cannot share a batch, in either mode, one that is
\* answered at once and one that does not fit.
MixedShapes == <<{Generate(2, 1), Generate(1, 1)},
                 {Generate(2, 1), Generate(2, 2), Other("long")},
                 {Generate(2, 1), Generate(1, 2), Other("plain")}>>

TwoTokenShapes == <<{Generate(2, 1)}, {Generate(2, 2)}>>

Busy   == {[queue_policy |-> "reject-busy", mtp |-> "off"]}
Verify == {[queue_policy |-> "sequential", mtp |-> "verify"]}
Both   == Busy \cup Verify
=============================================================================

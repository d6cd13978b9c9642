----------------------------- MODULE StagePass -----------------------------
(***************************************************************************)
(* What feeding a batch of tokens through the layer stages promises: every *)
(* slot of the batch goes through every layer exactly once, in the order   *)
(* of the layers; a pass that succeeds has taken every slot through every  *)
(* layer, and nothing is run for a pass that has returned.                 *)
(* A pass that fails may leave slots anywhere.                             *)
(***************************************************************************)
EXTENDS Naturals

CONSTANTS NLayers,    \* layers, over all stages
          MaxSlots    \* slots of the largest batch

Layers == 0..(NLayers - 1)
Slots  == 0..(MaxSlots - 1)

VARIABLES open,     \* TRUE while a pass is being made
          n_slots,  \* slots of the current or last pass
          passes,   \* passes[l][s]: times layer l has been run for slot s in it
          result    \* how the last pass ended

Untouched == [l \in Layers |-> [s \in Slots |-> 0]]

Init ==
    /\ open = FALSE /\ n_slots = 0 /\ result = "none"
    /\ passes = Untouched

Begin ==
    /\ ~open
    /\ open' = TRUE
    /\ n_slots' \in 1..MaxSlots
    /\ passes' = Untouched
    /\ result' = "none"

\* Layers a..b are run for the slots S, which have been through all layers
\* before a and none from a on.
Work ==
    /\ open
    /\ \E S \in SUBSET {s \in Slots : s < n_slots}, a, b \in Layers :
          /\ S # {} /\ a <= b
          /\ \A s \in S, l \in Layers : passes[l][s] = IF l < a THEN 1 ELSE 0
          /\ passes' = [l \in Layers |-> [s \in Slots |->
                           IF s \in S /\ a <= l /\ l <= b THEN 1 ELSE passes[l][s]]]
    /\ UNCHANGED <<open, n_slots, result>>

Return ==
    /\ open
    /\ open' = FALSE
    /\ \/ result' = "failed"
       \/ /\ \A l \in Layers, s \in Slots : s < n_slots => passes[l][s] = 1
          /\ result' = "ok"
    /\ UNCHANGED <<n_slots, passes>>

Next == Begin \/ Work \/ Return

vars == <<open, n_slots, passes, result>>

Spec == Init /\ [][Next]_vars
=============================================================================

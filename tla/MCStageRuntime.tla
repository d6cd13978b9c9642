--------------------------- MODULE MCStageRuntime ---------------------------
(* Three stages (a first, a middle and a last one), two or three slots,    *)
(* two dispatches, so that a failed or a smaller dispatch has a successor. *)
EXTENDS StageRuntime
=============================================================================

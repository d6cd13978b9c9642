--------------------------- MODULE MCStepPipeline ---------------------------
(* Three stages of two layers and batches of two or three slots: spans end *)
(* in the middle of a batch, and a wavefront can have slots at each of its *)
(* layers and slots still to start.                                        *)
EXTENDS StepPipeline
=============================================================================

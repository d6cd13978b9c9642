---------------------------- MODULE MCServerQueue ----------------------------
(***************************************************************************)
(* Instances of ServerQueue for TLC.                                       *)
(***************************************************************************)
EXTENDS ServerQueue

CONSTANTS c1, c2, c3
=============================================================================

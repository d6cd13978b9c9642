---------------------------- MODULE ParallelFor ----------------------------
(***************************************************************************)
(* What a caller of ds4_parallel_for is promised: between the call and its *)
(* return every row of the job has been given to the kernel exactly once,  *)
(* in any order and in any grouping, and nothing is run for a call that    *)
(* has returned.  Calls are numbered so that work done for an old job      *)
(* cannot pass for work done for the current one.                          *)
(***************************************************************************)
EXTENDS Naturals

CONSTANTS MaxCalls,   \* calls followed (a bound of the model)
          MaxRows     \* rows of the largest job

Calls == 1..MaxCalls
Rows  == 0..(MaxRows - 1)

VARIABLES call,   \* number of calls made so far; the last one is current
          open,   \* TRUE between a call and its return
          rows,   \* rows of the current call
          ran     \* ran[c][r]: times row r of call c was given to the kernel

Init ==
    /\ call = 0
    /\ open = FALSE
    /\ rows = 0
    /\ ran = [c \in Calls |-> [r \in Rows |-> 0]]

Begin ==
    /\ ~open
    /\ call + 1 \in Calls
    /\ call' = call + 1
    /\ open' = TRUE
    /\ rows' \in 0..MaxRows
    /\ UNCHANGED ran

Pending == {r \in Rows : r < rows /\ ran[call][r] = 0}

Execute ==
    /\ open
    /\ \E R \in SUBSET Pending :
          ran' = [ran EXCEPT ![call] = [r \in Rows |-> IF r \in R THEN 1 ELSE @[r]]]
    /\ UNCHANGED <<call, open, rows>>

Return ==
    /\ open
    /\ Pending = {}
    /\ open' = FALSE
    /\ UNCHANGED <<call, rows, ran>>

Next == Begin \/ Execute \/ Return

vars == <<call, open, rows, ran>>

Spec == Init /\ [][Next]_vars
=============================================================================

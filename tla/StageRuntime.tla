---------------------------- MODULE StageRuntime ----------------------------
(***************************************************************************)
(* The two persistent stage pipelines of the layer-parallel replay engine. *)
(* One thread per stage takes the slots of a dispatch in order, waits for  *)
(* the stage before it to have done the slot, takes the slot over, decodes *)
(* it and marks it done.  The "barrier" runtime (replay_pipeline) shares   *)
(* one condition variable and lets the host go when every stage has        *)
(* checked out; the "mailbox" runtime (replay_mailbox) has a condition     *)
(* variable per stage, wakes only the first stage on a dispatch and lets   *)
(* the host go when the last stage has done the last slot, or at once on a *)
(* failure.                                                                *)
(*                                                                         *)
(* Each critical section is one step, and so is each read of n_slots,      *)
(* which the stages make without the lock.  Handing a slot over, decoding  *)
(* it and synchronising the device is one step that may fail.              *)
(***************************************************************************)
EXTENDS Integers, FiniteSets

CONSTANTS NStages,        \* DS4_V100_EXPECTED_GPUS
          MaxSlots,       \* slots of the largest dispatch
          MaxDispatches,  \* dispatches followed (a bound of the model)
          MaxFaults,      \* device failures considered (a bound of the model)
          Kinds           \* the runtimes considered: "barrier", "mailbox"

ASSUME StageRuntimeAssumption ==
    /\ NStages \in Nat \ {0}
    /\ MaxSlots \in Nat \ {0, 1}
    /\ MaxDispatches \in Nat /\ MaxFaults \in Nat
    /\ Kinds \subseteq {"barrier", "mailbox"}

Stages == 0..(NStages - 1)
Slots  == 0..(MaxSlots - 1)
LastStage == NStages - 1

VARIABLES
    kind,
    stop, active, failed, generation, n_slots,   \* the shared runtime
    completed,    \* completed_workers (barrier), done_count of the last stage (mailbox)
    done,         \* the <<stage, slot>> marked done for the current generation
    pc, seen, slot,   \* of each stage thread
    host,         \* where the dispatching thread is
    passes,       \* times each stage has decoded each slot since the dispatch
    result,       \* how the last dispatch ended
    faults        \* device failures so far

shared  == <<stop, active, failed, generation, n_slots, completed, done>>
workers == <<pc, seen, slot>>
vars    == <<kind, shared, workers, host, passes, result, faults>>

Untouched == [k \in Stages |-> [s \in Slots |-> 0]]

Init ==
    /\ kind \in Kinds
    /\ stop = FALSE /\ active = FALSE /\ failed = FALSE
    /\ generation = 0 /\ n_slots = 0 /\ completed = 0 /\ done = {}
    /\ pc = [k \in Stages |-> "look"]
    /\ seen = [k \in Stages |-> 0]
    /\ slot = [k \in Stages |-> 0]
    /\ host = "idle" /\ passes = Untouched /\ result = "none" /\ faults = 0

-----------------------------------------------------------------------------
\* A stage sleeps in one of two loops; a signal sends it back to the test of
\* the loop it sleeps in.
Woken(p) == IF p = "asleep" THEN "look" ELSE IF p = "waiting" THEN "prev" ELSE p

\* pc after stage k has moved to p and the stages in S have been signalled.
Moved(k, p, S) == [j \in Stages |-> IF j = k THEN p ELSE IF j \in S THEN Woken(pc[j]) ELSE pc[j]]

HostWoken == IF host = "asleep" THEN "await" ELSE host

\* Where a stage goes when it leaves the loop over the slots.
AfterSlots == IF kind = "barrier" THEN "finish" ELSE "look"

\* wait_generation: the head of the worker's outer loop.
Look(k) ==
    /\ pc[k] = "look"
    /\ \/ /\ stop
          /\ pc' = [pc EXCEPT ![k] = "gone"]
          /\ UNCHANGED <<seen, slot>>
       \/ /\ ~stop /\ (~active \/ generation = seen[k])
          /\ pc' = [pc EXCEPT ![k] = "asleep"]
          /\ UNCHANGED <<seen, slot>>
       \/ /\ ~stop /\ active /\ generation # seen[k]
          /\ seen' = [seen EXCEPT ![k] = generation]
          /\ slot' = [slot EXCEPT ![k] = 0]
          /\ pc' = [pc EXCEPT ![k] = "head"]
    /\ UNCHANGED <<kind, shared, host, passes, result, faults>>

\* slot < n_slots, read without the lock.
Head(k) ==
    /\ pc[k] = "head"
    /\ pc' = [pc EXCEPT ![k] = IF slot[k] >= n_slots THEN AfterSlots
                               ELSE IF kind = "barrier" THEN "live" ELSE "prev"]
    /\ UNCHANGED <<kind, shared, seen, slot, host, passes, result, faults>>

JobLive(k) == ~stop /\ active /\ generation = seen[k] /\ ~failed

replay_pipeline_job_live(k) ==
    /\ pc[k] = "live"
    /\ pc' = [pc EXCEPT ![k] = IF JobLive(k) THEN "prev" ELSE AfterSlots]
    /\ UNCHANGED <<kind, shared, seen, slot, host, passes, result, faults>>

wait_prev_any_generation(k) ==
    /\ pc[k] = "prev"
    /\ pc' = [pc EXCEPT ![k] =
                 IF k = 0 THEN "decode"
                 ELSE IF stop \/ ~active \/ failed THEN AfterSlots
                 ELSE IF <<k - 1, slot[k]>> \in done THEN "decode" ELSE "waiting"]
    /\ UNCHANGED <<kind, shared, seen, slot, host, passes, result, faults>>

\* The first stage has no predecessor and looks at nothing.
wait_prev(k) ==
    /\ pc[k] = "prev"
    /\ pc' = [pc EXCEPT ![k] =
                 IF k = 0 THEN "decode"
                 ELSE IF ~JobLive(k) THEN AfterSlots
                 ELSE IF <<k - 1, slot[k]>> \in done THEN "decode" ELSE "waiting"]
    /\ UNCHANGED <<kind, shared, seen, slot, host, passes, result, faults>>

Ran(k) == [passes EXCEPT ![k][slot[k]] = @ + 1]

Decode(k) ==
    /\ pc[k] = "decode"
    /\ passes' = Ran(k)
    /\ pc' = [pc EXCEPT ![k] = "mark"]
    /\ UNCHANGED <<kind, shared, seen, slot, host, result, faults>>

\* The handoff or the decode fails, or the device synchronisation after it.
DecodeFails(k) ==
    /\ pc[k] = "decode" /\ faults < MaxFaults
    /\ passes' \in {passes, Ran(k)}
    /\ pc' = [pc EXCEPT ![k] = "fail"]
    /\ faults' = faults + 1
    /\ UNCHANGED <<kind, shared, seen, slot, host, result>>

replay_pipeline_fail_at_once(k) ==
    /\ pc[k] = "fail" /\ kind = "barrier"
    /\ failed' = TRUE
    /\ active' = FALSE
    /\ pc' = Moved(k, AfterSlots, Stages)
    /\ host' = HostWoken
    /\ UNCHANGED <<kind, stop, generation, n_slots, completed, done, seen, slot, passes, result, faults>>

replay_pipeline_fail(k) ==
    /\ pc[k] = "fail" /\ kind = "barrier"
    /\ failed' = TRUE
    /\ pc' = Moved(k, AfterSlots, Stages)
    /\ host' = HostWoken
    /\ UNCHANGED <<kind, stop, active, generation, n_slots, completed, done, seen, slot, passes, result, faults>>

replay_mailbox_fail(k) ==
    /\ pc[k] = "fail" /\ kind = "mailbox"
    /\ failed' = TRUE
    /\ active' = (active /\ failed)
    /\ pc' = Moved(k, AfterSlots, Stages)
    /\ host' = HostWoken
    /\ UNCHANGED <<kind, stop, generation, n_slots, completed, done, seen, slot, passes, result, faults>>

Current(k) == active /\ generation = seen[k] /\ ~failed

replay_pipeline_mark_done(k) ==
    /\ pc[k] = "mark" /\ kind = "barrier"
    /\ done' = IF Current(k) THEN done \cup {<<k, slot[k]>>} ELSE done
    /\ slot' = [slot EXCEPT ![k] = @ + 1]
    /\ pc' = Moved(k, "head", Stages)
    /\ host' = HostWoken
    /\ UNCHANGED <<kind, stop, active, failed, generation, n_slots, completed, seen, passes, result, faults>>

replay_mailbox_mark_done_unsignalled(k) ==
    LET last == Current(k) /\ k = LastStage /\ completed + 1 >= n_slots IN
    /\ pc[k] = "mark" /\ kind = "mailbox"
    /\ done' = IF Current(k) THEN done \cup {<<k, slot[k]>>} ELSE done
    /\ completed' = IF Current(k) /\ k = LastStage THEN completed + 1 ELSE completed
    /\ active' = (active /\ ~last)
    /\ slot' = [slot EXCEPT ![k] = @ + 1]
    /\ pc' = Moved(k, "head", IF slot[k] = 0 THEN {k + 1} ELSE {})
    /\ host' = IF last THEN HostWoken ELSE host
    /\ UNCHANGED <<kind, stop, failed, generation, n_slots, seen, passes, result, faults>>

replay_mailbox_mark_done(k) ==
    LET last == Current(k) /\ k = LastStage /\ completed + 1 >= n_slots IN
    /\ pc[k] = "mark" /\ kind = "mailbox"
    /\ done' = IF Current(k) THEN done \cup {<<k, slot[k]>>} ELSE done
    /\ completed' = IF Current(k) /\ k = LastStage THEN completed + 1 ELSE completed
    /\ active' = (active /\ ~last)
    /\ slot' = [slot EXCEPT ![k] = @ + 1]
    /\ pc' = Moved(k, "head", IF Current(k) THEN {k + 1} ELSE {})
    /\ host' = IF last THEN HostWoken ELSE host
    /\ UNCHANGED <<kind, stop, failed, generation, n_slots, seen, passes, result, faults>>

\* The last stage to check out ends the dispatch.
replay_pipeline_worker_done(k) ==
    LET counted == active /\ generation = seen[k] IN
    /\ pc[k] = "finish"
    /\ completed' = IF counted THEN completed + 1 ELSE completed
    /\ active' = (active /\ ~(counted /\ completed + 1 >= NStages))
    /\ pc' = Moved(k, "look", Stages)
    /\ host' = HostWoken
    /\ UNCHANGED <<kind, stop, failed, generation, n_slots, done, seen, slot, passes, result, faults>>

worker_main(k) ==
    \/ Look(k) \/ Head(k) \/ replay_pipeline_job_live(k) \/ wait_prev(k)
    \/ Decode(k) \/ DecodeFails(k)
    \/ replay_pipeline_fail(k) \/ replay_mailbox_fail(k)
    \/ replay_pipeline_mark_done(k) \/ replay_mailbox_mark_done(k)
    \/ replay_pipeline_worker_done(k)

-----------------------------------------------------------------------------
\* A dispatch of two slots or more (one slot is fed without the pipeline).
dispatch(n) ==
    /\ host = "idle" /\ ~active /\ generation < MaxDispatches
    /\ done' = {} /\ completed' = 0 /\ failed' = FALSE
    /\ n_slots' = n
    /\ generation' = generation + 1
    /\ active' = TRUE
    /\ pc' = [k \in Stages |-> IF kind = "barrier" \/ k = 0 THEN Woken(pc[k]) ELSE pc[k]]
    /\ host' = "await"
    /\ passes' = Untouched /\ result' = "none"
    /\ UNCHANGED <<kind, stop, seen, slot, faults>>

Running == active /\ (kind = "mailbox" => ~failed)

Await ==
    /\ host = "await" /\ Running
    /\ host' = "asleep"
    /\ UNCHANGED <<kind, shared, workers, passes, result, faults>>

\* The host has been let go; a device may still fail in the last synchronisation.
dispatch_returns ==
    /\ host = "await" /\ ~Running
    /\ host' = "idle"
    /\ \/ ~failed /\ result' = "ok" /\ UNCHANGED faults
       \/ failed /\ result' = "failed" /\ UNCHANGED faults
       \/ ~failed /\ faults < MaxFaults /\ result' = "failed" /\ faults' = faults + 1
    /\ UNCHANGED <<kind, shared, workers, passes>>

runtime_close ==
    /\ host = "idle" /\ ~stop
    /\ stop' = TRUE
    /\ pc' = [k \in Stages |-> Woken(pc[k])]
    /\ host' = "join"
    /\ UNCHANGED <<kind, active, failed, generation, n_slots, completed, done, seen, slot, passes, result, faults>>

JoinAll ==
    /\ host = "join" /\ \A k \in Stages : pc[k] = "gone"
    /\ host' = "closed"
    /\ UNCHANGED <<kind, shared, workers, passes, result, faults>>

\* Waits may return without a signal.
SpuriousWakeup ==
    \/ \E k \in Stages : /\ pc[k] \in {"asleep", "waiting"}
                         /\ pc' = [pc EXCEPT ![k] = Woken(@)]
                         /\ UNCHANGED host
    \/ host = "asleep" /\ host' = "await" /\ UNCHANGED pc

Next ==
    \/ \E n \in 2..MaxSlots : dispatch(n)
    \/ Await \/ dispatch_returns
    \/ runtime_close \/ JoinAll
    \/ \E k \in Stages : worker_main(k)
    \/ SpuriousWakeup /\ UNCHANGED <<kind, shared, seen, slot, passes, result, faults>>
    \/ host = "closed" /\ UNCHANGED vars

\* Threads that can run do run, and a device call returns.  No dispatch and
\* no close is owed.
Fairness ==
    /\ WF_vars(Await \/ dispatch_returns)
    /\ WF_vars(JoinAll)
    /\ \A k \in Stages : WF_vars(worker_main(k))

Spec == Init /\ [][Next]_vars
FairSpec == Spec /\ Fairness

-----------------------------------------------------------------------------
TypeOK ==
    /\ kind \in Kinds
    /\ stop \in BOOLEAN /\ active \in BOOLEAN /\ failed \in BOOLEAN
    /\ generation \in 0..MaxDispatches /\ n_slots \in 0..MaxSlots
    /\ faults \in 0..MaxFaults
    /\ completed \in 0..(IF NStages > MaxSlots THEN NStages ELSE MaxSlots)
    /\ done \subseteq Stages \X Slots
    /\ pc \in [Stages -> {"look", "asleep", "head", "live", "prev", "waiting", "decode",
                          "mark", "fail", "finish", "gone"}]
    /\ seen \in [Stages -> 0..MaxDispatches]
    /\ slot \in [Stages -> 0..MaxSlots]
    /\ host \in {"idle", "await", "asleep", "join", "closed"}
    /\ passes \in [Stages -> [Slots -> Nat]]
    /\ result \in {"none", "ok", "failed"}

InDispatch == host \in {"await", "asleep"}

\* The barrier runtime keeps the promise of StagePass, failures included:
\* when the host returns, no stage is still working for it.
Barrier == INSTANCE StagePass WITH
    NLayers <- NStages,
    open    <- kind = "barrier" /\ InDispatch,
    n_slots <- IF kind = "barrier" THEN n_slots ELSE 0,
    passes  <- IF kind = "barrier" THEN passes ELSE Untouched,
    result  <- IF kind = "barrier" THEN result ELSE "none"
BarrierKeepsPromise == Barrier!Spec

\* While no device has failed, the mailbox runtime takes every slot through
\* the stages after the first in order and once, and reports success only
\* when every slot has been through every stage.
MailboxOrder ==
    /\ TypeOK
    /\ (kind = "mailbox" /\ faults = 0) =>
        /\ \A k \in Stages \ {0}, s \in Slots :
              /\ passes[k][s] <= 1
              /\ passes[k][s] = 1 => passes[k - 1][s] >= 1
        /\ result = "ok" => \A k \in Stages, s \in Slots : s < n_slots => passes[k][s] >= 1

\* Every dispatch returns, failed or not: no stage sleeps through the wakeup
\* that is its only one.
EveryDispatchReturns == InDispatch ~> host = "idle"

=============================================================================

------------------------- MODULE StageRuntimeProofs -------------------------
(***************************************************************************)
(* The barrier runtime (replay_pipeline) implements StagePass for every    *)
(* number of stages, slots, dispatches and device failures, and the        *)
(* mailbox runtime keeps the order of the stages while no device fails.    *)
(***************************************************************************)
EXTENDS StageRuntime, FiniteSetTheorems, TLAPS

Outside == {"look", "asleep", "gone"}
AtSlot  == {"live", "prev", "waiting", "decode", "mark", "fail"}
NotRun  == {"head", "live", "prev", "waiting", "decode"}
Places  == Outside \cup AtSlot \cup {"head", "finish"}

\* The stages that have gone through the current dispatch.
CheckedOut == {k \in Stages : pc[k] \in Outside /\ seen[k] = generation}

(***************************************************************************)
(* The inductive invariant.  completed counts the stages that have checked *)
(* out, so active falls only when all of them have, and a dispatch finds   *)
(* every stage outside its loop: this is why no stage can work for a       *)
(* dispatch that has returned, nor miss one.  Within a dispatch, the       *)
(* passes of a stage are told by its slot and its place, and what a stage  *)
(* has done the stages before it have done.                                *)
(***************************************************************************)
Types ==
    /\ stop \in BOOLEAN /\ active \in BOOLEAN /\ failed \in BOOLEAN
    /\ generation \in Nat /\ n_slots \in 0..MaxSlots /\ completed \in Nat
    /\ pc \in [Stages -> Places]
    /\ seen \in [Stages -> Nat]
    /\ slot \in [Stages -> Nat]
    /\ passes \in [Stages -> [Slots -> Nat]]

HostAndStages ==
    /\ active => InDispatch
    /\ stop => host \in {"join", "closed"}
    /\ ~active => CheckedOut = Stages

Counted == active => completed = Cardinality(CheckedOut)

Entered(k) ==
    /\ slot[k] <= n_slots
    /\ pc[k] \in AtSlot => slot[k] < n_slots
    /\ pc[k] \in Outside \cup {"finish"} => failed \/ slot[k] = n_slots
    /\ \A s \in Slots :
          /\ passes[k][s] <= 1
          /\ s < slot[k] => passes[k][s] = 1
          /\ s > slot[k] => passes[k][s] = 0
          /\ s = slot[k] /\ pc[k] \in NotRun => passes[k][s] = 0
          /\ s = slot[k] /\ pc[k] = "mark" => passes[k][s] = 1

NotEntered(k) ==
    /\ pc[k] \in Outside
    /\ \A s \in Slots : passes[k][s] = 0

StageInv(k) ==
    /\ seen[k] <= generation
    /\ IF seen[k] = generation THEN Entered(k) ELSE NotEntered(k)
    /\ \A s \in Slots : <<k, s>> \in done => passes[k][s] = 1
    /\ pc[k] = "decode" /\ k > 0 => passes[k - 1][slot[k]] = 1

Ordered ==
    \A j, k \in Stages : \A s \in Slots :
        j < k /\ passes[k][s] = 1 => passes[j][s] = 1

BInv == Types /\ HostAndStages /\ Counted /\ Ordered /\ \A k \in Stages : StageInv(k)

IInv == kind = "barrier" => BInv

-----------------------------------------------------------------------------
\* The stages are NStages many.
LEMMA StagesFinite ==
    /\ IsFiniteSet(Stages) /\ Cardinality(Stages) = NStages
    /\ NStages \in Nat \ {0} /\ Stages \subseteq Nat
<1>1. NStages \in Nat \ {0}
  BY StageRuntimeAssumption
<1>2. IsFiniteSet(0..(NStages - 1)) /\ Cardinality(0..(NStages - 1)) = NStages
  BY <1>1, FS_Interval
<1> QED
  BY <1>1, <1>2 DEF Stages

\* Which runtime is used is decided once.
LEMMA KindConstant == [Next]_vars => kind' = kind
BY DEF Next, vars, dispatch, Await, dispatch_returns, runtime_close, JoinAll, worker_main,
       Look, Head, replay_pipeline_job_live, wait_prev, Decode, DecodeFails,
       replay_pipeline_fail, replay_mailbox_fail, replay_pipeline_mark_done,
       replay_mailbox_mark_done, replay_pipeline_worker_done

\* No dispatch has been made.
LEMMA Initially == Init => IInv
<1> SUFFICES ASSUME Init PROVE BInv
  BY DEF IInv
<1>1. Types
  <2>1. passes \in [Stages -> [Slots -> Nat]]
    BY DEF Init, Untouched
  <2>2. pc \in [Stages -> Places] /\ seen \in [Stages -> Nat] /\ slot \in [Stages -> Nat]
    BY DEF Init, Places, Outside
  <2>3. 0 \in 0..MaxSlots
    BY StageRuntimeAssumption
  <2> QED
    BY <2>1, <2>2, <2>3 DEF Init, Types
<1>2. CheckedOut = Stages
  BY DEF Init, CheckedOut, Outside
<1>3. HostAndStages /\ Counted
  BY <1>2 DEF Init, HostAndStages, Counted
<1>4. Ordered
  BY DEF Init, Ordered, Untouched
<1>5. \A k \in Stages : StageInv(k)
  BY DEF Init, StageInv, Entered, NotEntered, Untouched, Outside, AtSlot, NotRun, Slots
<1> QED
  BY <1>1, <1>3, <1>4, <1>5 DEF BInv

\* A stage is not disturbed by the steps of others: they may wake it, and add
\* passes and failures, but keep the dispatch it works for.
LEMMA Undisturbed ==
    ASSUME Types, NEW j \in Stages, StageInv(j),
           UNCHANGED <<generation, n_slots>>,
           seen'[j] = seen[j], slot'[j] = slot[j], passes'[j] = passes[j],
           pc'[j] \in {pc[j], Woken(pc[j])},
           failed => failed',
           \A s \in Slots : <<j, s>> \in done' => <<j, s>> \in done,
           \A i \in Stages, s \in Slots : passes[i][s] = 1 => passes'[i][s] = 1
    PROVE  StageInv(j)'
<1>1. pc[j] \in Places
  BY DEF Types
<1>2. /\ pc'[j] \in Outside <=> pc[j] \in Outside
      /\ pc'[j] \in AtSlot <=> pc[j] \in AtSlot
      /\ pc'[j] \in NotRun <=> pc[j] \in NotRun
      /\ pc'[j] = "finish" <=> pc[j] = "finish"
      /\ pc'[j] = "mark" <=> pc[j] = "mark"
      /\ pc'[j] = "decode" <=> pc[j] = "decode"
  BY <1>1 DEF Places, Outside, AtSlot, NotRun, Woken
<1>3. Entered(j) => Entered(j)'
  BY <1>2 DEF Entered
<1>4. NotEntered(j) => NotEntered(j)'
  BY <1>2 DEF NotEntered
<1>5. pc'[j] = "decode" /\ j > 0 => passes'[j - 1][slot'[j]] = 1
  <2> SUFFICES ASSUME pc[j] = "decode", j > 0 PROVE passes'[j - 1][slot[j]] = 1
    BY <1>2
  <2>1. j - 1 \in Stages
    BY StagesFinite DEF Stages
  <2>2. Entered(j)
    BY DEF StageInv, NotEntered, Outside
  <2>3. slot[j] \in Slots
    BY <2>2, StageRuntimeAssumption DEF Entered, AtSlot, Types, Slots
  <2> QED
    BY <2>1, <2>3 DEF StageInv
<1> QED
  BY <1>3, <1>4, <1>5 DEF StageInv

\* A stage that leaves none and joins none of those checked out.
LEMMA SameCheckedOut ==
    ASSUME NEW k \in Stages, UNCHANGED generation,
           \A j \in Stages \ {k} : pc'[j] \in {pc[j], Woken(pc[j])} /\ seen'[j] = seen[j],
           (pc'[k] \in Outside /\ seen'[k] = generation) <=> k \in CheckedOut
    PROVE  CheckedOut' = CheckedOut
<1>1. \A j \in Stages \ {k} : pc'[j] \in Outside <=> pc[j] \in Outside
  BY DEF Outside, Woken
<1> QED
  BY <1>1 DEF CheckedOut

\* A step of stage k that neither begins nor ends a dispatch and does not check
\* out: what is left to show is its own part of the invariant.
LEMMA StepOf ==
    ASSUME BInv, NEW k \in Stages, Types',
           UNCHANGED <<stop, active, generation, n_slots, completed>>,
           host' \in {host, HostWoken},
           failed => failed',
           \A j \in Stages \ {k} :
              /\ pc'[j] \in {pc[j], Woken(pc[j])}
              /\ seen'[j] = seen[j] /\ slot'[j] = slot[j] /\ passes'[j] = passes[j],
           \A s \in Slots : passes[k][s] = 1 => passes'[k][s] = 1,
           \A j \in Stages \ {k}, s \in Slots : <<j, s>> \in done' => <<j, s>> \in done,
           (pc'[k] \in Outside /\ seen'[k] = generation) <=> k \in CheckedOut,
           StageInv(k)', Ordered'
    PROVE  BInv'
<1>1. CheckedOut' = CheckedOut
  BY SameCheckedOut
<1>2. HostAndStages' /\ Counted'
  BY <1>1 DEF BInv, HostAndStages, Counted, InDispatch, HostWoken
<1>3. \A i \in Stages, s \in Slots : passes[i][s] = 1 => passes'[i][s] = 1
  OBVIOUS
<1>4. ASSUME NEW j \in Stages \ {k} PROVE StageInv(j)'
  BY <1>3, <1>4, Undisturbed DEF BInv
<1> QED
  BY <1>2, <1>4 DEF BInv

\* A dispatch is on while any stage is in its loop, so a stage there goes on
\* unless a device has failed.
LEMMA LiveUnlessFailed ==
    ASSUME BInv, NEW k \in Stages, pc[k] \notin Outside
    PROVE  /\ active /\ ~stop /\ seen[k] = generation
           /\ JobLive(k) <=> ~failed
           /\ Current(k) <=> ~failed
           /\ Entered(k)
<1>1. active /\ ~stop
  BY DEF BInv, HostAndStages, CheckedOut, InDispatch
<1>2. seen[k] = generation /\ Entered(k)
  BY DEF BInv, StageInv, NotEntered
<1> QED
  BY <1>1, <1>2 DEF JobLive, Current

LEMMA LookKeeps ==
    ASSUME BInv, kind = "barrier", NEW k \in Stages, Look(k) PROVE BInv'
<1> USE DEF Look, shared
<1>1. pc[k] \in Outside
  BY DEF Outside
<1>2. CASE seen' = seen /\ slot' = slot /\ pc'[k] \in {"gone", "asleep"}
  <2>1. pc' = [pc EXCEPT ![k] = pc'[k]] /\ pc'[k] \in Outside
    BY <1>2 DEF BInv, Types, Outside
  <2>2. Types' /\ Ordered'
    BY <1>2, <2>1 DEF BInv, Types, Places, Ordered
  <2>3. StageInv(k)'
    BY <1>1, <1>2, <2>1 DEF BInv, StageInv, Entered, NotEntered, Outside, AtSlot, NotRun
  <2>4. (pc'[k] \in Outside /\ seen'[k] = generation) <=> k \in CheckedOut
    BY <1>1, <1>2, <2>1 DEF CheckedOut
  <2> QED
    BY <1>2, <2>1, <2>2, <2>3, <2>4, StepOf DEF BInv, Types
<1>3. CASE /\ ~stop /\ active /\ generation # seen[k]
           /\ seen' = [seen EXCEPT ![k] = generation]
           /\ slot' = [slot EXCEPT ![k] = 0]
           /\ pc' = [pc EXCEPT ![k] = "head"]
  <2>1. Types' /\ Ordered'
    BY <1>3 DEF BInv, Types, Places, Ordered
  <2>2. StageInv(k)'
    <3>1. /\ pc'[k] = "head" /\ seen'[k] = generation /\ slot'[k] = 0
          /\ n_slots' = n_slots /\ n_slots \in Nat /\ passes' = passes
      BY <1>3, StageRuntimeAssumption DEF BInv, Types
    <3>2. \A s \in Slots : passes[k][s] = 0
      BY <1>3 DEF BInv, StageInv, NotEntered
    <3>3. Entered(k)'
      BY <3>1, <3>2 DEF Entered, Outside, AtSlot, NotRun, Slots
    <3> QED
      BY <1>3, <3>1, <3>2, <3>3 DEF BInv, StageInv, Types
  <2>3. ~(pc'[k] \in Outside) /\ k \notin CheckedOut
    BY <1>3 DEF BInv, Types, CheckedOut, Outside
  <2> QED
    BY <1>3, <2>1, <2>2, <2>3, StepOf DEF BInv, Types
<1> QED
  <2>1. CASE stop
    BY <1>2, <2>1 DEF BInv, Types
  <2>2. CASE ~stop /\ (~active \/ generation = seen[k])
    BY <1>2, <2>2 DEF BInv, Types
  <2>3. CASE ~stop /\ active /\ generation # seen[k]
    BY <1>3, <2>3
  <2> QED
    BY <2>1, <2>2, <2>3 DEF BInv, Types

\* The tests a stage makes before it decodes a slot.
LEMMA TestsKeep ==
    ASSUME BInv, kind = "barrier", NEW k \in Stages,
           Head(k) \/ replay_pipeline_job_live(k) \/ wait_prev(k)
    PROVE  BInv'
<1> DEFINE p == pc'[k]
<1>1. /\ pc[k] \in {"head", "live", "prev"}
      /\ pc' = [pc EXCEPT ![k] = p]
      /\ p \in {"live", "prev", "decode", "waiting", "finish"}
      /\ UNCHANGED <<kind, shared, seen, slot, host, passes, result, faults>>
  BY DEF Head, replay_pipeline_job_live, wait_prev, AfterSlots, BInv, Types
<1> HIDE DEF p
<1>2. Entered(k) /\ active /\ ~stop /\ seen[k] = generation /\ (JobLive(k) <=> ~failed)
  BY <1>1, LiveUnlessFailed DEF Outside
<1>3. slot[k] \in Nat /\ n_slots \in Nat
  BY StageRuntimeAssumption DEF BInv, Types
<1>4. p \in {"live", "prev", "decode", "waiting"} => slot[k] < n_slots
  BY <1>2, <1>3 DEF Head, replay_pipeline_job_live, wait_prev, AfterSlots, Entered, AtSlot, p, BInv, Types
<1>5. p = "finish" => failed \/ slot[k] = n_slots
  <2>1. pc \in [Stages -> Places] /\ slot[k] <= n_slots
    BY <1>2 DEF BInv, Types, Entered
  <2>2. CASE Head(k)
    BY <1>3, <2>1, <2>2 DEF Head, AfterSlots, p
  <2>3. CASE replay_pipeline_job_live(k)
    BY <1>2, <2>1, <2>3 DEF replay_pipeline_job_live, p
  <2>4. CASE wait_prev(k)
    BY <1>2, <2>1, <2>4 DEF wait_prev, p
  <2> QED
    BY <2>2, <2>3, <2>4
<1>6. p = "decode" /\ k > 0 => <<k - 1, slot[k]>> \in done
  BY DEF Head, replay_pipeline_job_live, wait_prev, AfterSlots, p, BInv, Types
<1>7. Types' /\ Ordered'
  BY <1>1 DEF BInv, Types, Ordered, Places, Outside, AtSlot, shared
<1>8. StageInv(k)'
  <2>1. Entered(k)'
    BY <1>1, <1>2, <1>4, <1>5 DEF Entered, Outside, AtSlot, NotRun, shared, BInv, Types
  <2>2. p = "decode" /\ k > 0 => passes[k - 1][slot[k]] = 1
    <3> SUFFICES ASSUME p = "decode", k > 0 PROVE passes[k - 1][slot[k]] = 1
      OBVIOUS
    <3>1. k - 1 \in Stages /\ slot[k] \in Slots
      BY <1>3, <1>4, StagesFinite, StageRuntimeAssumption DEF Stages, Slots, BInv, Types
    <3> QED
      BY <1>6, <3>1 DEF BInv, StageInv
  <2>3. pc'[k] = p /\ slot' = slot /\ seen' = seen /\ passes' = passes /\ done' = done /\ generation' = generation
    BY <1>1 DEF BInv, Types, shared
  <2> QED
    BY <1>2, <2>1, <2>2, <2>3 DEF BInv, StageInv
<1>9. ~(pc'[k] \in Outside) /\ k \notin CheckedOut
  BY <1>1 DEF CheckedOut, Outside, BInv, Types
<1> QED
  BY <1>1, <1>7, <1>8, <1>9, StepOf DEF BInv, Types, shared

\* Decoding a slot: the stages before have done it, and no later one has.
LEMMA DecodeKeeps ==
    ASSUME BInv, kind = "barrier", NEW k \in Stages, Decode(k) \/ DecodeFails(k)
    PROVE  BInv'
<1>1. /\ pc[k] = "decode"
      /\ pc' = [pc EXCEPT ![k] = pc'[k]] /\ pc'[k] \in {"mark", "fail"}
      /\ passes' = Ran(k) \/ (pc'[k] = "fail" /\ passes' = passes)
      /\ UNCHANGED <<kind, shared, seen, slot, host, result>>
  BY DEF Decode, DecodeFails, BInv, Types
<1>2. Entered(k) /\ seen[k] = generation
  BY <1>1, LiveUnlessFailed DEF Outside
<1>3. slot[k] \in Slots /\ slot[k] < n_slots
  BY <1>1, <1>2, StageRuntimeAssumption DEF BInv, Types, Entered, AtSlot, Slots
<1>4. passes[k][slot[k]] = 0
  BY <1>1, <1>2, <1>3 DEF Entered, NotRun
<1>5. /\ passes' \in [Stages -> [Slots -> Nat]]
      /\ \A j \in Stages \ {k} : passes'[j] = passes[j]
      /\ \A s \in Slots : s # slot[k] => passes'[k][s] = passes[k][s]
      /\ passes'[k][slot[k]] = 1 \/ (pc'[k] = "fail" /\ passes'[k][slot[k]] = 0)
  <2>1. CASE passes' = passes /\ pc'[k] = "fail"
    BY <1>4, <2>1 DEF BInv, Types
  <2>2. CASE passes' = Ran(k)
    BY <1>3, <1>4, <2>2 DEF BInv, Types, Ran
  <2> QED
    BY <1>1, <2>1, <2>2
<1>6. \A j \in Stages : j < k => passes[j][slot[k]] = 1
  <2> SUFFICES ASSUME NEW j \in Stages, j < k PROVE passes[j][slot[k]] = 1
    OBVIOUS
  <2>1. k > 0 /\ k - 1 \in Stages /\ (j = k - 1 \/ j < k - 1)
    BY StagesFinite DEF Stages
  <2>2. passes[k - 1][slot[k]] = 1
    BY <1>1, <2>1 DEF BInv, StageInv
  <2> QED
    BY <1>3, <2>1, <2>2 DEF BInv, Ordered
<1>7. Types'
  BY <1>1, <1>5 DEF BInv, Types, shared, Places, AtSlot
<1>8. Ordered'
  <2> SUFFICES ASSUME NEW i \in Stages, NEW j \in Stages, NEW s \in Slots,
                      i < j, passes'[j][s] = 1
               PROVE  passes'[i][s] = 1
    BY DEF Ordered
  <2>1. i # j
    BY StagesFinite
  <2>2. CASE j = k /\ s = slot[k]
    BY <1>5, <1>6, <2>1, <2>2
  <2>3. CASE j # k \/ s # slot[k]
    <3>1. passes[j][s] = 1
      BY <1>5, <2>3
    <3>2. passes[i][s] = 1
      BY <3>1 DEF BInv, Ordered
    <3> QED
      BY <1>4, <1>5, <3>2
  <2> QED
    BY <2>2, <2>3
<1>9. StageInv(k)'
  <2>1. Entered(k)'
    <3>1. /\ slot' = slot /\ n_slots' = n_slots
          /\ pc'[k] \notin Outside \cup {"finish"} /\ pc'[k] \notin NotRun
      BY <1>1 DEF shared, Outside, NotRun
    <3>2. \A s \in Slots : passes'[k][s] <= 1
      BY <1>2, <1>5 DEF Entered, BInv, Types
    <3>3. \A s \in Slots :
             /\ s < slot[k] => passes'[k][s] = 1
             /\ s > slot[k] => passes'[k][s] = 0
      BY <1>2, <1>3, <1>5 DEF Entered, Slots
    <3> QED
      BY <1>2, <1>3, <1>5, <3>1, <3>2, <3>3 DEF Entered
  <2>2. \A s \in Slots : <<k, s>> \in done' => passes'[k][s] = 1
    BY <1>1, <1>4, <1>5 DEF BInv, StageInv, shared
  <2> QED
    BY <1>1, <1>2, <2>1, <2>2 DEF BInv, StageInv, shared
<1>10. pc'[k] \notin Outside /\ k \notin CheckedOut
  BY <1>1 DEF CheckedOut, Outside
<1> QED
  BY <1>1, <1>4, <1>5, <1>7, <1>8, <1>9, <1>10, StepOf DEF BInv, Types, shared

\* A failure is noted and the stage goes to check out.
LEMMA FailKeeps ==
    ASSUME BInv, kind = "barrier", NEW k \in Stages, replay_pipeline_fail(k)
    PROVE  BInv'
<1>1. /\ pc[k] = "fail" /\ failed' = TRUE /\ pc'[k] = "finish" /\ host' = HostWoken
      /\ \A j \in Stages \ {k} : pc'[j] \in {pc[j], Woken(pc[j])}
      /\ UNCHANGED <<stop, active, generation, n_slots, completed, done, seen, slot, passes>>
  BY DEF replay_pipeline_fail, Moved, AfterSlots
<1>2. Types'
  <2>1. pc' \in [Stages -> Places]
    BY DEF replay_pipeline_fail, Moved, AfterSlots, BInv, Types, Places, Outside, AtSlot, Woken
  <2> QED
    BY <1>1, <2>1 DEF BInv, Types
<1>3. Ordered'
  BY <1>1 DEF BInv, Ordered
<1>4. Entered(k) /\ seen[k] = generation
  BY <1>1, LiveUnlessFailed DEF Outside
<1>5. StageInv(k)'
  BY <1>1, <1>4 DEF BInv, StageInv, Entered, Outside, AtSlot, NotRun
<1>6. pc'[k] \notin Outside /\ k \notin CheckedOut
  BY <1>1 DEF CheckedOut, Outside
<1> QED
  BY <1>1, <1>2, <1>3, <1>5, <1>6, StepOf

\* A slot is marked done for the stage after this one.
LEMMA MarkKeeps ==
    ASSUME BInv, kind = "barrier", NEW k \in Stages, replay_pipeline_mark_done(k)
    PROVE  BInv'
<1>1. /\ pc[k] = "mark" /\ pc'[k] = "head" /\ host' = HostWoken
      /\ done' \in {done, done \cup {<<k, slot[k]>>}}
      /\ slot' = [slot EXCEPT ![k] = slot[k] + 1]
      /\ \A j \in Stages \ {k} : pc'[j] \in {pc[j], Woken(pc[j])}
      /\ UNCHANGED <<stop, active, failed, generation, n_slots, completed, seen, passes>>
  BY DEF replay_pipeline_mark_done, Moved
<1>2. Types'
  <2>1. pc' \in [Stages -> Places]
    BY DEF replay_pipeline_mark_done, Moved, BInv, Types, Places, Outside, AtSlot, Woken
  <2>2. slot' \in [Stages -> Nat]
    BY <1>1 DEF BInv, Types
  <2> QED
    BY <1>1, <2>1, <2>2 DEF BInv, Types
<1>3. Ordered'
  BY <1>1 DEF BInv, Ordered
<1>4. Entered(k) /\ seen[k] = generation /\ slot[k] \in Nat /\ n_slots \in Nat
  BY <1>1, LiveUnlessFailed, StageRuntimeAssumption DEF Outside, BInv, Types
<1>5. slot'[k] = slot[k] + 1 /\ slot[k] < n_slots
  BY <1>1, <1>4 DEF Entered, AtSlot, BInv, Types
<1>6. Entered(k)'
  <2>1. \A s \in Slots :
           /\ passes'[k][s] <= 1
           /\ s < slot'[k] => passes'[k][s] = 1
           /\ s >= slot'[k] => passes'[k][s] = 0
    BY <1>1, <1>4, <1>5 DEF Entered, Slots
  <2> QED
    BY <1>1, <1>4, <1>5, <2>1 DEF Entered, Outside, AtSlot, Slots
<1>7. StageInv(k)'
  <2>1. \A s \in Slots : <<k, s>> \in done' => passes'[k][s] = 1
    BY <1>1, <1>4 DEF BInv, StageInv, Entered
  <2> QED
    BY <1>1, <1>4, <1>6, <2>1 DEF BInv, StageInv
<1>8. pc'[k] \notin Outside /\ k \notin CheckedOut
  BY <1>1 DEF CheckedOut, Outside
<1>9. \A j \in Stages \ {k} : slot'[j] = slot[j]
  BY <1>1 DEF BInv, Types
<1>10. \A j \in Stages \ {k}, s \in Slots : <<j, s>> \in done' => <<j, s>> \in done
  BY <1>1
<1> QED
  BY <1>1, <1>2, <1>3, <1>7, <1>8, <1>9, <1>10, StepOf

\* A stage checks out; the last one ends the dispatch.
LEMMA CheckOutKeeps ==
    ASSUME BInv, kind = "barrier", NEW k \in Stages, replay_pipeline_worker_done(k)
    PROVE  BInv'
<1>1. /\ pc[k] = "finish" /\ pc'[k] = "look" /\ host' = HostWoken
      /\ \A j \in Stages \ {k} : pc'[j] \in {pc[j], Woken(pc[j])}
      /\ UNCHANGED <<stop, failed, generation, n_slots, done, seen, slot, passes>>
  BY DEF replay_pipeline_worker_done, Moved
<1>2. active /\ ~stop /\ seen[k] = generation /\ Entered(k)
  BY <1>1, LiveUnlessFailed DEF Outside
<1>3. completed' = completed + 1 /\ active' \in BOOLEAN /\ (active' <=> completed' < NStages)
  <2>1. completed' = completed + 1 /\ active' = ~(completed + 1 >= NStages)
    BY <1>2 DEF replay_pipeline_worker_done
  <2>2. completed + 1 \in Nat /\ NStages \in Nat
    BY StagesFinite DEF BInv, Types
  <2>3. (active' <=> ~(completed + 1 >= NStages)) /\ active' \in BOOLEAN
    BY <2>1
  <2> QED
    BY <2>1, <2>2, <2>3
<1>4. Types'
  <2>1. pc' \in [Stages -> Places]
    BY DEF replay_pipeline_worker_done, Moved, BInv, Types, Places, Outside, AtSlot, Woken
  <2> QED
    BY <1>1, <1>3, <2>1, StagesFinite DEF BInv, Types
<1>5. CheckedOut' = CheckedOut \cup {k}
  <2>1. \A j \in Stages \ {k} : pc'[j] \in Outside <=> pc[j] \in Outside
    BY <1>1 DEF Outside, Woken
  <2> QED
    BY <1>1, <1>2, <2>1 DEF CheckedOut, Outside
<1>6. k \notin CheckedOut /\ CheckedOut \in SUBSET Stages /\ CheckedOut' \in SUBSET Stages
  BY <1>1, <1>5 DEF CheckedOut, Outside
<1>7. completed' = Cardinality(CheckedOut')
  BY <1>2, <1>3, <1>5, <1>6, StagesFinite, FS_Subset, FS_AddElement DEF BInv, Counted
<1>8. ~active' => CheckedOut' = Stages
  <2>1. Cardinality(CheckedOut') <= NStages /\ (Cardinality(CheckedOut') = NStages => CheckedOut' = Stages)
    BY <1>6, StagesFinite, FS_Subset
  <2>2. completed' \in Nat /\ NStages \in Nat
    BY <1>4, StagesFinite DEF Types
  <2> QED
    BY <1>3, <1>7, <2>1, <2>2
<1>9. HostAndStages' /\ Counted'
  BY <1>1, <1>2, <1>7, <1>8 DEF BInv, HostAndStages, Counted, InDispatch, HostWoken
<1>10. StageInv(k)'
  BY <1>1, <1>2 DEF BInv, StageInv, Entered, Outside, AtSlot, NotRun
<1>11. ASSUME NEW j \in Stages \ {k} PROVE StageInv(j)'
  BY <1>1, <1>11, Undisturbed DEF BInv
<1>12. Ordered'
  BY <1>1 DEF BInv, Ordered
<1> QED
  BY <1>4, <1>9, <1>10, <1>11, <1>12 DEF BInv

\* A dispatch finds every stage outside its loop, with nothing left to do.
LEMMA DispatchKeeps ==
    ASSUME BInv, kind = "barrier", NEW n \in 2..MaxSlots, dispatch(n)
    PROVE  BInv'
<1>1. /\ ~active /\ active' = TRUE /\ host' = "await" /\ host = "idle"
      /\ done' = {} /\ completed' = 0 /\ failed' = FALSE /\ n_slots' = n
      /\ generation' = generation + 1 /\ passes' = Untouched
      /\ pc' = [k \in Stages |-> Woken(pc[k])]
      /\ UNCHANGED <<stop, seen, slot>>
  BY DEF dispatch
<1>2. \A k \in Stages : pc[k] \in Outside /\ seen[k] = generation
  BY <1>1 DEF BInv, HostAndStages, CheckedOut
<1>3. \A k \in Stages : pc'[k] \in Outside /\ seen'[k] # generation' /\ seen'[k] <= generation'
  BY <1>1, <1>2 DEF Outside, Woken, BInv, Types
<1>4. Types'
  <2>1. pc' \in [Stages -> Places]
    BY <1>1, <1>3 DEF Places
  <2>2. n \in 0..MaxSlots /\ passes' \in [Stages -> [Slots -> Nat]]
    BY <1>1, StageRuntimeAssumption DEF Untouched
  <2> QED
    <3>1. generation' \in Nat /\ n_slots' \in 0..MaxSlots /\ completed' \in Nat
      BY <1>1, <2>2 DEF BInv, Types
    <3>2. stop' \in BOOLEAN /\ active' \in BOOLEAN /\ failed' \in BOOLEAN
      BY <1>1 DEF BInv, Types
    <3> QED
      BY <1>1, <2>1, <2>2, <3>1, <3>2 DEF BInv, Types
<1>5. CheckedOut' = {}
  BY <1>3 DEF CheckedOut
<1>6. HostAndStages' /\ Counted'
  BY <1>1, <1>5, FS_EmptySet DEF BInv, HostAndStages, Counted, InDispatch
<1>7. Ordered'
  BY <1>1 DEF Ordered, Untouched
<1>8. \A k \in Stages : StageInv(k)'
  BY <1>1, <1>3 DEF StageInv, NotEntered, Untouched, Outside
<1> QED
  BY <1>4, <1>6, <1>7, <1>8 DEF BInv

\* The steps of the host that leave the dispatch alone, and wakeups.
LEMMA HostKeeps ==
    ASSUME BInv, kind = "barrier",
           Types', UNCHANGED <<active, failed, generation, n_slots, completed, done, seen, slot, passes>>,
           \A k \in Stages : pc'[k] \in {pc[k], Woken(pc[k])},
           active => host' \in {"await", "asleep"},
           stop' => host' \in {"join", "closed"}
    PROVE  BInv'
<1>1. \A j \in Stages : pc'[j] \in Outside <=> pc[j] \in Outside
  BY DEF Outside, Woken
<1>2. CheckedOut' = CheckedOut
  BY <1>1 DEF CheckedOut
<1>3. HostAndStages' /\ Counted' /\ Ordered'
  BY <1>2 DEF BInv, HostAndStages, Counted, Ordered, InDispatch
<1>4. ASSUME NEW j \in Stages PROVE StageInv(j)'
  BY <1>4, Undisturbed DEF BInv
<1> QED
  BY <1>3, <1>4 DEF BInv

\* The invariant is inductive.
LEMMA Inductive == IInv /\ [Next]_vars => IInv'
<1> SUFFICES ASSUME IInv, [Next]_vars, kind = "barrier" PROVE BInv'
  BY KindConstant DEF IInv
<1>0. BInv
  BY DEF IInv
<1>1. ASSUME NEW n \in 2..MaxSlots, dispatch(n) PROVE BInv'
  BY <1>0, <1>1, DispatchKeeps
<1>2. ASSUME Await \/ dispatch_returns PROVE BInv'
  BY <1>0, <1>2, HostKeeps
  DEF Await, dispatch_returns, shared, workers, Running, BInv, Types, HostAndStages, InDispatch
<1>3. ASSUME runtime_close PROVE BInv'
  <2>1. pc' \in [Stages -> Places]
    BY <1>0, <1>3 DEF runtime_close, BInv, Types, Places, Outside, AtSlot, Woken
  <2> QED
    BY <1>0, <1>3, <2>1, HostKeeps DEF runtime_close, BInv, Types, HostAndStages, InDispatch
<1>4. ASSUME JoinAll \/ UNCHANGED vars PROVE BInv'
  BY <1>0, <1>4, HostKeeps
  DEF JoinAll, vars, shared, workers, BInv, Types, HostAndStages, InDispatch
<1>5. ASSUME SpuriousWakeup, UNCHANGED <<kind, shared, seen, slot, passes, result, faults>> PROVE BInv'
  <2>1. pc' \in [Stages -> Places] /\ \A k \in Stages : pc'[k] \in {pc[k], Woken(pc[k])}
    BY <1>0, <1>5 DEF SpuriousWakeup, BInv, Types, Places, Outside, AtSlot, Woken
  <2> QED
    BY <1>0, <1>5, <2>1, HostKeeps
    DEF SpuriousWakeup, shared, BInv, Types, HostAndStages, InDispatch
<1>6. ASSUME NEW k \in Stages, worker_main(k) PROVE BInv'
  <2>1. ~replay_mailbox_fail(k) /\ ~replay_mailbox_mark_done(k)
    BY DEF replay_mailbox_fail, replay_mailbox_mark_done
  <2> QED
    BY <1>0, <1>6, <2>1, LookKeeps, TestsKeep, DecodeKeeps, FailKeeps, MarkKeeps, CheckOutKeeps
    DEF worker_main
<1> QED
  BY <1>1, <1>2, <1>3, <1>4, <1>5, <1>6 DEF Next

-----------------------------------------------------------------------------
\* With the mailbox runtime nothing the promise speaks of changes.
LEMMA OtherKindStutters ==
    ASSUME kind # "barrier", kind' = kind PROVE UNCHANGED Barrier!vars
BY DEF Barrier!vars

\* A stage that decodes a slot takes it through the next layer.
LEMMA DecodeIsWork ==
    ASSUME BInv, kind = "barrier", kind' = "barrier", NEW k \in Stages,
           pc[k] = "decode", passes' = Ran(k), UNCHANGED <<n_slots, host, result>>
    PROVE  Barrier!Work
<1>1. active /\ seen[k] = generation /\ Entered(k)
  BY LiveUnlessFailed DEF Outside
<1>2. slot[k] \in Slots /\ slot[k] < n_slots /\ passes[k][slot[k]] = 0
  BY <1>1, StageRuntimeAssumption DEF BInv, Types, Entered, AtSlot, NotRun, Slots
<1>3. \A j \in Stages : j < k => passes[j][slot[k]] = 1
  <2> SUFFICES ASSUME NEW j \in Stages, j < k PROVE passes[j][slot[k]] = 1
    OBVIOUS
  <2>1. k > 0 /\ k - 1 \in Stages /\ (j = k - 1 \/ j < k - 1)
    BY StagesFinite DEF Stages
  <2>2. passes[k - 1][slot[k]] = 1
    BY <2>1 DEF BInv, StageInv
  <2> QED
    BY <1>2, <2>1, <2>2 DEF BInv, Ordered
<1>4. \A j \in Stages : j >= k => passes[j][slot[k]] = 0
  <2> SUFFICES ASSUME NEW j \in Stages, j >= k, passes[j][slot[k]] # 0 PROVE FALSE
    OBVIOUS
  <2>1. j > k
    BY <1>2, StagesFinite
  <2>2. passes[j][slot[k]] = 1
    <3>1. seen[j] = generation /\ Entered(j)
      BY <1>2 DEF BInv, StageInv, NotEntered
    <3>2. passes[j][slot[k]] \in Nat /\ passes[j][slot[k]] <= 1
      BY <1>2, <3>1 DEF Entered, BInv, Types
    <3> QED
      BY <3>2
  <2> QED
    BY <1>2, <2>1, <2>2, StagesFinite DEF BInv, Ordered
<1>5. passes' = [l \in Stages |-> [s \in Slots |->
                    IF s \in {slot[k]} /\ k <= l /\ l <= k THEN 1 ELSE passes[l][s]]]
  <2>1. passes' = [passes EXCEPT ![k] = [passes[k] EXCEPT ![slot[k]] = 1]]
    BY <1>2 DEF Ran
  <2>2. ASSUME NEW l \in Stages
        PROVE  passes'[l] = [s \in Slots |-> IF s \in {slot[k]} /\ k <= l /\ l <= k THEN 1 ELSE passes[l][s]]
    <3>1. (k <= l /\ l <= k) <=> l = k
      BY StagesFinite
    <3>2. CASE l = k
      <4>1. passes'[k] = [passes[k] EXCEPT ![slot[k]] = 1] /\ passes[k] \in [Slots -> Nat]
        BY <2>1 DEF BInv, Types
      <4> QED
        BY <1>2, <3>1, <3>2, <4>1
    <3>3. CASE l # k
      <4>1. passes'[l] = passes[l] /\ passes[l] \in [Slots -> Nat]
        BY <2>1, <3>3 DEF BInv, Types
      <4> QED
        BY <3>1, <3>3, <4>1
    <3> QED
      BY <3>2, <3>3
  <2> QED
    BY <2>1, <2>2 DEF BInv, Types
<1>6. InDispatch /\ InDispatch'
  BY <1>1 DEF BInv, HostAndStages, InDispatch
<1>7. {slot[k]} \in SUBSET {s \in Slots : s < n_slots} /\ k <= k
  BY <1>2, StagesFinite
<1>8. \A s \in {slot[k]}, l \in Stages : passes[l][s] = IF l < k THEN 1 ELSE 0
  BY <1>3, <1>4, StagesFinite
<1>9. \E S \in SUBSET {s \in Slots : s < n_slots}, a, b \in Stages :
          /\ S # {} /\ a <= b
          /\ \A s \in S, l \in Stages : passes[l][s] = IF l < a THEN 1 ELSE 0
          /\ passes' = [l \in Stages |-> [s \in Slots |->
                           IF s \in S /\ a <= l /\ l <= b THEN 1 ELSE passes[l][s]]]
  <2>1. {slot[k]} # {}
    OBVIOUS
  <2> HIDE DEF Stages, Slots
  <2> QED
    BY <1>5, <1>7, <1>8, <2>1
<1>10. Barrier!Layers = Stages /\ Barrier!Slots = Slots
  BY DEF Barrier!Layers, Barrier!Slots, Stages, Slots
<1> QED
  BY <1>6, <1>9, <1>10 DEF Barrier!Work

\* Every step is a step of the promise or changes nothing of it.
LEMMA Simulation == IInv /\ IInv' /\ [Next]_vars => [Barrier!Next]_(Barrier!vars)
<1> SUFFICES ASSUME IInv, IInv', [Next]_vars PROVE [Barrier!Next]_(Barrier!vars)
  OBVIOUS
<1>0. kind' = kind
  BY KindConstant
<1>a. CASE kind # "barrier"
  BY <1>0, <1>a, OtherKindStutters
<1>b. CASE kind = "barrier"
  <2>0. BInv /\ BInv'
    BY <1>0, <1>b DEF IInv
  <2> USE <1>0, <1>b, <2>0
  <2>1. ASSUME NEW n \in 2..MaxSlots, dispatch(n) PROVE Barrier!Begin
    <3>1. n \in 1..MaxSlots
      BY StageRuntimeAssumption
    <3>2. Untouched = Barrier!Untouched
      BY DEF Untouched, Barrier!Untouched, Barrier!Layers, Barrier!Slots, Stages, Slots
    <3> QED
      BY <2>1, <3>1, <3>2 DEF dispatch, InDispatch, Barrier!Begin
  <2>2. ASSUME Await PROVE UNCHANGED Barrier!vars
    BY <2>2 DEF Await, shared, InDispatch, Barrier!vars
  <2>3. ASSUME dispatch_returns PROVE Barrier!Return
    <3>1. InDispatch /\ ~InDispatch' /\ ~active /\ UNCHANGED <<n_slots, passes>>
      BY <2>3 DEF dispatch_returns, Running, InDispatch, shared
    <3>2. result' = "failed" \/ (result' = "ok" /\ ~failed)
      BY <2>3 DEF dispatch_returns
    <3>3. ~failed => \A k \in Stages, s \in Slots : s < n_slots => passes[k][s] = 1
      <4>1. \A k \in Stages : seen[k] = generation /\ pc[k] \in Outside
        BY <3>1 DEF BInv, HostAndStages, CheckedOut
      <4>2. ~failed => \A k \in Stages : Entered(k) /\ slot[k] = n_slots
        BY <4>1 DEF BInv, StageInv, Entered
      <4> QED
        BY <4>2 DEF Entered
    <3> QED
      BY <3>1, <3>2, <3>3 DEF Barrier!Return, Barrier!Layers, Barrier!Slots, Stages, Slots
  <2>4. ASSUME runtime_close \/ JoinAll \/ UNCHANGED vars PROVE UNCHANGED Barrier!vars
    BY <2>4 DEF runtime_close, JoinAll, vars, shared, InDispatch, Barrier!vars
  <2>5. ASSUME SpuriousWakeup, UNCHANGED <<kind, shared, seen, slot, passes, result, faults>>
        PROVE  UNCHANGED Barrier!vars
    BY <2>5 DEF SpuriousWakeup, shared, InDispatch, Barrier!vars
  <2>6. ASSUME NEW k \in Stages, worker_main(k) PROVE [Barrier!Next]_(Barrier!vars)
    <3>1. CASE Decode(k) \/ DecodeFails(k)
      <4>1. pc[k] = "decode" /\ UNCHANGED <<n_slots, host, result>> /\ passes' \in {passes, Ran(k)}
        BY <3>1 DEF Decode, DecodeFails, shared
      <4>2. CASE passes' = Ran(k)
        BY <4>1, <4>2, DecodeIsWork DEF Barrier!Next
      <4>3. CASE passes' = passes
        BY <4>1, <4>3 DEF InDispatch, Barrier!vars
      <4> QED
        BY <4>1, <4>2, <4>3
    <3>2. CASE \/ Look(k) \/ Head(k) \/ replay_pipeline_job_live(k) \/ wait_prev(k)
               \/ replay_pipeline_fail(k) \/ replay_pipeline_mark_done(k)
               \/ replay_pipeline_worker_done(k)
      <4>1. host' \in {host, HostWoken} /\ UNCHANGED <<n_slots, passes, result>>
        BY <3>2 DEF Look, Head, replay_pipeline_job_live, wait_prev, replay_pipeline_fail,
                    replay_pipeline_mark_done, replay_pipeline_worker_done, shared
      <4> QED
        BY <4>1 DEF HostWoken, InDispatch, Barrier!vars
    <3>3. ~replay_mailbox_fail(k) /\ ~replay_mailbox_mark_done(k)
      BY DEF replay_mailbox_fail, replay_mailbox_mark_done
    <3> QED
      BY <2>6, <3>1, <3>2, <3>3 DEF worker_main
  <2> QED
    BY <2>1, <2>2, <2>3, <2>4, <2>5, <2>6 DEF Next, Barrier!Next
<1> QED
  BY <1>a, <1>b

\* The barrier pipeline keeps the promise of StagePass: whatever the order in
\* which stages run, wake and fail, each slot of a dispatch passes the stages in
\* order and once, success means that all of them did, and nothing is decoded
\* for a dispatch that has returned (replay_core.inc, replay_pipeline_*).
THEOREM PipelineKeepsPromise == Spec => BarrierKeepsPromise
<1>1. Init => Barrier!Init
  BY DEF Init, InDispatch, Untouched, Barrier!Init, Barrier!Untouched, Barrier!Layers,
         Barrier!Slots, Stages, Slots
<1> QED
  BY <1>1, Initially, Inductive, Simulation, PTL DEF Spec, BarrierKeepsPromise, Barrier!Spec

-----------------------------------------------------------------------------
(***************************************************************************)
(* The mailbox runtime.  The types hold whatever fails: a stage left over  *)
(* from a dispatch that failed may be anywhere in its loop, but it reads   *)
(* n_slots before every slot, so its slot stays within MaxSlots.  While    *)
(* nothing has failed, a stage of the current generation has done exactly  *)
(* the slots before its own, a stage of an older one can only be on its    *)
(* way out (the first stage may decode again, for it waits for nobody),    *)
(* and what a stage has done the stages before it have done: when the last *)
(* one has done the last slot, all are through.                            *)
(***************************************************************************)
Completed ==
    IF kind = "barrier" THEN completed <= NStages
    ELSE IF seen[LastStage] = generation THEN completed <= slot[LastStage] ELSE completed = 0

TInv ==
    /\ TypeOK /\ Completed
    /\ \A k \in Stages :
          /\ pc[k] \in AtSlot => slot[k] < MaxSlots
          /\ seen[k] <= generation
          /\ kind = "mailbox" => pc[k] \notin {"live", "finish"}

MEntered(k) ==
    /\ slot[k] <= n_slots
    /\ pc[k] \in AtSlot => slot[k] < n_slots
    /\ pc[k] \in Outside => slot[k] = n_slots
    /\ \A s \in Slots :
          /\ <<k, s>> \in done <=> s < slot[k]
          /\ s < slot[k] \/ (s = slot[k] /\ pc[k] = "mark") => passes[k][s] >= 1
          /\ k > 0 => passes[k][s] <= 1
          /\ k > 0 /\ passes[k][s] = 1 => s < slot[k] \/ (s = slot[k] /\ pc[k] = "mark")
    /\ pc[k] \in {"decode", "mark"} /\ k > 0 => <<k - 1, slot[k]>> \in done

MNotEntered(k) ==
    /\ pc[k] \in Outside \cup {"head", "prev"} \cup (IF k = 0 THEN {"decode", "mark"} ELSE {})
    /\ \A s \in Slots : <<k, s>> \notin done /\ (k > 0 => passes[k][s] = 0)

MStage(k) ==
    /\ pc[k] # "fail"
    /\ IF seen[k] = generation THEN MEntered(k) ELSE MNotEntered(k)

DoneOrdered ==
    \A j, k \in Stages : \A s \in Slots : j < k /\ <<k, s>> \in done => <<j, s>> \in done

MHost ==
    /\ ~failed /\ (active => InDispatch) /\ (stop => host \in {"join", "closed"})
    /\ result = "ok" => ~active
    /\ active => completed = IF seen[LastStage] = generation THEN slot[LastStage] ELSE 0
    /\ ~active => \A k \in Stages :
          seen[k] = generation /\ slot[k] = n_slots /\ pc[k] \in Outside \cup {"head"}

MInv == MHost /\ DoneOrdered /\ \A k \in Stages : MStage(k)

MailboxInv == kind = "mailbox" /\ faults = 0 => MInv

-----------------------------------------------------------------------------
LEMMA PlacesOfTypeOK ==
    Places = {"look", "asleep", "head", "live", "prev", "waiting", "decode",
              "mark", "fail", "finish", "gone"}
BY DEF Places, Outside, AtSlot

\* How many slots or stages completed may count.
Most == IF NStages > MaxSlots THEN NStages ELSE MaxSlots

LEMMA MostBounds ==
    /\ Most \in Nat /\ NStages <= Most /\ MaxSlots <= Most
    /\ NStages \in Nat \ {0} /\ MaxSlots \in Nat \ {0, 1} /\ LastStage \in Stages
    /\ Slots \subseteq Nat /\ Stages \subseteq Nat
BY StageRuntimeAssumption DEF Most, LastStage, Stages, Slots

\* The bound on completed follows from what it counts.
LEMMA CompletedType ==
    ASSUME completed \in Nat, slot \in [Stages -> 0..MaxSlots], Completed
    PROVE  completed \in 0..Most
<1>1. slot[LastStage] \in 0..MaxSlots
  BY MostBounds
<1> QED
  BY <1>1, MostBounds DEF Completed

LEMMA TypesUnfolded ==
    ASSUME TInv
    PROVE  /\ completed \in Nat /\ generation \in Nat /\ n_slots \in Nat /\ n_slots <= MaxSlots
           /\ \A k \in Stages : /\ slot[k] \in Nat /\ slot[k] <= MaxSlots /\ seen[k] \in Nat
                                /\ pc[k] \in Places
           /\ pc \in [Stages -> Places]
BY MostBounds, StageRuntimeAssumption, PlacesOfTypeOK DEF TInv, TypeOK

\* What is left to show for a step of stage k.
LEMMA TypeStep ==
    ASSUME TInv, NEW k \in Stages,
           UNCHANGED <<kind, stop, generation, n_slots, result>>,
           active' \in BOOLEAN, failed' \in BOOLEAN, faults' \in 0..MaxFaults,
           done' \subseteq Stages \X Slots, completed' \in Nat,
           pc' \in [Stages -> Places],
           seen' \in [Stages -> 0..MaxDispatches], slot' \in [Stages -> 0..MaxSlots],
           passes' \in [Stages -> [Slots -> Nat]], host' \in {host, HostWoken},
           \A j \in Stages \ {k} :
              pc'[j] \in {pc[j], Woken(pc[j])} /\ seen'[j] = seen[j] /\ slot'[j] = slot[j],
           pc'[k] \in AtSlot => slot'[k] < MaxSlots,
           seen'[k] <= generation,
           kind = "mailbox" => pc'[k] \notin {"live", "finish"},
           Completed'
    PROVE  TInv'
<1>1. completed' \in 0..Most
  BY CompletedType, MostBounds DEF Completed
<1>2. TypeOK'
  <2>1. host' \in {"idle", "await", "asleep", "join", "closed"}
    BY DEF TInv, TypeOK, HostWoken
  <2> QED
    BY <1>1, <2>1, PlacesOfTypeOK DEF TInv, TypeOK, Most
<1>3. ASSUME NEW j \in Stages
      PROVE  /\ pc'[j] \in AtSlot => slot'[j] < MaxSlots
             /\ seen'[j] <= generation'
             /\ kind' = "mailbox" => pc'[j] \notin {"live", "finish"}
  <2>1. CASE j = k
    BY <2>1
  <2>2. CASE j # k
    <3>1. pc[j] \in Places
      BY TypesUnfolded
    <3>2. (pc'[j] \in AtSlot <=> pc[j] \in AtSlot)
          /\ (pc'[j] \in {"live", "finish"} <=> pc[j] \in {"live", "finish"})
      BY <2>2, <3>1 DEF Places, Outside, AtSlot, Woken
    <3> QED
      BY <2>2, <3>2 DEF TInv
  <2> QED
    BY <2>1, <2>2
<1> QED
  BY <1>2, <1>3 DEF TInv

\* pc after a stage has moved, with or without signals.
LEMMA MovedType ==
    ASSUME TInv, NEW k \in Stages, NEW p \in Places,
           pc' = [pc EXCEPT ![k] = p] \/ \E S : pc' = Moved(k, p, S)
    PROVE  /\ pc' \in [Stages -> Places] /\ pc'[k] = p
           /\ \A j \in Stages \ {k} : pc'[j] \in {pc[j], Woken(pc[j])}
<1>1. pc \in [Stages -> Places]
  BY TypesUnfolded
<1>2. \A q \in Places : Woken(q) \in Places
  BY DEF Woken, Places, Outside, AtSlot
<1> QED
  BY <1>1, <1>2 DEF Moved

LEMMA TypeInitially == Init => TInv
<1> SUFFICES ASSUME Init PROVE TInv
  OBVIOUS
<1>1. passes \in [Stages -> [Slots -> Nat]]
  BY DEF Init, Untouched
<1>2. 0 \in 0..MaxSlots /\ 0 \in 0..MaxDispatches /\ 0 \in 0..MaxFaults /\ 0 \in 0..Most
  BY StageRuntimeAssumption, MostBounds
<1>3. TypeOK
  BY <1>1, <1>2 DEF Init, TypeOK, Most
<1>4. Completed
  BY MostBounds DEF Init, Completed
<1>5. \A k \in Stages : pc[k] = "look" /\ seen[k] = 0 /\ generation = 0
  BY DEF Init
<1> QED
  BY <1>3, <1>4, <1>5 DEF TInv, AtSlot

LEMMA TypeLook == ASSUME TInv, NEW k \in Stages, Look(k) PROVE TInv'
<1>1. /\ UNCHANGED <<kind, shared, host, passes, result, faults>> /\ pc[k] = "look"
      /\ TypeOK
  BY DEF Look, TInv
<1>2. generation \in 0..MaxDispatches /\ generation \in Nat /\ 0 \in 0..MaxSlots /\ 0 < MaxSlots
  BY <1>1, StageRuntimeAssumption DEF TypeOK
<1>3. CASE \E p \in {"gone", "asleep"} : pc' = [pc EXCEPT ![k] = p] /\ UNCHANGED <<seen, slot>>
  <2>1. PICK p \in {"gone", "asleep"} : pc' = [pc EXCEPT ![k] = p] /\ UNCHANGED <<seen, slot>>
    BY <1>3
  <2>2. p \in Places /\ p \notin AtSlot
    BY DEF Places, Outside, AtSlot
  <2>3. /\ pc' \in [Stages -> Places] /\ pc'[k] = p
        /\ \A j \in Stages \ {k} : pc'[j] \in {pc[j], Woken(pc[j])}
    BY <2>1, <2>2, MovedType
  <2>4. Completed'
    BY <1>1, <2>1 DEF TInv, Completed, shared
  <2> QED
    BY <1>1, <2>1, <2>2, <2>3, <2>4, TypeStep, TypesUnfolded DEF TInv, TypeOK, shared
<1>4. CASE /\ generation # seen[k] /\ seen' = [seen EXCEPT ![k] = generation]
           /\ slot' = [slot EXCEPT ![k] = 0] /\ pc' = [pc EXCEPT ![k] = "head"]
  <2>1. "head" \in Places /\ "head" \notin AtSlot
    BY DEF Places, AtSlot
  <2>2. /\ pc' \in [Stages -> Places] /\ pc'[k] = "head"
        /\ \A j \in Stages \ {k} : pc'[j] \in {pc[j], Woken(pc[j])}
    BY <1>4, <2>1, MovedType
  <2>3. /\ seen' \in [Stages -> 0..MaxDispatches] /\ slot' \in [Stages -> 0..MaxSlots]
        /\ seen'[k] = generation /\ slot'[k] = 0
        /\ \A j \in Stages \ {k} : seen'[j] = seen[j] /\ slot'[j] = slot[j]
    BY <1>1, <1>2, <1>4 DEF TypeOK
  <2>4. Completed'
    <3>1. UNCHANGED <<kind, completed, generation>>
      BY <1>1 DEF shared
    <3>2. CASE k = LastStage
      BY <1>4, <2>3, <3>1, <3>2 DEF TInv, Completed
    <3>3. CASE k # LastStage
      BY <1>4, <2>3, <3>1, <3>3, MostBounds DEF TInv, Completed
    <3> QED
      BY <3>2, <3>3
  <2> QED
    BY <1>1, <1>2, <2>1, <2>2, <2>3, <2>4, TypeStep, TypesUnfolded DEF TInv, TypeOK, shared
<1> QED
  BY <1>3, <1>4 DEF Look

\* The tests of a stage, decoding and failing move its place only.
LEMMA TypeMove ==
    ASSUME TInv, NEW k \in Stages, NEW p \in Places,
           pc' = [pc EXCEPT ![k] = p] \/ \E S : pc' = Moved(k, p, S),
           UNCHANGED <<kind, stop, generation, n_slots, result, completed, done, seen, slot>>,
           active' \in BOOLEAN, failed' \in BOOLEAN, faults' \in 0..MaxFaults,
           passes' \in [Stages -> [Slots -> Nat]], host' \in {host, HostWoken},
           p \in AtSlot => slot[k] < MaxSlots,
           kind = "mailbox" => p \notin {"live", "finish"}
    PROVE  TInv'
<1>1. /\ pc' \in [Stages -> Places] /\ pc'[k] = p
      /\ \A j \in Stages \ {k} : pc'[j] \in {pc[j], Woken(pc[j])}
  BY MovedType
<1>2. Completed'
  BY DEF TInv, Completed
<1> QED
  BY <1>1, <1>2, TypeStep, TypesUnfolded DEF TInv, TypeOK

LEMMA TypeTests ==
    ASSUME TInv, NEW k \in Stages, Head(k) \/ replay_pipeline_job_live(k) \/ wait_prev(k)
    PROVE  TInv'
<1> DEFINE p == pc'[k]
<1>0. pc \in [Stages -> Places] /\ slot[k] \in Nat /\ n_slots \in Nat /\ n_slots <= MaxSlots
      /\ MaxSlots \in Nat /\ kind \in {"barrier", "mailbox"}
  BY TypesUnfolded, StageRuntimeAssumption DEF TInv, TypeOK
<1>1. /\ pc' = [pc EXCEPT ![k] = p]
      /\ p \in {"live", "prev", "decode", "waiting", "finish", "look"}
      /\ UNCHANGED <<kind, shared, seen, slot, host, passes, result, faults>>
  BY <1>0 DEF Head, replay_pipeline_job_live, wait_prev, AfterSlots
<1>2. pc[k] = "head" => slot[k] < n_slots \/ p \in {"finish", "look"}
  BY <1>0 DEF Head, replay_pipeline_job_live, wait_prev, AfterSlots
<1>3. p \in AtSlot => slot[k] < MaxSlots
  <2>1. pc[k] \in {"head", "live", "prev"}
    BY DEF Head, replay_pipeline_job_live, wait_prev
  <2>2. pc[k] # "head" => slot[k] < MaxSlots
    BY <2>1 DEF TInv, AtSlot
  <2>3. pc[k] = "head" /\ p \in AtSlot => slot[k] < n_slots
    BY <1>2 DEF AtSlot
  <2> QED
    BY <1>0, <2>2, <2>3
<1>4. kind = "mailbox" => p \notin {"live", "finish"}
  <2>1. kind = "mailbox" => pc[k] # "live"
    BY DEF TInv
  <2> QED
    BY <1>0, <2>1 DEF Head, replay_pipeline_job_live, wait_prev, AfterSlots
<1>5. p \in Places
  BY <1>1 DEF Places, Outside, AtSlot
<1> HIDE DEF p
<1> QED
  BY <1>1, <1>3, <1>4, <1>5, TypeMove DEF TInv, TypeOK, shared

LEMMA TypeDecode ==
    ASSUME TInv, NEW k \in Stages, Decode(k) \/ DecodeFails(k)
    PROVE  TInv'
<1>1. PICK p \in {"mark", "fail"} :
         /\ pc' = [pc EXCEPT ![k] = p]
         /\ faults' = faults \/ (faults' = faults + 1 /\ faults < MaxFaults)
  BY DEF Decode, DecodeFails
<1>2. /\ pc[k] = "decode" /\ passes' \in {passes, Ran(k)}
      /\ UNCHANGED <<kind, shared, seen, slot, host, result>>
  BY DEF Decode, DecodeFails
<1>3. slot[k] < MaxSlots /\ slot[k] \in Slots
  <2>1. slot[k] < MaxSlots
    BY <1>2 DEF TInv, AtSlot
  <2> QED
    BY <2>1, TypesUnfolded, MostBounds DEF Slots
<1>4. passes' \in [Stages -> [Slots -> Nat]]
  BY <1>2, <1>3 DEF TInv, TypeOK, Ran
<1>5. faults' \in 0..MaxFaults
  BY <1>1, StageRuntimeAssumption DEF TInv, TypeOK
<1>6. p \in Places
  BY DEF Places, AtSlot
<1> QED
  BY <1>1, <1>2, <1>3, <1>4, <1>5, <1>6, TypeMove DEF TInv, TypeOK, shared

LEMMA TypeFail ==
    ASSUME TInv, NEW k \in Stages, replay_pipeline_fail(k) \/ replay_mailbox_fail(k)
    PROVE  TInv'
<1>1. PICK p : p = AfterSlots
  OBVIOUS
<1>2. p \in {"finish", "look"} /\ (kind = "mailbox" => p = "look") /\ p \in Places /\ p \notin AtSlot
  BY <1>1 DEF AfterSlots, Places, Outside, AtSlot
<1>3. /\ \E S : pc' = Moved(k, p, S) 
      /\ failed' \in BOOLEAN /\ host' = HostWoken
      /\ UNCHANGED <<kind, stop, generation, n_slots, completed, done, seen, slot, passes, result, faults>>
  BY <1>1 DEF replay_pipeline_fail, replay_mailbox_fail
<1>4. active' \in BOOLEAN
  BY DEF replay_pipeline_fail, replay_mailbox_fail, TInv, TypeOK
<1> QED
  BY <1>2, <1>3, <1>4, TypeMove DEF TInv, TypeOK

LEMMA TypeMark ==
    ASSUME TInv, NEW k \in Stages, replay_pipeline_mark_done(k) \/ replay_mailbox_mark_done(k)
    PROVE  TInv'
<1>1. /\ pc[k] = "mark" /\ \E S : pc' = Moved(k, "head", S)
      /\ done' \in {done, done \cup {<<k, slot[k]>>}}
      /\ slot' = [slot EXCEPT ![k] = slot[k] + 1]
      /\ host' \in {host, HostWoken}
      /\ UNCHANGED <<kind, stop, failed, generation, n_slots, seen, passes, result, faults>>
  BY DEF replay_pipeline_mark_done, replay_mailbox_mark_done
<1>2. "head" \in Places /\ "head" \notin AtSlot
  BY DEF Places, AtSlot
<1>3. /\ pc' \in [Stages -> Places] /\ pc'[k] = "head"
      /\ \A j \in Stages \ {k} : pc'[j] \in {pc[j], Woken(pc[j])}
  BY <1>1, <1>2, MovedType
<1>4. slot[k] \in Nat /\ slot[k] < MaxSlots /\ MaxSlots \in Nat
  BY <1>1, TypesUnfolded, MostBounds DEF TInv, AtSlot
<1>5. /\ slot' \in [Stages -> 0..MaxSlots] /\ slot'[k] = slot[k] + 1
      /\ \A j \in Stages \ {k} : slot'[j] = slot[j]
  BY <1>1, <1>4 DEF TInv, TypeOK
<1>6. done' \subseteq Stages \X Slots
  <2>1. slot[k] \in Slots
    BY <1>4 DEF Slots
  <2> QED
    BY <1>1, <2>1 DEF TInv, TypeOK
<1>7. /\ active' \in BOOLEAN /\ completed' \in {completed, completed + 1}
      /\ kind = "barrier" => completed' = completed
      /\ completed' # completed => k = LastStage /\ generation = seen[k]
  BY DEF replay_pipeline_mark_done, replay_mailbox_mark_done, Current, TInv, TypeOK
<1>8. completed \in Nat /\ completed' \in Nat
  BY <1>7, TypesUnfolded
<1>9. Completed'
  <2>1. CASE kind = "barrier"
    BY <1>1, <1>7, <2>1 DEF TInv, Completed
  <2>2. CASE kind # "barrier" /\ completed' = completed
    <3>1. slot[LastStage] \in Nat /\ slot'[LastStage] \in {slot[LastStage], slot[LastStage] + 1}
      BY <1>4, <1>5, TypesUnfolded, MostBounds
    <3> QED
      BY <1>1, <1>8, <2>2, <3>1 DEF TInv, Completed
  <2>3. CASE kind # "barrier" /\ completed' # completed
    <3>1. completed' = completed + 1 /\ k = LastStage /\ generation = seen[k]
      BY <1>7, <2>3
    <3>2. completed <= slot[k]
      BY <2>3, <3>1 DEF TInv, Completed
    <3> QED
      BY <1>1, <1>4, <1>5, <1>8, <2>3, <3>1, <3>2 DEF Completed
  <2> QED
    BY <2>1, <2>2, <2>3
<1> QED
  BY <1>1, <1>2, <1>3, <1>5, <1>6, <1>7, <1>8, <1>9, TypeStep, TypesUnfolded DEF TInv, TypeOK

LEMMA TypeCheckOut ==
    ASSUME IInv, TInv, NEW k \in Stages, replay_pipeline_worker_done(k)
    PROVE  TInv'
<1>1. /\ pc[k] = "finish" /\ pc' = Moved(k, "look", Stages) /\ host' = HostWoken
      /\ UNCHANGED <<kind, stop, failed, generation, n_slots, done, seen, slot, passes, result, faults>>
  BY DEF replay_pipeline_worker_done
<1>2. kind = "barrier" /\ BInv
  BY <1>1, StageRuntimeAssumption DEF IInv, TInv, TypeOK
<1>3. active /\ seen[k] = generation
  BY <1>1, <1>2, LiveUnlessFailed DEF Outside
<1>4. completed' = completed + 1 /\ active' \in BOOLEAN
  BY <1>3 DEF replay_pipeline_worker_done
<1>5. completed + 1 <= NStages /\ completed \in Nat
  <2>1. k \notin CheckedOut /\ CheckedOut \in SUBSET Stages /\ CheckedOut \cup {k} \in SUBSET Stages
    BY <1>1 DEF CheckedOut, Outside
  <2>2. completed = Cardinality(CheckedOut)
    BY <1>2, <1>3 DEF BInv, Counted
  <2>3. Cardinality(CheckedOut \cup {k}) = Cardinality(CheckedOut) + 1
    BY <2>1, StagesFinite, FS_Subset, FS_AddElement
  <2>4. Cardinality(CheckedOut \cup {k}) <= NStages
    BY <2>1, StagesFinite, FS_Subset
  <2> QED
    BY <2>2, <2>3, <2>4, TypesUnfolded
<1>6. "look" \in Places /\ "look" \notin AtSlot
  BY DEF Places, Outside, AtSlot
<1>7. /\ pc' \in [Stages -> Places] /\ pc'[k] = "look"
      /\ \A j \in Stages \ {k} : pc'[j] \in {pc[j], Woken(pc[j])}
  BY <1>1, <1>6, MovedType
<1>8. Completed' /\ completed' \in Nat
  BY <1>1, <1>2, <1>4, <1>5, TypesUnfolded DEF Completed
<1> QED
  BY <1>1, <1>4, <1>6, <1>7, <1>8, TypeStep, TypesUnfolded DEF TInv, TypeOK

LEMMA TypeDispatch ==
    ASSUME TInv, NEW n \in 2..MaxSlots, dispatch(n)
    PROVE  TInv'
<1>1. /\ generation < MaxDispatches
      /\ done' = {} /\ completed' = 0 /\ failed' = FALSE /\ n_slots' = n
      /\ generation' = generation + 1 /\ active' = TRUE /\ host' = "await"
      /\ passes' = Untouched /\ result' = "none"
      /\ pc' = [k \in Stages |-> IF kind = "barrier" \/ k = 0 THEN Woken(pc[k]) ELSE pc[k]]
      /\ UNCHANGED <<kind, stop, seen, slot, faults>>
  BY DEF dispatch
<1>2. generation' \in 0..MaxDispatches /\ n \in 0..MaxSlots /\ 0 \in 0..Most
  BY <1>1, StageRuntimeAssumption, MostBounds DEF TInv, TypeOK
<1>3. \A k \in Stages : /\ pc'[k] \in Places
                        /\ (pc'[k] \in AtSlot <=> pc[k] \in AtSlot)
                        /\ (pc'[k] \in {"live", "finish"} <=> pc[k] \in {"live", "finish"})
  <2> SUFFICES ASSUME NEW k \in Stages
               PROVE  /\ pc'[k] \in Places
                      /\ (pc'[k] \in AtSlot <=> pc[k] \in AtSlot)
                      /\ (pc'[k] \in {"live", "finish"} <=> pc[k] \in {"live", "finish"})
    OBVIOUS
  <2>1. pc[k] \in Places /\ pc'[k] \in {pc[k], Woken(pc[k])}
    BY <1>1, TypesUnfolded
  <2> QED
    BY <2>1 DEF Places, Outside, AtSlot, Woken
<1>4. passes' \in [Stages -> [Slots -> Nat]]
  BY <1>1 DEF Untouched
<1>5. pc' \in [Stages -> Places]
  BY <1>1, <1>3
<1>6. TypeOK'
  BY <1>1, <1>2, <1>4, <1>5, PlacesOfTypeOK DEF TInv, TypeOK, Most
<1>7. \A k \in Stages : seen'[k] <= generation' /\ seen'[k] # generation'
  BY <1>1, TypesUnfolded DEF TInv
<1>8. Completed'
  BY <1>1, <1>7, MostBounds DEF Completed
<1> QED
  BY <1>1, <1>3, <1>6, <1>7, <1>8 DEF TInv

LEMMA TypeHost ==
    ASSUME TInv,
           UNCHANGED <<kind, active, failed, generation, n_slots, completed, done, seen, slot, passes>>,
           stop' \in BOOLEAN, faults' \in 0..MaxFaults, result' \in {"none", "ok", "failed"},
           host' \in {"idle", "await", "asleep", "join", "closed"},
           pc' \in [Stages -> Places], \A k \in Stages : pc'[k] \in {pc[k], Woken(pc[k])}
    PROVE  TInv'
<1>1. TypeOK'
  BY PlacesOfTypeOK DEF TInv, TypeOK
<1>2. \A k \in Stages : pc[k] \in Places
  BY TypesUnfolded
<1>3. \A k \in Stages : /\ (pc'[k] \in AtSlot <=> pc[k] \in AtSlot)
                        /\ (pc'[k] \in {"live", "finish"} <=> pc[k] \in {"live", "finish"})
  BY <1>2 DEF Places, Outside, AtSlot, Woken
<1> QED
  BY <1>1, <1>3 DEF TInv, Completed

LEMMA WokenType ==
    ASSUME TInv
    PROVE  /\ [k \in Stages |-> Woken(pc[k])] \in [Stages -> Places]
           /\ \A k \in Stages : [pc EXCEPT ![k] = Woken(@)] \in [Stages -> Places]
<1>1. \A q \in Places : Woken(q) \in Places
  BY DEF Woken, Places, Outside, AtSlot
<1> QED
  BY <1>1, TypesUnfolded

LEMMA TypeInductive == IInv /\ TInv /\ [Next]_vars => TInv'
<1> SUFFICES ASSUME IInv, TInv, [Next]_vars PROVE TInv'
  OBVIOUS
<1>0. TypeOK /\ pc \in [Stages -> Places]
  BY TypesUnfolded DEF TInv
<1>1. ASSUME NEW n \in 2..MaxSlots, dispatch(n) PROVE TInv'
  BY <1>1, TypeDispatch
<1>2. ASSUME Await \/ JoinAll PROVE TInv'
  BY <1>0, <1>2, TypeHost DEF Await, JoinAll, shared, workers, TypeOK
<1>3. ASSUME dispatch_returns PROVE TInv'
  <2>1. faults' \in 0..MaxFaults
    BY <1>0, <1>3, StageRuntimeAssumption DEF dispatch_returns, TypeOK
  <2>2. result' \in {"ok", "failed"} /\ host' = "idle" /\ UNCHANGED <<kind, shared, workers, passes>>
    BY <1>3 DEF dispatch_returns
  <2> QED
    BY <1>0, <2>1, <2>2, TypeHost DEF shared, workers, TypeOK
<1>4. ASSUME runtime_close PROVE TInv'
  BY <1>0, <1>4, TypeHost, WokenType DEF runtime_close, TypeOK
<1>5. ASSUME SpuriousWakeup, UNCHANGED <<kind, shared, seen, slot, passes, result, faults>> PROVE TInv'
  <2>1. pc' \in [Stages -> Places] /\ \A k \in Stages : pc'[k] \in {pc[k], Woken(pc[k])}
    BY <1>0, <1>5, WokenType DEF SpuriousWakeup
  <2>2. host' \in {host, "await"}
    BY <1>5 DEF SpuriousWakeup
  <2> QED
    BY <1>0, <1>5, <2>1, <2>2, TypeHost DEF shared, TypeOK
<1>6. ASSUME UNCHANGED vars PROVE TInv'
  BY <1>0, <1>6, TypeHost DEF vars, shared, workers, TypeOK
<1>7. ASSUME NEW k \in Stages, worker_main(k) PROVE TInv'
  BY <1>7, TypeLook, TypeTests, TypeDecode, TypeFail, TypeMark, TypeCheckOut DEF worker_main
<1> QED
  BY <1>1, <1>2, <1>3, <1>4, <1>5, <1>6, <1>7 DEF Next

-----------------------------------------------------------------------------
\* The mailbox stage j is not disturbed by the steps of others.
LEMMA MailboxUndisturbed ==
    ASSUME TInv, NEW j \in Stages, MStage(j),
           UNCHANGED <<generation, n_slots>>,
           seen'[j] = seen[j], slot'[j] = slot[j], passes'[j] = passes[j],
           pc'[j] \in {pc[j], Woken(pc[j])},
           kind = "mailbox",
           \A s \in Slots : <<j, s>> \in done' <=> <<j, s>> \in done,
           done \subseteq done'
    PROVE  MStage(j)'
<1>1. pc[j] \in Places
  BY TypesUnfolded
<1>2. /\ pc'[j] \in Outside <=> pc[j] \in Outside
      /\ pc'[j] \in AtSlot <=> pc[j] \in AtSlot
      /\ pc'[j] = "mark" <=> pc[j] = "mark"
      /\ pc'[j] = "fail" <=> pc[j] = "fail"
      /\ pc'[j] = "decode" <=> pc[j] = "decode"
      /\ pc'[j] = "head" <=> pc[j] = "head"
      /\ pc[j] = "prev" => pc'[j] = "prev"
  BY <1>1 DEF Places, Outside, AtSlot, Woken
<1>3. MEntered(j) => MEntered(j)'
  BY <1>2 DEF MEntered
<1>4. MNotEntered(j) => MNotEntered(j)'
  BY <1>2 DEF MNotEntered
<1> QED
  BY <1>2, <1>3, <1>4 DEF MStage

\* What the parts of the invariant say of a stage that is in its loop.
LEMMA MailboxAtSlot ==
    ASSUME TInv, MInv, kind = "mailbox", NEW k \in Stages, pc[k] \in AtSlot
    PROVE  /\ active /\ ~stop /\ ~failed
           /\ seen[k] = generation => JobLive(k) /\ Current(k) /\ MEntered(k) /\ slot[k] < n_slots
           /\ seen[k] # generation => ~JobLive(k) /\ ~Current(k) /\ MNotEntered(k)
<1>1. active /\ ~failed
  BY DEF MInv, MHost, AtSlot, Outside
<1>2. ~stop
  BY <1>1 DEF MInv, MHost, InDispatch
<1>3. seen[k] = generation => MEntered(k)
  BY DEF MInv, MStage
<1> QED
  BY <1>1, <1>2, <1>3 DEF MInv, MStage, MEntered, JobLive, Current

\* A step of stage k that marks nothing.
LEMMA MailboxStep ==
    ASSUME TInv, MInv, kind = "mailbox", NEW k \in Stages,
           UNCHANGED <<stop, active, failed, generation, n_slots, completed, done, host, result>>,
           \A j \in Stages \ {k} :
              /\ pc'[j] = pc[j] /\ seen'[j] = seen[j] /\ slot'[j] = slot[j] /\ passes'[j] = passes[j],
           active => /\ seen[k] = generation => seen'[k] = generation /\ slot'[k] = slot[k]
                     /\ seen[k] # generation => \/ seen'[k] # generation
                                                \/ seen'[k] = generation /\ slot'[k] = 0,
           ~active => /\ seen'[k] = seen[k] /\ slot'[k] = slot[k]
                      /\ pc'[k] \in Outside \cup {"head"},
           MStage(k)'
    PROVE  MInv'
<1>1. ASSUME NEW j \in Stages \ {k} PROVE MStage(j)'
  <2>1. MStage(j)
    BY DEF MInv
  <2> QED
    BY <2>1, MailboxUndisturbed
<1>2. DoneOrdered'
  BY DEF MInv, DoneOrdered
<1>3. active => completed = IF seen'[LastStage] = generation THEN slot'[LastStage] ELSE 0
  <2>1. LastStage \in Stages
    BY MostBounds
  <2>2. active => completed = IF seen[LastStage] = generation THEN slot[LastStage] ELSE 0
    BY DEF MInv, MHost
  <2>3. CASE LastStage = k
    BY <2>1, <2>2, <2>3
  <2>4. CASE LastStage # k
    BY <2>1, <2>2, <2>4
  <2> QED
    BY <2>3, <2>4
<1>4. MHost'
  BY <1>3 DEF MInv, MHost, InDispatch
<1> QED
  BY <1>1, <1>2, <1>4 DEF MInv

LEMMA MailboxLook ==
    ASSUME TInv, MInv, kind = "mailbox", NEW k \in Stages, Look(k)
    PROVE  MInv'
<1>0. /\ pc[k] = "look" /\ pc \in [Stages -> Places]
      /\ seen \in [Stages -> 0..MaxDispatches] /\ slot \in [Stages -> 0..MaxSlots]
      /\ UNCHANGED <<kind, shared, host, passes, result, faults>>
  BY TypesUnfolded DEF Look, TInv, TypeOK
<1>1. CASE \E p \in {"gone", "asleep"} : pc' = [pc EXCEPT ![k] = p] /\ UNCHANGED <<seen, slot>>
  <2>1. pc'[k] \in {"gone", "asleep"} /\ \A j \in Stages \ {k} : pc'[j] = pc[j]
    BY <1>0, <1>1
  <2>2. MStage(k)'
    <3>1. MEntered(k) => MEntered(k)'
      BY <1>0, <1>1, <2>1 DEF MEntered, Outside, AtSlot, shared
    <3>2. MNotEntered(k) => MNotEntered(k)'
      BY <1>0, <1>1, <2>1 DEF MNotEntered, Outside, shared
    <3> QED
      BY <1>0, <1>1, <2>1, <3>1, <3>2 DEF MInv, MStage, shared
  <2> QED
    BY <1>0, <1>1, <2>1, <2>2, MailboxStep DEF shared, Outside
<1>2. CASE /\ active /\ generation # seen[k] /\ seen' = [seen EXCEPT ![k] = generation]
           /\ slot' = [slot EXCEPT ![k] = 0] /\ pc' = [pc EXCEPT ![k] = "head"]
  <2>1. /\ pc'[k] = "head" /\ seen'[k] = generation /\ slot'[k] = 0
        /\ \A j \in Stages \ {k} : pc'[j] = pc[j] /\ seen'[j] = seen[j] /\ slot'[j] = slot[j]
    BY <1>0, <1>2
  <2>2. MNotEntered(k)
    BY <1>2 DEF MInv, MStage
  <2>3. MEntered(k)'
    <3>1. UNCHANGED <<n_slots, done, passes>> /\ n_slots \in Nat
      BY <1>0, TypesUnfolded DEF shared
    <3>2. \A s \in Slots : <<k, s>> \notin done /\ (k > 0 => passes[k][s] = 0)
      BY <2>2 DEF MNotEntered
    <3>3. \A s \in Slots : ~(s < 0)
      BY MostBounds
    <3> QED
      BY <2>1, <3>1, <3>2, <3>3 DEF MEntered, Outside, AtSlot
  <2>4. MStage(k)'
    BY <1>0, <2>1, <2>3 DEF MStage, shared
  <2> QED
    BY <1>0, <1>2, <2>1, <2>4, MailboxStep DEF shared
<1> QED
  BY <1>1, <1>2 DEF Look

LEMMA MailboxTests ==
    ASSUME TInv, MInv, kind = "mailbox", NEW k \in Stages, Head(k) \/ wait_prev(k)
    PROVE  MInv'
<1>0. /\ pc \in [Stages -> Places] /\ slot[k] \in Nat /\ n_slots \in Nat
      /\ UNCHANGED <<kind, shared, seen, slot, host, passes, result, faults>>
  BY TypesUnfolded DEF Head, wait_prev
<1>1. \A j \in Stages \ {k} : pc'[j] = pc[j]
  BY <1>0 DEF Head, wait_prev
<1>2. CASE Head(k)
  <2>1. /\ pc[k] = "head"
        /\ slot[k] >= n_slots => pc'[k] = "look"
        /\ ~(slot[k] >= n_slots) => pc'[k] = "prev"
    BY <1>0, <1>2 DEF Head, AfterSlots
  <2>2. MStage(k)'
    <3>1. MEntered(k) => MEntered(k)'
      <4>1. pc'[k] \in {"look", "prev"} /\ (pc'[k] = "look" => slot[k] >= n_slots)
            /\ (pc'[k] = "prev" => slot[k] < n_slots)
        BY <1>0, <2>1
      <4> QED
        BY <1>0, <2>1, <4>1 DEF MEntered, Outside, AtSlot, shared
    <3>2. MNotEntered(k) => MNotEntered(k)'
      BY <1>0, <2>1 DEF MNotEntered, Outside, shared
    <3> QED
      BY <1>0, <2>1, <3>1, <3>2 DEF MInv, MStage, shared
  <2>3. ~active => slot[k] = n_slots
    BY DEF MInv, MHost
  <2> QED
    BY <1>0, <1>1, <2>1, <2>2, <2>3, MailboxStep DEF shared, Outside
<1>3. CASE wait_prev(k)
  <2>1. /\ pc[k] = "prev"
        /\ pc'[k] = IF k = 0 THEN "decode"
                    ELSE IF ~JobLive(k) THEN "look"
                    ELSE IF <<k - 1, slot[k]>> \in done THEN "decode" ELSE "waiting"
    BY <1>0, <1>3 DEF wait_prev, AfterSlots
  <2>2. /\ active
        /\ seen[k] = generation => JobLive(k) /\ MEntered(k) /\ slot[k] < n_slots
        /\ seen[k] # generation => ~JobLive(k) /\ MNotEntered(k)
    BY <2>1, MailboxAtSlot DEF AtSlot
  <2>3. MStage(k)'
    <3>1. CASE seen[k] = generation
      <4>1. pc'[k] \in {"decode", "waiting"} /\ (pc'[k] = "decode" /\ k > 0 => <<k - 1, slot[k]>> \in done)
        BY <2>1, <2>2, <3>1
      <4>2. MEntered(k)'
        BY <1>0, <2>1, <2>2, <3>1, <4>1 DEF MEntered, Outside, AtSlot, shared
      <4> QED
        BY <1>0, <3>1, <4>1, <4>2 DEF MStage, shared
    <3>2. CASE seen[k] # generation
      <4>1. pc'[k] = IF k = 0 THEN "decode" ELSE "look"
        BY <2>1, <2>2, <3>2
      <4>2. MNotEntered(k)'
        BY <1>0, <2>2, <3>2, <4>1 DEF MNotEntered, Outside, shared
      <4> QED
        BY <1>0, <3>2, <4>1, <4>2 DEF MStage, shared
    <3> QED
      BY <3>1, <3>2
  <2> QED
    BY <1>0, <1>1, <2>2, <2>3, MailboxStep DEF shared
<1> QED
  BY <1>2, <1>3

LEMMA MailboxDecode ==
    ASSUME TInv, MInv, kind = "mailbox", NEW k \in Stages, Decode(k)
    PROVE  MInv'
<1>0. /\ pc[k] = "decode" /\ pc \in [Stages -> Places] /\ passes' = Ran(k)
      /\ pc' = [pc EXCEPT ![k] = "mark"]
      /\ UNCHANGED <<kind, shared, seen, slot, host, result, faults>>
  BY TypesUnfolded DEF Decode
<1>1. /\ active
      /\ seen[k] = generation => MEntered(k) /\ slot[k] < n_slots
      /\ seen[k] # generation => MNotEntered(k)
  BY <1>0, MailboxAtSlot DEF AtSlot
<1>2. pc'[k] = "mark" /\ \A j \in Stages \ {k} : pc'[j] = pc[j]
  BY <1>0
<1>3. slot[k] \in Slots
  BY <1>0, TypesUnfolded, MostBounds DEF TInv, AtSlot, Slots
<1>4. /\ passes'[k][slot[k]] = passes[k][slot[k]] + 1
      /\ \A s \in Slots : s # slot[k] => passes'[k][s] = passes[k][s]
      /\ \A j \in Stages \ {k} : passes'[j] = passes[j]
      /\ \A s \in Slots : passes[k][s] \in Nat
  BY <1>0, <1>3 DEF Ran, TInv, TypeOK
<1>5. MStage(k)'
  <2>1. CASE seen[k] = generation
    <3>0. slot[k] \in Nat
      BY TypesUnfolded
    <3>1. ~(slot[k] < slot[k]) /\ pc[k] # "mark"
      BY <1>0, <3>0
    <3>2. k > 0 => passes[k][slot[k]] = 0
      <4>1. k > 0 => passes[k][slot[k]] <= 1 /\ passes[k][slot[k]] # 1
        BY <1>1, <1>3, <2>1, <3>1 DEF MEntered
      <4> QED
        BY <1>3, <1>4, <4>1
    <3>3. UNCHANGED <<n_slots, done, slot>>
      BY <1>0 DEF shared
    <3>4. ASSUME NEW s \in Slots
          PROVE  /\ s < slot[k] \/ s = slot[k] => passes'[k][s] >= 1
                 /\ k > 0 => passes'[k][s] <= 1
                 /\ k > 0 /\ passes'[k][s] = 1 => s < slot[k] \/ s = slot[k]
      <4>1. CASE s = slot[k]
        BY <1>3, <1>4, <3>2, <4>1
      <4>2. CASE s # slot[k]
        BY <1>0, <1>1, <1>4, <2>1, <4>2 DEF MEntered
      <4> QED
        BY <4>1, <4>2
    <3>5. MEntered(k)'
      BY <1>0, <1>1, <1>2, <2>1, <3>3, <3>4 DEF MEntered, Outside, AtSlot
    <3> QED
      BY <1>0, <1>2, <2>1, <3>5 DEF MStage, shared
  <2>2. CASE seen[k] # generation
    <3>1. k = 0
      BY <1>0, <1>1, <2>2 DEF MNotEntered, Outside
    <3>2. MNotEntered(k)'
      BY <1>0, <1>1, <1>2, <2>2, <3>1 DEF MNotEntered, shared
    <3> QED
      BY <1>0, <1>2, <2>2, <3>2 DEF MStage, shared
  <2> QED
    BY <2>1, <2>2
<1> QED
  BY <1>0, <1>1, <1>2, <1>4, <1>5, MailboxStep DEF shared

\* Marking a slot.  The last slot of the last stage finds all the others done.
LEMMA MailboxMark ==
    ASSUME TInv, MInv, kind = "mailbox", NEW k \in Stages, replay_mailbox_mark_done(k)
    PROVE  MInv'
<1>0. /\ pc[k] = "mark" /\ pc'[k] = "head"
      /\ \A j \in Stages \ {k} : pc'[j] \in {pc[j], Woken(pc[j])}
      /\ slot' = [slot EXCEPT ![k] = slot[k] + 1]
      /\ UNCHANGED <<kind, stop, failed, generation, n_slots, seen, passes, result, faults>>
      /\ done' = IF Current(k) THEN done \cup {<<k, slot[k]>>} ELSE done
      /\ completed' = IF Current(k) /\ k = LastStage THEN completed + 1 ELSE completed
      /\ host' \in {host, HostWoken}
  BY DEF replay_mailbox_mark_done, Moved
<1>1. /\ active /\ ~stop /\ ~failed
      /\ seen[k] = generation => Current(k) /\ MEntered(k) /\ slot[k] < n_slots
      /\ seen[k] # generation => ~Current(k) /\ MNotEntered(k)
  BY <1>0, MailboxAtSlot DEF AtSlot
<1>2. /\ slot[k] \in Nat /\ n_slots \in Nat /\ slot[k] \in Slots
      /\ slot'[k] = slot[k] + 1 /\ \A j \in Stages \ {k} : slot'[j] = slot[j]
  BY <1>0, TypesUnfolded, MostBounds DEF TInv, TypeOK, AtSlot, Slots
<1>3. /\ \A j \in Stages \ {k}, s \in Slots : <<j, s>> \in done' <=> <<j, s>> \in done
      /\ done \subseteq done'
  BY <1>0
<1>4. ASSUME NEW j \in Stages \ {k} PROVE MStage(j)'
  <2>1. MStage(j)
    BY DEF MInv
  <2> QED
    BY <1>0, <1>2, <1>3, <2>1, MailboxUndisturbed
<1>5. MStage(k)'
  <2>1. CASE seen[k] = generation
    <3>1. \A s \in Slots : <<k, s>> \in done' <=> <<k, s>> \in done \/ s = slot[k]
      BY <1>0, <1>1, <2>1
    <3>2. \A s \in Slots : s < slot'[k] <=> s < slot[k] \/ s = slot[k]
      BY <1>2, MostBounds
    <3>3. \A s \in Slots : <<k, s>> \in done' <=> s < slot'[k]
      BY <1>1, <2>1, <3>1, <3>2 DEF MEntered
    <3>4. slot'[k] <= n_slots
      BY <1>1, <1>2, <2>1
    <3>5. \A s \in Slots : /\ s < slot'[k] => passes[k][s] >= 1
                           /\ k > 0 => passes[k][s] <= 1
                           /\ k > 0 /\ passes[k][s] = 1 => s < slot'[k]
      BY <1>0, <1>1, <2>1, <3>2 DEF MEntered
    <3>6. MEntered(k)'
      BY <1>0, <3>3, <3>4, <3>5 DEF MEntered, Outside, AtSlot
    <3> QED
      BY <1>0, <2>1, <3>6 DEF MStage
  <2>2. CASE seen[k] # generation
    BY <1>0, <1>1, <2>2 DEF MStage, MNotEntered
  <2> QED
    BY <2>1, <2>2
<1>6. DoneOrdered'
  <2>1. CASE seen[k] # generation
    BY <1>0, <1>1, <2>1 DEF MInv, DoneOrdered
  <2>2. CASE seen[k] = generation
    <3> SUFFICES ASSUME NEW i \in Stages, NEW j \in Stages, NEW s \in Slots,
                        i < j, <<j, s>> \in done'
                 PROVE  <<i, s>> \in done'
      BY DEF DoneOrdered
    <3>1. CASE <<j, s>> \in done
      BY <1>3, <3>1 DEF MInv, DoneOrdered
    <3>2. CASE <<j, s>> \notin done
      <4>1. j = k /\ s = slot[k]
        BY <1>0, <3>2
      <4>2. k > 0 /\ k - 1 \in Stages /\ (i = k - 1 \/ i < k - 1)
        BY <4>1, StagesFinite DEF Stages
      <4>3. <<k - 1, s>> \in done
        BY <1>0, <1>1, <2>2, <4>1, <4>2 DEF MEntered
      <4> QED
        BY <1>3, <4>2, <4>3 DEF MInv, DoneOrdered
    <3> QED
      BY <3>1, <3>2
  <2> QED
    BY <2>1, <2>2
<1>7. completed' = IF seen'[LastStage] = generation' THEN slot'[LastStage] ELSE 0
  <2>1. LastStage \in Stages /\ completed \in Nat /\ slot[LastStage] \in Nat
    BY MostBounds, TypesUnfolded
  <2>2. completed = IF seen[LastStage] = generation THEN slot[LastStage] ELSE 0
    BY <1>1 DEF MInv, MHost
  <2>3. CASE LastStage = k
    <3>1. CASE seen[k] = generation
      BY <1>0, <1>1, <1>2, <2>2, <2>3, <3>1
    <3>2. CASE seen[k] # generation
      BY <1>0, <1>1, <2>2, <2>3, <3>2
    <3> QED
      BY <3>1, <3>2
  <2>4. CASE LastStage # k
    BY <1>0, <1>2, <2>1, <2>2, <2>4
  <2> QED
    BY <2>3, <2>4
<1>8. /\ active' \in BOOLEAN
      /\ ~active' => seen[k] = generation /\ k = LastStage /\ completed + 1 >= n_slots
  BY <1>1 DEF replay_mailbox_mark_done
<1>9. ASSUME ~active', NEW j \in Stages
      PROVE  seen'[j] = generation' /\ slot'[j] = n_slots' /\ pc'[j] \in Outside \cup {"head"}
  <2>1. seen[k] = generation /\ k = LastStage /\ slot[k] + 1 = n_slots
    <3>1. completed = slot[k]
      BY <1>1, <1>8, <1>9 DEF MInv, MHost
    <3> QED
      BY <1>1, <1>2, <1>8, <1>9, <3>1
  <2>2. CASE j = k
    BY <1>0, <1>2, <2>1, <2>2
  <2>3. CASE j # k
    <3>1. j < k
      BY <2>1, <2>3, StageRuntimeAssumption DEF Stages, LastStage
    <3>2. <<k, slot[k]>> \in done'
      BY <1>0, <1>1, <2>1
    <3>3. <<j, slot[k]>> \in done
      BY <1>2, <1>3, <1>6, <2>3, <3>1, <3>2 DEF DoneOrdered
    <3>4. seen[j] = generation /\ MEntered(j)
      BY <1>2, <3>3 DEF MInv, MStage, MNotEntered
    <3>5. slot[k] < slot[j] /\ slot[j] <= n_slots /\ slot[j] \in Nat
      BY <1>2, <3>3, <3>4, TypesUnfolded DEF MEntered
    <3>6. slot[j] = n_slots
      BY <1>2, <2>1, <3>5
    <3>7. pc[j] \notin AtSlot
      BY <1>2, <3>4, <3>6 DEF MEntered
    <3>8. pc[j] \in Outside \cup {"head"}
      BY <3>7, TypesUnfolded DEF TInv, Places
    <3>9. pc'[j] \in Outside \cup {"head"}
      BY <1>0, <2>3, <3>8 DEF Outside, Woken
    <3> QED
      BY <1>0, <1>2, <2>3, <3>4, <3>6, <3>9
  <2> QED
    BY <2>2, <2>3
<1>10. MHost'
  <2>1. InDispatch /\ InDispatch'
    BY <1>0, <1>1 DEF MInv, MHost, InDispatch, HostWoken
  <2>2. result' # "ok" /\ ~stop' /\ ~failed'
    BY <1>0, <1>1 DEF MInv, MHost
  <2> QED
    BY <1>7, <1>9, <2>1, <2>2 DEF MHost
<1> QED
  BY <1>4, <1>5, <1>6, <1>10 DEF MInv

LEMMA MailboxDispatch ==
    ASSUME TInv, MInv, kind = "mailbox", NEW n \in 2..MaxSlots, dispatch(n)
    PROVE  MInv'
<1>1. /\ ~active /\ active' = TRUE /\ host' = "await" /\ host = "idle"
      /\ done' = {} /\ completed' = 0 /\ failed' = FALSE /\ n_slots' = n
      /\ generation' = generation + 1 /\ passes' = Untouched /\ result' = "none"
      /\ \A k \in Stages : pc'[k] \in {pc[k], Woken(pc[k])}
      /\ UNCHANGED <<stop, seen, slot>>
  BY DEF dispatch
<1>2. \A k \in Stages : seen[k] = generation /\ pc[k] \in Outside \cup {"head"}
  BY <1>1 DEF MInv, MHost
<1>3. \A k \in Stages : seen'[k] # generation' /\ pc'[k] \in Outside \cup {"head"}
  <2>1. generation # generation + 1
    BY TypesUnfolded
  <2> QED
    BY <1>1, <1>2, <2>1 DEF Outside, Woken
<1>4. \A k \in Stages : MStage(k)'
  BY <1>1, <1>3 DEF MStage, MNotEntered, Untouched, Outside
<1>5. DoneOrdered'
  BY <1>1 DEF DoneOrdered
<1>6. MHost'
  BY <1>1, <1>3, MostBounds DEF MInv, MHost, InDispatch
<1> QED
  BY <1>4, <1>5, <1>6 DEF MInv

LEMMA MailboxHost ==
    ASSUME TInv, MInv, kind = "mailbox",
           UNCHANGED <<active, failed, generation, n_slots, completed, done, seen, slot, passes>>,
           \A k \in Stages : pc'[k] \in {pc[k], Woken(pc[k])},
           active => host' \in {"await", "asleep"},
           stop' => host' \in {"join", "closed"},
           result' = "ok" => ~active
    PROVE  MInv'
<1>1. ASSUME NEW j \in Stages PROVE MStage(j)'
  <2>1. MStage(j)
    BY DEF MInv
  <2> QED
    BY <2>1, MailboxUndisturbed
<1>2. DoneOrdered'
  BY DEF MInv, DoneOrdered
<1>3. ~active => \A k \in Stages : pc'[k] \in Outside \cup {"head"}
  BY DEF MInv, MHost, Outside, Woken
<1>4. MHost'
  BY <1>3 DEF MInv, MHost, InDispatch
<1> QED
  BY <1>1, <1>2, <1>4 DEF MInv

LEMMA MailboxInitially == Init => MailboxInv
<1> SUFFICES ASSUME Init PROVE MInv
  BY DEF MailboxInv
<1>1. \A k \in Stages : MStage(k)
  BY MostBounds DEF Init, MStage, MEntered, Untouched, Outside, AtSlot
<1>2. DoneOrdered
  BY DEF Init, DoneOrdered
<1>3. MHost
  BY DEF Init, MHost, Outside
<1> QED
  BY <1>1, <1>2, <1>3 DEF MInv

\* Failures are not forgotten, so the invariant is inductive.
LEMMA MailboxInductive == TInv /\ MailboxInv /\ [Next]_vars => MailboxInv'
<1> SUFFICES ASSUME TInv, MailboxInv, [Next]_vars, kind' = "mailbox", faults' = 0 PROVE MInv'
  BY DEF MailboxInv
<1>0. kind = "mailbox" /\ faults \in Nat
  BY KindConstant, StageRuntimeAssumption DEF TInv, TypeOK
<1>1. ASSUME NEW n \in 2..MaxSlots, dispatch(n) PROVE MInv'
  <2>1. MInv
    BY <1>0, <1>1 DEF MailboxInv, dispatch
  <2> QED
    BY <1>0, <1>1, <2>1, MailboxDispatch
<1>2. ASSUME Await \/ JoinAll PROVE MInv'
  <2>1. MInv /\ UNCHANGED <<active, failed, generation, n_slots, completed, done, pc, seen, slot, passes, stop, result>>
    BY <1>0, <1>2 DEF MailboxInv, Await, JoinAll, shared, workers
  <2>2. (active => host' \in {"await", "asleep"}) /\ (stop' => host' \in {"join", "closed"})
    BY <1>2, <2>1 DEF MInv, MHost, Await, JoinAll, InDispatch
  <2> QED
    BY <1>0, <2>1, <2>2, MailboxHost DEF MInv, MHost
<1>3. ASSUME dispatch_returns PROVE MInv'
  <2>1. faults = 0 /\ host = "await" /\ host' = "idle" /\ ~Running /\ UNCHANGED <<kind, shared, workers, passes>>
    BY <1>0, <1>3 DEF dispatch_returns
  <2>2. MInv /\ ~active
    BY <1>0, <2>1 DEF MailboxInv, Running, MInv, MHost
  <2>3. ~stop
    BY <2>1, <2>2 DEF MInv, MHost
  <2> QED
    BY <1>0, <2>1, <2>2, <2>3, MailboxHost DEF shared, workers
<1>4. ASSUME runtime_close PROVE MInv'
  <2>1. /\ MInv /\ host = "idle" /\ host' = "join"
        /\ UNCHANGED <<active, failed, generation, n_slots, completed, done, seen, slot, passes, result>>
        /\ \A k \in Stages : pc'[k] = Woken(pc[k])
    BY <1>0, <1>4 DEF MailboxInv, runtime_close
  <2>2. ~active
    BY <2>1 DEF MInv, MHost, InDispatch
  <2> QED
    BY <1>0, <2>1, <2>2, MailboxHost
<1>5. ASSUME SpuriousWakeup, UNCHANGED <<kind, shared, seen, slot, passes, result, faults>> PROVE MInv'
  <2>1. MInv /\ \A k \in Stages : pc'[k] \in {pc[k], Woken(pc[k])}
    BY <1>0, <1>5, TypesUnfolded DEF MailboxInv, SpuriousWakeup
  <2>2. host' = host \/ (host = "asleep" /\ host' = "await")
    BY <1>5 DEF SpuriousWakeup
  <2> QED
    BY <1>0, <1>5, <2>1, <2>2, MailboxHost DEF shared, MInv, MHost, InDispatch
<1>6. ASSUME UNCHANGED vars PROVE MInv'
  BY <1>0, <1>6, MailboxHost DEF vars, shared, workers, MailboxInv, MInv, MHost, InDispatch
<1>7. ASSUME NEW k \in Stages, worker_main(k) PROVE MInv'
  <2>1. faults = 0 /\ ~DecodeFails(k)
    BY <1>0, <1>7 DEF worker_main, Look, Head, replay_pipeline_job_live, wait_prev, Decode, DecodeFails,
       replay_pipeline_fail, replay_mailbox_fail, replay_pipeline_mark_done,
       replay_mailbox_mark_done, replay_pipeline_worker_done
  <2>2. MInv
    BY <1>0, <2>1 DEF MailboxInv
  <2>3. pc[k] \notin {"live", "finish", "fail"}
    <3>1. pc[k] \notin {"live", "finish"}
      BY <1>0 DEF TInv
    <3>2. pc[k] # "fail"
      BY <2>2 DEF MInv, MStage
    <3> QED
      BY <3>1, <3>2
  <2>4. Look(k) \/ Head(k) \/ wait_prev(k) \/ Decode(k) \/ replay_mailbox_mark_done(k)
    BY <1>0, <1>7, <2>1, <2>3 DEF worker_main, replay_pipeline_job_live, replay_pipeline_fail,
       replay_mailbox_fail, replay_pipeline_mark_done, replay_pipeline_worker_done
  <2> QED
    BY <1>0, <2>2, <2>4, MailboxLook, MailboxTests, MailboxDecode, MailboxMark
<1> QED
  BY <1>1, <1>2, <1>3, <1>4, <1>5, <1>6, <1>7 DEF Next

\* Without a device failure the mailbox runtime takes every slot through the
\* stages in order and once, and reports success only when all have been.
THEOREM MailboxKeepsOrder == Spec => []MailboxOrder
<1>1. TInv /\ MailboxInv => MailboxOrder
  <2> SUFFICES ASSUME TInv, MailboxInv PROVE MailboxOrder
    OBVIOUS
  <2>1. TypeOK
    BY DEF TInv
  <2>2. ASSUME kind = "mailbox", faults = 0
        PROVE  /\ \A k \in Stages \ {0}, s \in Slots :
                     passes[k][s] <= 1 /\ (passes[k][s] = 1 => passes[k - 1][s] >= 1)
               /\ result = "ok" => \A k \in Stages, s \in Slots : s < n_slots => passes[k][s] >= 1
    <3>0. MInv
      BY <2>2 DEF MailboxInv
    <3>1. \A k \in Stages, s \in Slots : <<k, s>> \in done => passes[k][s] >= 1
      BY <3>0 DEF MInv, MStage, MEntered, MNotEntered
    <3>2. ASSUME NEW k \in Stages \ {0}, NEW s \in Slots
          PROVE  passes[k][s] <= 1 /\ (passes[k][s] = 1 => passes[k - 1][s] >= 1)
      <4>1. k > 0 /\ k - 1 \in Stages /\ k - 1 < k
        BY StagesFinite DEF Stages
      <4>0. IF seen[k] = generation THEN MEntered(k) ELSE MNotEntered(k)
        BY <3>0 DEF MInv, MStage
      <4>e. MEntered(k) => passes[k][s] <= 1
        BY <4>1 DEF MEntered
      <4>n. MNotEntered(k) => passes[k][s] = 0
        <5> SUFFICES ASSUME \A t \in Slots : <<k, t>> \notin done /\ (k > 0 => passes[k][t] = 0)
                     PROVE  passes[k][s] = 0
          BY DEF MNotEntered
        <5> QED
          BY <4>1
      <4>2. passes[k][s] <= 1
        BY <4>0, <4>e, <4>n
      <4>3. ASSUME passes[k][s] = 1 PROVE <<k - 1, s>> \in done
        <5>1. seen[k] = generation /\ MEntered(k)
          BY <4>0, <4>n, <4>3
        <5>2. CASE s < slot[k]
          <6>1. <<k, s>> \in done
            BY <5>1, <5>2 DEF MEntered
          <6> QED
            BY <3>0, <4>1, <6>1 DEF MInv, DoneOrdered
        <5>3. CASE s = slot[k] /\ pc[k] = "mark"
          BY <4>1, <5>1, <5>3 DEF MEntered
        <5> QED
          BY <4>1, <4>3, <5>1, <5>2, <5>3 DEF MEntered
      <4> QED
        BY <3>1, <4>1, <4>2, <4>3
    <3>3. ASSUME result = "ok", NEW k \in Stages, NEW s \in Slots, s < n_slots
          PROVE  passes[k][s] >= 1
      <4>1. seen[k] = generation /\ slot[k] = n_slots /\ MEntered(k)
        BY <3>0, <3>3 DEF MInv, MHost, MStage
      <4> QED
        BY <3>3, <4>1 DEF MEntered
    <3> QED
      BY <3>2, <3>3
  <2> QED
    BY <2>1, <2>2 DEF MailboxOrder
<1> QED
  BY <1>1, Initially, Inductive, TypeInitially, TypeInductive, MailboxInitially, MailboxInductive,
     PTL DEF Spec
=============================================================================

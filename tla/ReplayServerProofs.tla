-------------------------- MODULE ReplayServerProofs --------------------------
(***************************************************************************)
(* For every number of requests, of generation slots and of failures: one  *)
(* pass completes a thread's own request, and an answer's tokens are those *)
(* of the request's own prompt; and, until an accept() fails, the count of *)
(* generation slots is the number of threads that hold one, the pending    *)
(* list refers to live records only, and main closes the runtime when no   *)
(* handler is left.                                                        *)
(***************************************************************************)
EXTENDS ReplayServer, FiniteSetTheorems, TLAPS

\* Threads between accept and the close of their connection, those of them
\* that active_handlers counts, and those that hold a generation slot.
Busy     == {r \in Requests : pc[r] \notin {"none", "gone"}}
Handlers == Busy \ {inline}
Holders  == {r \in Requests : pc[r] \in Holding}

Places == Holding \cup {"none", "read", "acquire", "asleep", "leave", "gone", "astray", "killed"}

(***************************************************************************)
(* The inductive invariant.  The counters are exact for as long as there   *)
(* are handlers with an intact frame, that is until an accept() fails; so  *)
(* a decrement never meets a zero.  A request that main handles itself is  *)
(* the inline one, and main cannot get past it.                            *)
(***************************************************************************)
HandlersCounted ==
    /\ accepted \in 0..MaxRequests
    /\ pc \in [Requests -> Places]
    /\ \A r \in Requests : r > accepted => pc[r] = "none"
    /\ main = "inline" <=> inline # None
    /\ inline # None => inline \in Busy
    /\ Intact => active_handlers = Cardinality(Handlers)
    /\ ~Intact => \A r \in Requests : pc[r] \in {"none", "gone", "astray", "killed"}
    /\ main \in {"returned", "closed"} => active_handlers = 0

SlotsCounted ==
    /\ active_generation_slots \in 0..Cap
    /\ Intact => active_generation_slots = Cardinality(Holders)

IInv == HandlersCounted /\ SlotsCounted

-----------------------------------------------------------------------------
LEMMA RequestsFinite ==
    /\ MaxRequests \in Nat \ {0} /\ Cap \in Nat \ {0} /\ None \notin Requests
    /\ \A S \in SUBSET Requests : IsFiniteSet(S) /\ Cardinality(S) \in Nat
<1>1. MaxRequests \in Nat \ {0} /\ Cap \in Nat \ {0} /\ None \notin Requests
  BY ReplayServerAssumption
<1>2. IsFiniteSet(Requests)
  BY <1>1, FS_Interval DEF Requests
<1> QED
  BY <1>1, <1>2, FS_Subset, FS_CardinalityType

\* The server starts with nobody.
LEMMA Initially == Init => IInv
<1> SUFFICES ASSUME Init PROVE IInv
  OBVIOUS
<1>1. Busy = {} /\ Handlers = {} /\ Holders = {}
  BY DEF Init, Busy, Handlers, Holders, Holding, InPass, All
<1>2. Cardinality({}) = 0
  BY FS_EmptySet
<1>3. pc \in [Requests -> Places]
  BY DEF Init, All, Places
<1>4. HandlersCounted
  BY <1>1, <1>2, <1>3, RequestsFinite DEF Init, HandlersCounted, All
<1>5. SlotsCounted
  BY <1>1, <1>2, RequestsFinite DEF Init, SlotsCounted
<1> QED
  BY <1>4, <1>5 DEF IInv

\* A step that neither begins nor ends a connection.
LEMMA SameHandlers ==
    ASSUME HandlersCounted, pc' \in [Requests -> Places],
           UNCHANGED <<accepted, active_handlers, inline>>,
           main' = main \/ (main = "asleep" /\ main' = "drain"),
           \A r \in Requests : pc'[r] = pc[r] \/ {pc[r], pc'[r]} \cap {"none", "gone"} = {},
           ~Intact => pc' = pc
    PROVE  HandlersCounted'
<1>1. \A r \in Requests : pc'[r] \in {"none", "gone"} <=> pc[r] \in {"none", "gone"}
  OBVIOUS
<1>2. Busy' = Busy /\ Handlers' = Handlers
  BY <1>1 DEF Busy, Handlers
<1>3. \A r \in Requests : r > accepted => pc'[r] = "none"
  BY DEF HandlersCounted
<1> QED
  BY <1>2, <1>3 DEF HandlersCounted, Intact

\* A step that leaves the generation slots with their holders.
LEMMA SameHolders ==
    ASSUME SlotsCounted, UNCHANGED active_generation_slots,
           \A r \in Requests : pc'[r] \in Holding <=> pc[r] \in Holding,
           Intact' => Intact
    PROVE  SlotsCounted'
<1>1. Holders' = Holders
  BY DEF Holders
<1> QED
  BY <1>1 DEF SlotsCounted

\* A slot is given back by a thread that holds one.
LEMMA ReleaseKeeps ==
    ASSUME IInv, NEW r \in Requests, pc[r] \in Holding, release_generation_slot(r),
           UNCHANGED listener
    PROVE  IInv'
<1>1. /\ pc'[r] = "leave"
      /\ \A q \in Requests \ {r} : pc'[q] = pc[q] \/ (pc[q] = "asleep" /\ pc'[q] = "acquire")
      /\ pc' \in [Requests -> Places]
      /\ active_generation_slots' = OneLess(active_generation_slots)
  <2>0. pc \in [Requests -> Places] /\ "leave" \in Places /\ "acquire" \in Places /\ pc[r] # "asleep"
    BY DEF IInv, HandlersCounted, Places, Holding, InPass
  <2>1. CASE pc' = [pc EXCEPT ![r] = "leave"]
    BY <2>0, <2>1 DEF release_generation_slot
  <2>2. CASE \E q \in {p \in Requests : pc[p] = "asleep"} :
                pc' = [pc EXCEPT ![r] = "leave", ![q] = "acquire"]
    BY <2>0, <2>2 DEF release_generation_slot
  <2> QED
    BY <2>1, <2>2 DEF release_generation_slot, Moved
<1>2. Intact
  BY DEF IInv, HandlersCounted, Holding, InPass
<1>3. pc[r] \notin {"none", "gone"}
  BY DEF Holding, InPass
<1>4. HandlersCounted'
  BY <1>1, <1>2, <1>3, SameHandlers DEF IInv, listener
<1>5. Holders' = Holders \ {r} /\ r \in Holders
  BY <1>1 DEF Holders, Holding, InPass, Intact
<1>6. Holders \in SUBSET Requests
  BY DEF Holders
<1>7. Cardinality(Holders') = Cardinality(Holders) - 1 /\ Cardinality(Holders) \in Nat /\ Cardinality(Holders') \in Nat
  <2>1. IsFiniteSet(Holders) /\ Cardinality(Holders) \in Nat
    BY <1>6, RequestsFinite
  <2>2. IsFiniteSet(Holders \ {r}) /\ Cardinality(Holders \ {r}) = Cardinality(Holders) - 1
    BY <1>5, <2>1, FS_RemoveElement
  <2>3. Cardinality(Holders \ {r}) \in Nat
    BY <2>2, FS_CardinalityType
  <2> QED
    BY <1>5, <2>1, <2>2, <2>3
<1>8. SlotsCounted'
  BY <1>1, <1>2, <1>7, RequestsFinite DEF IInv, SlotsCounted, OneLess, listener
<1> QED
  BY <1>4, <1>8 DEF IInv

\* A slot is taken only while there is one.
LEMMA AcquireKeeps ==
    ASSUME IInv, NEW r \in Requests, acquire_generation_slot(r) PROVE IInv'
<1>1. /\ pc[r] \in {"read", "acquire"} /\ UNCHANGED listener
      /\ pc' = [pc EXCEPT ![r] = pc'[r]] /\ pc'[r] \in {"leave", "asleep", "admitted"}
  BY DEF acquire_generation_slot, Moved, IInv, HandlersCounted
<1>2. Intact
  BY <1>1 DEF IInv, HandlersCounted
<1>3. HandlersCounted'
  <2>1. pc' \in [Requests -> Places]
    BY <1>1 DEF IInv, HandlersCounted, Places, Holding
  <2>2. \A q \in Requests \ {r} : pc'[q] = pc[q]
    BY <1>1 DEF IInv, HandlersCounted
  <2>3. {pc[r], pc'[r]} \cap {"none", "gone"} = {}
    BY <1>1
  <2> QED
    BY <1>1, <1>2, <2>1, <2>2, <2>3, SameHandlers DEF IInv, listener
<1>4. CASE pc'[r] \in {"leave", "asleep"}
  <2>1. UNCHANGED active_generation_slots
    BY <1>1, <1>4 DEF acquire_generation_slot, Moved, IInv, HandlersCounted
  <2>2. \A q \in Requests : pc'[q] \in Holding <=> pc[q] \in Holding
    BY <1>1, <1>4 DEF Holding, InPass, IInv, HandlersCounted
  <2> QED
    BY <1>1, <1>3, <2>1, <2>2, SameHolders DEF IInv, listener, Intact
<1>5. CASE pc'[r] = "admitted"
  <2>1. active_generation_slots < Cap /\ active_generation_slots' = active_generation_slots + 1
    BY <1>1, <1>5 DEF acquire_generation_slot, Moved, IInv, HandlersCounted
  <2>2. Holders' = Holders \cup {r} /\ r \notin Holders /\ Holders \in SUBSET Requests
    BY <1>1, <1>5 DEF Holders, Holding, InPass, IInv, HandlersCounted
  <2>3. Cardinality(Holders') = Cardinality(Holders) + 1
    BY <2>2, RequestsFinite, FS_AddElement
  <2> QED
    BY <1>1, <1>2, <1>3, <2>1, <2>3, RequestsFinite DEF IInv, SlotsCounted, listener
<1> QED
  BY <1>1, <1>4, <1>5

\* A thread that goes from one place to another without taking or giving back
\* a slot, and without being accepted or leaving.
LEMMA MoveKeeps ==
    ASSUME IInv, NEW r \in Requests, NEW p \in Places \ {"none", "gone"}, pc' = [pc EXCEPT ![r] = p],
           pc[r] \notin {"none", "gone", "astray", "killed"}, p \in Holding <=> pc[r] \in Holding,
           UNCHANGED <<listener, active_generation_slots>>
    PROVE  IInv'
<1>1. Intact
  BY DEF IInv, HandlersCounted
<1>2. pc' \in [Requests -> Places] /\ pc'[r] = p /\ \A q \in Requests \ {r} : pc'[q] = pc[q]
  BY DEF IInv, HandlersCounted
<1>3. HandlersCounted'
  BY <1>1, <1>2, SameHandlers DEF IInv, listener
<1>4. SlotsCounted'
  BY <1>2, SameHolders DEF IInv, listener, Intact
<1> QED
  BY <1>3, <1>4 DEF IInv

LEMMA HandleKeeps ==
    ASSUME IInv, NEW r \in Requests, handle_http_request(r) PROVE IInv'
<1> USE DEF Holding, InPass, Places, Moved
<1>1. CASE HandlePlain(r)
  BY <1>1, MoveKeeps DEF HandlePlain
<1>2. CASE acquire_generation_slot(r)
  BY <1>2, AcquireKeeps
<1>3. CASE ContextExceeded(r)
  BY <1>3, ReleaseKeeps DEF ContextExceeded, Finish
<1>4. CASE pending_enqueue(r)
  BY <1>4, MoveKeeps DEF pending_enqueue
<1>5. CASE LockGeneration(r)
  BY <1>5, MoveKeeps DEF LockGeneration
<1>6. CASE Gather(r)
  <2>1. PICK p \in {"unlock", "reset"} : pc' = [pc EXCEPT ![r] = p]
    BY <1>6 DEF Gather
  <2> QED
    BY <1>6, <2>1, MoveKeeps DEF Gather
<1>7. CASE ds4_replay_reset(r)
  BY <1>7, MoveKeeps DEF ds4_replay_reset
<1>8. CASE ds4_replay_generate(r)
  BY <1>8, MoveKeeps DEF ds4_replay_generate
<1>9. CASE pending_mark_done(r)
  <2>1. PICK p \in {"unlock", "reset"} : pc' = [pc EXCEPT ![r] = p]
    BY <1>9 DEF pending_mark_done
  <2> QED
    BY <1>9, <2>1, MoveKeeps DEF pending_mark_done
<1>10. CASE UnlockGeneration(r)
  <2>1. PICK p \in {"answer", "lock"} : pc' = [pc EXCEPT ![r] = p]
    BY <1>10 DEF UnlockGeneration
  <2> QED
    BY <1>10, <2>1, MoveKeeps DEF UnlockGeneration
<1>11. CASE Answer(r)
  BY <1>11, MoveKeeps, ReleaseKeeps DEF Answer, Finish
<1>12. CASE replay_mtp_service_run(r)
  BY <1>12, ReleaseKeeps DEF replay_mtp_service_run, Finish
<1> QED
  BY <1>1, <1>2, <1>3, <1>4, <1>5, <1>6, <1>7, <1>8, <1>9, <1>10, <1>11, <1>12
  DEF handle_http_request

\* A connection is closed: the thread is counted out, or main goes on.
LEMMA LeaveKeeps ==
    ASSUME IInv, NEW r \in Requests, Leave(r) PROVE IInv'
<1>1. /\ pc[r] = "leave" /\ pc' = [pc EXCEPT ![r] = "gone"] /\ pc'[r] = "gone"
      /\ UNCHANGED <<accepted, active_generation_slots>>
      /\ pc' \in [Requests -> Places]
      /\ \A q \in Requests \ {r} : pc'[q] = pc[q]
  BY DEF Leave, Moved, IInv, HandlersCounted, Places
<1>2. Intact
  BY <1>1 DEF IInv, HandlersCounted
<1>3. Busy' = Busy \ {r} /\ r \in Busy
  BY <1>1 DEF Busy
<1>4. SlotsCounted'
  BY <1>1, <1>2, SameHolders DEF IInv, Holding, InPass
<1>5. CASE inline = r
  <2>1. inline' = None /\ main' = "accept" /\ UNCHANGED active_handlers /\ main = "inline"
    BY <1>5, RequestsFinite DEF Leave, IInv, HandlersCounted
  <2>2. Handlers' = Handlers
    BY <1>3, <1>5, <2>1, RequestsFinite DEF Handlers, Busy
  <2>3. HandlersCounted'
    BY <1>1, <1>2, <2>1, <2>2 DEF IInv, HandlersCounted, Intact
  <2> QED
    BY <1>4, <2>3 DEF IInv
<1>6. CASE inline # r
  <2>1. /\ active_handlers' = OneLess(active_handlers) /\ UNCHANGED inline
        /\ main' = IF main = "asleep" THEN "drain" ELSE main
    BY <1>6 DEF Leave, Intact
  <2>2. Handlers' = Handlers \ {r} /\ r \in Handlers /\ Handlers \in SUBSET Requests
    BY <1>3, <1>6, <2>1 DEF Handlers, Busy
  <2>3. /\ Cardinality(Handlers') = Cardinality(Handlers) - 1
        /\ Cardinality(Handlers) \in Nat /\ Cardinality(Handlers') \in Nat
    <3>1. IsFiniteSet(Handlers) /\ Cardinality(Handlers) \in Nat
      BY <2>2, RequestsFinite
    <3>2. IsFiniteSet(Handlers \ {r}) /\ Cardinality(Handlers \ {r}) = Cardinality(Handlers) - 1
      BY <2>2, <3>1, FS_RemoveElement
    <3>3. Cardinality(Handlers \ {r}) \in Nat
      BY <3>2, FS_CardinalityType
    <3> QED
      BY <2>2, <3>1, <3>2, <3>3
  <2>4. active_handlers' = Cardinality(Handlers') /\ active_handlers # 0
    BY <1>2, <2>1, <2>3 DEF IInv, HandlersCounted, OneLess
  <2>5. /\ main \notin {"returned", "closed"} /\ main' \notin {"returned", "closed"} /\ Intact'
        /\ main' = "inline" <=> main = "inline"
    BY <1>2, <2>1, <2>4 DEF IInv, HandlersCounted, Intact
  <2>6. inline' # None => inline' \in Busy'
    BY <1>3, <1>6, <2>1 DEF IInv, HandlersCounted
  <2>7. HandlersCounted'
    BY <1>1, <2>1, <2>4, <2>5, <2>6 DEF IInv, HandlersCounted
  <2> QED
    BY <1>4, <2>7 DEF IInv
<1> QED
  BY <1>5, <1>6

\* A connection is counted in before its thread runs.
LEMMA AcceptKeeps ==
    ASSUME IInv, Accept PROVE IInv'
<1> DEFINE r == accepted + 1
<1>1. r \in Requests /\ r \notin Busy /\ pc[r] = "none" /\ inline = None /\ main = "accept"
  BY RequestsFinite DEF Accept, IInv, HandlersCounted, Requests, Busy
<1>2. /\ pc' \in [Requests -> Places] /\ pc'[r] = "read"
      /\ \A q \in Requests \ {r} : pc'[q] = pc[q]
      /\ accepted' = r /\ UNCHANGED active_generation_slots
  BY <1>1 DEF Accept, Moved, IInv, HandlersCounted, Places
<1>3. accepted' \in 0..MaxRequests /\ \A q \in Requests : q > accepted' => pc'[q] = "none"
  BY <1>1, <1>2, RequestsFinite DEF IInv, HandlersCounted, Requests
<1>4. Busy' = Busy \cup {r}
  BY <1>1, <1>2 DEF Busy
<1>5. CASE active_handlers' = active_handlers + 1 /\ UNCHANGED <<inline, main, faults>>
  <2>1. Handlers' = Handlers \cup {r} /\ r \notin Handlers /\ Handlers \in SUBSET Requests
    BY <1>1, <1>4, <1>5, RequestsFinite DEF Handlers, Busy
  <2>2. Cardinality(Handlers') = Cardinality(Handlers) + 1
    BY <2>1, RequestsFinite, FS_AddElement
  <2>3. HandlersCounted'
    BY <1>1, <1>2, <1>3, <1>5, <2>2 DEF IInv, HandlersCounted, Intact
  <2>4. SlotsCounted'
    BY <1>1, <1>2, <1>5, SameHolders DEF IInv, Holding, InPass, Intact
  <2> QED
    BY <2>3, <2>4 DEF IInv
<1>6. CASE inline' = r /\ main' = "inline" /\ UNCHANGED active_handlers
  <2>1. Handlers' = Handlers
    BY <1>1, <1>4, <1>6, RequestsFinite DEF Handlers, Busy
  <2>2. inline' # None /\ inline' \in Busy'
    BY <1>1, <1>4, <1>6, RequestsFinite
  <2>3. HandlersCounted'
    BY <1>1, <1>2, <1>3, <1>6, <2>1, <2>2 DEF IInv, HandlersCounted, Intact
  <2>4. SlotsCounted'
    BY <1>1, <1>2, <1>6, SameHolders DEF IInv, Holding, InPass, Intact
  <2> QED
    BY <2>3, <2>4 DEF IInv
<1> QED
  BY <1>5, <1>6 DEF Accept

\* A failed accept() leaves no thread whose place is known.
LEMMA AcceptFailsKeeps ==
    ASSUME IInv, AcceptFails PROVE IInv'
<1>1. /\ main = "accept" /\ main' = "failed"
      /\ \A r \in Requests : pc'[r] \in {"none", "gone", "astray", "killed"}
      /\ \A r \in Requests : pc[r] = "none" => pc'[r] = "none"
      /\ pc' \in [Requests -> Places]
      /\ UNCHANGED <<accepted, inline, active_handlers, active_generation_slots>>
  BY DEF AcceptFails, AllTo, Places, Moved, IInv, HandlersCounted
<1>2. HandlersCounted'
  <2>1. inline = None
    BY <1>1 DEF IInv, HandlersCounted
  <2>2. \A r \in Requests : r > accepted => pc'[r] = "none"
    BY <1>1 DEF IInv, HandlersCounted
  <2>3. accepted \in 0..MaxRequests
    BY DEF IInv, HandlersCounted
  <2> QED
    BY <1>1, <2>1, <2>2, <2>3 DEF HandlersCounted, Intact
<1>3. SlotsCounted'
  BY <1>1 DEF IInv, SlotsCounted, Intact
<1> QED
  BY <1>2, <1>3 DEF IInv

\* The ways out: main closes the runtime, the process ends, and a handler left
\* by a failed accept() does something.
Ending == CloseRuntime \/ Exit \/ \E r \in Requests : Stray(r)

LEMMA EndingKeeps ==
    ASSUME IInv, Ending PROVE IInv'
<1>1. /\ UNCHANGED <<accepted, active_handlers, inline, active_generation_slots>>
      /\ main' \in {main, "closed", "closed_in_use", "exited"}
  BY DEF Ending, CloseRuntime, Exit, Stray
<1>2. inline = None /\ main' # "inline"
  BY <1>1 DEF Ending, CloseRuntime, Exit, Stray, IInv, HandlersCounted, Intact
<1>3. CASE CloseRuntime
  <2>1. /\ main' \in {"closed", "closed_in_use"} /\ UNCHANGED pc /\ (Intact' <=> Intact)
        /\ main' = "closed" => main = "returned"
    BY <1>3 DEF CloseRuntime, Intact
  <2>2. Handlers' = Handlers
    BY <1>1, <2>1 DEF Handlers, Busy
  <2>3. HandlersCounted'
    BY <1>1, <1>2, <2>1, <2>2 DEF IInv, HandlersCounted
  <2>4. SlotsCounted'
    BY <1>1, <2>1, SameHolders DEF IInv
  <2> QED
    BY <2>3, <2>4 DEF IInv
<1>4. CASE Exit \/ \E r \in Requests : Stray(r)
  <2>1. ~Intact' /\ main' \notin {"returned", "closed"}
    BY <1>4 DEF Exit, Stray, Intact, IInv, HandlersCounted
  <2>2. /\ \A r \in Requests : pc'[r] \in {"none", "gone", "astray", "killed"}
        /\ \A r \in Requests : pc[r] = "none" => pc'[r] = "none"
        /\ pc' \in [Requests -> Places]
    <3>1. pc \in [Requests -> Places]
      BY DEF IInv, HandlersCounted
    <3>2. CASE pc' = AllTo("killed")
      BY <3>1, <3>2 DEF AllTo, Places
    <3>3. CASE \E r \in Requests : pc[r] = "astray" /\ pc' = Moved(r, "gone") /\ UNCHANGED main
      <4>1. \A r \in Requests : pc[r] \in {"none", "gone", "astray", "killed"}
        BY <2>1, <3>3 DEF Intact, IInv, HandlersCounted
      <4> QED
        BY <3>1, <3>3, <4>1 DEF Moved, Places
    <3> QED
      BY <1>4, <3>2, <3>3 DEF Exit, Stray
  <2>3. HandlersCounted'
    BY <1>1, <1>2, <2>1, <2>2 DEF IInv, HandlersCounted
  <2>4. SlotsCounted'
    BY <1>1, <2>1 DEF IInv, SlotsCounted
  <2> QED
    BY <2>3, <2>4 DEF IInv
<1> QED
  BY <1>3, <1>4 DEF Ending

\* Main's own steps and wakeups.
LEMMA MainKeeps ==
    ASSUME IInv, run_server \/ SpuriousWakeup \/ UNCHANGED vars PROVE IInv'
<1>1. CASE run_server
  <2>1. /\ main \in {"accept", "drain"} /\ main' \in {"drain", "asleep", "returned"}
        /\ main' = "returned" => active_handlers = 0
        /\ UNCHANGED <<accepted, active_handlers, inline, pc, active_generation_slots>>
    BY <1>1 DEF run_server, CloseListener, AwaitHandlers
  <2>2. Busy' = Busy /\ Handlers' = Handlers
    BY <2>1 DEF Busy, Handlers
  <2>3. HandlersCounted'
    BY <2>1, <2>2 DEF IInv, HandlersCounted, Intact
  <2>4. SlotsCounted'
    BY <2>1, SameHolders DEF IInv, Intact
  <2> QED
    BY <2>3, <2>4 DEF IInv
<1>2. CASE SpuriousWakeup
  <2>1. CASE \E r \in Requests : pc[r] = "asleep" /\ pc' = Moved(r, "acquire") /\ UNCHANGED main
    <3>1. PICK r \in Requests : pc[r] = "asleep" /\ pc' = [pc EXCEPT ![r] = "acquire"] /\ UNCHANGED main
      BY <2>1 DEF Moved
    <3> QED
      BY <1>2, <3>1, MoveKeeps DEF SpuriousWakeup, listener, Places, Holding, InPass
  <2>2. CASE main = "asleep" /\ main' = "drain" /\ UNCHANGED pc
    <3>1. UNCHANGED <<accepted, active_handlers, inline, active_generation_slots>>
      BY <1>2 DEF SpuriousWakeup
    <3>2. HandlersCounted'
      BY <2>2, <3>1, SameHandlers DEF IInv, HandlersCounted
    <3>3. SlotsCounted'
      BY <2>2, <3>1, SameHolders DEF IInv, Intact
    <3> QED
      BY <3>2, <3>3 DEF IInv
  <2> QED
    BY <1>2, <2>1, <2>2 DEF SpuriousWakeup
<1>3. CASE UNCHANGED vars
  <2>1. HandlersCounted'
    BY <1>3, SameHandlers DEF IInv, HandlersCounted, vars, listener
  <2>2. SlotsCounted'
    BY <1>3, SameHolders DEF IInv, vars, listener, Intact
  <2> QED
    BY <2>1, <2>2 DEF IInv
<1> QED
  BY <1>1, <1>2, <1>3

LEMMA Inductive == IInv /\ [Next]_vars => IInv'
BY HandleKeeps, LeaveKeeps, AcceptKeeps, AcceptFailsKeeps, EndingKeeps, MainKeeps
DEF Next, request_worker_main, Ending, Ended

\* The two counters are exact for as long as accept() has not failed.
LEMMA Counted == Spec => []IInv
BY Initially, Inductive, PTL DEF Spec

-----------------------------------------------------------------------------
\* After the last request run_server returns, and main closes the MTP service
\* and the replay runtime, only when every accepted connection has been closed
\* (tools/replay.c, the wait for active_handlers before the locks are destroyed).
\* It says nothing of the return after a failed accept(), which waits for nobody.
THEOREM ReturnsWhenAllHaveLeft == Spec => []OrderlyExit
<1>1. IInv => OrderlyExit
  <2> SUFFICES ASSUME IInv, main \in {"returned", "closed"} PROVE Busy = {}
    BY DEF OrderlyExit, Busy
  <2>1. Cardinality(Handlers) = 0 /\ inline = None
    BY DEF IInv, HandlersCounted, Intact
  <2>2. Handlers \in SUBSET Requests /\ Busy = Handlers
    BY <2>1, RequestsFinite DEF Handlers, Busy
  <2> QED
    BY <2>1, <2>2, RequestsFinite, FS_EmptySet
<1> QED
  BY <1>1, Counted, PTL

\* At most Cap requests hold a generation slot at once, and the counter that
\* acquire_generation_slot tests is their number: no slot leaks on any of the
\* ways out of handle_http_request.
THEOREM SlotsAreCounted == Spec => []SlotsCounted
BY Counted, PTL DEF IInv

-----------------------------------------------------------------------------
\* Numbering and lists.
LEMMA Interval ==
    ASSUME NEW n \in Nat
    PROVE  IsFiniteSet(1..n) /\ Cardinality(1..n) = n
BY FS_Interval

LEMMA OneToOne ==
    ASSUME NEW P, IsFiniteSet(P), NEW f \in [P -> 1..Cardinality(P)],
           \A i, j \in P : f[i] = f[j] => i = j
    PROVE  \A k \in 1..Cardinality(P) : \E i \in P : f[i] = k
<1> DEFINE T == 1..Cardinality(P)
<1>1. Cardinality(P) \in Nat
  BY FS_CardinalityType
<1>2. IsFiniteSet(T) /\ Cardinality(T) = Cardinality(P)
  <2>1. IsFiniteSet(1..Cardinality(P)) /\ Cardinality(1..Cardinality(P)) = IF 1 > Cardinality(P) THEN 0 ELSE Cardinality(P) - 1 + 1
    BY <1>1, FS_Interval
  <2> QED
    BY <1>1, <2>1
<1> HIDE DEF T
<1>3. f \in Injection(P, T)
  BY DEF Injection, IsInjective, T
<1>4. f \in Surjection(P, T)
  BY <1>2, <1>3, FS_Injection
<1> QED
  BY <1>4 DEF Surjection, T

\* The rank of a place among the places P of a list: a numbering of P.
LEMMA Ranks ==
    ASSUME NEW n \in Nat, NEW P \in SUBSET (1..n)
    PROVE  /\ IsFiniteSet(P) /\ Cardinality(P) \in 0..n
           /\ \A k \in 1..Cardinality(P) : \E i \in P : Cardinality({j \in P : j <= i}) = k
           /\ \A i \in P : Cardinality({j \in P : j <= i}) \in 1..Cardinality(P)
           /\ \A i, p \in P : Cardinality({j \in P : j <= i}) = Cardinality({j \in P : j <= p}) => i = p
<1> DEFINE Upto(i) == {j \in P : j <= i}
           f == [i \in P |-> Cardinality(Upto(i))]
<1>1. IsFiniteSet(P) /\ Cardinality(P) \in 0..n
  <2>1. IsFiniteSet(1..n) /\ Cardinality(1..n) = n
    BY FS_Interval
  <2> QED
    <3>1. IsFiniteSet(P) /\ Cardinality(P) <= Cardinality(1..n)
      BY <2>1, FS_Subset
    <3>2. Cardinality(P) \in Nat
      BY <3>1, FS_CardinalityType
    <3> QED
      BY <2>1, <3>1, <3>2
<1>i. \A i \in P : i \in Int
  OBVIOUS
<1>2. \A i \in P : IsFiniteSet(Upto(i)) /\ Cardinality(Upto(i)) \in Nat /\ Cardinality(Upto(i)) <= Cardinality(P)
  BY <1>1, FS_Subset, FS_CardinalityType
<1>3. ASSUME NEW i \in P, NEW j \in P, i < j PROVE Cardinality(Upto(i)) < Cardinality(Upto(j))
  <2>1. j \notin Upto(i) /\ Upto(i) \cup {j} \subseteq Upto(j)
    <3>1. i \in Int /\ j \in Int /\ ~(j <= i) /\ j <= j
      BY <1>3, <1>i
    <3>2. \A x \in P : x <= i => x <= j
      BY <1>3, <1>i, <3>1
    <3> QED
      BY <3>1, <3>2
  <2>2. Cardinality(Upto(i) \cup {j}) = Cardinality(Upto(i)) + 1
    <3> HIDE DEF Upto
    <3> QED
      BY <1>2, <2>1, FS_AddElement
  <2>3. Cardinality(Upto(i) \cup {j}) <= Cardinality(Upto(j))
    <3> HIDE DEF Upto
    <3> QED
      BY <1>2, <2>1, FS_Subset
  <2> QED
    BY <1>2, <2>2, <2>3
<1>4. \A i \in P : Cardinality(Upto(i)) \in 1..Cardinality(P)
  <2>1. ASSUME NEW i \in P PROVE Cardinality(Upto(i)) >= 1
    <3>1. {i} \subseteq Upto(i)
      BY <2>1, <1>i
    <3>2. Cardinality({i}) = 1
      BY FS_Singleton
    <3>3. Cardinality({i}) <= Cardinality(Upto(i))
      <4> HIDE DEF Upto
      <4> QED
        BY <1>2, <3>1, FS_Subset
    <3> QED
      BY <1>2, <3>2, <3>3
  <2> QED
    BY <1>1, <1>2, <2>1
<1>5. f \in [P -> 1..Cardinality(P)]
  BY <1>4
<1>6. \A i, j \in P : f[i] = f[j] => i = j
  <2> SUFFICES ASSUME NEW i \in P, NEW j \in P, i # j PROVE f[i] # f[j]
    OBVIOUS
  <2>1. i < j \/ j < i
    BY <1>i
  <2> QED
    BY <1>2, <1>3, <2>1
<1>7. \A k \in 1..Cardinality(P) : \E i \in P : f[i] = k
  <2> HIDE DEF f
  <2> QED
    BY <1>1, <1>5, <1>6, OneToOne
<1> QED
  BY <1>1, <1>4, <1>6, <1>7

\* What Among returns.
Lists(a, list, S) ==
    /\ a \in Seq(Requests) /\ Len(a) <= Len(list)
    /\ ToSet(a) = ToSet(list) \cap S
    /\ IsInjective(list) => IsInjective(a)

LEMMA AmongLists ==
    ASSUME NEW list \in Seq(Requests), NEW S
    PROVE  Lists(Among(list, S), list, S)
<1> DEFINE P == {i \in DOMAIN list : list[i] \in S}
           Place(k) == CHOOSE i \in P : Cardinality({j \in P : j <= i}) = k
           a == [k \in 1..Cardinality(P) |-> list[Place(k)]]
<1>1. Len(list) \in Nat /\ DOMAIN list = 1..Len(list) /\ P \in SUBSET (1..Len(list))
      /\ \A i \in DOMAIN list : list[i] \in Requests
  OBVIOUS
<1>2. Among(list, S) = a
  BY DEF Among
<1> HIDE DEF P
<1>3. /\ IsFiniteSet(P) /\ Cardinality(P) \in 0..Len(list)
      /\ \A k \in 1..Cardinality(P) : \E i \in P : Cardinality({j \in P : j <= i}) = k
      /\ \A i \in P : Cardinality({j \in P : j <= i}) \in 1..Cardinality(P)
      /\ \A i, p \in P : Cardinality({j \in P : j <= i}) = Cardinality({j \in P : j <= p}) => i = p
  BY <1>1, Ranks
<1>4. \A k \in 1..Cardinality(P) : Place(k) \in P /\ Cardinality({j \in P : j <= Place(k)}) = k
  BY <1>3
<1> HIDE DEF Place
<1>5. \A i \in P : \E k \in 1..Cardinality(P) : Place(k) = i
  BY <1>3, <1>4
<1>6. \A k, l \in 1..Cardinality(P) : Place(k) = Place(l) => k = l
  BY <1>4
<1>7. \A k \in 1..Cardinality(P) : Place(k) \in DOMAIN list /\ list[Place(k)] \in S
  BY <1>4 DEF P
<1>8. a \in Seq(Requests) /\ Len(a) = Cardinality(P) /\ DOMAIN a = 1..Cardinality(P)
  BY <1>1, <1>3, <1>7
<1>9. ToSet(a) = ToSet(list) \cap S
  <2>1. ASSUME NEW x \in ToSet(a) PROVE x \in ToSet(list) \cap S
    BY <1>7, <1>8, <2>1 DEF ToSet
  <2>2. ASSUME NEW x \in ToSet(list) \cap S PROVE x \in ToSet(a)
    <3>1. PICK i \in P : list[i] = x
      BY <2>2 DEF ToSet, P
    <3>2. PICK k \in 1..Cardinality(P) : Place(k) = i
      BY <1>5
    <3> QED
      BY <1>8, <3>1, <3>2 DEF ToSet
  <2> QED
    BY <2>1, <2>2
<1>10. ASSUME IsInjective(list) PROVE IsInjective(a)
  BY <1>6, <1>7, <1>8, <1>10 DEF IsInjective
<1>11. Len(a) <= Len(list)
  BY <1>1, <1>3, <1>8
<1> QED
  BY <1>2, <1>8, <1>9, <1>10, <1>11 DEF Lists

\* A list without repetitions is as long as its set of elements is large.
LEMMA ListLength ==
    ASSUME NEW list \in Seq(Requests), IsInjective(list)
    PROVE  Len(list) = Cardinality(ToSet(list))
<1>1. Len(list) \in Nat /\ DOMAIN list = 1..Len(list)
  OBVIOUS
<1>2. IsFiniteSet(1..Len(list)) /\ Cardinality(1..Len(list)) = Len(list)
  BY <1>1, FS_Interval
<1>3. list \in Bijection(1..Len(list), ToSet(list))
  BY <1>1 DEF Bijection, Injection, Surjection, IsInjective, ToSet
<1>4. ExistsBijection(1..Len(list), ToSet(list))
  BY <1>3 DEF ExistsBijection
<1>5. Cardinality(ToSet(list)) = Cardinality(1..Len(list))
  BY <1>2, <1>4, FS_Bijection
<1> QED
  BY <1>2, <1>5

\* replay_sort_batch_plan numbers the prompts of a group, and since longer
\* prompts come first, each of them is fed as far as it goes.
LEMMA PlanFeedsAll ==
    ASSUME NEW g \in Seq(Requests), NEW m \in DOMAIN g,
           \A r \in Requests : shape[r].len \in Nat \ {0}
    PROVE  /\ SlotOf(g, m) \in 1..Len(g)
           /\ PlanAt(g, SlotOf(g, m)) = g[m]
           /\ Fed(g, SlotOf(g, m)) = shape[g[m]].len
<1> DEFINE L(i) == shape[g[i]].len
           D == 1..Len(g)
           Before(j, i) == L(j) > L(i) \/ (L(j) = L(i) /\ j < i)
           Ahead(i) == {j \in D : Before(j, i)}
<1>1. Len(g) \in Nat /\ DOMAIN g = D /\ m \in D /\ \A i \in D : L(i) \in Nat \ {0} /\ i \in Int
  OBVIOUS
<1>2. IsFiniteSet(D) /\ Cardinality(D) = Len(g)
  BY <1>1, Interval
<1>3. \A i \in D : SlotOf(g, i) = 1 + Cardinality(Ahead(i))
  BY <1>1 DEF SlotOf
<1> HIDE DEF L, D
<1>4. \A i \in D : IsFiniteSet(Ahead(i)) /\ Cardinality(Ahead(i)) \in Nat
  <2>1. \A i \in D : Ahead(i) \in SUBSET D
    OBVIOUS
  <2> HIDE DEF Ahead
  <2> QED
    BY <1>2, <2>1, FS_Subset, FS_CardinalityType
<1>5. ASSUME NEW i \in D, NEW j \in D, Before(j, i) PROVE SlotOf(g, j) < SlotOf(g, i)
  <2>1. j \notin Ahead(j) /\ j \in Ahead(i)
    BY <1>1, <1>5
  <2>2. ASSUME NEW x \in D, Before(x, j) PROVE Before(x, i)
    BY <1>1, <1>5, <2>2
  <2>3. Ahead(j) \cup {j} \in SUBSET Ahead(i)
    BY <2>1, <2>2
  <2> HIDE DEF Ahead
  <2>4. Cardinality(Ahead(j) \cup {j}) = Cardinality(Ahead(j)) + 1
    BY <1>4, <2>1, FS_AddElement
  <2>5. Cardinality(Ahead(j) \cup {j}) <= Cardinality(Ahead(i))
    BY <1>4, <2>3, FS_Subset
  <2> QED
    BY <1>3, <1>4, <2>4, <2>5
<1>6. ASSUME NEW i \in D PROVE SlotOf(g, i) \in 1..Len(g)
  <2>1. i \notin Ahead(i) /\ Ahead(i) \cup {i} \in SUBSET D
    BY <1>1
  <2> HIDE DEF Ahead
  <2>2. Cardinality(Ahead(i) \cup {i}) = Cardinality(Ahead(i)) + 1
    BY <1>4, <2>1, FS_AddElement
  <2>3. Cardinality(Ahead(i) \cup {i}) <= Cardinality(D)
    BY <1>2, <2>1, FS_Subset
  <2> QED
    BY <1>1, <1>2, <1>3, <1>4, <2>2, <2>3
<1>7. ASSUME NEW i \in D, NEW j \in D, i # j PROVE SlotOf(g, i) # SlotOf(g, j)
  <2>1. Before(i, j) \/ Before(j, i)
    BY <1>1, <1>7
  <2>2. SlotOf(g, i) < SlotOf(g, j) \/ SlotOf(g, j) < SlotOf(g, i)
    BY <1>5, <2>1
  <2> QED
    BY <1>6, <2>2
<1>8. \A k \in 1..Len(g) : \E i \in D : SlotOf(g, i) = k
  <2> DEFINE f == [i \in D |-> SlotOf(g, i)]
  <2>1. f \in [D -> 1..Cardinality(D)] /\ \A i, j \in D : f[i] = f[j] => i = j
    BY <1>2, <1>6, <1>7
  <2>2. \A i \in D : f[i] = SlotOf(g, i)
    OBVIOUS
  <2> HIDE DEF f
  <2>3. \A k \in 1..Cardinality(D) : \E i \in D : f[i] = k
    BY <1>2, <2>1, OneToOne
  <2> QED
    BY <1>2, <2>2, <2>3
<1> DEFINE p(k) == CHOOSE i \in D : SlotOf(g, i) = k
<1>9. \A k \in 1..Len(g) : p(k) \in D /\ SlotOf(g, p(k)) = k /\ PlanAt(g, k) = g[p(k)]
  BY <1>1, <1>8 DEF PlanAt
<1> HIDE DEF p
<1>10. PICK s : s = SlotOf(g, m)
  OBVIOUS
<1>11. s \in 1..Len(g) /\ s \in Nat /\ p(s) = m
  BY <1>1, <1>6, <1>7, <1>9, <1>10
<1>12. ASSUME NEW t \in 1..s PROVE L(p(t)) >= L(m)
  <2>1. t \in 1..Len(g)
    BY <1>1, <1>11
  <2>2. p(t) \in D /\ SlotOf(g, p(t)) = t
    BY <1>9, <2>1
  <2>3. ~Before(m, p(t))
    <3>1. ~(s < t)
      BY <1>11
    <3> QED
      BY <1>1, <1>5, <1>10, <2>2, <3>1
  <2> QED
    BY <1>1, <2>2, <2>3
<1>13. {pos \in 0..(L(m) - 1) : \A t \in 1..s : L(p(t)) > pos} = 0..(L(m) - 1)
  <2>1. ASSUME NEW pos \in 0..(L(m) - 1), NEW t \in 1..s PROVE L(p(t)) > pos
    <3>1. t \in 1..Len(g)
      BY <1>1, <1>11
    <3>2. L(p(t)) \in Nat /\ L(m) \in Nat /\ L(p(t)) >= L(m)
      BY <1>1, <1>9, <1>12, <3>1
    <3> QED
      BY <3>2
  <2> QED
    BY <2>1
<1>14. Cardinality(0..(L(m) - 1)) = L(m)
  <2>1. PICK l \in Nat \ {0} : l = L(m)
    BY <1>1
  <2>2. Cardinality(0..(l - 1)) = l
    BY FS_Interval
  <2> QED
    BY <2>1, <2>2
<1>15. Fed(g, s) = Cardinality({pos \in 0..(L(m) - 1) : \A t \in 1..s : L(p(t)) > pos})
  <2>1. PlanAt(g, s) = g[m]
    BY <1>9, <1>11
  <2>2. \A t \in 1..s : shape[PlanAt(g, t)].len = L(p(t))
    <3>1. \A t \in 1..s : t \in 1..Len(g)
      BY <1>1, <1>11
    <3> QED
      BY <1>9, <3>1 DEF L
  <2>3. shape[PlanAt(g, s)].len = L(m)
    BY <2>1 DEF L
  <2> QED
    BY <2>2, <2>3 DEF Fed
<1> QED
  BY <1>9, <1>10, <1>11, <1>13, <1>14, <1>15 DEF L

-----------------------------------------------------------------------------
(***************************************************************************)
(* The invariant of the two passes.  Typed: the rest of the types.  While  *)
(* accept() has not failed: the list holds, once each, the requests of the *)
(* threads in a pass that are not done (Listed); generation_mu belongs to  *)
(* the thread between gather and unlock (Mutex); the groups that are left  *)
(* to run are disjoint parts of the list (Groups); the holder's own record *)
(* is done or in a group that is left, and the group it has just run has   *)
(* the outputs of its own prompts (Turn); a request that is done was given *)
(* its own outputs or a failure, and only a thread on its way out has      *)
(* answered (Finished).                                                    *)
(***************************************************************************)
Critical == {"gather", "reset", "generate", "mark", "unlock"}
Working  == {"reset", "generate", "mark"}

\* The tokens of a request were selected after its own prompt, whole.
Own(q) == out[q] = [req |-> q, fed |-> shape[q].len]

InWork(q) == \E i \in 1..Len(work) : q \in ToSet(work[i])

Typed ==
    /\ [queue_policy |-> queue_policy, mtp |-> mtp] \in Options
    /\ main \in {"accept", "inline", "drain", "asleep", "returned", "closed",
                 "failed", "closed_in_use", "exited"}
    /\ active_handlers \in 0..MaxRequests /\ inline \in Requests \cup {None}
    /\ shape = [r \in Requests |-> shape[r]] /\ \A r \in Requests : shape[r] \in Shapes[r] \cup {NoShape}
    /\ pending \in Seq(Requests) /\ work \in Seq(Seq(Requests))
    /\ done \in [Requests -> BOOLEAN] /\ ready \in [Requests -> BOOLEAN]
    /\ rc \in [Requests -> {0, 1}] /\ pass = All(0)
    /\ generation_mu \in Requests \cup {None} /\ failed \in BOOLEAN /\ used \in BOOLEAN
    /\ out = [r \in Requests |-> out[r]] /\ reply = [r \in Requests |-> reply[r]]
    /\ faults \in 0..MaxFaults

Listed ==
    /\ IsInjective(pending)
    /\ \A r \in Requests : r \in ToSet(pending) <=> pc[r] \in InPass /\ ~done[r]

Mutex == \A r \in Requests : pc[r] \in Critical <=> generation_mu = r

Groups ==
    /\ \A i \in 1..Len(work) :
          Len(work[i]) \in 1..Cap /\ IsInjective(work[i]) /\ ToSet(work[i]) \subseteq ToSet(pending)
    /\ \A i, j \in 1..Len(work) : i # j => ToSet(work[i]) \cap ToSet(work[j]) = {}
    /\ (\A r \in Requests : pc[r] \notin Working) => work = <<>>

Turn(r) ==
    /\ pc[r] = "gather" => ~done[r]
    /\ pc[r] \in Working => work # <<>> /\ (done[r] \/ InWork(r))
    /\ pc[r] = "unlock" => done[r]
    /\ pc[r] = "generate" => ~used /\ ~failed
    /\ pc[r] = "mark" /\ ~failed => \A q \in ToSet(work[1]) : Own(q)

Finished(r) ==
    /\ done[r] => pc[r] \in InPass \cup {"answer", "verify", "leave"}
    /\ pc[r] \in {"answer", "verify"} => done[r]
    /\ done[r] /\ rc[r] = 0 => Own(r)
    /\ pc[r] = "verify" => rc[r] = 0
    /\ pc[r] = "leave" <=> reply[r] # "none"

Passing ==
    /\ Listed /\ Mutex /\ Groups
    /\ \A r \in Requests : Turn(r) /\ Finished(r)

AnsweredOwn == \A r \in Requests : reply[r] = "ok" => Own(r)

QInv ==
    /\ IInv /\ Typed /\ AnsweredOwn
    /\ Intact => Passing

\* The members of a group are waiting for it.
LEMMA GroupMembers ==
    ASSUME Typed, Passing, NEW i \in 1..Len(work)
    PROVE  /\ work[i] \in Seq(Requests) /\ ToSet(work[i]) \subseteq Requests
           /\ \A q \in ToSet(work[i]) : pc[q] \in InPass /\ ~done[q] /\ q \in ToSet(pending)
<1>1. work[i] \in Seq(Requests)
  BY DEF Typed
<1>2. ToSet(work[i]) \subseteq Requests
  BY <1>1 DEF ToSet
<1> QED
  BY <1>1, <1>2 DEF Passing, Groups, Listed

LEMMA FirstGroup ==
    ASSUME Typed, work # <<>>
    PROVE  Len(work) \in Nat /\ Len(work) >= 1 /\ 1 \in 1..Len(work) /\ Head(work) = work[1]
BY DEF Typed

\* A step of threads outside the two passes.
LEMMA OutsideKeeps ==
    ASSUME Typed, Passing, UNCHANGED <<pending, generation_mu, work, failed, used>>,
           \A q \in Requests : pc'[q] = pc[q] \/ {pc[q], pc'[q]} \cap InPass = {},
           \A q \in Requests : pc[q] \in InPass => done'[q] = done[q] /\ Own(q)' = Own(q),
           \A q \in Requests : Finished(q)'
    PROVE  Passing'
<1>1. \A q \in Requests : /\ pc'[q] \in InPass <=> pc[q] \in InPass
                          /\ pc[q] \in InPass => pc'[q] = pc[q]
  OBVIOUS
<1>2. Critical \subseteq InPass /\ Working \subseteq InPass
  BY DEF Critical, Working, InPass
<1>3. Listed'
  BY <1>1 DEF Passing, Listed
<1>4. Mutex'
  BY <1>1, <1>2 DEF Passing, Mutex
<1>5. Groups'
  <2>1. (\A r \in Requests : pc'[r] \notin Working) => work' = <<>>
    BY <1>1, <1>2 DEF Passing, Groups
  <2> QED
    BY <2>1 DEF Passing, Groups
<1>6. ASSUME NEW r \in Requests PROVE Turn(r)'
  <2>1. CASE pc'[r] \in InPass
    <3>1. pc'[r] = pc[r] /\ done'[r] = done[r]
      BY <1>1, <2>1
    <3>2. InWork(r)' = InWork(r)
      BY DEF InWork
    <3>3. ASSUME pc[r] = "mark", ~failed PROVE \A q \in ToSet(work[1]) : Own(q)'
      <4>1. work # <<>> /\ \A q \in ToSet(work[1]) : Own(q)
        BY <3>3 DEF Passing, Turn, Working
      <4>2. \A q \in ToSet(work[1]) : q \in Requests /\ pc[q] \in InPass
        BY <4>1, FirstGroup, GroupMembers
      <4> QED
        BY <4>1, <4>2
    <3> QED
      BY <3>1, <3>2, <3>3 DEF Passing, Turn
  <2>2. CASE pc'[r] \notin InPass
    BY <2>2 DEF Turn, Working, InPass
  <2> QED
    BY <2>1, <2>2
<1> QED
  BY <1>3, <1>4, <1>5, <1>6 DEF Passing

\* A thread that is not waiting for a group may change its own record.
LEMMA OneOutside ==
    ASSUME Typed, Passing, IInv, NEW r \in Requests, NEW p, pc[r] \notin InPass, p \notin InPass,
           \/ pc' = Moved(r, p)
           \/ \E q \in Requests \ {r} : pc[q] = "asleep" /\ pc' = [pc EXCEPT ![r] = p, ![q] = "acquire"],
           UNCHANGED <<pending, generation_mu, work, failed, used>>,
           \A q \in Requests \ {r} : /\ done'[q] = done[q] /\ rc'[q] = rc[q] /\ reply'[q] = reply[q]
                                     /\ out'[q] = out[q] /\ shape'[q] = shape[q],
           Finished(r)'
    PROVE  Passing'
<1>1. pc \in [Requests -> Places]
  BY DEF IInv, HandlersCounted
<1>2. /\ pc'[r] = p
      /\ \A q \in Requests \ {r} : pc'[q] = pc[q] \/ (pc[q] = "asleep" /\ pc'[q] = "acquire")
  <2>1. CASE pc' = Moved(r, p)
    BY <1>1, <2>1 DEF Moved
  <2>2. CASE \E q \in Requests \ {r} : pc[q] = "asleep" /\ pc' = [pc EXCEPT ![r] = p, ![q] = "acquire"]
    BY <1>1, <2>2
  <2> QED
    BY <2>1, <2>2
<1>3. \A q \in Requests : pc'[q] = pc[q] \/ {pc[q], pc'[q]} \cap InPass = {}
  BY <1>2 DEF InPass
<1>4. \A q \in Requests : pc[q] \in InPass => done'[q] = done[q] /\ Own(q)' = Own(q)
  BY DEF Own
<1>5. ASSUME NEW q \in Requests PROVE Finished(q)'
  <2>1. CASE q = r
    BY <2>1
  <2>2. CASE q # r
    <3>1. Finished(q) /\ Own(q)' = Own(q)
      BY <2>2 DEF Passing, Own
    <3>2. done'[q] = done[q] /\ rc'[q] = rc[q] /\ reply'[q] = reply[q]
      BY <2>2
    <3>3. CASE pc'[q] = pc[q]
      BY <3>1, <3>2, <3>3 DEF Finished
    <3>4. CASE pc[q] = "asleep" /\ pc'[q] = "acquire"
      BY <3>1, <3>2, <3>4 DEF Finished, InPass
    <3> QED
      BY <1>2, <2>2, <3>3, <3>4
  <2> QED
    BY <2>1, <2>2
<1> QED
  BY <1>3, <1>4, <1>5, OutsideKeeps

\* A thread that answers, with a slot to give back or without.
LEMMA AnswerKeeps ==
    ASSUME QInv, NEW r \in Requests, NEW answer, answer # "none",
           pc[r] \in {"read", "acquire", "admitted", "answer", "verify"},
           answer = "ok" => Own(r),
           reply' = [reply EXCEPT ![r] = answer],
           pc' = Moved(r, "leave") \/ release_generation_slot(r),
           UNCHANGED <<main, shape, pending, done, rc, generation_mu, work, failed, used, out>>
    PROVE  Passing' /\ AnsweredOwn'
<1>1. Typed /\ IInv /\ Intact
  BY DEF QInv, IInv, HandlersCounted
<1>2. Passing
  BY <1>1 DEF QInv
<1>3. reply'[r] = answer /\ \A q \in Requests \ {r} : reply'[q] = reply[q]
  BY <1>1 DEF Typed
<1>4. pc \in [Requests -> Places]
  BY <1>1 DEF IInv, HandlersCounted
<1>5. \/ pc' = Moved(r, "leave")
      \/ \E q \in Requests \ {r} : pc[q] = "asleep" /\ pc' = [pc EXCEPT ![r] = "leave", ![q] = "acquire"]
  BY DEF release_generation_slot
<1>6. pc'[r] = "leave"
  BY <1>4, <1>5 DEF Moved
<1>7. Own(r)' = Own(r) /\ \A q \in Requests : Own(q)' = Own(q)
  BY DEF Own
<1>8. Finished(r)'
  <2>1. Finished(r)
    BY <1>2 DEF Passing
  <2> QED
    BY <1>3, <1>6, <1>7, <2>1 DEF Finished
<1>9. Passing'
  <2>1. pc[r] \notin InPass /\ "leave" \notin InPass
    BY DEF InPass
  <2> QED
    BY <1>1, <1>2, <1>3, <1>5, <1>8, <2>1, OneOutside
<1>10. AnsweredOwn'
  BY <1>3, <1>7 DEF QInv, AnsweredOwn
<1> QED
  BY <1>9, <1>10

\* What holds wherever a thread is between accept and the close.
LEMMA Going ==
    ASSUME QInv, NEW r \in Requests, pc[r] \notin {"none", "gone", "astray", "killed"}
    PROVE  /\ Typed /\ IInv /\ AnsweredOwn /\ Intact /\ Passing
           /\ pc \in [Requests -> Places]
BY DEF QInv, IInv, HandlersCounted

LEMMA SameTurn ==
    ASSUME NEW q, UNCHANGED <<work, failed, used, out, shape>>, pc'[q] = pc[q], done'[q] = done[q], Turn(q)
    PROVE  Turn(q)'
BY DEF Turn, InWork, Own

LEMMA SameFinished ==
    ASSUME NEW q, Finished(q), pc'[q] = pc[q], done'[q] = done[q], rc'[q] = rc[q],
           reply'[q] = reply[q], out'[q] = out[q], shape'[q] = shape[q]
    PROVE  Finished(q)'
BY DEF Finished, Own

LEMMA OneHolder ==
    ASSUME Mutex, NEW r \in Requests, NEW q \in Requests, pc[r] \in Critical, q # r
    PROVE  pc[q] \notin Critical
BY DEF Mutex

LEMMA PlacesApart ==
    /\ Critical \subseteq InPass /\ Working \subseteq Critical
    /\ \A p \in {"lock", "answer", "verify", "leave", "admitted"} : p \notin Critical
    /\ "lock" \in InPass /\ \A p \in {"answer", "verify", "leave", "admitted"} : p \notin InPass
    /\ "gather" \notin Working /\ "unlock" \notin Working
    /\ {"gather", "reset", "generate", "mark", "unlock"} = Critical
    /\ {"reset", "generate", "mark"} = Working
BY DEF Critical, Working, InPass

LEMMA AppendOne ==
    ASSUME NEW list \in Seq(Requests), NEW r \in Requests, r \notin ToSet(list), IsInjective(list)
    PROVE  /\ Append(list, r) \in Seq(Requests) /\ IsInjective(Append(list, r))
           /\ ToSet(Append(list, r)) = ToSet(list) \cup {r}
<1>1. PICK a : a = Append(list, r)
  OBVIOUS
<1>2. /\ a \in Seq(Requests) /\ Len(a) = Len(list) + 1 /\ Len(list) \in Nat
      /\ DOMAIN a = 1..(Len(list) + 1) /\ DOMAIN list = 1..Len(list)
      /\ a[Len(list) + 1] = r /\ \A i \in 1..Len(list) : a[i] = list[i]
  BY <1>1
<1>3. \A i \in DOMAIN a : i \in 1..Len(list) \/ i = Len(list) + 1
  BY <1>2
<1>4. Len(list) + 1 \in DOMAIN a /\ \A i \in 1..Len(list) : i \in DOMAIN a /\ i # Len(list) + 1
  BY <1>2
<1>5. ToSet(a) = ToSet(list) \cup {r}
  <2>1. \A x \in ToSet(a) : x \in ToSet(list) \cup {r}
    BY <1>2, <1>3 DEF ToSet
  <2>2. \A x \in ToSet(list) \cup {r} : x \in ToSet(a)
    BY <1>2, <1>4 DEF ToSet
  <2> QED
    BY <2>1, <2>2
<1>6. \A i \in 1..Len(list) : list[i] # r
  BY <1>2 DEF ToSet
<1>7. IsInjective(a)
  <2> SUFFICES ASSUME NEW i \in DOMAIN a, NEW j \in DOMAIN a, a[i] = a[j] PROVE i = j
    BY DEF IsInjective
  <2> QED
    BY <1>2, <1>3, <1>6 DEF IsInjective
<1> QED
  BY <1>1, <1>2, <1>5, <1>7

\* A request enters the list once, with its record blank.
LEMMA EnqueueKeeps ==
    ASSUME QInv, NEW r \in Requests, pending_enqueue(r)
    PROVE  Passing' /\ AnsweredOwn'
<1>1. /\ pc[r] = "admitted" /\ pc' = Moved(r, "lock") /\ pending' = Append(pending, r)
      /\ UNCHANGED <<done, rc, generation_mu, work, failed, used, out, reply, shape>>
  BY DEF pending_enqueue, records, holder, runtime, history
<1>2. /\ Typed /\ IInv /\ AnsweredOwn /\ Intact /\ Passing
      /\ pc \in [Requests -> Places]
  BY <1>1, Going
<1>3. pc'[r] = "lock" /\ \A q \in Requests \ {r} : pc'[q] = pc[q]
  BY <1>1, <1>2 DEF Moved
<1>4. r \notin ToSet(pending) /\ ~done[r] /\ IsInjective(pending) /\ pending \in Seq(Requests)
  BY <1>1, <1>2, PlacesApart DEF Passing, Listed, Finished, Typed
<1>5. IsInjective(pending') /\ ToSet(pending') = ToSet(pending) \cup {r}
  BY <1>1, <1>4, AppendOne
<1>6. Listed'
  BY <1>1, <1>2, <1>3, <1>4, <1>5, PlacesApart DEF Passing, Listed
<1>7. Mutex'
  BY <1>1, <1>2, <1>3, PlacesApart DEF Passing, Mutex
<1>8. Groups'
  <2>1. \A q \in Requests : pc'[q] \in Working <=> pc[q] \in Working
    BY <1>1, <1>3 DEF Working
  <2> QED
    BY <1>1, <1>2, <1>5, <2>1 DEF Passing, Groups
<1>9. ASSUME NEW q \in Requests PROVE Turn(q)' /\ Finished(q)'
  <2>1. CASE q = r
    <3>1. Turn(q)'
      BY <1>3, <2>1, PlacesApart DEF Turn, Working
    <3>2. Finished(r)
      BY <1>2 DEF Passing
    <3>3. Own(r)' = Own(r)
      BY <1>1 DEF Own
    <3> QED
      BY <1>1, <1>3, <2>1, <3>1, <3>2, <3>3, PlacesApart DEF Finished
  <2>2. CASE q # r
    BY <1>1, <1>2, <1>3, <2>2, SameTurn, SameFinished DEF Passing
  <2> QED
    BY <2>1, <2>2
<1>10. AnsweredOwn'
  BY <1>1, <1>2 DEF AnsweredOwn, Own
<1> QED
  BY <1>6, <1>7, <1>8, <1>9, <1>10 DEF Passing

\* The lock is taken by one thread; the record of one that was done is
\* answered.
LEMMA LockKeeps ==
    ASSUME QInv, NEW r \in Requests, LockGeneration(r)
    PROVE  Passing' /\ AnsweredOwn'
<1>1. /\ pc[r] = "lock" /\ generation_mu = None
      /\ UNCHANGED <<done, rc, pending, work, failed, used, out, reply, shape>>
  BY DEF LockGeneration, records, runtime, history
<1>2. /\ Typed /\ IInv /\ AnsweredOwn /\ Intact /\ Passing
      /\ pc \in [Requests -> Places]
  BY <1>1, Going
<1>3. PICK p : pc' = Moved(r, p) /\ \/ done[r] /\ p = "answer" /\ generation_mu' = generation_mu
                                    \/ ~done[r] /\ p = "gather" /\ generation_mu' = r
  BY DEF LockGeneration
<1>4. pc'[r] = p /\ \A q \in Requests \ {r} : pc'[q] = pc[q]
  BY <1>2, <1>3 DEF Moved
<1>5. Listed'
  BY <1>1, <1>2, <1>3, <1>4, PlacesApart DEF Passing, Listed
<1>6. \A q \in Requests : pc[q] \notin Critical
  BY <1>1, <1>2, RequestsFinite DEF Passing, Mutex
<1>7. Mutex'
  BY <1>1, <1>3, <1>4, <1>6, RequestsFinite, PlacesApart DEF Mutex
<1>8. Groups'
  <2>1. \A q \in Requests : pc'[q] \in Working <=> pc[q] \in Working
    BY <1>1, <1>3, <1>4 DEF Working
  <2> QED
    BY <1>1, <1>2, <2>1 DEF Passing, Groups
<1>9. ASSUME NEW q \in Requests PROVE Turn(q)' /\ Finished(q)'
  <2>1. CASE q = r
    <3>1. Turn(r)'
      BY <1>1, <1>3, <1>4 DEF Turn, Working
    <3>2. Finished(r)
      BY <1>2 DEF Passing
    <3>3. Own(r)' = Own(r)
      BY <1>1 DEF Own
    <3>4. Finished(r)'
      BY <1>1, <1>3, <1>4, <3>2, <3>3, PlacesApart DEF Finished
    <3> QED
      BY <2>1, <3>1, <3>4
  <2>2. CASE q # r
    BY <1>1, <1>2, <1>4, <2>2, SameTurn, SameFinished DEF Passing
  <2> QED
    BY <2>1, <2>2
<1>10. AnsweredOwn'
  BY <1>1, <1>2 DEF AnsweredOwn, Own
<1> QED
  BY <1>5, <1>7, <1>8, <1>9, <1>10 DEF Passing

\* The holder of the lock collects everything that is listed: there are never
\* more requests in the list than generation slots.
LEMMA CollectsAll ==
    ASSUME Typed, IInv, Passing, Intact, NEW items, items = pending_collect_batch
    PROVE  /\ items \in Seq(Requests) /\ IsInjective(items) /\ Len(items) <= Cap
           /\ ToSet(items) = ToSet(pending)
<1>1. PICK S : S = {r \in Requests : ~done[r]}
  OBVIOUS
<1>2. PICK waiting : waiting = Among(pending, S)
  OBVIOUS
<1>3. pending \in Seq(Requests) /\ IsInjective(pending)
  BY DEF Typed, Passing, Listed
<1>4. ToSet(pending) \subseteq Requests
  BY <1>3 DEF ToSet
<1>5. waiting \in Seq(Requests) /\ IsInjective(waiting) /\ ToSet(waiting) = ToSet(pending) \cap S
  BY <1>2, <1>3, AmongLists DEF Lists
<1>6. ToSet(waiting) = ToSet(pending)
  <2>1. \A q \in ToSet(pending) : q \in S
    BY <1>1, <1>4 DEF Passing, Listed
  <2> QED
    BY <1>5, <2>1
<1>7. ToSet(pending) \subseteq Holders /\ Holders \in SUBSET Requests
  BY <1>4 DEF Passing, Listed, Holders, Holding
<1>8. Len(waiting) = Cardinality(ToSet(pending))
  BY <1>5, <1>6, ListLength
<1>9. Cardinality(ToSet(pending)) <= Cardinality(Holders)
  BY <1>7, RequestsFinite, FS_Subset
<1>10. Cardinality(Holders) = active_generation_slots /\ active_generation_slots \in 0..Cap
  BY DEF IInv, SlotsCounted
<1>11. Len(waiting) \in Nat /\ Cap \in Nat
  BY <1>5, RequestsFinite
<1>12. Len(waiting) <= Cap
  BY <1>8, <1>9, <1>10, <1>11
<1>13. items = SubSeq(waiting, 1, Len(waiting))
  <2>1. (IF Len(waiting) < Cap THEN Len(waiting) ELSE Cap) = Len(waiting)
    BY <1>11, <1>12
  <2>2. items = SubSeq(waiting, 1, IF Len(waiting) < Cap THEN Len(waiting) ELSE Cap)
    BY <1>1, <1>2 DEF pending_collect_batch
  <2> QED
    BY <2>1, <2>2
<1>14. SubSeq(waiting, 1, Len(waiting)) = waiting
  BY <1>5
<1> QED
  BY <1>5, <1>6, <1>12, <1>13, <1>14

LEMMA OneItem ==
    ASSUME NEW x \in Requests
    PROVE  Len(<<x>>) = 1 /\ ToSet(<<x>>) = {x} /\ IsInjective(<<x>>)
<1>1. PICK s : s = <<x>>
  OBVIOUS
<1>2. s \in Seq(Requests) /\ Len(s) = 1 /\ DOMAIN s = {1} /\ s[1] = x
  BY <1>1
<1>3. ToSet(s) = {x} /\ IsInjective(s)
  BY <1>2 DEF ToSet, IsInjective
<1> QED
  BY <1>1, <1>2, <1>3

\* What the holder of the lock is told to run: its own request among others,
\* each of them once.
LEMMA GatherKeeps ==
    ASSUME QInv, NEW r \in Requests, Gather(r)
    PROVE  Passing' /\ AnsweredOwn' /\ work' \in Seq(Seq(Requests))
<1>1. /\ pc[r] = "gather"
      /\ UNCHANGED <<done, rc, pending, generation_mu, failed, used, out, reply, shape>>
  BY DEF Gather, records, runtime, history
<1>2. /\ Typed /\ IInv /\ AnsweredOwn /\ Intact /\ Passing
      /\ pc \in [Requests -> Places]
  BY <1>1, Going
<1>3. PICK items : items = pending_collect_batch
  OBVIOUS
<1>4. /\ items \in Seq(Requests) /\ IsInjective(items) /\ Len(items) <= Cap
      /\ ToSet(items) = ToSet(pending)
  BY <1>2, <1>3, CollectsAll
<1>5. Len(items) \in Nat /\ DOMAIN items = 1..Len(items) /\ Cap \in Nat /\ Cap >= 1
  BY <1>4, RequestsFinite
<1>6. ~done[r] /\ r \in ToSet(items)
  BY <1>1, <1>2, <1>4, PlacesApart DEF Passing, Turn, Listed
<1>7. PICK k \in 1..Len(items) : items[k] = r
  BY <1>5, <1>6 DEF ToSet
<1>8. items # <<>> /\ Len(items) >= 1
  BY <1>4, <1>5, <1>7
<1>9. pc' = Moved(r, "reset")
  BY <1>3, <1>8 DEF Gather
<1>10. pc'[r] = "reset" /\ \A q \in Requests \ {r} : pc'[q] = pc[q]
  BY <1>2, <1>9 DEF Moved
<1> DEFINE Split(w) ==
      /\ w \in Seq(Seq(Requests)) /\ w # <<>> /\ \E i \in 1..Len(w) : r \in ToSet(w[i])
      /\ \A i \in 1..Len(w) :
            Len(w[i]) \in 1..Cap /\ IsInjective(w[i]) /\ ToSet(w[i]) \subseteq ToSet(items)
      /\ \A i, j \in 1..Len(w) : i # j => ToSet(w[i]) \cap ToSet(w[j]) = {}
<1>11. Split(work')
  <2>1. CASE CanBatch(items)
    <3>1. PICK w : w = <<items>>
      OBVIOUS
    <3>2. work' = w
      BY <1>3, <2>1, <3>1 DEF Gather
    <3>3. w \in Seq(Seq(Requests)) /\ Len(w) = 1 /\ w[1] = items /\ w # <<>>
      BY <1>4, <3>1
    <3>4. \A i \in 1..Len(w) : i = 1
      BY <3>3
    <3>5. Len(items) \in 1..Cap /\ 1 \in 1..Len(w)
      BY <1>4, <1>5, <1>8, <3>3
    <3> QED
      BY <1>4, <1>6, <3>2, <3>3, <3>4, <3>5
  <2>2. CASE ~CanBatch(items)
    <3>1. PICK w : w = [i \in 1..Len(items) |-> <<items[i]>>]
      OBVIOUS
    <3>2. work' = w
      BY <1>3, <1>5, <2>2, <3>1 DEF Gather
    <3>3. w \in Seq(Seq(Requests)) /\ Len(w) = Len(items) /\ \A i \in 1..Len(items) : w[i] = <<items[i]>>
      BY <1>4, <1>5, <3>1
    <3>4. \A i \in 1..Len(items) : Len(w[i]) = 1 /\ ToSet(w[i]) = {items[i]} /\ IsInjective(w[i])
      <4> SUFFICES ASSUME NEW i \in 1..Len(items)
                   PROVE  Len(w[i]) = 1 /\ ToSet(w[i]) = {items[i]} /\ IsInjective(w[i])
        OBVIOUS
      <4>1. PICK x \in Requests : x = items[i]
        BY <1>4, <1>5
      <4>2. w[i] = <<x>>
        BY <3>3, <4>1
      <4> QED
        BY <4>1, <4>2, OneItem
    <3>5. w # <<>> /\ 1 \in 1..Cap
      BY <1>5, <1>8, <3>3
    <3>6. r \in ToSet(w[k]) /\ k \in 1..Len(w)
      BY <1>7, <3>3, <3>4
    <3>7. \A i \in 1..Len(items) : items[i] \in ToSet(items)
      BY <1>5 DEF ToSet
    <3>8. \A i, j \in 1..Len(items) : i # j => items[i] # items[j]
      BY <1>4, <1>5 DEF IsInjective
    <3>9. \A i \in 1..Len(w) : Len(w[i]) \in 1..Cap /\ IsInjective(w[i]) /\ ToSet(w[i]) \subseteq ToSet(items)
      <4> SUFFICES ASSUME NEW i \in 1..Len(items)
                   PROVE  Len(w[i]) \in 1..Cap /\ IsInjective(w[i]) /\ ToSet(w[i]) \subseteq ToSet(items)
        BY <3>3
      <4>1. Len(w[i]) = 1 /\ ToSet(w[i]) = {items[i]} /\ IsInjective(w[i]) /\ items[i] \in ToSet(items)
        BY <3>4, <3>7
      <4> QED
        BY <3>5, <4>1
    <3>10. \A i, j \in 1..Len(w) : i # j => ToSet(w[i]) \cap ToSet(w[j]) = {}
      <4> SUFFICES ASSUME NEW i \in 1..Len(items), NEW j \in 1..Len(items), i # j
                   PROVE  ToSet(w[i]) \cap ToSet(w[j]) = {}
        BY <3>3
      <4>1. ToSet(w[i]) = {items[i]} /\ ToSet(w[j]) = {items[j]} /\ items[i] # items[j]
        BY <3>4, <3>8
      <4> QED
        BY <4>1
    <3> QED
      BY <3>2, <3>3, <3>5, <3>6, <3>9, <3>10
  <2> QED
    BY <2>1, <2>2
<1>12. Listed'
  BY <1>1, <1>2, <1>10, PlacesApart DEF Passing, Listed
<1>13. Mutex'
  BY <1>1, <1>2, <1>10, PlacesApart DEF Passing, Mutex
<1>14. Groups'
  <2>1. ~(\A q \in Requests : pc'[q] \notin Working)
    BY <1>10, PlacesApart
  <2> QED
    BY <1>1, <1>4, <1>11, <2>1 DEF Groups
<1>15. ASSUME NEW q \in Requests PROVE Turn(q)' /\ Finished(q)'
  <2>1. CASE q = r
    <3>1. Turn(r)'
      BY <1>10, <1>11 DEF Turn, InWork
    <3>2. Finished(r)
      BY <1>2 DEF Passing
    <3>3. Own(r)' = Own(r)
      BY <1>1 DEF Own
    <3>4. Finished(r)'
      BY <1>1, <1>10, <3>2, <3>3, PlacesApart DEF Finished
    <3> QED
      BY <2>1, <3>1, <3>4
  <2>2. CASE q # r
    <3>1. pc[q] \notin Critical
      BY <1>1, <1>2, <2>2, OneHolder, PlacesApart DEF Passing
    <3>2. pc'[q] \notin Critical
      BY <1>10, <2>2, <3>1
    <3>3. Turn(q)'
      BY <3>2 DEF Turn, Critical, Working
    <3>4. Finished(q)'
      BY <1>1, <1>2, <1>10, <2>2, SameFinished DEF Passing
    <3> QED
      BY <3>3, <3>4
  <2> QED
    BY <2>1, <2>2
<1>16. AnsweredOwn'
  BY <1>1, <1>2 DEF AnsweredOwn, Own
<1> QED
  BY <1>11, <1>12, <1>13, <1>14, <1>15, <1>16 DEF Passing

LEMMA ResetKeeps ==
    ASSUME QInv, NEW r \in Requests, ds4_replay_reset(r)
    PROVE  Passing' /\ AnsweredOwn'
<1>1. /\ pc[r] = "reset"
      /\ UNCHANGED <<done, rc, pending, generation_mu, work, out, reply, shape>>
  BY DEF ds4_replay_reset, records, history
<1>2. /\ Typed /\ IInv /\ AnsweredOwn /\ Intact /\ Passing
      /\ pc \in [Requests -> Places]
  BY <1>1, Going
<1>3. PICK p : pc' = Moved(r, p) /\ \/ p = "generate" /\ ~used' /\ ~failed'
                                    \/ p = "mark" /\ failed'
  BY DEF ds4_replay_reset
<1>4. pc'[r] = p /\ \A q \in Requests \ {r} : pc'[q] = pc[q]
  BY <1>2, <1>3 DEF Moved
<1>5. p \in Working /\ p \in Critical /\ p \in InPass /\ pc[r] \in Working /\ pc[r] \in Critical /\ pc[r] \in InPass
  BY <1>1, <1>3, PlacesApart
<1>6. Listed'
  BY <1>1, <1>2, <1>4, <1>5 DEF Passing, Listed
<1>7. Mutex'
  BY <1>1, <1>2, <1>4, <1>5 DEF Passing, Mutex
<1>8. Groups'
  BY <1>1, <1>2, <1>4, <1>5 DEF Passing, Groups
<1>9. ASSUME NEW q \in Requests PROVE Turn(q)' /\ Finished(q)'
  <2>1. CASE q = r
    <3>1. Turn(r)'
      <4>1. work # <<>> /\ (done[r] \/ InWork(r))
        BY <1>2, <1>5 DEF Passing, Turn
      <4>2. InWork(r)' = InWork(r)
        BY <1>1 DEF InWork
      <4> QED
        BY <1>1, <1>3, <1>4, <4>1, <4>2 DEF Turn
    <3>2. Finished(r) /\ Own(r)' = Own(r)
      BY <1>1, <1>2 DEF Passing, Own
    <3>3. Finished(r)'
      BY <1>1, <1>3, <1>4, <1>5, <3>2 DEF Finished
    <3> QED
      BY <2>1, <3>1, <3>3
  <2>2. CASE q # r
    <3>1. pc'[q] \notin Critical
      BY <1>2, <1>4, <1>5, <2>2, OneHolder DEF Passing
    <3>2. Turn(q)'
      BY <3>1 DEF Turn, Critical, Working
    <3>3. Finished(q)'
      BY <1>1, <1>2, <1>4, <2>2, SameFinished DEF Passing
    <3> QED
      BY <3>2, <3>3
  <2> QED
    BY <2>1, <2>2
<1>10. AnsweredOwn'
  BY <1>1, <1>2 DEF AnsweredOwn, Own
<1> QED
  BY <1>6, <1>7, <1>8, <1>9, <1>10 DEF Passing

\* A prompt has a length, and the shape of a forgotten request too.
LEMMA Lengths ==
    ASSUME Typed
    PROVE  \A r \in Requests : shape[r].len \in Nat \ {0}
<1>1. \A r \in Requests : shape[r] \in Shapes[r] \/ shape[r] = NoShape
  BY DEF Typed
<1>2. NoShape.len \in Nat \ {0}
  BY DEF NoShape
<1> QED
  BY <1>1, <1>2, ReplayServerAssumption

\* A generation gives every request of its group the tokens of its own prompt,
\* and touches no other request's.
LEMMA GroupGetsItsOwn ==
    ASSUME QInv, NEW r \in Requests, ds4_replay_generate(r), ~failed'
    PROVE  /\ \A q \in ToSet(work[1]) : Own(q)'
           /\ \A q \in Requests \ ToSet(work[1]) : out'[q] = out[q]
<1>1. pc[r] = "generate" /\ UNCHANGED shape
  BY DEF ds4_replay_generate
<1>2. Typed /\ IInv /\ Intact /\ Passing
  BY <1>1, Going
<1>3. work # <<>>
  BY <1>1, <1>2, PlacesApart DEF Passing, Turn
<1>4. PICK g : g = work[1]
  OBVIOUS
<1>5. Head(work) = g /\ 1 \in 1..Len(work)
  BY <1>2, <1>3, <1>4, FirstGroup
<1>6. g \in Seq(Requests) /\ ToSet(g) \subseteq Requests /\ Len(g) \in 1..Cap
  BY <1>2, <1>4, <1>5, GroupMembers DEF Passing, Groups
<1>7. PICK held : held = [s \in SchedSlots |-> IF s <= Len(g) THEN [req |-> PlanAt(g, s), fed |-> Fed(g, s)]
                                              ELSE hc[s]]
  OBVIOUS
<1>8. out' = [q \in Requests |-> IF \E i \in DOMAIN g : g[i] = q
                                 THEN held[SlotOf(g, CHOOSE i \in DOMAIN g : g[i] = q)]
                                 ELSE out[q]]
  BY <1>5, <1>7 DEF ds4_replay_generate
<1>9. ASSUME NEW q \in ToSet(g) PROVE Own(q)'
  <2>1. PICK m : m = CHOOSE i \in DOMAIN g : g[i] = q
    OBVIOUS
  <2>2. m \in DOMAIN g /\ g[m] = q /\ \E i \in DOMAIN g : g[i] = q
    BY <2>1 DEF ToSet
  <2>3. PICK s : s = SlotOf(g, m)
    OBVIOUS
  <2>4. q \in Requests /\ out'[q] = held[s]
    BY <1>6, <1>8, <2>1, <2>2, <2>3
  <2>5. s \in 1..Len(g) /\ PlanAt(g, s) = q /\ Fed(g, s) = shape[q].len
    BY <1>2, <1>6, <2>2, <2>3, Lengths, PlanFeedsAll
  <2>6. s \in SchedSlots /\ s <= Len(g)
    BY <1>6, <2>5, RequestsFinite DEF SchedSlots
  <2>7. held[s] = [req |-> PlanAt(g, s), fed |-> Fed(g, s)]
    BY <1>7, <2>6
  <2> QED
    BY <1>1, <2>4, <2>5, <2>7 DEF Own
<1>10. ASSUME NEW q \in Requests \ ToSet(g) PROVE out'[q] = out[q]
  <2>1. ~ \E i \in DOMAIN g : g[i] = q
    BY <1>10 DEF ToSet
  <2> QED
    BY <1>8, <2>1
<1> QED
  BY <1>4, <1>9, <1>10

LEMMA GenerateKeeps ==
    ASSUME QInv, NEW r \in Requests, ds4_replay_generate(r)
    PROVE  Passing' /\ AnsweredOwn'
<1>1. /\ pc[r] = "generate" /\ pc' = Moved(r, "mark")
      /\ UNCHANGED <<done, rc, pending, generation_mu, work, reply, shape>>
  BY DEF ds4_replay_generate, records
<1>2. /\ Typed /\ IInv /\ AnsweredOwn /\ Intact /\ Passing
      /\ pc \in [Requests -> Places]
  BY <1>1, Going
<1>4. pc'[r] = "mark" /\ \A q \in Requests \ {r} : pc'[q] = pc[q]
  BY <1>1, <1>2 DEF Moved
<1>5. /\ pc'[r] \in Working /\ pc'[r] \in Critical /\ pc'[r] \in InPass
      /\ pc[r] \in Working /\ pc[r] \in Critical /\ pc[r] \in InPass
  BY <1>1, <1>4, PlacesApart
<1>3. work # <<>> /\ (done[r] \/ InWork(r))
  BY <1>2, <1>5 DEF Passing, Turn
<1>6. Listed'
  BY <1>1, <1>2, <1>4, <1>5 DEF Passing, Listed
<1>7. Mutex'
  BY <1>1, <1>2, <1>4, <1>5 DEF Passing, Mutex
<1>8. Groups'
  BY <1>1, <1>2, <1>4, <1>5 DEF Passing, Groups
<1>9. \A q \in ToSet(work[1]) : q \in Requests /\ pc[q] \in InPass /\ ~done[q]
  BY <1>2, <1>3, FirstGroup, GroupMembers
<1>10. \A q \in Requests \ ToSet(work[1]) : Own(q)' = Own(q)
  <2>1. ~failed
    BY <1>1, <1>2 DEF Passing, Turn
  <2>2. \A q \in Requests \ ToSet(work[1]) : out'[q] = out[q]
    <3>1. CASE failed'
      BY <2>1, <3>1 DEF ds4_replay_generate
    <3>2. CASE ~failed'
      BY <3>2, GroupGetsItsOwn
    <3> QED
      BY <3>1, <3>2
  <2> QED
    BY <1>1, <2>2 DEF Own
<1>11. ASSUME NEW q \in Requests PROVE Finished(q)'
  <2>1. Finished(q)
    BY <1>2 DEF Passing
  <2>2. \/ pc'[q] = pc[q]
        \/ pc'[q] = "mark" /\ pc[q] = "generate"
    BY <1>1, <1>4
  <2>3. done'[q] /\ rc'[q] = 0 => Own(q)'
    BY <1>1, <1>9, <1>10, <2>1 DEF Finished
  <2>4. CASE pc'[q] = pc[q]
    BY <1>1, <2>1, <2>3, <2>4 DEF Finished
  <2>5. CASE pc'[q] = "mark" /\ pc[q] = "generate"
    BY <1>1, <2>1, <2>3, <2>5 DEF Finished, InPass
  <2> QED
    BY <2>2, <2>4, <2>5
<1>12. ASSUME NEW q \in Requests PROVE Turn(q)'
  <2>1. CASE q = r
    <3>1. InWork(r)' = InWork(r)
      BY <1>1 DEF InWork
    <3>2. ~failed' => \A x \in ToSet(work[1]) : Own(x)'
      BY GroupGetsItsOwn
    <3> QED
      BY <1>1, <1>3, <1>4, <2>1, <3>1, <3>2 DEF Turn
  <2>2. CASE q # r
    <3>1. pc'[q] \notin Critical
      BY <1>2, <1>4, <1>5, <2>2, OneHolder DEF Passing
    <3> QED
      BY <3>1 DEF Turn, Critical, Working
  <2> QED
    BY <2>1, <2>2
<1>13. AnsweredOwn'
  <2> SUFFICES ASSUME NEW q \in Requests, reply[q] = "ok" PROVE Own(q)'
    BY <1>1 DEF AnsweredOwn
  <2>1. pc[q] = "leave" /\ Own(q)
    BY <1>2 DEF Passing, Finished, AnsweredOwn
  <2>2. q \notin ToSet(work[1])
    BY <1>9, <2>1, PlacesApart
  <2> QED
    BY <1>10, <2>1, <2>2
<1> QED
  BY <1>6, <1>7, <1>8, <1>11, <1>12, <1>13 DEF Passing

\* The requests of a group leave the list together; those that are left are
\* those of the other groups and new ones.
LEMMA MarkKeeps ==
    ASSUME QInv, NEW r \in Requests, pending_mark_done(r)
    PROVE  Passing' /\ AnsweredOwn' /\ pending' \in Seq(Requests) /\ work' \in Seq(Seq(Requests))
<1>1. /\ pc[r] = "mark" /\ work' = Tail(work)
      /\ pc' = Moved(r, IF Len(work) > 1 THEN "reset" ELSE "unlock")
      /\ UNCHANGED <<generation_mu, out, reply, shape>>
  BY DEF pending_mark_done
<1>2. /\ Typed /\ IInv /\ AnsweredOwn /\ Intact /\ Passing
      /\ pc \in [Requests -> Places]
  BY <1>1, Going
<1>3. work # <<>> /\ (done[r] \/ InWork(r)) /\ (~failed => \A q \in ToSet(work[1]) : Own(q))
  BY <1>1, <1>2, PlacesApart DEF Passing, Turn
<1>4. PICK g : g = work[1]
  OBVIOUS
<1>5. Head(work) = g /\ 1 \in 1..Len(work) /\ Len(work) \in Nat /\ Len(work) >= 1
  BY <1>2, <1>3, <1>4, FirstGroup
<1>6. /\ g \in Seq(Requests) /\ ToSet(g) \subseteq Requests
      /\ \A q \in ToSet(g) : pc[q] \in InPass /\ ~done[q] /\ q \in ToSet(pending)
  BY <1>2, <1>4, <1>5, GroupMembers
<1>7. done' = [q \in Requests |-> done[q] \/ q \in ToSet(g)]
  BY <1>5 DEF pending_mark_done
<1>8. pending' = Among(pending, Requests \ ToSet(g))
  BY <1>5 DEF pending_mark_done
<1>9. PICK bad : rc' = [q \in Requests |-> IF q \in ToSet(g) /\ (failed \/ q \in bad) THEN 1 ELSE rc[q]]
  BY <1>5 DEF pending_mark_done
<1>10. /\ pending' \in Seq(Requests) /\ IsInjective(pending')
       /\ ToSet(pending') = ToSet(pending) \ ToSet(g)
  <2>1. pending \in Seq(Requests) /\ IsInjective(pending)
    BY <1>2 DEF Typed, Passing, Listed
  <2>2. PICK S : S = Requests \ ToSet(g)
    OBVIOUS
  <2>3. Lists(Among(pending, S), pending, S)
    BY <2>1, AmongLists
  <2>4. ToSet(pending) \subseteq Requests
    BY <2>1 DEF ToSet
  <2> QED
    BY <1>8, <2>1, <2>2, <2>3, <2>4 DEF Lists
<1>11. /\ work' \in Seq(Seq(Requests)) /\ Len(work') = Len(work) - 1
       /\ \A i \in 1..Len(work') : work'[i] = work[i + 1] /\ i + 1 \in 1..Len(work) /\ i + 1 # 1
  BY <1>1, <1>2, <1>3 DEF Typed
<1>12. PICK p : p = IF Len(work) > 1 THEN "reset" ELSE "unlock"
  OBVIOUS
<1>13. /\ pc'[r] = p /\ \A q \in Requests \ {r} : pc'[q] = pc[q]
       /\ p \in Critical /\ p \in InPass /\ pc[r] \in Critical /\ pc[r] \in InPass
  BY <1>1, <1>2, <1>12, PlacesApart DEF Moved
<1>14. \A q \in Requests : done'[q] <=> done[q] \/ q \in ToSet(g)
  BY <1>7
<1>15. Listed'
  BY <1>2, <1>10, <1>13, <1>14 DEF Passing, Listed
<1>16. Mutex'
  BY <1>1, <1>2, <1>13 DEF Passing, Mutex
<1>17. Groups'
  <2>1. ASSUME NEW i \in 1..Len(work')
        PROVE  Len(work'[i]) \in 1..Cap /\ IsInjective(work'[i]) /\ ToSet(work'[i]) \subseteq ToSet(pending')
    <3>1. PICK j \in 1..Len(work) : j # 1 /\ work'[i] = work[j]
      BY <1>11
    <3>2. /\ Len(work[j]) \in 1..Cap /\ IsInjective(work[j]) /\ ToSet(work[j]) \subseteq ToSet(pending)
          /\ ToSet(work[j]) \cap ToSet(g) = {}
      BY <1>2, <1>4, <1>5, <3>1 DEF Passing, Groups
    <3> QED
      BY <1>10, <3>1, <3>2
  <2>2. ASSUME NEW i \in 1..Len(work'), NEW j \in 1..Len(work'), i # j
        PROVE  ToSet(work'[i]) \cap ToSet(work'[j]) = {}
    <3>1. /\ work'[i] = work[i + 1] /\ i + 1 \in 1..Len(work)
          /\ work'[j] = work[j + 1] /\ j + 1 \in 1..Len(work) /\ i + 1 # j + 1
      BY <1>11, <2>2
    <3> QED
      BY <1>2, <3>1 DEF Passing, Groups
  <2>3. ASSUME \A q \in Requests : pc'[q] \notin Working PROVE work' = <<>>
    <3>1. ~(Len(work) > 1)
      BY <1>12, <1>13, <2>3, PlacesApart
    <3>2. Len(work') = 0
      BY <1>5, <1>11, <3>1
    <3> QED
      BY <1>11, <3>2
  <2> QED
    BY <2>1, <2>2, <2>3 DEF Groups
<1>18. \A q \in Requests : Own(q)' = Own(q)
  BY <1>1 DEF Own
<1>19. ASSUME NEW q \in Requests PROVE Finished(q)'
  <2>1. Finished(q)
    BY <1>2 DEF Passing
  <2>2. pc'[q] = pc[q] \/ {pc[q], pc'[q]} \subseteq InPass
    BY <1>13
  <2>3. done'[q] => pc'[q] \in InPass \cup {"answer", "verify", "leave"}
    BY <1>6, <1>14, <2>1, <2>2 DEF Finished
  <2>4. pc'[q] \in {"answer", "verify"} => done'[q]
    BY <1>14, <2>1, <2>2, PlacesApart DEF Finished
  <2>5. done'[q] /\ rc'[q] = 0 => Own(q)
    <3>1. CASE q \in ToSet(g)
      BY <1>3, <1>4, <1>9, <3>1
    <3>2. CASE q \notin ToSet(g)
      BY <1>9, <1>14, <2>1, <3>2 DEF Finished
    <3> QED
      BY <3>1, <3>2
  <2>6. pc'[q] = "verify" => rc'[q] = 0
    <3>1. ASSUME pc'[q] = "verify" PROVE pc[q] = "verify" /\ q \notin ToSet(g)
      BY <1>6, <2>2, <3>1, PlacesApart
    <3> QED
      BY <1>9, <2>1, <3>1 DEF Finished
  <2>7. pc'[q] = "leave" <=> reply'[q] # "none"
    BY <1>1, <2>1, <2>2, PlacesApart DEF Finished
  <2> QED
    BY <1>18, <2>3, <2>4, <2>5, <2>6, <2>7 DEF Finished
<1>20. ASSUME NEW q \in Requests PROVE Turn(q)'
  <2>1. CASE q = r
    <3>1. InWork(r) => done'[r] \/ InWork(r)'
      <4> SUFFICES ASSUME NEW i \in 1..Len(work), r \in ToSet(work[i]) PROVE done'[r] \/ InWork(r)'
        BY DEF InWork
      <4>1. CASE i = 1
        BY <1>4, <1>14, <4>1
      <4>2. CASE i # 1
        <5>1. PICK j \in 1..Len(work') : j + 1 = i
          BY <1>5, <1>11, <4>2
        <5> QED
          BY <1>11, <5>1 DEF InWork
      <4> QED
        BY <4>1, <4>2
    <3>2. done'[r] \/ InWork(r)'
      BY <1>3, <1>14, <3>1
    <3>3. CASE Len(work) > 1
      <4>1. work' # <<>>
        BY <1>5, <1>11, <3>3
      <4>2. p = "reset"
        BY <1>12, <3>3
      <4> QED
        BY <1>13, <2>1, <3>2, <4>1, <4>2 DEF Turn
    <3>4. CASE ~(Len(work) > 1)
      <4>1. Len(work') = 0
        BY <1>5, <1>11, <3>4
      <4>2. ~InWork(r)'
        BY <4>1 DEF InWork
      <4>3. p = "unlock"
        BY <1>12, <3>4
      <4> QED
        BY <1>13, <2>1, <3>2, <4>2, <4>3 DEF Turn, Working
    <3> QED
      BY <3>3, <3>4
  <2>2. CASE q # r
    <3>1. pc'[q] \notin Critical
      BY <1>2, <1>13, <2>2, OneHolder DEF Passing
    <3> QED
      BY <3>1 DEF Turn, Critical, Working
  <2> QED
    BY <2>1, <2>2
<1>21. AnsweredOwn'
  BY <1>1, <1>2, <1>18 DEF AnsweredOwn
<1> QED
  BY <1>10, <1>11, <1>15, <1>16, <1>17, <1>19, <1>20, <1>21 DEF Passing

\* The pass that a thread ran itself has done its own request.
LEMMA UnlockKeeps ==
    ASSUME QInv, NEW r \in Requests, UnlockGeneration(r)
    PROVE  /\ Passing' /\ AnsweredOwn'
           /\ UNCHANGED <<pass, done, rc, pending>>
<1>1. /\ pc[r] = "unlock" /\ generation_mu' = None
      /\ UNCHANGED <<work, failed, used, out, reply, shape>>
  BY DEF UnlockGeneration, runtime, history
<1>2. /\ Typed /\ IInv /\ AnsweredOwn /\ Intact /\ Passing
      /\ pc \in [Requests -> Places]
  BY <1>1, Going
<1>3. done[r]
  BY <1>1, <1>2 DEF Passing, Turn
<1>4. /\ UNCHANGED <<pass, done, rc, pending>> /\ pc' = Moved(r, "answer")
  <2>1. done \in [Requests -> BOOLEAN] /\ rc \in [Requests -> {0, 1}] /\ pass \in [Requests -> {0}]
    BY <1>2 DEF Typed, All
  <2>2. pc' = Moved(r, "answer") /\ pending' = pending
    BY <1>3 DEF UnlockGeneration
  <2>3. pass' = [pass EXCEPT ![r] = @] /\ rc' = [rc EXCEPT ![r] = @]
    BY <1>3 DEF UnlockGeneration
  <2>4. done' = [done EXCEPT ![r] = TRUE]
    BY <1>3, <2>1 DEF UnlockGeneration
  <2>5. [done EXCEPT ![r] = TRUE] = done
    BY <1>3, <2>1
  <2> QED
    BY <2>1, <2>2, <2>3, <2>4, <2>5
<1>5. pc'[r] = "answer" /\ \A q \in Requests \ {r} : pc'[q] = pc[q]
  BY <1>2, <1>4 DEF Moved
<1>6. \A q \in Requests : pc'[q] \notin Critical
  BY <1>1, <1>2, <1>5, OneHolder, PlacesApart DEF Passing
<1>7. Listed'
  BY <1>1, <1>2, <1>3, <1>4, <1>5, PlacesApart DEF Passing, Listed
<1>8. Mutex'
  BY <1>1, <1>6, RequestsFinite DEF Mutex
<1>9. Groups'
  <2>1. \A q \in Requests : pc[q] \notin Working
    BY <1>1, <1>2, OneHolder, PlacesApart DEF Passing
  <2> QED
    BY <1>1, <1>2, <1>4, <2>1 DEF Passing, Groups
<1>10. ASSUME NEW q \in Requests PROVE Finished(q)' /\ Turn(q)'
  <2>1. Turn(q)'
    BY <1>6 DEF Turn, Critical, Working
  <2>2. CASE q = r
    <3>1. Finished(r) /\ Own(r)' = Own(r)
      BY <1>1, <1>2 DEF Passing, Own
    <3>2. Finished(r)'
      BY <1>1, <1>3, <1>4, <1>5, <3>1 DEF Finished
    <3> QED
      BY <2>1, <2>2, <3>2
  <2>3. CASE q # r
    BY <1>1, <1>2, <1>4, <1>5, <2>1, <2>3, SameFinished DEF Passing
  <2> QED
    BY <2>2, <2>3
<1>11. AnsweredOwn'
  BY <1>1, <1>2 DEF AnsweredOwn, Own
<1> QED
  BY <1>4, <1>7, <1>8, <1>9, <1>10, <1>11 DEF Passing

\* The steps of a thread outside the two passes: before its slot, and after its
\* request is done.
LEMMA OutsideHandlers ==
    ASSUME QInv, NEW r \in Requests,
           \/ HandlePlain(r) \/ acquire_generation_slot(r) \/ ContextExceeded(r)
           \/ Answer(r) \/ replay_mtp_service_run(r)
    PROVE  Passing' /\ AnsweredOwn'
<1>1. /\ pc[r] \in {"read", "acquire", "admitted", "answer", "verify"}
      /\ UNCHANGED <<main, shape, pending, done, rc, generation_mu, work, failed, used, out>>
  BY DEF HandlePlain, acquire_generation_slot, ContextExceeded, Answer, replay_mtp_service_run,
         listener, records, holder, runtime
<1>2. /\ Typed /\ IInv /\ AnsweredOwn /\ Intact /\ Passing
      /\ pc \in [Requests -> Places]
  BY <1>1, Going
<1>3. Finished(r) /\ pc[r] \notin InPass
  BY <1>1, <1>2 DEF Passing, InPass
<1>4. ASSUME NEW answer \in {"plain", "busy", "context_exceeded", "failed"},
             reply' = [reply EXCEPT ![r] = answer],
             pc' = Moved(r, "leave") \/ release_generation_slot(r)
      PROVE  Passing' /\ AnsweredOwn'
  BY <1>1, <1>4, AnswerKeeps
<1>5. ASSUME reply' = [reply EXCEPT ![r] = "ok"], release_generation_slot(r),
             done[r], rc[r] = 0
      PROVE  Passing' /\ AnsweredOwn'
  <2>1. Own(r)
    BY <1>3, <1>5 DEF Finished
  <2> QED
    BY <1>1, <1>5, <2>1, AnswerKeeps
<1>6. ASSUME NEW p \in {"asleep", "admitted", "verify"}, pc' = Moved(r, p), UNCHANGED reply,
             p = "verify" => pc[r] = "answer" /\ rc[r] = 0,
             p # "verify" => pc[r] \in {"read", "acquire"}
      PROVE  Passing' /\ AnsweredOwn'
  <2>1. pc'[r] = p
    BY <1>2, <1>6 DEF Moved
  <2>2. Own(r)' = Own(r) /\ \A q \in Requests : Own(q)' = Own(q)
    BY <1>1 DEF Own
  <2>3. Finished(r)'
    BY <1>1, <1>3, <1>6, <2>1, <2>2 DEF Finished, InPass
  <2>4. p \notin InPass
    BY <1>6 DEF InPass
  <2>5. Passing'
    BY <1>1, <1>2, <1>3, <1>6, <2>3, <2>4, OneOutside
  <2>6. AnsweredOwn'
    BY <1>2, <1>6, <2>2 DEF AnsweredOwn
  <2> QED
    BY <2>5, <2>6
<1>7. CASE HandlePlain(r)
  BY <1>4, <1>7 DEF HandlePlain
<1>8. CASE acquire_generation_slot(r)
  <2>1. \/ reply' = [reply EXCEPT ![r] = "busy"] /\ pc' = Moved(r, "leave")
        \/ UNCHANGED reply /\ pc' = Moved(r, "asleep")
        \/ UNCHANGED reply /\ pc' = Moved(r, "admitted")
    BY <1>8 DEF acquire_generation_slot
  <2>2. pc[r] \in {"read", "acquire"}
    BY <1>8 DEF acquire_generation_slot
  <2> QED
    BY <1>4, <1>6, <2>1, <2>2
<1>9. CASE ContextExceeded(r)
  BY <1>4, <1>9 DEF ContextExceeded, Finish
<1>10. CASE Answer(r)
  <2>1. pc[r] = "answer" /\ done[r]
    BY <1>3, <1>10 DEF Answer, Finished
  <2>2. CASE rc[r] # 0 /\ Finish(r, "failed")
    BY <1>4, <2>2 DEF Finish
  <2>3. CASE rc[r] = 0 /\ Finish(r, "ok")
    BY <1>5, <2>1, <2>3 DEF Finish
  <2>4. CASE rc[r] = 0 /\ pc' = Moved(r, "verify") /\ UNCHANGED reply
    BY <1>6, <2>1, <2>4
  <2> QED
    BY <1>10, <2>2, <2>3, <2>4 DEF Answer
<1>11. CASE replay_mtp_service_run(r)
  <2>1. pc[r] = "verify" /\ done[r] /\ rc[r] = 0
    BY <1>3, <1>11 DEF replay_mtp_service_run, Finished
  <2>2. CASE Finish(r, "ok")
    BY <1>5, <2>1, <2>2 DEF Finish
  <2>3. CASE Finish(r, "failed")
    BY <1>4, <2>3 DEF Finish
  <2> QED
    BY <1>11, <2>2, <2>3 DEF replay_mtp_service_run
<1> QED
  BY <1>7, <1>8, <1>9, <1>10, <1>11

\* The record is forgotten only when nobody refers to it any more.
LEMMA LeaveForgets ==
    ASSUME QInv, NEW r \in Requests, Leave(r)
    PROVE  Passing' /\ AnsweredOwn'
<1>1. /\ pc[r] = "leave" /\ pc' = Moved(r, "gone") /\ Forgotten(r)
      /\ UNCHANGED <<pending, generation_mu, work, failed, used>>
  BY DEF Leave, holder, runtime
<1>2. /\ Typed /\ IInv /\ AnsweredOwn /\ Intact /\ Passing
      /\ pc \in [Requests -> Places]
  BY <1>1, Going
<1>3. /\ ~done'[r] /\ reply'[r] = "none"
      /\ \A q \in Requests \ {r} : /\ done'[q] = done[q] /\ rc'[q] = rc[q] /\ reply'[q] = reply[q]
                                   /\ out'[q] = out[q] /\ shape'[q] = shape[q]
  <2>1. /\ shape = [q \in Requests |-> shape[q]] /\ done \in [Requests -> BOOLEAN]
        /\ rc \in [Requests -> {0, 1}]
        /\ out = [q \in Requests |-> out[q]] /\ reply = [q \in Requests |-> reply[q]]
    BY <1>2 DEF Typed
  <2> QED
    BY <1>1, <2>1 DEF Forgotten
<1>4. pc'[r] = "gone"
  BY <1>1, <1>2 DEF Moved
<1>5. Finished(r)'
  BY <1>3, <1>4 DEF Finished
<1>6. pc[r] \notin InPass /\ "gone" \notin InPass
  BY <1>1 DEF InPass
<1>7. Passing'
  BY <1>1, <1>2, <1>3, <1>5, <1>6, OneOutside
<1>8. AnsweredOwn'
  <2> SUFFICES ASSUME NEW q \in Requests, reply'[q] = "ok" PROVE Own(q)'
    BY DEF AnsweredOwn
  <2>1. q # r
    BY <1>3
  <2> QED
    BY <1>2, <1>3, <2>1 DEF AnsweredOwn, Own
<1> QED
  BY <1>7, <1>8

\* A new request starts with a blank record.
LEMMA AcceptStarts ==
    ASSUME QInv, Accept
    PROVE  /\ Passing' /\ AnsweredOwn'
           /\ shape' = [q \in Requests |-> shape'[q]]
           /\ \A q \in Requests : shape'[q] \in Shapes[q] \cup {NoShape}
<1>1. PICK r : r = accepted + 1
  OBVIOUS
<1>2. Typed /\ IInv /\ AnsweredOwn /\ Intact /\ Passing /\ pc \in [Requests -> Places]
  BY DEF QInv, Accept, IInv, HandlersCounted, Intact
<1>3. r \in Requests /\ pc[r] = "none"
  BY <1>1, <1>2, RequestsFinite DEF Accept, IInv, HandlersCounted, Requests
<1>4. /\ pc' = Moved(r, "read")
      /\ UNCHANGED <<pending, done, rc, generation_mu, work, failed, used, out, reply>>
  BY <1>1 DEF Accept, records, holder, runtime, history
<1>5. PICK f \in Shapes[r] : shape' = [shape EXCEPT ![r] = f]
  BY <1>1 DEF Accept
<1>6. shape = [q \in Requests |-> shape[q]] /\ \A q \in Requests : shape[q] \in Shapes[q] \cup {NoShape}
  BY <1>2 DEF Typed
<1>7. shape'[r] = f /\ \A q \in Requests \ {r} : shape'[q] = shape[q]
  BY <1>3, <1>5, <1>6
<1>8. shape' = [q \in Requests |-> shape'[q]]
  BY <1>5, <1>6
<1>9. Finished(r)
  BY <1>2, <1>3 DEF Passing
<1>10. ~done[r] /\ reply[r] = "none" /\ pc'[r] = "read"
  BY <1>2, <1>3, <1>4, <1>9 DEF Finished, InPass, Moved
<1>11. Finished(r)'
  BY <1>4, <1>10 DEF Finished
<1>12. pc[r] \notin InPass /\ "read" \notin InPass
  BY <1>3 DEF InPass
<1>13. Passing'
  BY <1>2, <1>3, <1>4, <1>7, <1>11, <1>12, OneOutside
<1>14. AnsweredOwn'
  <2> SUFFICES ASSUME NEW q \in Requests, reply[q] = "ok" PROVE Own(q)'
    BY <1>4 DEF AnsweredOwn
  <2>1. q # r
    BY <1>10
  <2> QED
    BY <1>2, <1>4, <1>7, <2>1 DEF AnsweredOwn, Own
<1> QED
  BY <1>6, <1>7, <1>8, <1>13, <1>14

\* Main's own steps, and wakeups.
LEMMA OthersPass ==
    ASSUME QInv, run_server \/ SpuriousWakeup \/ CloseRuntime \/ UNCHANGED vars
    PROVE  (Intact' => Passing') /\ AnsweredOwn'
<1>1. UNCHANGED <<pending, done, rc, generation_mu, work, failed, used, out, reply, shape>>
  BY DEF run_server, CloseListener, AwaitHandlers, SpuriousWakeup, CloseRuntime, vars, records, holder, runtime, history
<1>2. Typed /\ IInv /\ AnsweredOwn /\ pc \in [Requests -> Places]
  BY DEF QInv, IInv, HandlersCounted
<1>3. Intact' => Intact
  BY DEF run_server, CloseListener, AwaitHandlers, SpuriousWakeup, CloseRuntime, vars, listener, Intact
<1>4. CASE UNCHANGED pc
  <2>1. Passing => Passing'
    BY <1>1, <1>4 DEF Passing, Listed, Mutex, Groups, Turn, InWork, Finished, Own
  <2> QED
    BY <1>1, <1>2, <1>3, <2>1 DEF QInv, AnsweredOwn, Own
<1>5. CASE \E r \in Requests : pc[r] = "asleep" /\ pc' = Moved(r, "acquire")
  <2>1. PICK r \in Requests : pc[r] = "asleep" /\ pc' = Moved(r, "acquire")
    BY <1>5
  <2>2. Passing /\ Intact
    BY <1>2, <2>1 DEF QInv, IInv, HandlersCounted
  <2>3. pc'[r] = "acquire" /\ Finished(r)
    BY <1>2, <2>1, <2>2 DEF Moved, Passing
  <2>4. Own(r)' = Own(r)
    BY <1>1 DEF Own
  <2>5. Finished(r)'
    BY <1>1, <2>1, <2>3, <2>4 DEF Finished, InPass
  <2>6. pc[r] \notin InPass /\ "acquire" \notin InPass
    BY <2>1 DEF InPass
  <2>7. Passing'
    BY <1>1, <1>2, <2>1, <2>2, <2>5, <2>6, OneOutside
  <2> QED
    BY <1>1, <1>2, <2>7 DEF AnsweredOwn, Own
<1> QED
  BY <1>4, <1>5 DEF run_server, CloseListener, AwaitHandlers, SpuriousWakeup, CloseRuntime, vars

\* A count of threads is a number of requests.
LEMMA AtMostRequests ==
    ASSUME NEW S \in SUBSET Requests
    PROVE  Cardinality(S) \in 0..MaxRequests
<1>1. IsFiniteSet(Requests) /\ Cardinality(Requests) = MaxRequests
  BY RequestsFinite, Interval DEF Requests
<1>2. Cardinality(S) <= Cardinality(Requests)
  BY <1>1, FS_Subset
<1>3. Cardinality(S) \in Nat /\ MaxRequests \in Nat
  BY RequestsFinite
<1> QED
  BY <1>1, <1>2, <1>3

\* The parts of Typed that the steps of one thread change.
ListsTyped == pending \in Seq(Requests) /\ work \in Seq(Seq(Requests))
RecordsTyped ==
    /\ done \in [Requests -> BOOLEAN] /\ ready \in [Requests -> BOOLEAN]
    /\ rc \in [Requests -> {0, 1}] /\ pass = All(0)
    /\ out = [r \in Requests |-> out[r]] /\ reply = [r \in Requests |-> reply[r]]
ShapesTyped == shape = [r \in Requests |-> shape[r]] /\ \A r \in Requests : shape[r] \in Shapes[r] \cup {NoShape}
HolderTyped == generation_mu \in Requests \cup {None} /\ failed \in BOOLEAN /\ used \in BOOLEAN
ServerTyped ==
    /\ [queue_policy |-> queue_policy, mtp |-> mtp] \in Options
    /\ main \in {"accept", "inline", "drain", "asleep", "returned", "closed",
                 "failed", "closed_in_use", "exited"}
    /\ active_handlers \in 0..MaxRequests /\ inline \in Requests \cup {None}

LEMMA TypedParts == Typed <=> ListsTyped /\ RecordsTyped /\ ShapesTyped /\ HolderTyped /\ ServerTyped /\ faults \in 0..MaxFaults
BY DEF Typed, ListsTyped, RecordsTyped, ShapesTyped, HolderTyped, ServerTyped

LEMMA TypedNext ==
    ASSUME ListsTyped', RecordsTyped', ShapesTyped', HolderTyped', ServerTyped', faults' \in 0..MaxFaults
    PROVE  Typed'
BY DEF Typed, ListsTyped, RecordsTyped, ShapesTyped, HolderTyped, ServerTyped

LEMMA FaultsBounded ==
    ASSUME faults \in 0..MaxFaults, UNCHANGED faults \/ (faults < MaxFaults /\ faults' = faults + 1)
    PROVE  faults' \in 0..MaxFaults
BY ReplayServerAssumption

LEMMA HandleTyped ==
    ASSUME QInv, NEW r \in Requests, handle_http_request(r)
    PROVE  Typed'
<1>1. pc[r] \notin {"none", "gone", "astray", "killed"} /\ UNCHANGED <<queue_policy, mtp, main, active_handlers, inline, shape>>
  BY DEF handle_http_request, HandlePlain, acquire_generation_slot, ContextExceeded, pending_enqueue,
         LockGeneration, Gather, ds4_replay_reset, ds4_replay_generate, pending_mark_done,
         UnlockGeneration, Answer, replay_mtp_service_run, options, listener
<1>2. ListsTyped /\ RecordsTyped /\ ShapesTyped /\ HolderTyped /\ ServerTyped /\ faults \in 0..MaxFaults /\ Typed /\ Passing
  BY <1>1, Going, TypedParts
<1>3. ShapesTyped' /\ ServerTyped'
  BY <1>1, <1>2 DEF ShapesTyped, ServerTyped
<1>4. ASSUME UNCHANGED <<pending, work>> PROVE ListsTyped'
  BY <1>2, <1>4 DEF ListsTyped
<1>5. ASSUME UNCHANGED <<done, ready, rc, pass, out>>, UNCHANGED reply \/ \E a : reply' = [reply EXCEPT ![r] = a]
      PROVE RecordsTyped'
  <2>1. reply' = [q \in Requests |-> reply'[q]]
    BY <1>2, <1>5 DEF RecordsTyped
  <2> QED
    BY <1>2, <1>5, <2>1 DEF RecordsTyped
<1>6. ASSUME UNCHANGED <<generation_mu, failed, used>> PROVE HolderTyped'
  BY <1>2, <1>6 DEF HolderTyped
<1>7. CASE HandlePlain(r) \/ acquire_generation_slot(r) \/ ContextExceeded(r) \/ Answer(r)
  <2>1. UNCHANGED <<pending, work, done, ready, rc, pass, out, generation_mu, failed, used, faults>>
    BY <1>7 DEF HandlePlain, acquire_generation_slot, ContextExceeded, Answer, records, holder, runtime
  <2>2. UNCHANGED reply \/ \E a : reply' = [reply EXCEPT ![r] = a]
    BY <1>7 DEF HandlePlain, acquire_generation_slot, ContextExceeded, Answer, Finish
  <2> QED
    BY <1>2, <1>3, <1>4, <1>5, <1>6, <2>1, <2>2, TypedNext, FaultsBounded
<1>8. CASE replay_mtp_service_run(r)
  <2>1. UNCHANGED <<pending, work, done, ready, rc, pass, out, generation_mu, failed, used>>
    BY <1>8 DEF replay_mtp_service_run, records, holder, runtime
  <2>2. \E a : reply' = [reply EXCEPT ![r] = a]
    BY <1>8 DEF replay_mtp_service_run, Finish
  <2>3. UNCHANGED faults \/ (faults < MaxFaults /\ faults' = faults + 1)
    BY <1>8 DEF replay_mtp_service_run
  <2> QED
    BY <1>2, <1>3, <1>4, <1>5, <1>6, <2>1, <2>2, <2>3, TypedNext, FaultsBounded
<1>9. CASE pending_enqueue(r)
  <2>1. UNCHANGED <<work, done, ready, rc, pass, out, reply, generation_mu, failed, used, faults>>
        /\ pending' = Append(pending, r)
    BY <1>9 DEF pending_enqueue, records, holder, runtime, history
  <2>2. ListsTyped'
    BY <1>2, <2>1 DEF ListsTyped
  <2> QED
    BY <1>2, <1>3, <1>5, <1>6, <2>1, <2>2, TypedNext, FaultsBounded
<1>10. CASE LockGeneration(r)
  <2>1. UNCHANGED <<pending, work, done, ready, rc, pass, out, reply, failed, used, faults>>
        /\ (UNCHANGED generation_mu \/ generation_mu' = r)
    BY <1>10 DEF LockGeneration, records, runtime, history
  <2>2. HolderTyped'
    BY <1>2, <2>1 DEF HolderTyped
  <2> QED
    BY <1>2, <1>3, <1>4, <1>5, <2>1, <2>2, TypedNext, FaultsBounded
<1>11. CASE Gather(r)
  <2>1. UNCHANGED <<pending, done, ready, rc, pass, out, reply, generation_mu, failed, used, faults>>
    BY <1>11 DEF Gather, records, runtime, history
  <2>2. ListsTyped'
    BY <1>2, <1>11, <2>1, GatherKeeps DEF ListsTyped
  <2> QED
    BY <1>2, <1>3, <1>5, <1>6, <2>1, <2>2, TypedNext, FaultsBounded
<1>12. CASE ds4_replay_reset(r)
  <2>1. UNCHANGED <<pending, work, done, ready, rc, pass, out, reply, generation_mu>>
    BY <1>12 DEF ds4_replay_reset, records, history
  <2>2. failed' \in BOOLEAN /\ (used' = FALSE \/ UNCHANGED used)
    BY <1>12 DEF ds4_replay_reset
  <2>3. HolderTyped'
    BY <1>2, <2>1, <2>2 DEF HolderTyped
  <2>4. UNCHANGED faults \/ (faults < MaxFaults /\ faults' = faults + 1)
    BY <1>12 DEF ds4_replay_reset
  <2> QED
    BY <1>2, <1>3, <1>4, <1>5, <2>1, <2>3, <2>4, TypedNext, FaultsBounded
<1>13. CASE ds4_replay_generate(r)
  <2>1. UNCHANGED <<pending, work, done, ready, rc, pass, reply, generation_mu>>
    BY <1>13 DEF ds4_replay_generate, records
  <2>2. /\ UNCHANGED failed \/ failed' = TRUE
        /\ used' = TRUE \/ UNCHANGED used
    BY <1>13 DEF ds4_replay_generate
  <2>3. HolderTyped'
    BY <1>2, <2>1, <2>2 DEF HolderTyped
  <2>4. UNCHANGED faults \/ (faults < MaxFaults /\ faults' = faults + 1)
    BY <1>13 DEF ds4_replay_generate
  <2>5. out' = [q \in Requests |-> out'[q]]
    BY <1>2, <1>13 DEF ds4_replay_generate, RecordsTyped
  <2>6. RecordsTyped'
    BY <1>2, <2>1, <2>5 DEF RecordsTyped
  <2> QED
    BY <1>2, <1>3, <1>4, <2>1, <2>3, <2>4, <2>6, TypedNext, FaultsBounded
<1>14. CASE pending_mark_done(r)
  <2>1. UNCHANGED <<pass, out, reply, generation_mu, used>> /\ failed' = FALSE
    BY <1>14 DEF pending_mark_done, runtime
  <2>2. ListsTyped'
    BY <1>14, MarkKeeps DEF ListsTyped
  <2>3. HolderTyped'
    BY <1>2, <2>1 DEF HolderTyped
  <2>4. PICK g : g = ToSet(Head(work))
    OBVIOUS
  <2>5. done' = [q \in Requests |-> done[q] \/ q \in g]
    BY <1>14, <2>4 DEF pending_mark_done
  <2>6. PICK c, bad : /\ rc' = [q \in Requests |-> IF q \in g /\ (failed \/ q \in bad) THEN 1 ELSE rc[q]]
                      /\ ready' = [q \in Requests |-> ready[q] \/ (q \in g /\ c /\ q \notin bad)]
                      /\ bad = {} \/ (faults < MaxFaults /\ \E q \in g : bad = {q})
                      /\ faults' = faults + Cardinality(bad)
    <3>1. PICK c : c = (mtp = "verify" /\ Len(Head(work)) > 1 /\ ~failed)
      OBVIOUS
    <3>2. PICK bad \in IF c /\ faults < MaxFaults THEN {{}} \cup {{q} : q \in g} ELSE {{}} :
             /\ rc' = [q \in Requests |-> IF q \in g /\ (failed \/ q \in bad) THEN 1 ELSE rc[q]]
             /\ ready' = [q \in Requests |-> ready[q] \/ (q \in g /\ c /\ q \notin bad)]
             /\ faults' = faults + Cardinality(bad)
      BY <1>14, <2>4, <3>1 DEF pending_mark_done
    <3> QED
      BY <3>2
  <2>7. UNCHANGED faults \/ (faults < MaxFaults /\ faults' = faults + 1)
    <3>1. faults \in Int
      BY <1>2, ReplayServerAssumption
    <3>2. CASE bad = {}
      BY <2>6, <3>1, <3>2, FS_EmptySet
    <3>3. CASE faults < MaxFaults /\ \E q \in g : bad = {q}
      <4>1. Cardinality(bad) = 1
        BY <3>3, FS_Singleton
      <4> QED
        BY <2>6, <3>3, <4>1
    <3> QED
      BY <2>6, <3>2, <3>3
  <2>8. RecordsTyped'
    <3>1. done' \in [Requests -> BOOLEAN] /\ ready' \in [Requests -> BOOLEAN]
      BY <1>2, <2>5, <2>6 DEF RecordsTyped
    <3>2. rc' \in [Requests -> {0, 1}]
      BY <1>2, <2>6 DEF RecordsTyped
    <3> QED
      BY <1>2, <2>1, <3>1, <3>2 DEF RecordsTyped
  <2> QED
    BY <1>2, <1>3, <2>2, <2>3, <2>7, <2>8, TypedNext, FaultsBounded
<1>15. CASE UnlockGeneration(r)
  <2>1. UNCHANGED <<ready, work, failed, used, out, reply, faults>> /\ generation_mu' = None
    BY <1>15 DEF UnlockGeneration, runtime, history
  <2>2. UNCHANGED <<pass, done, rc, pending>>
    BY <1>15, UnlockKeeps
  <2>3. HolderTyped'
    BY <1>2, <2>1 DEF HolderTyped
  <2> QED
    BY <1>2, <1>3, <1>4, <1>5, <2>1, <2>2, <2>3, TypedNext, FaultsBounded
<1> QED
  BY <1>7, <1>8, <1>9, <1>10, <1>11, <1>12, <1>13, <1>14, <1>15 DEF handle_http_request

\* Steps of main, and the end of a thread.
LEMMA OthersTyped ==
    ASSUME QInv, IInv',
           Accept \/ AcceptFails \/ run_server \/ SpuriousWakeup \/ Ending \/ UNCHANGED vars
           \/ \E r \in Requests : Leave(r)
    PROVE  Typed'
<1>1. ListsTyped /\ RecordsTyped /\ ShapesTyped /\ HolderTyped /\ ServerTyped /\ faults \in 0..MaxFaults /\ Typed
  BY TypedParts DEF QInv
<1>2. UNCHANGED <<queue_policy, mtp, pending, work, generation_mu, failed, used>>
  BY DEF Accept, AcceptFails, run_server, CloseListener, AwaitHandlers, SpuriousWakeup, Ending, CloseRuntime, Exit, Stray, vars, Leave,
         options, holder, runtime
<1>3. ListsTyped' /\ HolderTyped'
  BY <1>1, <1>2 DEF ListsTyped, HolderTyped
<1>4. faults' \in 0..MaxFaults
  <2>1. UNCHANGED faults \/ (faults < MaxFaults /\ faults' = faults + 1)
    BY DEF Accept, AcceptFails, run_server, CloseListener, AwaitHandlers, SpuriousWakeup, Ending, CloseRuntime, Exit, Stray, vars, Leave
  <2> QED
    BY <1>1, <2>1, FaultsBounded
<1>5. ServerTyped'
  <2>1. Intact' => active_handlers' \in 0..MaxRequests
    <3>1. HandlersCounted'
      BY DEF IInv
    <3>2. Handlers' \in SUBSET Requests
      BY DEF Handlers, Busy
    <3>3. Cardinality(Handlers') \in 0..MaxRequests
      BY <3>2, AtMostRequests
    <3> QED
      BY <3>1, <3>3 DEF HandlersCounted
  <2>2. ~Intact' => UNCHANGED active_handlers
    <3>1. ASSUME NEW r \in Requests, Leave(r) PROVE Intact'
      BY <3>1, Going DEF Leave, Intact
    <3> QED
      BY <3>1 DEF Accept, AcceptFails, run_server, CloseListener, AwaitHandlers, SpuriousWakeup, Ending, CloseRuntime, Exit, Stray, vars,
                  listener, Intact
  <2>3. /\ main' \in {"accept", "inline", "drain", "asleep", "returned", "closed",
                      "failed", "closed_in_use", "exited"}
        /\ inline' \in Requests \cup {None}
    <3>1. CASE Accept
      <4>1. accepted + 1 \in Requests
        BY <3>1, RequestsFinite DEF Accept, QInv, IInv, HandlersCounted, Requests
      <4> QED
        BY <1>1, <3>1, <4>1 DEF Accept, ServerTyped
    <3>2. CASE ~Accept
      BY <1>1, <3>2 DEF AcceptFails, run_server, CloseListener, AwaitHandlers, SpuriousWakeup, Ending, CloseRuntime, Exit, Stray, vars,
                        Leave, listener, ServerTyped
    <3> QED
      BY <3>1, <3>2
  <2> QED
    BY <1>1, <1>2, <2>1, <2>2, <2>3 DEF ServerTyped
<1>6. CASE Accept
  <2>1. ShapesTyped'
    BY <1>6, AcceptStarts DEF ShapesTyped
  <2>2. UNCHANGED <<done, ready, rc, pass, out, reply>>
    BY <1>6 DEF Accept, records, history
  <2>3. RecordsTyped'
    BY <1>1, <2>2 DEF RecordsTyped
  <2> QED
    BY <1>3, <1>4, <1>5, <2>1, <2>3, TypedNext
<1>7. CASE \E r \in Requests : Leave(r)
  <2>1. PICK r \in Requests : Forgotten(r)
    BY <1>7 DEF Leave
  <2>2. ShapesTyped'
    BY <1>1, <2>1 DEF Forgotten, ShapesTyped
  <2>3. RecordsTyped'
    <3>1. /\ done' = [done EXCEPT ![r] = FALSE] /\ rc' = [rc EXCEPT ![r] = 0]
          /\ ready' = [ready EXCEPT ![r] = FALSE] /\ pass' = [pass EXCEPT ![r] = 0]
          /\ out' = [out EXCEPT ![r] = NoState] /\ reply' = [reply EXCEPT ![r] = "none"]
      BY <2>1 DEF Forgotten
    <3>2. done' \in [Requests -> BOOLEAN] /\ ready' \in [Requests -> BOOLEAN]
      BY <1>1, <3>1 DEF RecordsTyped
    <3>3. rc' \in [Requests -> {0, 1}] /\ pass' = All(0)
      BY <1>1, <3>1 DEF RecordsTyped, All
    <3>4. out' = [q \in Requests |-> out'[q]] /\ reply' = [q \in Requests |-> reply'[q]]
      BY <1>1, <3>1 DEF RecordsTyped
    <3> QED
      BY <3>2, <3>3, <3>4 DEF RecordsTyped
  <2> QED
    BY <1>3, <1>4, <1>5, <2>2, <2>3, TypedNext
<1>8. CASE AcceptFails \/ run_server \/ SpuriousWakeup \/ Ending \/ UNCHANGED vars
  <2>1. UNCHANGED <<shape, done, ready, rc, pass, out, reply>>
    BY <1>8 DEF AcceptFails, run_server, CloseListener, AwaitHandlers, SpuriousWakeup, Ending, CloseRuntime, Exit, Stray, vars,
                records, history
  <2>2. ShapesTyped' /\ RecordsTyped'
    BY <1>1, <2>1 DEF ShapesTyped, RecordsTyped
  <2> QED
    BY <1>3, <1>4, <1>5, <2>2, TypedNext
<1> QED
  BY <1>6, <1>7, <1>8

LEMMA QInitially == Init => QInv
<1> SUFFICES ASSUME Init PROVE QInv
  OBVIOUS
<1>1. IInv
  BY Initially
<1>2. Typed
  <2>1. ListsTyped /\ HolderTyped
    <3>1. ListsTyped
      BY DEF Init, ListsTyped
    <3>2. HolderTyped
      BY DEF Init, HolderTyped
    <3> QED
      BY <3>1, <3>2
  <2>2. RecordsTyped /\ ShapesTyped
    BY DEF Init, RecordsTyped, ShapesTyped, All
  <2>3. ServerTyped
    <3>1. PICK o \in Options : queue_policy = o.queue_policy /\ mtp = o.mtp
      BY DEF Init
    <3>2. o \in [queue_policy : {"reject-busy", "sequential"}, mtp : {"off", "verify"}]
      BY ReplayServerAssumption
    <3>3. o = [queue_policy |-> queue_policy, mtp |-> mtp]
      BY <3>1, <3>2
    <3> QED
      BY <3>3, RequestsFinite DEF Init, ServerTyped
  <2>4. faults \in 0..MaxFaults
    BY ReplayServerAssumption DEF Init
  <2> QED
    BY <2>1, <2>2, <2>3, <2>4, TypedParts
<1>3. AnsweredOwn
  BY DEF Init, All, AnsweredOwn
<1>4. Listed
  <2>1. ToSet(pending) = {} /\ IsInjective(pending)
    BY DEF Init, ToSet, IsInjective
  <2> QED
    BY <2>1 DEF Init, All, Listed, InPass
<1>5. Mutex
  BY RequestsFinite DEF Init, All, Mutex, Critical
<1>6. Groups
  <2>1. work = <<>> /\ Len(work) = 0
    BY DEF Init
  <2> QED
    BY <2>1 DEF Groups
<1>7. \A r \in Requests : Turn(r) /\ Finished(r)
  BY DEF Init, All, Turn, Working, Finished
<1> QED
  BY <1>1, <1>2, <1>3, <1>4, <1>5, <1>6, <1>7 DEF QInv, Passing

LEMMA QInductive == QInv /\ [Next]_vars => QInv'
<1> SUFFICES ASSUME QInv, [Next]_vars PROVE QInv'
  OBVIOUS
<1>1. IInv'
  BY Inductive DEF QInv
<1>2. CASE \E r \in Requests : handle_http_request(r)
  <2>1. PICK r \in Requests : handle_http_request(r)
    BY <1>2
  <2>2. Passing' /\ AnsweredOwn'
    BY <2>1, OutsideHandlers, EnqueueKeeps, LockKeeps, GatherKeeps, ResetKeeps, GenerateKeeps,
       MarkKeeps, UnlockKeeps DEF handle_http_request
  <2>3. Typed'
    BY <2>1, HandleTyped
  <2> QED
    BY <1>1, <2>2, <2>3 DEF QInv
<1>3. CASE \E r \in Requests : Leave(r)
  <2>1. Typed'
    BY <1>1, <1>3, OthersTyped
  <2> QED
    BY <1>1, <1>3, <2>1, LeaveForgets DEF QInv
<1>4. CASE Accept
  <2>1. Typed'
    BY <1>1, <1>4, OthersTyped
  <2> QED
    BY <1>1, <1>4, <2>1, AcceptStarts DEF QInv
<1>5. CASE AcceptFails
  <2>1. Typed'
    BY <1>1, <1>5, OthersTyped
  <2>2. AnsweredOwn'
    BY <1>5 DEF QInv, AnsweredOwn, Own, AcceptFails, history
  <2> QED
    BY <1>1, <1>5, <2>1, <2>2 DEF QInv, AcceptFails, Intact
<1>6. CASE run_server \/ SpuriousWakeup \/ CloseRuntime \/ UNCHANGED vars
  <2>1. Typed'
    BY <1>1, <1>6, OthersTyped DEF Ending
  <2> QED
    BY <1>1, <1>6, <2>1, OthersPass DEF QInv
<1>7. CASE Exit \/ \E r \in Requests : Stray(r)
  <2>1. Typed'
    BY <1>1, <1>7, OthersTyped DEF Ending
  <2>2. AnsweredOwn'
    BY <1>7 DEF QInv, AnsweredOwn, Own, Exit, Stray, history
  <2>3. ~Intact'
    BY <1>7 DEF QInv, IInv, HandlersCounted, Exit, Stray, Intact
  <2> QED
    BY <1>1, <2>1, <2>2, <2>3 DEF QInv
<1> QED
  BY <1>2, <1>3, <1>4, <1>5, <1>6, <1>7 DEF Next, request_worker_main, Ended

LEMMA PassesInOrder == Spec => []QInv
BY QInitially, QInductive, PTL DEF Spec

-----------------------------------------------------------------------------
\* What the pending list and the groups of the holder of generation_mu refer to
\* lies on the stack of a thread that is still in its two passes
\* (tools/replay.c, replay_pending_generation in handle_http_request).
THEOREM PendingRecordsLive == Spec => []PendingOutlivesUse
<1>1. QInv => PendingOutlivesUse
  <2> SUFFICES ASSUME QInv PROVE PendingOutlivesUse
    OBVIOUS
  <2>1. Typed /\ IInv
    BY DEF QInv
  <2>2. TypeOK
    <3>1. accepted \in 0..MaxRequests /\ pc \in [Requests -> Places] /\ active_generation_slots \in 0..Cap
      BY <2>1 DEF IInv, HandlersCounted, SlotsCounted
    <3>2. {done[r] : r \in Requests} \cup {ready[r] : r \in Requests} \subseteq BOOLEAN
      BY <2>1 DEF Typed
    <3>3. pass \in [Requests -> 0..2]
      BY <2>1 DEF Typed, All
    <3> QED
      BY <2>1, <3>1, <3>2, <3>3 DEF TypeOK, Typed, Places
  <2>3. ASSUME Intact, NEW r \in ToSet(pending) PROVE pc[r] \in InPass
    <3>1. r \in Requests /\ Passing
      BY <2>1, <2>3 DEF Typed, ToSet, QInv
    <3> QED
      BY <2>3, <3>1 DEF Passing, Listed
  <2>4. ASSUME Intact, NEW i \in DOMAIN work, NEW r \in ToSet(work[i]) PROVE pc[r] \in InPass
    <3>1. i \in 1..Len(work) /\ Passing
      BY <2>1, <2>4 DEF Typed, QInv
    <3> QED
      BY <2>1, <2>4, <3>1, GroupMembers
  <2> QED
    BY <2>2, <2>3, <2>4 DEF PendingOutlivesUse
<1> QED
  BY <1>1, PassesInOrder, PTL

\* A thread that took generation_mu finds its own request done when it gives it
\* back: the second pass, and the answer pending_generation_not_completed, are
\* never needed (tools/replay.c, the loop over pass).
THEOREM FirstPassCompletes == Spec => []OnePassSuffices
<1>1. QInv => OnePassSuffices
  BY DEF QInv, Typed, All, OnePassSuffices
<1> QED
  BY <1>1, PassesInOrder, PTL

\* No connection is closed without an answer, and the tokens of an answer were
\* selected from a slot that was fed the request's own prompt, whole, whatever
\* prompts were sorted and batched with it (tools/replay.c,
\* replay_sort_batch_plan and ds4_replay_generate_batch).
THEOREM TokensAreOfOwnPrompt == Spec => []AnswersOwnPrompt
<1>1. QInv => AnswersOwnPrompt
  <2> SUFFICES ASSUME QInv, NEW r \in Requests
               PROVE  /\ pc[r] = "leave" => reply[r] # "none"
                      /\ reply[r] = "ok" => Own(r)
    BY DEF AnswersOwnPrompt, Own
  <2>1. pc[r] = "leave" => Intact
    BY DEF QInv, IInv, HandlersCounted
  <2> QED
    BY <2>1 DEF QInv, AnsweredOwn, Passing, Finished
<1> QED
  BY <1>1, PassesInOrder, PTL
=============================================================================

---------------------------- MODULE ReplayServer ----------------------------
(***************************************************************************)
(* The HTTP server of the layer-parallel replay engine.  Each connection   *)
(* has a thread.  A generation request takes one of Cap generation slots,  *)
(* puts a record that lives on its own stack into the pending list, and    *)
(* takes generation_mu; whoever holds it runs up to Cap pending requests,  *)
(* its own and other threads', together when they agree in token count     *)
(* and one after the other when not.  A thread that finds its request done *)
(* when it gets the lock only answers it.                                  *)
(*                                                                         *)
(* Every critical section is one step; what the holder of generation_mu    *)
(* does to the replay runtime is split into reset, generation and marking, *)
(* because the MTP check of an unbatched request reads the runtime without *)
(* the lock.  A request is its shape: a token count and a prompt length,   *)
(* or one that is answered without a generation slot ("plain") or does not *)
(* fit the context ("long").                                               *)
(*                                                                         *)
(* main calls run_server and then closes the MTP service and the runtime.  *)
(* It does so in order after the last request, and under running handlers  *)
(* when accept() fails: from there on those threads are "astray".          *)
(***************************************************************************)
EXTENDS Integers, Sequences, FiniteSets, SequencesExt

CONSTANTS None,        \* no request
          Cap,         \* opt->active_microbatch
          Shapes,      \* Shapes[r]: the [kind, tokens, len] the r-th request may have
          Options,     \* [queue_policy, mtp] considered: opt->queue_policy and opt->mtp_serving
          MaxRequests, \* opt->max_requests
          MaxFaults    \* failures considered (a bound of the model)

\* Requests are numbered as they are accepted.
Requests == 1..MaxRequests

ASSUME ReplayServerAssumption ==
    /\ None \notin Requests
    /\ Cap \in Nat \ {0} /\ MaxRequests \in Nat \ {0} /\ MaxFaults \in Nat
    /\ \A r \in Requests : \A f \in Shapes[r] :
          f.kind \in {"plain", "long", "generate"} /\ f.tokens \in Nat \ {0} /\ f.len \in Nat \ {0}
    /\ Options \subseteq [queue_policy : {"reject-busy", "sequential"}, mtp : {"off", "verify"}]

VARIABLES
    queue_policy, mtp,           \* options
    main, accepted, active_handlers,   \* run_server, and main after it
    inline,                      \* the request that main handles itself
    pc, shape,                   \* of each request's thread
    active_generation_slots,
    pending,                     \* the pending list
    done, rc, ready, pass,       \* of each replay_pending_generation
    generation_mu,               \* who holds it
    work,                        \* the groups its holder still has to run
    failed,                      \* rc of the group being run
    used, hc,                    \* the runtime: what each scheduler slot holds
    out, seen,                   \* what a request's outputs and its MTP check came from
    reply, faults

options   == <<queue_policy, mtp>>
listener  == <<main, accepted, active_handlers, inline>>
records   == <<done, rc, ready, pass>>
holder    == <<generation_mu, work, failed>>
runtime   == <<used, hc>>
history   == <<out, seen, reply>>
vars == <<options, listener, pc, shape, active_generation_slots, pending, records,
          holder, runtime, history, faults>>

SchedSlots == 1..Cap
NoState == [req |-> None, fed |-> 0]
Blank   == [s \in SchedSlots |-> NoState]
NoShape == [kind |-> "none", tokens |-> 1, len |-> 1]
All(x)  == [r \in Requests |-> x]

\* After the startup warmup, which ends in a reset.
Init ==
    /\ \E o \in Options : queue_policy = o.queue_policy /\ mtp = o.mtp
    /\ main = "accept" /\ accepted = 0 /\ active_handlers = 0 /\ inline = None
    /\ pc = All("none") /\ shape = All(NoShape)
    /\ active_generation_slots = 0 /\ pending = <<>>
    /\ done = All(FALSE) /\ rc = All(0) /\ ready = All(FALSE) /\ pass = All(0)
    /\ generation_mu = None /\ work = <<>> /\ failed = FALSE
    /\ used = FALSE /\ hc = Blank
    /\ out = All(NoState) /\ seen = All(None) /\ reply = All("none")
    /\ faults = 0

-----------------------------------------------------------------------------
OneLess(n) == IF n > 0 THEN n - 1 ELSE n
Moved(r, p) == [pc EXCEPT ![r] = p]

\* The answers given before a generation slot is asked for.
HandlePlain(r) ==
    /\ pc[r] = "read" /\ shape[r].kind = "plain"
    /\ reply' = [reply EXCEPT ![r] = "plain"]
    /\ pc' = Moved(r, "leave")
    /\ UNCHANGED <<options, listener, shape, active_generation_slots, pending, records, holder,
                   runtime, out, seen, faults>>

acquire_generation_slot_late(r) ==
    /\ pc[r] \in {"read", "acquire"} /\ shape[r].kind # "plain"
    /\ \/ /\ active_generation_slots > Cap /\ queue_policy = "reject-busy"
          /\ reply' = [reply EXCEPT ![r] = "busy"]
          /\ pc' = Moved(r, "leave") /\ UNCHANGED active_generation_slots
       \/ /\ active_generation_slots > Cap /\ queue_policy = "sequential"
          /\ pc' = Moved(r, "asleep") /\ UNCHANGED <<active_generation_slots, reply>>
       \/ /\ active_generation_slots <= Cap
          /\ active_generation_slots' = active_generation_slots + 1
          /\ pc' = Moved(r, "admitted") /\ UNCHANGED reply
    /\ UNCHANGED <<options, listener, shape, pending, records, holder, runtime, out, seen, faults>>

acquire_generation_slot(r) ==
    /\ pc[r] \in {"read", "acquire"} /\ shape[r].kind # "plain"
    /\ \/ /\ active_generation_slots >= Cap /\ queue_policy = "reject-busy"
          /\ reply' = [reply EXCEPT ![r] = "busy"]
          /\ pc' = Moved(r, "leave") /\ UNCHANGED active_generation_slots
       \/ /\ active_generation_slots >= Cap /\ queue_policy = "sequential"
          /\ pc' = Moved(r, "asleep") /\ UNCHANGED <<active_generation_slots, reply>>
       \/ /\ active_generation_slots < Cap
          /\ active_generation_slots' = active_generation_slots + 1
          /\ pc' = Moved(r, "admitted") /\ UNCHANGED reply
    /\ UNCHANGED <<options, listener, shape, pending, records, holder, runtime, out, seen, faults>>

release_generation_slot_silently(r) ==
    /\ active_generation_slots' = OneLess(active_generation_slots)
    /\ pc' = Moved(r, "leave")

\* One of the threads that wait for a slot is woken.
release_generation_slot(r) ==
    LET asleep == {q \in Requests : pc[q] = "asleep"} IN
    /\ active_generation_slots' = OneLess(active_generation_slots)
    /\ \/ asleep = {} /\ pc' = Moved(r, "leave")
       \/ \E q \in asleep : pc' = [pc EXCEPT ![r] = "leave", ![q] = "acquire"]

Finish(r, answer) ==
    /\ reply' = [reply EXCEPT ![r] = answer]
    /\ release_generation_slot(r)

ContextExceeded(r) ==
    /\ pc[r] = "admitted" /\ shape[r].kind = "long"
    /\ Finish(r, "context_exceeded")
    /\ UNCHANGED <<options, listener, shape, pending, records, holder, runtime, out, seen, faults>>

pending_enqueue(r) ==
    /\ pc[r] = "admitted" /\ shape[r].kind = "generate"
    /\ pending' = Append(pending, r)
    /\ pc' = Moved(r, "lock")
    /\ UNCHANGED <<options, listener, shape, active_generation_slots, records, holder, runtime,
                   history, faults>>

-----------------------------------------------------------------------------
\* The head of a pass: a request done by another thread only has to be answered.
LockGeneration(r) ==
    /\ pc[r] = "lock" /\ generation_mu = None
    /\ IF done[r] THEN pc' = Moved(r, "answer") /\ UNCHANGED generation_mu
                  ELSE pc' = Moved(r, "gather") /\ generation_mu' = r
    /\ UNCHANGED <<options, listener, shape, active_generation_slots, pending, records, work, failed,
                   runtime, history, faults>>

\* The elements of a list that belong to S, in the list's order, by their rank.
Among(list, S) ==
    LET places == {i \in DOMAIN list : list[i] \in S}
        Place(k) == CHOOSE i \in places : Cardinality({j \in places : j <= i}) = k
    IN  [k \in 1..Cardinality(places) |-> list[Place(k)]]

pending_collect_batch ==
    LET waiting == Among(pending, {r \in Requests : ~done[r]})
    IN  SubSeq(waiting, 1, IF Len(waiting) < Cap THEN Len(waiting) ELSE Cap)

\* MTP commit, which never batches, runs with Cap = 1 only.
CanBatch(items) ==
    /\ Len(items) > 1
    /\ \A r \in ToSet(items) :
          /\ shape[r].tokens = shape[items[1]].tokens
          /\ mtp = "verify" => shape[r].len = shape[items[1]].len

\* pending_wait_for_microbatch, which a timer ends at any moment, and the
\* choice between one group and one group per request.
Gather(r) ==
    LET items == pending_collect_batch IN
    /\ pc[r] = "gather"
    /\ work' = IF CanBatch(items) THEN <<items>> ELSE [i \in DOMAIN items |-> <<items[i]>>]
    /\ pc' = Moved(r, IF items = <<>> THEN "unlock" ELSE "reset")
    /\ UNCHANGED <<options, listener, shape, active_generation_slots, pending, records,
                   generation_mu, failed, runtime, history, faults>>

ds4_replay_reset(r) ==
    /\ pc[r] = "reset"
    /\ \/ used' = FALSE /\ hc' = Blank /\ failed' = FALSE
          /\ pc' = Moved(r, "generate") /\ UNCHANGED faults
       \/ /\ faults < MaxFaults /\ faults' = faults + 1
          /\ hc' \in {hc, Blank} /\ failed' = TRUE
          /\ pc' = Moved(r, "mark") /\ UNCHANGED used
    /\ UNCHANGED <<options, listener, shape, active_generation_slots, pending, records,
                   generation_mu, work, history>>

-----------------------------------------------------------------------------
SlotOfUnsorted(g, i) == i

\* replay_sort_batch_plan: the scheduler slot of the i-th prompt of a group,
\* longest prompt first, in the order of the group among equals.
SlotOf(g, i) ==
    1 + Cardinality({j \in DOMAIN g : \/ shape[g[j]].len > shape[g[i]].len
                                      \/ shape[g[j]].len = shape[g[i]].len /\ j < i})

PlanAt(g, s) == g[CHOOSE i \in DOMAIN g : SlotOf(g, i) = s]

\* Prompt tokens that reach slot s: at each position the slots are taken from
\* the first one on, as long as their prompts go that far.
Fed(g, s) ==
    Cardinality({pos \in 0..(shape[PlanAt(g, s)].len - 1) :
                    \A t \in 1..s : shape[PlanAt(g, t)].len > pos})

\* ds4_replay_generate_batch, and ds4_replay_generate for a group of one.  What
\* the slots hold afterwards is followed only when MTP will read it.
ds4_replay_generate(r) ==
    LET g == Head(work)
        held == [s \in SchedSlots |-> IF s <= Len(g) THEN [req |-> PlanAt(g, s), fed |-> Fed(g, s)]
                                      ELSE hc[s]]
    IN
    /\ pc[r] = "generate"
    /\ \/ /\ ~used
          /\ hc' = (IF mtp = "off" THEN hc ELSE held) /\ used' = TRUE
          /\ out' = [q \in Requests |-> IF \E i \in DOMAIN g : g[i] = q
                                        THEN held[SlotOf(g, CHOOSE i \in DOMAIN g : g[i] = q)]
                                        ELSE out[q]]
          /\ UNCHANGED <<failed, faults>>
       \/ /\ faults < MaxFaults /\ faults' = faults + 1
          /\ failed' = TRUE
          /\ UNCHANGED <<hc, used, out>>
    /\ pc' = Moved(r, "mark")
    /\ UNCHANGED <<options, listener, shape, active_generation_slots, pending, records,
                   generation_mu, work, seen, reply>>

Verified(r) == mtp = "verify" /\ shape[r].tokens >= 2

pending_mark_done_keeps_listed(r) ==
    LET g == Head(work)
        checked == mtp = "verify" /\ Len(g) > 1 /\ ~failed
        InGroup(q) == q \in ToSet(g)
        Place(q) == CHOOSE i \in DOMAIN g : g[i] = q
    IN
    /\ pc[r] = "mark"
    /\ \E bad \in IF checked /\ faults < MaxFaults THEN {{}} \cup {{q} : q \in ToSet(g)} ELSE {{}} :
          /\ rc' = [q \in Requests |-> IF InGroup(q) /\ (failed \/ q \in bad) THEN 1 ELSE rc[q]]
          /\ ready' = [q \in Requests |-> ready[q] \/ (InGroup(q) /\ checked /\ q \notin bad)]
          /\ faults' = faults + Cardinality(bad)
    /\ done' = [q \in Requests |-> done[q] \/ InGroup(q)]
    /\ seen' = [q \in Requests |-> IF InGroup(q) /\ checked /\ Verified(q)
                                   THEN hc[Place(q)].req ELSE seen[q]]
    /\ work' = Tail(work) /\ failed' = FALSE
    /\ pc' = Moved(r, IF Len(work) > 1 THEN "reset" ELSE "unlock")
    /\ UNCHANGED <<options, listener, shape, active_generation_slots, pending, pass, generation_mu,
                   runtime, out, reply>>

\* Every request of the group is marked and leaves the list.  In verify mode
\* the i-th one of a batch is checked against scheduler slot i first.
pending_mark_done(r) ==
    LET g == Head(work)
        checked == mtp = "verify" /\ Len(g) > 1 /\ ~failed
        InGroup(q) == q \in ToSet(g)
        Place(q) == CHOOSE i \in DOMAIN g : g[i] = q
    IN
    /\ pc[r] = "mark"
    /\ \E bad \in IF checked /\ faults < MaxFaults THEN {{}} \cup {{q} : q \in ToSet(g)} ELSE {{}} :
          /\ rc' = [q \in Requests |-> IF InGroup(q) /\ (failed \/ q \in bad) THEN 1 ELSE rc[q]]
          /\ ready' = [q \in Requests |-> ready[q] \/ (InGroup(q) /\ checked /\ q \notin bad)]
          /\ faults' = faults + Cardinality(bad)
    /\ done' = [q \in Requests |-> done[q] \/ InGroup(q)]
    /\ pending' = Among(pending, Requests \ ToSet(g))
    /\ seen' = [q \in Requests |-> IF InGroup(q) /\ checked /\ Verified(q)
                                   THEN hc[Place(q)].req ELSE seen[q]]
    /\ work' = Tail(work) /\ failed' = FALSE
    /\ pc' = Moved(r, IF Len(work) > 1 THEN "reset" ELSE "unlock")
    /\ UNCHANGED <<options, listener, shape, active_generation_slots, pass, generation_mu, runtime,
                   out, reply>>

\* The end of a pass.  After the second one the handler gives up.
UnlockGeneration(r) ==
    LET gives_up == ~done[r] /\ pass[r] = 1 IN
    /\ pc[r] = "unlock"
    /\ generation_mu' = None
    /\ pass' = [pass EXCEPT ![r] = IF done[r] THEN @ ELSE @ + 1]
    /\ done' = [done EXCEPT ![r] = @ \/ gives_up]
    /\ rc' = [rc EXCEPT ![r] = IF gives_up THEN 1 ELSE @]
    /\ pending' = IF gives_up THEN Among(pending, Requests \ {r}) ELSE pending
    /\ pc' = Moved(r, IF done[r] \/ gives_up THEN "answer" ELSE "lock")
    /\ UNCHANGED <<options, listener, shape, active_generation_slots, ready, work, failed, runtime,
                   history, faults>>

-----------------------------------------------------------------------------
\* The end of a request that has been admitted: its answer, and the release.
Answer(r) ==
    /\ pc[r] = "answer"
    /\ \/ rc[r] # 0 /\ Finish(r, "failed")
       \/ rc[r] = 0 /\ (mtp = "off" \/ ready[r]) /\ Finish(r, "ok")
       \/ /\ rc[r] = 0 /\ mtp = "verify" /\ ~ready[r]
          /\ pc' = Moved(r, "verify") /\ UNCHANGED <<active_generation_slots, reply>>
    /\ UNCHANGED <<options, listener, shape, pending, records, holder, runtime, out, seen, faults>>

\* replay_mtp_service_run: the first scheduler slot is read, without the lock.
replay_mtp_service_run(r) ==
    /\ pc[r] = "verify"
    /\ seen' = [seen EXCEPT ![r] = IF Verified(r) THEN hc[1].req ELSE @]
    /\ \/ Finish(r, "ok") /\ UNCHANGED faults
       \/ /\ Verified(r) /\ faults < MaxFaults
          /\ Finish(r, "failed") /\ faults' = faults + 1
    /\ UNCHANGED <<options, listener, shape, pending, records, holder, runtime, out>>

\* The request's record goes out of scope.
Forgotten(r) ==
    /\ shape' = [shape EXCEPT ![r] = NoShape]
    /\ done' = [done EXCEPT ![r] = FALSE] /\ rc' = [rc EXCEPT ![r] = 0]
    /\ ready' = [ready EXCEPT ![r] = FALSE] /\ pass' = [pass EXCEPT ![r] = 0]
    /\ out' = [out EXCEPT ![r] = NoState] /\ seen' = [seen EXCEPT ![r] = None]
    /\ reply' = [reply EXCEPT ![r] = "none"]

\* The connection is closed; a thread of its own is counted out, main goes on.
Leave(r) ==
    /\ pc[r] = "leave"
    /\ pc' = Moved(r, "gone")
    /\ IF inline = r
       THEN inline' = None /\ main' = "accept" /\ UNCHANGED active_handlers
       ELSE /\ active_handlers' = OneLess(active_handlers)
            /\ main' = IF main = "asleep" THEN "drain" ELSE main
            /\ UNCHANGED inline
    /\ Forgotten(r)
    /\ UNCHANGED <<options, accepted, active_generation_slots, pending, holder, runtime, faults>>

handle_http_request(r) ==
    \/ HandlePlain(r) \/ acquire_generation_slot(r) \/ ContextExceeded(r) \/ pending_enqueue(r)
    \/ LockGeneration(r) \/ Gather(r) \/ ds4_replay_reset(r) \/ ds4_replay_generate(r)
    \/ pending_mark_done(r) \/ UnlockGeneration(r)
    \/ Answer(r) \/ replay_mtp_service_run(r)

\* The last step of request_worker_main, or of main for a request of its own.
request_worker_main(r) == handle_http_request(r) \/ Leave(r)

-----------------------------------------------------------------------------
AcceptUncounted ==
    LET r == accepted + 1 IN
    /\ main = "accept" /\ accepted < MaxRequests
    /\ accepted' = r
    /\ pc' = Moved(r, "read")
    /\ \E f \in Shapes[r] : shape' = [shape EXCEPT ![r] = f]
    /\ UNCHANGED <<options, active_handlers, inline, main, active_generation_slots, pending, records,
                   holder, runtime, history, faults>>

\* A thread is counted in before it is created; when it cannot be, the request
\* is handled by main itself.
Accept ==
    LET r == accepted + 1 IN
    /\ main = "accept" /\ accepted < MaxRequests
    /\ accepted' = r
    /\ pc' = Moved(r, "read")
    /\ \E f \in Shapes[r] : shape' = [shape EXCEPT ![r] = f]
    /\ \/ active_handlers' = active_handlers + 1 /\ UNCHANGED <<inline, main, faults>>
       \/ /\ faults < MaxFaults /\ faults' = faults + 1
          /\ inline' = r /\ main' = "inline" /\ UNCHANGED active_handlers
    /\ UNCHANGED <<options, active_generation_slots, pending, records, holder, runtime, history>>

\* The threads that have not closed their connection come to p.
AllTo(p) == [r \in Requests |-> IF pc[r] \in {"none", "gone"} THEN pc[r] ELSE p]

\* accept() fails: the locks are destroyed and run_server returns at once.  The
\* handlers that are left go on with its dead frame and its destroyed locks,
\* which is undefined: each may be anywhere in the handler, the engine
\* included, and the variables that stand for the frame are followed no longer.
AcceptFails ==
    /\ main = "accept" /\ accepted < MaxRequests /\ faults < MaxFaults
    /\ main' = "failed" /\ faults' = faults + 1
    /\ pc' = AllTo("astray")
    /\ UNCHANGED <<options, accepted, active_handlers, inline, shape, active_generation_slots,
                   pending, records, holder, runtime, history>>

CloseListener ==
    /\ main = "accept" /\ accepted = MaxRequests
    /\ main' = "drain"
    /\ UNCHANGED <<options, accepted, active_handlers, inline, pc, shape, active_generation_slots,
                   pending, records, holder, runtime, history, faults>>

AwaitHandlers ==
    /\ main = "drain"
    /\ main' = IF active_handlers = 0 THEN "returned" ELSE "asleep"
    /\ UNCHANGED <<options, accepted, active_handlers, inline, pc, shape, active_generation_slots,
                   pending, records, holder, runtime, history, faults>>

run_server == CloseListener \/ AwaitHandlers

\* After either return, main closes the MTP service and the runtime.
CloseRuntime ==
    /\ \/ main = "returned" /\ main' = "closed"
       \/ main = "failed" /\ main' = "closed_in_use"
    /\ UNCHANGED <<options, accepted, active_handlers, inline, pc, shape, active_generation_slots,
                   pending, records, holder, runtime, history, faults>>

\* main returns, which ends the process and every thread that is left.
Exit ==
    /\ main \in {"closed", "closed_in_use"}
    /\ main' = "exited" /\ pc' = AllTo("killed")
    /\ UNCHANGED <<options, accepted, active_handlers, inline, shape, active_generation_slots,
                   pending, records, holder, runtime, history, faults>>

\* What a handler does after a failed accept(), before or after the runtime is
\* closed: it stays where it is, comes to its end, or brings the process down.
Stray(r) ==
    /\ main \in {"failed", "closed_in_use"} /\ pc[r] = "astray"
    /\ \/ pc' = Moved(r, "gone") /\ UNCHANGED main
       \/ main' = "exited" /\ pc' = AllTo("killed")
    /\ UNCHANGED <<options, accepted, active_handlers, inline, shape, active_generation_slots,
                   pending, records, holder, runtime, history, faults>>

\* A wait may return without a signal.
SpuriousWakeup ==
    /\ \/ \E r \in Requests : pc[r] = "asleep" /\ pc' = Moved(r, "acquire") /\ UNCHANGED main
       \/ main = "asleep" /\ main' = "drain" /\ UNCHANGED pc
    /\ UNCHANGED <<options, accepted, active_handlers, inline, shape, active_generation_slots,
                   pending, records, holder, runtime, history, faults>>

Ended == main = "exited" /\ UNCHANGED vars

Next ==
    \/ Accept \/ AcceptFails \/ run_server \/ CloseRuntime \/ Exit
    \/ \E r \in Requests : request_worker_main(r) \/ Stray(r)
    \/ SpuriousWakeup \/ Ended

\* Threads that can run do run, calls into the engine return, and a client
\* that has connected sends its request.  Nothing is owed after a failed
\* accept(): destroying a lock in use may block, and so may closing the runtime.
Fairness ==
    /\ \A r \in Requests : WF_vars(request_worker_main(r))
    /\ WF_vars(run_server)
    /\ WF_vars(main \in {"returned", "closed"} /\ (CloseRuntime \/ Exit))

Spec == Init /\ [][Next]_vars
FairSpec == Spec /\ Fairness

-----------------------------------------------------------------------------
\* Threads that hold a generation slot, and those of them whose record may be
\* in the pending list or in a group.
InPass  == {"lock", "gather", "reset", "generate", "mark", "unlock"}
Holding == InPass \cup {"admitted", "answer", "verify"}

\* Whether run_server's frame is there for its handlers.
Intact == main \notin {"failed", "closed_in_use", "exited"}

TypeOK ==
    /\ [queue_policy |-> queue_policy, mtp |-> mtp] \in Options
    /\ main \in {"accept", "inline", "drain", "asleep", "returned", "closed",
                 "failed", "closed_in_use", "exited"}
    /\ accepted \in 0..MaxRequests /\ active_handlers \in 0..MaxRequests
    /\ inline \in Requests \cup {None}
    /\ pc \in [Requests -> Holding \cup {"none", "read", "acquire", "asleep", "leave", "gone",
                                        "astray", "killed"}]
    /\ \A r \in Requests : shape[r] \in Shapes[r] \cup {NoShape}
    /\ active_generation_slots \in 0..Cap
    /\ pending \in Seq(Requests) /\ work \in Seq(Seq(Requests))
    /\ {done[r] : r \in Requests} \cup {ready[r] : r \in Requests} \subseteq BOOLEAN
    /\ rc \in [Requests -> {0, 1}] /\ pass \in [Requests -> 0..2]
    /\ generation_mu \in Requests \cup {None} /\ failed \in BOOLEAN /\ used \in BOOLEAN
    /\ faults \in 0..MaxFaults

\* Whatever the pending list or the holder of generation_mu refers to lies on
\* the stack of a thread that is still in its two passes, until an accept()
\* fails.
PendingOutlivesUse ==
    /\ TypeOK
    /\ Intact =>
      \A r \in ToSet(pending) \cup UNION {ToSet(work[i]) : i \in DOMAIN work} : pc[r] \in InPass

\* The first pass always completes the thread's own request: the second one,
\* and "pending_generation_not_completed", are never needed.
OnePassSuffices == \A r \in Requests : pass[r] = 0

\* No connection is closed without an answer, and tokens are answered only when
\* they were selected from a scheduler slot that was fed the request's own
\* prompt, whole, whatever else was in the batch, until an accept() fails.
AnswersOwnPrompt ==
    \A r \in Requests :
        /\ pc[r] = "leave" => reply[r] # "none"
        /\ reply[r] = "ok" => out[r] = [req |-> r, fed |-> shape[r].len]

\* The way out after the last request is orderly: from the return of run_server
\* on, while main closes the MTP service and the runtime and until the process
\* ends, no connection is open and no handler runs.  The other return, after a
\* failed accept(), is not: there main closes the runtime under running
\* handlers, and nothing is claimed.
OrderlyExit ==
    main \in {"returned", "closed"} => \A r \in Requests : pc[r] \in {"none", "gone"}

\* Once the last request has been accepted, every thread comes to its end, main
\* closes the runtime and the process ends: no thread sleeps through the release
\* it waits for, nor main through the last thread's.
ServerEnds == (accepted = MaxRequests) ~> main = "exited"

\* "Verification stays inside the generation critical section so another
\* request cannot reset the replay runtime before HC is read."
VerifiesOwnState ==
    \A r \in Requests : reply[r] = "ok" /\ Verified(r) => seen[r] = r
=============================================================================

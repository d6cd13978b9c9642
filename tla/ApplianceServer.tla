--------------------------- MODULE ApplianceServer ---------------------------
(***************************************************************************)
(* The request loop of the TP/EP HTTP appliance (run_tp_ep_http_server in  *)
(* appliance/http_server.cu).  One thread accepts connections, coalesces   *)
(* compatible generation requests into a batch of at most NSlots, assigns  *)
(* each member a resident KV slot, runs the engine one position at a time  *)
(* for the whole batch, commits the slots and answers.  Requests that do   *)
(* not fit the batch wait in pending_generation with their socket open.    *)
(*                                                                         *)
(* The thread is sequential: `pc' is where it is in the loop.  What it     *)
(* cannot control is nondeterministic: which client connects when, what it *)
(* sends, whether it hangs up, when the coalescing wait times out, and     *)
(* whether an engine call fails.                                           *)
(***************************************************************************)
EXTENDS SessionTable, Sequences

CONSTANTS
    Clients,      \* connections; each connects at most once
    Sessions,     \* explicit session_id / cache_key / conversation_id values
    NoSession,    \* the request names no session
    Shapes,       \* the requests clients may send (a subset of Shape)
    BadPrompts,   \* prompts materialize_prompt_tokens refuses
    DecodeSteps,  \* --decode-steps: fallback for an absent max_tokens
    MaxRequests,  \* --max-requests (0: serve forever)
    FdLimit       \* connections that fit under the descriptor limit

(***************************************************************************)
(* A request as sent.  `text' says how the prompt travels: as a "prompt"   *)
(* string (which also yields the cache key prompt:<hash>), or as chat      *)
(* content or a token-id array (which do not).  max = 0: no max_tokens.    *)
(***************************************************************************)
Shape ==
    [kind    : {"status", "unknown", "generate"},
     session : Sessions \cup {NoSession},
     prompt  : AnyPrompt,
     text    : BOOLEAN,
     max     : Nat]

ASSUME ShapeAssumption == Shapes \subseteq Shape /\ BadPrompts \subseteq Prompts

ASSUME LimitAssumption ==
    DecodeSteps \in Nat /\ MaxRequests \in Nat /\ FdLimit \in Nat

VARIABLES
    pc,        \* where the server thread is
    conn,      \* per client: the state of its connection
    reply,     \* per client: the HTTP status written, 0 if none
    served,    \* connections accepted so far
    cur,       \* the connection being read
    pending,   \* pending_generation
    batch,     \* the batch being formed or run, first_req in front
    asg,       \* assignments of the first Len(asg) members
    step,      \* loop counter of the current phase
    slots,     \* sessions.slots
    clock      \* sessions.clock

vars == <<pc, conn, reply, served, cur, pending, batch, asg, step, slots, clock>>
connVars == <<conn, reply, served>>
batchVars == <<batch, asg, step>>
tableVars == <<slots, clock>>

Phases == {"top", "read", "drain", "coalesce", "read_extra", "assign", "run",
           "commit", "exit"}

\* A connection is unused, being read, held open for an answer, answered but
\* never closed, or closed.
ConnStates == {"none", "reading", "open", "leaked", "closed"}

Open == {c \in Clients : conn[c] \in {"reading", "open", "leaked"}}

(***************************************************************************)
(* The request fields derived when a generation request is taken up.  The  *)
(* fallback key numbers the request by served + pending_generation.size(). *)
(***************************************************************************)
requested_tokens(shape, fallback) ==
    IF shape.max > 0 THEN shape.max ELSE IF fallback > 0 THEN fallback ELSE 1

request_cache_key(shape, serial) ==
    IF shape.session # NoSession THEN <<"session", shape.session>>
    ELSE IF shape.text /\ shape.prompt # NoPrompt THEN <<"prompt", shape.prompt>>
    ELSE <<"ephemeral", serial>>

CacheKey ==
    ({"session"} \X Sessions) \cup ({"prompt"} \X Prompts) \cup ({"ephemeral"} \X Nat)

Request(c, shape, fallback, serial, drained) ==
    LET key == request_cache_key(shape, serial)
    IN  [c |-> c, shape |-> shape, key |-> key, prompt |-> shape.prompt,
         tokens |-> requested_tokens(shape, fallback),
         pos |-> preview_position(slots, key, shape.prompt),
         drained |-> drained]

Admitted(req) == context_admission(slots, req.key, req.prompt, req.tokens)

DuplicateKey(req) == \E i \in 1 .. Len(batch) : batch[i].key = req.key

\* Mutant: the duplicate-session check is missing.
JoinsBatchAnyKey(req) ==
    /\ req.tokens = batch[1].tokens
    /\ req.pos = batch[1].pos

\* Mutant: the cache-position check is missing.
JoinsBatchAnyPosition(req) ==
    /\ req.tokens = batch[1].tokens
    /\ ~ DuplicateKey(req)

\* The requests that may share a batch with first_req = batch[1].
JoinsBatch(req) ==
    /\ req.tokens = batch[1].tokens
    /\ req.pos = batch[1].pos
    /\ ~ DuplicateKey(req)

(***************************************************************************)
(* Writing an answer and closing the socket.                               *)
(***************************************************************************)
AnswerAndClose(c, status) ==
    /\ conn' = [conn EXCEPT ![c] = "closed"]
    /\ reply' = [reply EXCEPT ![c] = status]

\* Mutant: only first_req is answered when a batch fails.
FirstMemberOnly == {batch[1].c}

Members == {batch[i].c : i \in 1 .. Len(batch)}

\* The whole batch is answered with an error and dropped; the loop restarts.
FailBatch(status) ==
    /\ conn' = [c \in Clients |-> IF c \in Members THEN "closed" ELSE conn[c]]
    /\ reply' = [c \in Clients |-> IF c \in Members THEN status ELSE reply[c]]
    /\ batch' = <<>>
    /\ asg' = <<>>
    /\ step' = 0
    /\ pc' = "top"
    /\ UNCHANGED <<served, cur, pending>>

Init ==
    /\ pc = "top"
    /\ conn = [c \in Clients |-> "none"]
    /\ reply = [c \in Clients |-> 0]
    /\ served = 0
    /\ cur = <<>>
    /\ pending = <<>>
    /\ batch = <<>>
    /\ asg = <<>>
    /\ step = 0
    /\ slots = EmptyTable
    /\ clock = 0

(***************************************************************************)
(* The loop head and the accept.                                           *)
(***************************************************************************)
MayAccept ==
    /\ pending = <<>>
    /\ MaxRequests = 0 \/ served < MaxRequests

\* Mutant: the loop condition forgets pending_generation.
ExitAtLimit ==
    /\ pc = "top"
    /\ MaxRequests # 0 /\ served >= MaxRequests
    /\ pc' = "exit"
    /\ UNCHANGED <<connVars, cur, pending, batchVars, tableVars>>

Exit ==
    /\ pc = "top"
    /\ pending = <<>>
    /\ ~ MayAccept
    /\ pc' = "exit"
    /\ UNCHANGED <<connVars, cur, pending, batchVars, tableVars>>

\* accept() and the descriptor of client c, whose request will be `shape'.
AcceptConnection(c, shape) ==
    /\ conn[c] = "none"
    /\ Cardinality(Open) < FdLimit
    /\ conn' = [conn EXCEPT ![c] = "reading"]
    /\ served' = served + 1
    /\ cur' = <<c, shape>>
    /\ UNCHANGED <<reply, pending, batchVars, tableVars>>

Accept(c, shape) ==
    /\ pc = "top"
    /\ MayAccept
    /\ AcceptConnection(c, shape)
    /\ pc' = "read"

\* accept() fails with EMFILE while a client is connecting: perror and break.
AcceptFails ==
    /\ pc = "top"
    /\ MayAccept
    /\ \E c \in Clients : conn[c] = "none"
    /\ Cardinality(Open) >= FdLimit
    /\ pc' = "exit"
    /\ UNCHANGED <<connVars, cur, pending, batchVars, tableVars>>

\* http_read_request fails: the client hung up or sent no parsable request.
ReadFails ==
    /\ pc = "read"
    /\ conn' = [conn EXCEPT ![cur[1]] = "closed"]
    /\ cur' = <<>>
    /\ pc' = "top"
    /\ UNCHANGED <<reply, served, pending, batchVars, tableVars>>

\* GET /health, /status, /v100/slots, /metrics: answered, and the descriptor
\* is left open.
ServeStatus ==
    /\ pc = "read"
    /\ cur[2].kind = "status"
    /\ conn' = [conn EXCEPT ![cur[1]] = "leaked"]
    /\ reply' = [reply EXCEPT ![cur[1]] = 200]
    /\ cur' = <<>>
    /\ pc' = "top"
    /\ UNCHANGED <<served, pending, batchVars, tableVars>>

NotFound ==
    /\ pc = "read"
    /\ cur[2].kind = "unknown"
    /\ AnswerAndClose(cur[1], 404)
    /\ cur' = <<>>
    /\ pc' = "top"
    /\ UNCHANGED <<served, pending, batchVars, tableVars>>

(***************************************************************************)
(* A generation request opens a batch, unless its prompt is refused or it  *)
(* does not fit the context: then 400.                                     *)
(***************************************************************************)
OpenBatch(c, shape, rest) ==
    LET req == Request(c, shape, DecodeSteps, served + Len(rest), FALSE)
    IN  /\ pending' = rest
        /\ cur' = <<>>
        /\ IF req.prompt \notin BadPrompts /\ Admitted(req)
           THEN /\ batch' = <<req>>
                /\ step' = 1
                /\ pc' = "drain"
                /\ conn' = [conn EXCEPT ![c] = "open"]
                /\ UNCHANGED reply
           ELSE /\ AnswerAndClose(c, 400)
                /\ pc' = "top"
                /\ UNCHANGED <<batch, step>>
        /\ UNCHANGED <<served, asg, tableVars>>

GenerateFirst ==
    /\ pc = "read"
    /\ cur[2].kind = "generate"
    /\ OpenBatch(cur[1], cur[2], pending)

PopPending ==
    /\ pc = "top"
    /\ pending # <<>>
    /\ OpenBatch(Head(pending).c, Head(pending).shape, Tail(pending))

\* Mutant: the drained request is not erased from pending.
KeepIndex(s, i) == s

(***************************************************************************)
(* http_drain_matching_pending: one pass over pending_generation; `step'   *)
(* is the iterator.                                                        *)
(***************************************************************************)
RemoveIndex(s, i) == SubSeq(s, 1, i - 1) \o SubSeq(s, i + 1, Len(s))

DrainNext ==
    /\ pc = "drain"
    /\ step <= Len(pending)
    /\ Len(batch) < NSlots
    /\ IF JoinsBatch(pending[step])
       THEN /\ batch' = Append(batch, [pending[step] EXCEPT !.drained = TRUE])
            /\ pending' = RemoveIndex(pending, step)
            /\ UNCHANGED step
       ELSE /\ step' = step + 1
            /\ UNCHANGED <<batch, pending>>
    /\ UNCHANGED <<pc, connVars, cur, asg, tableVars>>

DrainDone ==
    /\ pc = "drain"
    /\ step > Len(pending) \/ Len(batch) >= NSlots
    /\ pc' = "coalesce"
    /\ step' = 0
    /\ UNCHANGED <<connVars, cur, pending, batch, asg, tableVars>>

\* Mutant: the window accepts one request more than there are slots.
CoalesceAcceptPastFull(c, shape) ==
    /\ pc = "coalesce"
    /\ Len(batch) <= NSlots
    /\ AcceptConnection(c, shape)
    /\ pc' = "read_extra"

(***************************************************************************)
(* The coalescing window: accept more requests until the batch is full, the*)
(* wait times out (or is disabled) or accept fails.                        *)
(***************************************************************************)
CoalesceAccept(c, shape) ==
    /\ pc = "coalesce"
    /\ Len(batch) < NSlots
    /\ AcceptConnection(c, shape)
    /\ pc' = "read_extra"

CoalesceDone ==
    /\ pc = "coalesce"
    /\ pc' = "assign"
    /\ UNCHANGED <<connVars, cur, pending, batchVars, tableVars>>

ExtraReadFails ==
    /\ pc = "read_extra"
    /\ conn' = [conn EXCEPT ![cur[1]] = "closed"]
    /\ cur' = <<>>
    /\ pc' = "coalesce"
    /\ UNCHANGED <<reply, served, pending, batchVars, tableVars>>

ExtraNotGeneration ==
    /\ pc = "read_extra"
    /\ cur[2].kind # "generate"
    /\ AnswerAndClose(cur[1], 404)
    /\ cur' = <<>>
    /\ pc' = "coalesce"
    /\ UNCHANGED <<served, pending, batchVars, tableVars>>

GenerateExtra ==
    LET req == Request(cur[1], cur[2], batch[1].tokens, served + Len(pending), FALSE)
        ok  == req.prompt \notin BadPrompts /\ Admitted(req)
    IN  /\ pc = "read_extra"
        /\ cur[2].kind = "generate"
        /\ IF ok THEN conn' = [conn EXCEPT ![req.c] = "open"] /\ UNCHANGED reply
                 ELSE AnswerAndClose(req.c, 400)
        /\ batch' = IF ok /\ JoinsBatch(req) THEN Append(batch, req) ELSE batch
        /\ pending' = IF ok /\ ~ JoinsBatch(req) THEN Append(pending, req) ELSE pending
        /\ cur' = <<>>
        /\ pc' = "coalesce"
        /\ UNCHANGED <<served, asg, step, tableVars>>

(***************************************************************************)
(* Slot assignment, member by member.  protected_slots are the slots given *)
(* to the members before.                                                  *)
(***************************************************************************)
Protected == {asg[i].slot : i \in 1 .. Len(asg)}

NextMember == batch[Len(asg) + 1]

\* assign() for the next member; without a slot, 503 for the whole batch.
AssignMember ==
    LET a == assign_result(slots, NextMember.key, NextMember.prompt, Protected)
    IN  /\ pc = "assign"
        /\ Len(asg) < Len(batch)
        /\ slots' = assign_table(slots, NextMember.key, NextMember.prompt,
                                 Protected, clock + 1)
        /\ clock' = clock + 1
        /\ IF a.slot = NoSlot
           THEN FailBatch(503)
           ELSE /\ asg' = Append(asg, a)
                /\ UNCHANGED <<pc, connVars, cur, pending, batch, step>>

AssignDone ==
    /\ pc = "assign"
    /\ Len(asg) = Len(batch)
    /\ pc' = "run"
    /\ step' = 0
    /\ UNCHANGED <<connVars, cur, pending, batch, asg, tableVars>>

(***************************************************************************)
(* The engine calls: first the prefill steps, as many as the longest       *)
(* missed prompt needs, then one decode step per requested token.  All     *)
(* slots of the batch run at the one position EnginePosition.              *)
(***************************************************************************)
OwnPrefill(i) == IF asg[i].hit THEN 0 ELSE PrefillSteps(batch[i].prompt)

MaxPrefill ==
    CHOOSE m \in {OwnPrefill(i) : i \in 1 .. Len(batch)} :
        \A i \in 1 .. Len(batch) : OwnPrefill(i) <= m

EnginePosition == batch[1].pos + step

EngineStep ==
    /\ pc = "run"
    /\ step < MaxPrefill + batch[1].tokens
    /\ step' = step + 1
    /\ UNCHANGED <<pc, connVars, cur, pending, batch, asg, tableVars>>

\* run_token_major_serving_loop returns rc # 0, or a decode step brings no
\* output head: 500 for the whole batch, nothing committed.
EngineFails ==
    /\ pc = "run"
    /\ step < MaxPrefill + batch[1].tokens
    /\ FailBatch(500)
    /\ UNCHANGED tableVars

RunDone ==
    /\ pc = "run"
    /\ step = MaxPrefill + batch[1].tokens
    /\ pc' = "commit"
    /\ step' = 1
    /\ UNCHANGED <<connVars, cur, pending, batch, asg, tableVars>>

\* Mutant: a hit commits its prompt again.
CommittedPromptTokensAlways(i) ==
    IF batch[i].prompt = NoPrompt THEN 1 ELSE PromptLen[batch[i].prompt]

(***************************************************************************)
(* Commit and answer, member by member.                                    *)
(***************************************************************************)
CommittedPromptTokens(i) ==
    IF asg[i].hit THEN 0
    ELSE IF batch[i].prompt = NoPrompt THEN 1 ELSE PromptLen[batch[i].prompt]

CommitMember ==
    /\ pc = "commit"
    /\ step <= Len(batch)
    /\ slots' = commit_table(slots, asg[step], CommittedPromptTokens(step),
                             batch[1].tokens, OwnPrefill(step) + batch[1].tokens,
                             clock + 1)
    /\ clock' = clock + 1
    /\ AnswerAndClose(batch[step].c, 200)
    /\ step' = step + 1
    /\ UNCHANGED <<pc, served, cur, pending, batch, asg>>

CommitDone ==
    /\ pc = "commit"
    /\ step > Len(batch)
    /\ pc' = "top"
    /\ batch' = <<>>
    /\ asg' = <<>>
    /\ step' = 0
    /\ UNCHANGED <<connVars, cur, pending, tableVars>>

(***************************************************************************)
(* The server thread, and the specification.                               *)
(***************************************************************************)
Serve ==
    \/ Exit \/ AcceptFails
    \/ ServeStatus \/ NotFound \/ GenerateFirst \/ PopPending
    \/ DrainNext \/ DrainDone
    \/ CoalesceDone \/ ExtraNotGeneration \/ GenerateExtra
    \/ AssignMember \/ AssignDone
    \/ EngineStep \/ EngineFails \/ RunDone
    \/ CommitMember \/ CommitDone

Arrive ==
    \/ \E c \in Clients, shape \in Shapes :
           Accept(c, shape) \/ CoalesceAccept(c, shape)
    \/ ReadFails \/ ExtraReadFails

Next == Serve \/ Arrive

Spec == Init /\ [][Next]_vars

(***************************************************************************)
(* Fairness: the thread runs whenever it can.  A client that connected     *)
(* sends its request or hangs up: read() has no timeout, so without this   *)
(* assumption a silent client holds up everyone.  No fairness for the      *)
(* arrival of connections.                                                 *)
(***************************************************************************)
FairSpec == Spec /\ WF_vars(Serve)

-----------------------------------------------------------------------------
(***************************************************************************)
(* Properties.                                                             *)
(***************************************************************************)
ReqType ==
    [c : Clients, shape : Shape, prompt : AnyPrompt, tokens : Nat, pos : Nat,
     drained : BOOLEAN, key : CacheKey]

\* Every variable of the request loop has its type, and the counters that
\* index a batch stay inside it.
TypeOK ==
    /\ pc \in Phases
    /\ conn \in [Clients -> ConnStates]
    /\ reply \in [Clients -> {0, 200, 400, 404, 500, 503}]
    /\ served \in Nat
    /\ cur = <<>> \/ cur \in Clients \X Shapes
    /\ pending \in Seq(ReqType)
    /\ batch \in Seq(ReqType)
    /\ asg \in Seq(AsgType)
    /\ Len(asg) <= Len(batch)
    /\ Len(batch) <= NSlots
    /\ step \in Nat
    /\ slots \in [Slots -> SlotType(CacheKey)]
    /\ clock \in Nat

\* assign() and the duplicate-key checks keep a session in one slot: no two
\* occupied slots ever hold the same cache key.
OneSlotPerSession ==
    \A s, r \in Slots :
        /\ slots[s].occupied
        /\ slots[r].occupied
        /\ slots[s].key = slots[r].key
        => s = r

\* From assignment to commit every member owns its slot alone: no later
\* member of the batch was given the slot or evicted it.
BatchOwnsItsSlots ==
    \A i \in 1 .. Len(asg) :
        /\ HoldsKey(slots, asg[i].slot, batch[i].key)
        /\ \A j \in 1 .. Len(asg) : asg[i].slot = asg[j].slot => i = j

\* A batch of at most NSlots distinct sessions always finds its slots: the
\* no_cache_slot_available branch is dead code.
NoBatchRefused == \A c \in Clients : reply[c] # 503

\* The cursor of a committed slot is the length of its token timeline: the
\* prompt up to its last token, then every generated token.  Holds across
\* hits, rebuilds, evictions and failed batches.
CursorMatchesTimeline ==
    \A s \in Slots :
        slots[s].valid =>
            slots[s].pos = BasePos + (slots[s].prompt_tokens - 1)
                                   + slots[s].generated_tokens

\* A request taken up for generation sits in exactly one place, pending or
\* the batch, until its socket is closed: none is lost when it is bucketed,
\* drained or popped, and none is run twice.
HeldOnce ==
    LET first == IF pc = "commit" THEN step ELSE 1
        places(c) ==
            Cardinality({i \in 1 .. Len(pending) : pending[i].c = c}) +
            Cardinality({i \in first .. Len(batch) : batch[i].c = c})
    IN  \A c \in Clients : places(c) = IF conn[c] = "open" THEN 1 ELSE 0

\* The batch holds no request that waited in pending with an old preview.
FreshBatch == \A i \in 1 .. Len(batch) : ~ batch[i].drained

\* In a batch of fresh requests the position previewed at admission is the
\* one every member is assigned at: the evictions and rebuilds made for the
\* members before do not invalidate a preview, so that what was admitted as
\* fitting the context window runs within it.
FreshPreviewHolds ==
    FreshBatch =>
        /\ \A i \in 1 .. Len(asg) : asg[i].pos_in = batch[1].pos
        /\ pc = "run" => EnginePosition <= Ctx

\* When the loop ends nobody is left waiting for an answer.
ExitLeavesNobodyWaiting ==
    pc = "exit" => \A c \in Clients : conn[c] \notin {"reading", "open"}

\* Every connection the loop accepts is answered or closed, also when its
\* request was set aside in pending while other batches ran.
EveryRequestAnswered ==
    \A c \in Clients :
        conn[c] \in {"reading", "open"} ~> conn[c] \in {"leaked", "closed"}

=============================================================================

------------------------------ MODULE LiveSession ------------------------------
(***************************************************************************)
(* The one live session of ds4-server and what it is continued from.       *)
(*                                                                         *)
(* Clients send whole conversations (or, after a tool call, only the tool  *)
(* result).  Client threads parse them; the single worker runs them in     *)
(* order with generate_job: find out whether the request continues what is *)
(* in the session, otherwise save the session to disk and look for a saved *)
(* prefix, prefill the rest, decode, and remember how the next request may *)
(* bind to the new frontier.                                               *)
(*                                                                         *)
(* The three bindings match a request by the length of the session, by the *)
(* ids of its tool calls or by a text prefix, never by the session's       *)
(* tokens; the properties ask whether the tokens are the right ones.       *)
(***************************************************************************)
EXTENDS Transcript, FiniteSets

CONSTANTS
    Ctx,           \* ctx_size, in tokens
    MinTokens,     \* --kv-cache-min-tokens
    ColdMax,       \* --kv-cache-cold-max-tokens
    Trim, Align,   \* --kv-cache-boundary-trim/align-tokens
    Interval,      \* --kv-cache-continued-interval-tokens, 0 is off
    Chunk,         \* prefill_cap: tokens of one prefill chunk
    ResumeMin,     \* shortest suffix that is prefilled in chunks
    DiskSlots,     \* files the disk budget holds, 0 when there is no disk cache
    ExactReplay,   \* FALSE under --disable-exact-dsml-tool-replay
    Speculative,   \* TRUE when MTP may evaluate tokens past the end of a turn
    MaxJobs,       \* bound on the requests of a behaviour
    MaxFaults      \* bound on backend failures

ASSUME LiveSessionAssumption ==
    /\ {Ctx, MinTokens, Chunk, ResumeMin} \subseteq Nat \ {0}
    /\ {ColdMax, Trim, Align, Interval, DiskSlots, MaxJobs, MaxFaults} \subseteq Nat
    /\ {ExactReplay, Speculative} \subseteq BOOLEAN

VARIABLES
    session,   \* the checkpoint: its tokens, and whether the backend holds them
    resp,      \* responses_live
    anth,      \* anthropic_live
    thnk,      \* thinking_live
    disk,      \* saved checkpoints, keyed by text
    last,      \* continued_last_store_tokens
    client,    \* what each client remembers, and whether it waits for an answer
    queue,     \* parsed requests
    job,       \* the request the worker runs, and its local variables
    phase,     \* where in generate_job the worker is
    jobs,      \* requests parsed so far
    faults,    \* backend failures so far
    strayed    \* a failed prefill has left a binding in place

vars == <<session, resp, anth, thnk, disk, last, client, queue, job, phase,
          jobs, faults, strayed>>
bindings == <<resp, anth, thnk>>
counters == <<jobs, faults, strayed>>

NoBinding == [valid |-> FALSE, live_tokens |-> 0, visible |-> <<>>, ids |-> {}]
Binding(n, visible, ids) ==
    [valid |-> TRUE, live_tokens |-> n, visible |-> visible, ids |-> ids]

NoSession == [tokens |-> <<>>, valid |-> FALSE]
Held(tokens) == [tokens |-> tokens, valid |-> TRUE]
NoJob == <<>>

(* Mutant: the tokens past a stop sequence stay in the session. *)
SessionKept(s) == s

ds4_session_invalidate(s) == NoSession

ds4_session_pos == Len(session.tokens)
ds4_session_common_prefix(prompt) ==
    IF session.valid THEN CommonPrefix(session.tokens, prompt) ELSE 0

-----------------------------------------------------------------------------
(***************************************************************************)
(* Saving and loading checkpoints.  A store yields a set of disks, because *)
(* the eviction that follows it may pick any other file as its victim.     *)
(***************************************************************************)
KvEnabled == DiskSlots > 0

kv_cache_store_len(n) ==
    LET stable == n - Trim
        aligned == IF Align > 0 THEN stable - (stable % Align) ELSE stable
    IN  IF n > MinTokens + Trim /\ aligned >= MinTokens THEN aligned ELSE n

(***************************************************************************)
(* The part of a first prompt that other conversations share: what comes   *)
(* before the last user message that precedes any answer.                  *)
(***************************************************************************)
kv_cache_chat_anchor_pos(prompt) ==
    LET said == {i \in DOMAIN prompt : prompt[i] \in Msgs \cup {"result"}}
        users == {i \in said : \A k \in 1..i : prompt[k] \in Msgs \cup {"sys", "result"}}
    IN  IF users # {} /\ Max(users) > MinTokens THEN Max(users) - 1 ELSE -1

kv_cache_continued_step ==
    CASE ~KvEnabled \/ Interval = 0 -> 0
      [] Align > 0 -> ((Interval + Align - 1) \div Align) * Align
      [] OTHER -> Interval

kv_cache_continued_store_target(l, n) ==
    LET step == kv_cache_continued_step
    IN  IF step > 0 /\ n >= MinTokens /\ n % step = 0 /\ n > l THEN n ELSE 0

kv_cache_note_store(l, n) == IF n > l THEN n ELSE l

CanStore(s) == KvEnabled /\ s.valid /\ Len(s.tokens) >= MinTokens

kv_cache_store_live_prefix_text(D, s, text) ==
    LET keep == IF Cardinality(D) < DiskSlots THEN Cardinality(D) ELSE DiskSlots - 1
    IN  IF ~CanStore(s) \/ \E e \in D : e.text = text
        THEN {D}
        ELSE {K \cup {[text |-> text, tokens |-> s.tokens]} :
                 K \in {L \in SUBSET D : Cardinality(L) = keep}}

kv_cache_store_live_prefix(D, s) ==
    kv_cache_store_live_prefix_text(D, s, render_tokens_text(s.tokens))

(* Mutant: a visible key is used without comparing its frontier. *)
StoreCurrentUnderOldKey(D, s) ==
    CASE resp.valid /\ resp.visible # <<>> ->
             kv_cache_store_live_prefix_text(D, s, resp.visible)
      [] ~resp.valid /\ thnk.valid -> kv_cache_store_live_prefix_text(D, s, thnk.visible)
      [] OTHER -> kv_cache_store_live_prefix(D, s)

kv_cache_store_current(D, s) ==
    LET keyed(b) == b.valid /\ b.live_tokens = Len(s.tokens) /\ b.visible # <<>>
    IN  CASE keyed(resp) -> kv_cache_store_live_prefix_text(D, s, resp.visible)
          [] ~keyed(resp) /\ keyed(thnk) -> kv_cache_store_live_prefix_text(D, s, thnk.visible)
          [] OTHER -> kv_cache_store_live_prefix(D, s)

(* The disks and the last continued store after kv_cache_maybe_store_continued. *)
kv_cache_maybe_store_continued(D, l, s) ==
    IF kv_cache_continued_store_target(l, Len(s.tokens)) > 0 /\ CanStore(s)
    THEN {<<K, kv_cache_note_store(l, Len(s.tokens))>> : K \in kv_cache_store_live_prefix(D, s)}
    ELSE {<<D, l>>}

(* The saved checkpoints whose text begins the prompt, longest text only. *)
kv_cache_find_text_prefix(D, text) ==
    LET hits == {e \in D : IsPrefix(e.text, text) /\ Len(e.tokens) >= MinTokens}
    IN  {e \in hits : \A f \in hits : Len(f.text) <= Len(e.text)}

Consumed(e) == ColdMax > 0 /\ Len(e.tokens) > ColdMax

kv_cache_restore_suppressed_continued(j) ==
    IF j.suppressed >= 0 /\ last = j.cold THEN j.suppressed ELSE last

build_prompt_from_exact_prefix_and_text_suffix(tokens, suffix) ==
    tokens \o ds4_tokenize_rendered_chat(suffix)

LoadedPrompt(e, text) ==
    build_prompt_from_exact_prefix_and_text_suffix(e.tokens, After(text, e.text))

-----------------------------------------------------------------------------
(***************************************************************************)
(* Client threads.  A client continues, edits or restarts the conversation *)
(* it remembers; after a tool call it may send the result alone, which the *)
(* parser accepts only while the call's id is bound to the live session.   *)
(***************************************************************************)
BoundIds(api) == CASE api = "responses" -> IF resp.valid THEN resp.ids ELSE {}
                   [] api = "anthropic" -> IF anth.valid THEN anth.ids ELSE {}
                   [] OTHER -> {}

Request(c, turns, ask, exact, alone) ==
    LET whole == render_chat_prompt_text(c, turns, ask, exact)
    IN  [c |-> c,
         text |-> IF alone THEN render_chat_prompt_text(c, <<>>, "result", exact) ELSE whole,
         ids |-> IF ask = "result" /\ Profile[c].api # "openai" THEN {Last(turns).id} ELSE {},
         requires_live |-> alone,
         id |-> jobs + 1,
         turns |-> turns, ask |-> ask,
         whole |-> whole]

Parse(c) ==
    /\ ~client[c].busy
    /\ jobs < MaxJobs
    /\ \E k \in 0..Len(client[c].turns) :
          LET turns == SubSeq(client[c].turns, 1, k)
              called == k > 0 /\ turns[k].ans = "call"
          IN  \E ask \in IF called THEN {"result"} ELSE Msgs,
                 exact \in {ExactReplay, FALSE},
                 alone \in BOOLEAN :
                 LET r == Request(c, turns, ask, exact, alone)
                 IN  /\ alone => called /\ turns[k].id \in BoundIds(Profile[c].api)
                     /\ Len(r.text) < Ctx
                     /\ queue' = Append(queue, r)
    /\ client' = [client EXCEPT ![c].busy = TRUE]
    /\ jobs' = jobs + 1
    /\ UNCHANGED <<session, bindings, disk, last, job, phase, faults, strayed>>

-----------------------------------------------------------------------------
(***************************************************************************)
(* generate_job: what the request continues.  The sources are tried in     *)
(* order; the first three keep state that a stateless replay has not got.  *)
(***************************************************************************)
LiveSources == <<"responses-visible", "responses-tool-output", "anthropic-tool-output",
                 "memory-token", "thinking-visible", "memory-text">>

AtFrontier(b) == b.valid /\ b.live_tokens = ds4_session_pos

VisiblePrefix(b, r) == AtFrontier(b) /\ IsStrictPrefix(b.visible, r.text)

ToolOutput(b, r) == AtFrontier(b) /\ r.ids # {} /\ b.ids = r.ids

Applies(source, r) ==
    LET api == Profile[r.c].api
    IN  CASE source = "responses-visible"     -> api = "responses" /\ VisiblePrefix(resp, r)
          [] source = "responses-tool-output" -> api = "responses" /\ ToolOutput(resp, r)
          [] source = "anthropic-tool-output" -> api = "anthropic" /\ ToolOutput(anth, r)
          [] source = "memory-token"          ->
                 /\ ~r.requires_live
                 /\ ds4_session_common_prefix(r.text) = ds4_session_pos
          [] source = "thinking-visible"      ->
                 ~r.requires_live /\ api # "responses" /\ VisiblePrefix(thnk, r)
          [] source = "memory-text"           ->
                 ~r.requires_live /\ IsPrefix(render_tokens_text(session.tokens), r.text)

EffectivePrompt(source, r) ==
    LET Continue(suffix) == build_prompt_from_exact_prefix_and_text_suffix(session.tokens, suffix)
    IN  CASE source = "responses-visible" -> Continue(After(r.text, resp.visible))
          [] source \in {"responses-tool-output", "anthropic-tool-output"} ->
                 Continue(render_live_tool_tail(r.c))
          [] source = "memory-token"     -> ds4_tokenize_rendered_chat(r.text)
          [] source = "thinking-visible" -> Continue(After(r.text, thnk.visible))
          [] source = "memory-text"      -> Continue(After(r.text, session.tokens))

(* The sources that apply; an empty session continues nothing. *)
Offered(r) == {i \in DOMAIN LiveSources : ds4_session_pos > 0 /\ Applies(LiveSources[i], r)}

(***************************************************************************)
(* The job's local variables at the start of its prefill.  A cold prompt   *)
(* may stop first at a stable prefix to save it.                           *)
(***************************************************************************)
ColdLen(prompt) ==
    LET n == Len(prompt)
        anchor == kv_cache_chat_anchor_pos(prompt)
    IN  IF KvEnabled /\ n >= MinTokens /\ ColdMax > 0 /\ n <= ColdMax
        THEN IF anchor >= MinTokens THEN anchor ELSE kv_cache_store_len(n)
        ELSE 0

(* Whether bringing session s to the prompt goes chunk by chunk, calling back. *)
InChunks(s, prompt) ==
    IF s.valid /\ IsPrefix(s.tokens, prompt)
    THEN Len(prompt) - Len(s.tokens) >= ResumeMin
    ELSE Len(prompt) > Chunk

Start(r, source, s, prompt, cached) ==
    LET cold == IF cached = 0 THEN ColdLen(prompt) ELSE 0
        goal == IF cold > 0 /\ cold < Len(prompt) THEN cold ELSE Len(prompt)
    IN  [c |-> r.c, r |-> r, source |-> source, prompt |-> prompt, cached |-> cached,
         cold |-> cold,
         suppressed |-> IF kv_cache_continued_store_target(0, cold) > 0 THEN 0 ELSE -1,
         goal |-> goal, chunked |-> InChunks(s, SubSeq(prompt, 1, goal)),
         out |-> <<>>, turns |-> <<>>]

TakeJob == phase = "idle" /\ queue # <<>>

ContinueLive ==
    /\ TakeJob
    /\ Offered(Head(queue)) # {}
    /\ LET r == Head(queue)
           source == LiveSources[Min(Offered(r))]
       IN  job' = Start(r, source, session, EffectivePrompt(source, r), ds4_session_pos)
    /\ queue' = Tail(queue)
    /\ phase' = "prefill"
    /\ UNCHANGED <<session, bindings, disk, last, client, counters>>

(* 409: the live frontier moved on between parsing and execution. *)
RefuseContinuation ==
    /\ TakeJob
    /\ Head(queue).requires_live
    /\ Offered(Head(queue)) = {}
    /\ queue' = Tail(queue)
    /\ client' = [client EXCEPT ![Head(queue).c].busy = FALSE]
    /\ UNCHANGED <<session, bindings, disk, last, job, phase, counters>>

Missed(r) == TakeJob /\ ~r.requires_live /\ Offered(r) = {}

(* The session is saved before anything replaces it. *)
(* Mutant: the session is replaced without being saved. *)
NotSaved == {disk}

SavedFirst == IF ds4_session_pos >= MinTokens THEN kv_cache_store_current(disk, session) ELSE {disk}

LoadFromDisk ==
    /\ TakeJob
    /\ Missed(Head(queue))
    /\ LET r == Head(queue)
       IN  \E D \in SavedFirst : \E e \in kv_cache_find_text_prefix(D, r.text) :
              /\ session' = Held(e.tokens)
              /\ job' = Start(r, "disk-text", session',
                              LoadedPrompt(e, r.text), Len(e.tokens))
              /\ disk' = IF Consumed(e) THEN D \ {e} ELSE D
              /\ last' = Len(e.tokens)
    /\ queue' = Tail(queue)
    /\ phase' = "prefill"
    /\ UNCHANGED <<bindings, client, counters>>

ColdStart(r, D) ==
    /\ job' = Start(r, "none", session, ds4_tokenize_rendered_chat(r.text), 0)
    /\ disk' = D
    /\ last' = IF job'.suppressed >= 0 THEN job'.cold ELSE 0
    /\ queue' = Tail(queue)
    /\ phase' = "prefill"
    /\ UNCHANGED <<bindings, client, jobs, strayed>>

MissDisk ==
    /\ TakeJob
    /\ Missed(Head(queue))
    /\ \E D \in SavedFirst :
          /\ kv_cache_find_text_prefix(D, Head(queue).text) = {}
          /\ ColdStart(Head(queue), D)
    /\ UNCHANGED <<session, faults>>

(* A file that cannot be used: the session is left alone, or empty when the *)
(* payload itself was bad.                                                  *)
LoadFails ==
    /\ TakeJob
    /\ Missed(Head(queue))
    /\ faults < MaxFaults
    /\ \E D \in SavedFirst :
          /\ kv_cache_find_text_prefix(D, Head(queue).text) # {}
          /\ ColdStart(Head(queue), D)
    /\ session' \in {session, ds4_session_invalidate(session)}
    /\ faults' = faults + 1

-----------------------------------------------------------------------------
(***************************************************************************)
(* ds4_session_sync, one action per prefill chunk.  It extends the session *)
(* when the session is a prefix of the prompt and starts over otherwise.   *)
(* The same code runs for the prompt and for the rebuild of a tool-call    *)
(* checkpoint after the answer.                                            *)
(***************************************************************************)
Syncing == phase \in {"prefill", "rebuild"}

Goal == SubSeq(job.prompt, 1, job.goal)

Extends == session.valid /\ IsPrefix(session.tokens, Goal)

Reached == IF Extends THEN ds4_session_pos ELSE 0

NextChunk ==
    IF job.chunked THEN Min({(Reached \div Chunk + 1) * Chunk, job.goal}) ELSE job.goal

PrefillChunk ==
    /\ Syncing
    /\ job.goal < Ctx
    /\ Reached < job.goal
    /\ session' = Held(SubSeq(job.prompt, 1, NextChunk))
    /\ \E saved \in IF job.chunked /\ NextChunk > job.cached
                    THEN kv_cache_maybe_store_continued(disk, last, session')
                    ELSE {<<disk, last>>} :
          /\ disk' = saved[1]
          /\ last' = saved[2]
    /\ UNCHANGED <<bindings, client, queue, job, phase, counters>>

(***************************************************************************)
(* A failed prefill.  The request ends with an error and the bindings stay *)
(* as they are; a failed rebuild is only logged.                           *)
(***************************************************************************)
EndFailedSync ==
    /\ last' = IF phase = "prefill" THEN kv_cache_restore_suppressed_continued(job) ELSE last
    /\ phase' = "reply"
    /\ strayed' = (strayed \/ resp.valid \/ anth.valid \/ thnk.valid)
    /\ UNCHANGED <<bindings, disk, client, queue, job, jobs>>

SyncRefused ==
    /\ Syncing
    /\ job.goal >= Ctx
    /\ EndFailedSync
    /\ UNCHANGED <<session, faults>>

SyncFails ==
    /\ Syncing
    /\ job.goal < Ctx
    /\ Reached < job.goal
    /\ faults < MaxFaults
    /\ faults' = faults + 1
    /\ \E n \in IF Extends /\ ~job.chunked THEN Reached..job.goal - 1 ELSE {ds4_session_pos} :
          session' = [tokens |-> IF Extends THEN SubSeq(job.prompt, 1, n) ELSE session.tokens,
                      valid |-> FALSE]
    /\ EndFailedSync

Synced == Syncing /\ job.goal < Ctx /\ Extends /\ ds4_session_pos = job.goal

(* The stable prefix of a cold prompt is reached: save it and go on. *)
ColdPrefixDone ==
    /\ Synced
    /\ job.goal < Len(job.prompt)
    /\ disk' \in kv_cache_store_live_prefix(disk, session)
    /\ last' = IF CanStore(session) THEN kv_cache_note_store(last, job.cold)
               ELSE kv_cache_restore_suppressed_continued(job)
    /\ job' = [job EXCEPT !.goal = Len(job.prompt), !.suppressed = -1,
                          !.chunked = InChunks(session, job.prompt)]
    /\ UNCHANGED <<session, bindings, client, queue, phase, counters>>

(* Mutant: the bindings outlive the history they belong to. *)
KeepAnyway(b, sources) == b

KeepIfContinued(b, sources) == IF job.source \in sources THEN b ELSE NoBinding

(* The prompt is in the session: bindings it did not continue from are stale. *)
PromptDone ==
    /\ Synced
    /\ phase = "prefill"
    /\ job.goal = Len(job.prompt)
    /\ resp' = KeepIfContinued(resp, {"responses-visible", "responses-tool-output"})
    /\ anth' = KeepIfContinued(anth, {"anthropic-tool-output"})
    /\ thnk' = KeepIfContinued(thnk, {"thinking-visible"})
    /\ \E saved \in kv_cache_maybe_store_continued(disk, last, session) :
          IF job.cold = Len(job.prompt)
          THEN /\ disk' \in kv_cache_store_live_prefix(saved[1], session)
               /\ last' = kv_cache_note_store(saved[2], job.cold)
          ELSE /\ disk' = saved[1]
               /\ last' = saved[2]
    /\ phase' = "decode"
    /\ UNCHANGED <<session, client, queue, job, counters>>

-----------------------------------------------------------------------------
(***************************************************************************)
(* Decoding.  The stream may fail to start; otherwise one token per step,  *)
(* saved first when a continued checkpoint is due.                         *)
(***************************************************************************)
StreamFailsToStart ==
    /\ phase = "decode"
    /\ job.out = <<>>
    /\ phase' = "reply"
    /\ UNCHANGED <<session, bindings, disk, last, client, queue, job, counters>>

Answers == {"say", "say2"} \cup (IF Profile[job.c].tools THEN {"call", "call2"} ELSE {})

Answered == job.out # <<>> /\ Last(job.out) # "reason"

Sampled == IF Profile[job.c].think /\ job.out = <<>> THEN {"reason"} ELSE Answers

(* The head of the decode loop, outside a tool call. *)
ContinuedStore ==
    \E saved \in kv_cache_maybe_store_continued(disk, last, session) :
        /\ disk' = saved[1]
        /\ last' = saved[2]

Decode ==
    /\ phase = "decode"
    /\ ~Answered
    /\ ds4_session_pos < Ctx
    /\ \E token \in Sampled :
          /\ session' = Held(Append(session.tokens, token))
          /\ job' = [job EXCEPT !.out = Append(@, token)]
    /\ ContinuedStore
    /\ UNCHANGED <<bindings, client, queue, phase, counters>>

(***************************************************************************)
(* The end of a turn.  What is remembered depends on the protocol and on   *)
(* how the turn ended; a turn that ended in an error or ran out of tokens  *)
(* is remembered by nobody.                                                *)
(***************************************************************************)
CallIds(ans) == IF ans = "call" THEN {job.r.id} ELSE {}

should_remember_thinking_checkpoint(ans) ==
    Profile[job.c].think /\ ~Profile[job.c].tools /\ ans # "call"

Remember(ans, n) ==
    LET r == job.r
        api == Profile[r.c].api
    IN  /\ resp' = IF api = "responses"
                   THEN Binding(n, r.text \o build_responses_visible_assistant_suffix(r.c, ans),
                                CallIds(ans))
                   ELSE resp
        /\ anth' = CASE api # "anthropic" -> anth
                     [] ans = "call" -> Binding(n, <<>>, CallIds(ans))
                     [] OTHER -> NoBinding
        /\ thnk' = IF should_remember_thinking_checkpoint(ans)
                   THEN Binding(n, build_toolless_thinking_visible_text(r.text, ans), {})
                   ELSE NoBinding

Forget ==
    /\ resp' = IF Profile[job.c].api = "responses" THEN NoBinding ELSE resp
    /\ anth' = IF Profile[job.c].api = "anthropic" THEN NoBinding ELSE anth
    /\ thnk' = NoBinding

(* What the client remembers when the answer reaches it. *)
Turn(ans) == Append(job.r.turns, [ask |-> job.r.ask, ans |-> ans,
                                  id |-> IF ans = "call" THEN job.r.id ELSE 0])

(***************************************************************************)
(* The end of a turn is sampled and not evaluated, unless it was one of the*)
(* tokens a greedy speculative step accepted: sampling is greedy in a tool *)
(* call, and elsewhere only without thinking.                              *)
(***************************************************************************)
Overrun(ans) ==
    {<<>>} \cup (IF /\ Speculative
                   /\ (ans = "call" \/ ~Profile[job.c].think)
                   /\ ds4_session_pos < Ctx
                THEN {<<"eos">>} ELSE {})

FinishStop ==
    /\ phase = "decode"
    /\ Answered
    /\ Last(job.out) \in {"say", "say2"}
    /\ \E extra \in Overrun("say") :
          /\ session' = [session EXCEPT !.tokens = @ \o extra]
          /\ IF extra = <<>> THEN ContinuedStore ELSE UNCHANGED <<disk, last>>
    /\ Remember("say", Len(session'.tokens))
    /\ job' = [job EXCEPT !.turns = Turn("say")]
    /\ phase' = "reply"
    /\ UNCHANGED <<client, queue, counters>>

(* A stop sequence inside the answer: the session cannot be cut back. *)
FinishAtStopSequence ==
    /\ phase = "decode"
    /\ Answered
    /\ Last(job.out) \in {"say", "say2"}
    /\ session' = ds4_session_invalidate(session)
    /\ Remember("cut", Len(session'.tokens))
    /\ job' = [job EXCEPT !.turns = Turn("cut")]
    /\ phase' = "reply"
    /\ UNCHANGED <<disk, last, client, queue, counters>>

(***************************************************************************)
(* A finished tool call.  Without exact replay the checkpoint is made to   *)
(* match what the next prompt is expected to render: extended in place     *)
(* (with no progress callback set), or rebuilt from disk or from the start.*)
(***************************************************************************)
Canonical == job.r.text \o build_tool_checkpoint_suffix(job.c)

CanonicalizationNeeded(s) ==
    /\ Profile[job.c].api # "responses"
    /\ ~ExactReplay
    /\ render_tokens_text(s.tokens) # Canonical
    /\ Len(Canonical) < Ctx
    /\ CommonPrefix(s.tokens, Canonical) >= Len(job.r.text)

Rebuild(prompt, cached, chunked) ==
    job' = [job EXCEPT !.turns = Turn("call"), !.prompt = prompt, !.cached = cached,
                       !.goal = Len(prompt), !.chunked = chunked, !.cold = 0, !.suppressed = -1]

RebuildInPlace(s) ==
    /\ IsPrefix(s.tokens, Canonical)
    /\ session' = s
    /\ Rebuild(Canonical, 0, FALSE)
    /\ UNCHANGED <<disk, last, faults>>

RebuildFromStart(s, hits) ==
    /\ ~IsPrefix(s.tokens, Canonical)
    /\ hits # {} => faults < MaxFaults
    /\ faults' = IF hits = {} THEN faults ELSE faults + 1
    /\ session' = ds4_session_invalidate(session)
    /\ Rebuild(Canonical, 0, InChunks(session', Canonical))
    /\ UNCHANGED <<disk, last>>

RebuildFromDisk(s, hits) ==
    /\ ~IsPrefix(s.tokens, Canonical)
    /\ \E e \in hits :
          LET prompt == LoadedPrompt(e, Canonical)
          IN  /\ session' = Held(e.tokens)
              /\ Rebuild(prompt, Len(e.tokens), InChunks(session', prompt))
              /\ disk' = IF Consumed(e) THEN disk \ {e} ELSE disk
              /\ last' = Len(e.tokens)
    /\ UNCHANGED faults

FinishCalls ==
    /\ phase = "decode"
    /\ Answered
    /\ Last(job.out) \in {"call", "call2"}
    /\ \E extra \in Overrun("call") :
          LET s == [session EXCEPT !.tokens = @ \o extra]
              hits == kv_cache_find_text_prefix(disk, Canonical)
          IN  /\ Remember("call", Len(s.tokens))
              /\ IF CanonicalizationNeeded(s)
                 THEN /\ phase' = "rebuild"
                      /\ \/ RebuildInPlace(s)
                         \/ RebuildFromStart(s, hits)
                         \/ RebuildFromDisk(s, hits)
                 ELSE /\ session' = s
                      /\ job' = [job EXCEPT !.turns = Turn("call")]
                      /\ phase' = "reply"
                      /\ UNCHANGED <<disk, last, faults>>
    /\ UNCHANGED <<client, queue, jobs, strayed>>

RebuildDone ==
    /\ Synced
    /\ phase = "rebuild"
    /\ phase' = "reply"
    /\ UNCHANGED <<session, bindings, disk, last, client, queue, job, counters>>

(* Out of tokens or context, a failed write to the client, a stop signal. *)
FinishShort ==
    /\ phase = "decode"
    /\ Answered => Last(job.out) \in {"say", "say2"}
    /\ Forget
    /\ phase' = "reply"
    /\ UNCHANGED <<session, disk, last, client, queue, job, counters>>

EvalFails ==
    /\ phase = "decode"
    /\ ~Answered
    /\ faults < MaxFaults
    /\ faults' = faults + 1
    /\ session' = [session EXCEPT !.valid = FALSE]
    /\ ContinuedStore
    /\ Forget
    /\ phase' = "reply"
    /\ UNCHANGED <<client, queue, job, jobs, strayed>>

(* The answer reaches the client, or the connection fails and it does not. *)
Reply ==
    /\ phase = "reply"
    /\ \E delivered \in BOOLEAN :
          client' = [client EXCEPT
              ![job.c] = [turns |-> IF delivered /\ job.turns # <<>>
                                    THEN job.turns ELSE @.turns,
                          busy |-> FALSE]]
    /\ phase' = "idle"
    /\ job' = NoJob
    /\ UNCHANGED <<session, bindings, disk, last, queue, counters>>

-----------------------------------------------------------------------------
(* Shutdown saves the session; the next process starts with the disk only. *)
Restart ==
    /\ phase = "idle"
    /\ queue = <<>>
    /\ session.tokens # <<>>
    /\ disk' \in SavedFirst
    /\ session' = NoSession
    /\ resp' = NoBinding
    /\ anth' = NoBinding
    /\ thnk' = NoBinding
    /\ last' = 0
    /\ UNCHANGED <<client, queue, job, phase, counters>>

Init ==
    /\ session = NoSession
    /\ resp = NoBinding
    /\ anth = NoBinding
    /\ thnk = NoBinding
    /\ disk = {}
    /\ last = 0
    /\ client = [c \in Clients |-> [turns |-> <<>>, busy |-> FALSE]]
    /\ queue = <<>>
    /\ job = NoJob
    /\ phase = "idle"
    /\ jobs = 0
    /\ faults = 0
    /\ strayed = FALSE

Next ==
    \/ \E c \in Clients : Parse(c)
    \/ ContinueLive
    \/ RefuseContinuation
    \/ LoadFromDisk
    \/ MissDisk
    \/ LoadFails
    \/ PrefillChunk
    \/ SyncRefused
    \/ SyncFails
    \/ ColdPrefixDone
    \/ PromptDone
    \/ StreamFailsToStart
    \/ Decode
    \/ FinishStop
    \/ FinishAtStopSequence
    \/ FinishCalls
    \/ RebuildDone
    \/ FinishShort
    \/ EvalFails
    \/ Reply
    \/ Restart

Spec == Init /\ [][Next]_vars
-----------------------------------------------------------------------------
Phases == {"idle", "prefill", "decode", "rebuild", "reply"}

BindingType == [valid : BOOLEAN, live_tokens : 0..Ctx, visible : Seq(TextSymbols),
                ids : SUBSET (1..MaxJobs)]

(* Every variable is what its declaration says, and the session fits the context. *)
TypeOK ==
    /\ session.tokens \in Seq(Tokens) /\ Len(session.tokens) <= Ctx
    /\ session.valid \in BOOLEAN
    /\ {resp, anth, thnk} \subseteq BindingType
    /\ \A e \in disk : e.text \in Seq(TextSymbols) /\ e.tokens \in Seq(Tokens)
    /\ Cardinality(disk) <= DiskSlots
    /\ last \in 0..Ctx
    /\ \A c \in Clients : client[c].turns \in Seq(Turns) /\ client[c].busy \in BOOLEAN
    /\ phase \in Phases
    /\ phase = "idle" <=> job = NoJob
    /\ jobs \in 0..MaxJobs /\ faults \in 0..MaxFaults /\ strayed \in BOOLEAN

(***************************************************************************)
(* Whatever the request was continued from, the model decodes from this    *)
(* client's conversation: the session says what the request says.  Sources *)
(* match by length, id or text prefix, so this ties them to the content.   *)
(***************************************************************************)
AnswersOwnHistory ==
    phase = "decode" /\ job.out = <<>> /\ ~strayed =>
        Meaning(render_tokens_text(session.tokens)) = Meaning(job.r.whole)

(***************************************************************************)
(* A saved checkpoint is keyed by a text that says what its tokens say, or *)
(* the end of it (a request with a tool result alone names no more), and   *)
(* never something else: a later prompt that begins with the key may       *)
(* continue from the tokens (kv_cache_store_current, find_text_prefix).    *)
(***************************************************************************)
KeysDescribePayloads ==
    ~strayed => \A e \in disk :
        IsSuffix(Meaning(e.text), Meaning(render_tokens_text(e.tokens)))

(***************************************************************************)
(* Between jobs a binding that would match by length belongs to what is in *)
(* the session: rebuilding a tool checkpoint or cutting an answer at a stop*)
(* sequence never leaves one that points into another history              *)
(* (responses_live_remember, remember_thinking_checkpoint).                *)
(***************************************************************************)
BindingsFollowTheSession ==
    /\ TypeOK
    /\ phase = "idle" /\ ~strayed /\ ds4_session_pos > 0 =>
          \A b \in {resp, thnk} :
              AtFrontier(b) =>
                  IsSuffix(Meaning(b.visible), Meaning(render_tokens_text(session.tokens)))

\* The session of a Responses turn that was asked for with a tool result alone:
\* its key is as short as that request.
NamesLastTurnOnly == AtFrontier(resp) /\ resp.visible[Len(System) + 1] = "result"

(***************************************************************************)
(* "Persist the current checkpoint first, otherwise a cache hit for an     *)
(* older prefix would silently discard the newer conversation state"       *)
(* (ds4_server.c:10612): when a job takes the session for another          *)
(* conversation, what it held and could be saved is on disk under a key    *)
(* that says all of it, the messages and the answers, or the job goes on   *)
(* from the same conversation.  Nothing is claimed of the spelling: with   *)
(* exact replay off a key may hold a call as it was sampled, the next      *)
(* prompt renders it from JSON, and that prompt then does not begin with   *)
(* the key, so that the work is kept and may still not be found.           *)
(***************************************************************************)
SwitchKeepsWork ==
    [][ phase = "idle" /\ phase' = "prefill" /\ CanStore(session)
            /\ ~strayed /\ ~NamesLastTurnOnly
            /\ job'.source \in {"none", "disk-text"}
        => \/ /\ job'.source = "disk-text"
              /\ Meaning(render_tokens_text(session'.tokens))
                    = Meaning(render_tokens_text(session.tokens))
           \/ \E e \in disk' :
                  Meaning(e.text) = Meaning(render_tokens_text(session.tokens)) ]_vars

=============================================================================

# TLA+ models of ds4

ds4 is an inference program for one large mixture-of-experts model: a C engine
with several GPU back ends, HTTP servers that share one model between many
clients, a layer-parallel and a tensor/expert-parallel multi-GPU engine with
servers of their own, and offline tools. This directory holds TLA+ models of
the parts whose correctness is a matter of *order*: which request owns which
piece of model state, what survives a failure, and who waits for whom.
Arithmetic, kernels and file layouts are not modelled.

Paths below are relative to the repository root (`src/` in `PROJECT.json`).

## 1. Inventory

| Component | State | Operations | Interacts with |
|---|---|---|---|
| **Appliance HTTP loop** `appliance/http_server.cu`, `appliance/request_scheduler.cu` | one thread; `pending_generation`; the batch; `sessions.slots` (key, position, fingerprint, valid, LRU) and `sessions.clock` | accept, read, bucket, coalesce, drain, admit, assign, prefill and decode steps, commit, answer | the TP/EP engine (one call per position), sockets |
| **ds4-server threads** `ds4_server.c` `server_main`, `client_main`, `worker_main`, `enqueue`, `dequeue` | `s->head/tail`, `s->stopping`, `s->clients`, `j->done`, `g_stop_requested`, `g_listen_fd` | accept and spawn, parse, enqueue, sleep, generate, finish, drain, join, await, free | everything else in ds4-server runs on these threads |
| **Live continuation** `generate_job` and its helpers | the one session (its tokens), `responses_live`, `anthropic_live`, `thinking_live`, `continued_last_store_tokens` | match a request to the session, load or save a checkpoint, chunked prefill, decode, rebuild, remember, forget | parsers on client threads, KV disk cache, tool memory, engine |
| **Tool call memory** `tool_memory_*` | entries by id and by block, LRU list, counts, bytes | put, touch, prune, remember, attach | shared by worker and client threads under `tool_mu`; saved in checkpoint files |
| **KV disk cache** `kv_cache_*` | the directory, `kc->entry` during a scan | store, rewrite the tool map, evict, look up, load, touch, consume | written by the worker, read by client threads, survives the process |
| **CPU thread pool** `ds4.c` `ds4_parallel_for*`, `ds4_worker_main` | `g_pool`: job, generation, done, shutdown | publish a job, run a share, count, wait, create, shut down | every CPU kernel |
| **Stage pipelines** `engine/replay_core.inc`, `engine/replay_step_pipeline.inc` | per-stage threads, generation number, done flags, mailboxes, wavefront tables | dispatch, take a span, wait for the stage before, run, mark, fail, collect, join | stage scheduler, replay server |
| **Replay server** `tools/replay.c` | generation slots, pending list, `generation_mu`, `active_handlers`, the replay runtime | accept, admit, enqueue, batch, reset, generate, mark, MTP check, answer, shut down | stage pipelines |
| **Speculative decoding** `ds4.c` `ds4_session_eval_speculative_argmax` | checkpoint tokens, logits, layer frontiers and row counters, MTP rows, a snapshot | evaluate, draft, verify, commit a prefix, restore, replay, fall back | engine session |
| Engine, tokenizer, GPU back ends, TP/EP kernels, MTP sidecar, stage scheduler, packing, GGUF tools, direction steering, CLI, evaluation, benchmarks, tests, deployment, vendored code | numerics, files, options | – | – |

`PROJECT.json` lists every one of them with its status. The nine named parts
are modelled (the pipelines and the replay server without their option parsing
and reporting); the rest is out of reach or has no interesting control
(section 8).

What is hard in each modelled component, and what makes it correct:

* **Appliance.** Batch members are assigned slots one at a time out of a table
  they share; requests that do not fit the batch are set aside with what was
  computed for them when they arrived; an engine call can fail in the middle of
  a batch; two very different ways end the loop. Correct means: a session has
  one slot and a slot one owner for as long as the batch lasts, a slot's
  position is the number of tokens it holds, and everybody is answered.
* **Threads and shutdown.** A job is on its client's stack, client threads are
  detached, a signal may arrive at any instruction, condition variables may
  wake without reason. Correct means: no pointer and no resource is used after
  its owner is gone, and a stop ends the process.
* **Live continuation.** Requests carry text; the session holds tokens, with
  reasoning the text does not show. A request is matched to the session by the
  *length* of the session, by tool call ids or by a text prefix, never by its
  tokens. Correct means: an answer is always conditioned on the history of the
  client that asked, and work replaced by a switch of conversation is saved.
* **Tool memory and disk cache.** The directory is updated in place, read
  concurrently, and left behind by a process that may die between two system
  calls. Correct means: a file under its final name is whole, says the truth
  about its text, and is neither lost nor kept when it should be.
* **Thread pool.** Workers copy a job under a lock, run it outside, and learn
  of the next one only by a counter that wraps. Correct means: each row of a
  job is run once, all before the call returns, and nobody runs an old job.
* **Stage pipelines.** Four ways to take the same slots through the same
  stages, each with its own wakeups and its own reaction to a failing device.
  Correct means: whatever the grouping, every slot passes every layer once and
  in order, a failed dispatch still returns, and nothing is left running.
* **Replay server.** Whoever holds a lock runs other threads' requests, whose
  records lie on those threads' stacks. Correct means: no record is used after
  its thread has left, each answer comes from the request's own prompt, one
  pass is enough for everybody in it, and after the last request the runtime is
  closed last.
* **Speculative decoding.** A verifier moves the model's state past tokens that
  may be rejected, and every GPU call on the way back can fail. Correct means:
  tokens, layer state and logits agree after every call, and the caller gets
  the tokens plain decoding would have given.

## 2. Modules

| Module | Models | Extends |
|---|---|---|
| `SessionTable` | the slot table as operators: `find`, admission, `assign`, eviction, commit | – |
| `ApplianceServer` | the request loop over that table | `SessionTable` |
| `ApplianceServerProofs` | lemmas on the table operators; types, slot ownership, cursors, previews, each request held once, proved | `ApplianceServer` |
| `ServerQueue` | ds4-server's threads, queue, condition variables, signals, shutdown | – |
| `Transcript` | what clients remember and how the renderers turn it into text | – |
| `LiveSession` | parsing decisions and `generate_job` over the single session | `Transcript` |
| `ServerProofs` | ds4-server's proofs: the threads' two lifetime invariants; what texts mean, and all safety properties of the live session | `ServerQueue`, `LiveSession` |
| `ToolMemory` | the tool call memory as operators on one record | – |
| `KvDiskCache` | the checkpoint directory, its writer, one concurrent reader, crashes | `ToolMemory` |
| `KvDiskCacheProofs` | lemmas on sums and on the memory's operations; all the cache's safety properties, proved | `KvDiskCache` |
| `ParallelFor` | abstract: what a caller of `ds4_parallel_for` is promised | – |
| `ThreadPool` | the CPU worker pool; implements `ParallelFor` | – |
| `ThreadPoolProofs` | that refinement, proved | `ThreadPool` |
| `StagePass` | abstract: what feeding a batch through the stages promises | – |
| `StageRuntime` | the persistent barrier and mailbox runtimes; the barrier implements `StagePass` | – |
| `StageRuntimeProofs` | that refinement and the mailbox's order, proved | `StageRuntime` |
| `StepPipeline` | the per-step pipeline (fixed, ready, wavefront); implements `StagePass` | – |
| `StepPipelineProofs` | that refinement and the wavefront's progress, proved | `StepPipeline` |
| `ReplayServer` | the replay HTTP server, its threads, slots, pending list and batches | – |
| `ReplayServerProofs` | its counters, its orderly end, its pending list and its answers, proved | `ReplayServer` |
| `SpeculativeDecode` | one session's speculative greedy decoding | – |
| `SpeculativeDecodeProofs` | its two invariants, proved | `SpeculativeDecode` |
| `MC...` | constants for TLC | the module each is named for |

`LiveSession` keeps an abstract disk (texts to payloads, a number of files
instead of bytes) and asks *what payloads mean*; `KvDiskCache` keeps the files
byte by budget byte and asks *whether files survive*. The threads that call
both are the subject of `ServerQueue`, where parsing and generating are single
steps. In the same way `ReplayServer` takes a generation as one step that may
fail, and `StageRuntime` and `StepPipeline` show what happens inside one.

### 2.1 SessionTable and ApplianceServer

`slots` is `sessions.slots`, `clock` is `sessions.clock`. The operators of
`SessionTable` have the names of the functions they translate (`find`,
`preview_position`, `context_admission`; `assign` and `commit` are split into
the result and the new table). A prompt is a model value with a length; its
fingerprint is the prompt itself, so hashes are taken to be collision free.

`pc` is where the only thread is in `run_tp_ep_http_server`:

| `pc` | Code | Actions |
|---|---|---|
| `top` | head of the accept loop | `Accept`, `AcceptFails`, `PopPending`, `Exit` |
| `read` | reading and dispatching the first request | `ReadFails`, `ServeStatus`, `NotFound`, `GenerateFirst` |
| `drain` | `http_drain_matching_pending` | `DrainNext`, `DrainDone` |
| `coalesce`, `read_extra` | the coalescing window | `CoalesceAccept`, `CoalesceDone`, `ExtraReadFails`, `ExtraNotGeneration`, `GenerateExtra` |
| `assign` | slot assignment, one member per step | `AssignMember`, `AssignDone` |
| `run` | prefill and decode, one engine position per step | `EngineStep`, `EngineFails`, `RunDone` |
| `commit` | commits and answers | `CommitMember`, `CommitDone` |

A batch is a sequence of request records with the first request in front;
`asg` holds the assignments made so far. Timeouts are the choice between
`CoalesceAccept` and `CoalesceDone`. Metrics, JSON and response text are left
out.

### 2.2 ServerQueue

`main`, `worker` and `thread[c]` are program counters; a critical section of
`s->mu` or `j->mu` is one action, and everything outside them is split so that
other threads can run in between. A sleeper on a condition variable leaves its
`asleep` state through a signal, a broadcast or `SpuriousWakeup`. The first
signal sets `stop` and closes the listening socket; the second one kills the
process. `reply` records what reached a client's socket: `send_all` sends
nothing once `stop` is set, which is `"lost"`. Its connections are
`Connections` and its queue `jobQueue`, its specification `ServerSpec`:
`LiveSession` has `Clients` (who hold conversations), a `queue` of parsed
requests and a `Spec` of its own, and the proofs of both are in one module.

### 2.3 Transcript and LiveSession

A client has a protocol, may offer tools, may think and may show its reasoning
back (`Profile`). A conversation is a sequence of turns; `RenderTurn` and its
neighbours turn it into a sequence of symbols in the way the chat, Anthropic
and Responses renderers do, including which parts each leaves out. The same
symbols serve as tokens, with one exception that matters: a text can have a
second tokenization (`say2`, `call2`), so a session's tokens may differ from
what tokenizing its text gives. `Meaning` maps a text to what it says (its
messages and answers, without the system prompt, the reasoning and the turn
ends, and whichever way a call is spelled) and is what the properties compare.

`LiveSession` then follows a request: `Parse` (client thread, including the
check of tool results against a binding), `ContinueLive` or
`RefuseContinuation`, `LoadFromDisk`/`MissDisk`/`LoadFails`, `PrefillChunk`
with cold and continued stores, `Decode`, one of the `Finish...` actions, the
checkpoint rebuild, `Reply`. `EvalFails` and `SyncFails` are back-end failures;
`Restart` is an orderly stop and start. Clients append turns, edit their
history, retry, or send a tool result alone. `strayed` remembers that a failed
prefill has left a binding to a session that is no longer there (section 6);
the properties are about the histories in which it has not.

`SwitchKeepsWork` asks that a job taking the session for another conversation
leaves what it held on disk under a key that says all of it: the same messages,
results and answers, whatever their spelling. It is weaker than "the next prompt
begins with the key", which the code aims at (`ds4_server.c:10341`) and does not
always reach: with exact replay off, as in `live_chats`, the key may hold a call
as it was sampled while the next prompt renders it from JSON. The work is then
on disk and a lookup misses it (section 6). It has one exception
and one alternative. The exception is `NamesLastTurnOnly`, a session whose
Responses binding names only a tool result (section 6): it is saved under that
key. The alternative is a job that loads a checkpoint which says the same as the
session: a loaded entry that is long enough to be consumed may be the very one
that was just saved.

### 2.4 ToolMemory and KvDiskCache

A memory is one record (`by_id`, `lru`, `refs`, counts), a DSML block is a
model value with a size, the radix trees are functions. A checkpoint file is a
record under its text: SHA-1 is taken to be collision free. `phase` is where
the worker is in a cache operation: writing the temporary file and renaming it,
truncating and rewriting a tool map, scanning and evicting, loading and
touching are separate steps; the reader (a client thread restoring tool maps)
runs between them, one file, then one pair, at a time. `Crash` keeps only the
directory and starts a process with any configuration in `Servers`. Eviction
scores depend on time only through the decay of hits, so an eviction sees any
decayed value.

### 2.5 ParallelFor and ThreadPool

`g_pool` is the variables `initialized`, `shutdown`, `generation`, `done`,
`job` and `n_rows`; `mine[w]` is the copy of the job worker `w` took under the
lock. Each critical section is one step, each share of rows another. `job`
holds the number of the call instead of a function pointer, so that running an
old job is visible. `Generations` is the number of values of the 32-bit
counter: TLC uses 2, the worst case, where a worker that missed one generation
would take the next for its own. `ParallelFor` knows calls, rows and how often
each row of each call was run; the refinement mapping only says when a call is
`open`.

### 2.6 StagePass, StageRuntime and StepPipeline

`StagePass` is one promise for all ways of feeding a batch: while a pass is
open, layers `a..b` are run for slots that have been through every layer before
`a` and none from `a` on; a pass that succeeds has taken every slot through
every layer; nothing runs outside a pass; a failed pass may stop anywhere.

`StageRuntime` is both persistent runtimes, told apart by `kind`, because they
have the same worker with different locks and ends: in the barrier every stage
checks out (`replay_pipeline_worker_done`) and the last one lets the host go;
in the mailbox the last slot of the last stage, or any failure, does. `n_slots`
is read without the lock, in a step of its own (`Head`). A stage is a layer of
`StagePass`.

`StepPipeline` creates and joins its threads for every batch. `mode` is the
way a stage takes slots: fixed spans, spans as long as what is ready, or the
layer wavefront, whose search for a group (`find_layer_group`) is described by
the runs of neighbouring slots due for a layer and the choice among them. A
wavefront step runs one layer, the other two run all layers of the stage.

### 2.7 ReplayServer

`pc[r]` is where the thread of request `r` is in `handle_http_request`. Its
record (`done`, `rc`, `ready`, `pass`) is alive while the thread is. `work` is
what the holder of `generation_mu` has still to run: one group when the
requests may share a batch, else one group each. `hc[s]` names the request
whose state a scheduler slot holds and how many of its prompt tokens were fed,
so that a batch of unequal prompts (`replay_sort_batch_plan`) and the MTP check
can be judged. When a thread cannot be created, main handles the request itself
(`inline`).

`main` is where the main thread is, in `run_server` and after it. After the last
request it waits for the handlers (`AwaitHandlers`), returns, closes the MTP
service and the runtime (`CloseRuntime`) and ends the process (`Exit`);
`OrderlyExit` is about this way. `AcceptFails` is the other return: the locks are
destroyed and the frame is gone while handlers run. They become `"astray"`,
which stands for anywhere in the handler, the engine included; what the frame
held is followed no longer, as any use of it is undefined. `CloseRuntime` then
closes the runtime under them (`"closed_in_use"`), and each of them may stay,
end, or bring the process down (`Stray`), before or after that.

### 2.8 SpeculativeDecode

The state of the layers (`graph`) is named by the tokens it describes; `Mixed`
is a state no prefix has, left by a pass that failed half way. `Targets` gives
the token the model prefers after each prefix; `Ties` are the lengths at which
batch kernels may prefer another one, as the repository's comments on the exact
verifier say. `call` holds the locals of the running call. `passed_over`
remembers failures the code does not act upon (section 6).

## 3. What the runs check

All runs are listed in `PROJECT.json`; each property is stated in a comment in
its module. Distinct states are for the bounds in the cfg files.

| Run | Bounds | Shows |
|---|---|---|
| `appliance_sessions` | 3 sessions, 2 slots, 4 connections, context 2, failures | one slot per session, exclusive slots during a batch, no 503, positions equal what was committed, a request is held in one place, fresh previews stay true and fresh batches stay in the context |
| `appliance_service` | all kinds of request, request limit 4, 3 descriptors, fairness | everybody accepted is answered, and neither exit leaves anybody waiting |
| `queue` | 3 connections, any signals and spurious wakeups, fairness (88k states) | no dangling job, resources outlive threads, every client leaves, a stop ends the server |
| `live_agents` | 2 tool agents of two protocols, 3 requests, 1 failure (752k) | answers follow the asker's history, disk keys describe their payloads, bindings describe the session |
| `live_chats` | a thinking chat and a tool client without exact replay, shared system prompt, chunks, small context, 1 failure (1.5M) | the same with hidden reasoning, cold and continued stores and rebuilt checkpoints; a switch saves all that it replaces says, under a key that may spell a call otherwise |
| `kv_cache` | 2 nested texts, 3 ids, 2 blocks, memory of 2 entries, 1 fault, 1 crash (1.4M) | memory and counters agree, replayed calls are the sampled ones, files are whole and true of their texts, eviction reaches the budget without taking the new file, usable files are lost only to eviction, consumption or corruption |
| `thread_pool` | 4 threads, 2 calls of up to 5 rows, counter of 2 values, fairness | implements `ParallelFor`; every call and every shutdown ends |
| `stage_runtime` | 3 stages, up to 3 slots, 2 dispatches, 1 failure, both kinds, fairness | the barrier implements `StagePass`; the mailbox keeps the order while nothing fails; every dispatch returns |
| `step_pipeline` | 3 stages of 2 layers, up to 3 slots, 3 modes, 1 failure, fairness | implements `StagePass` in every mode; the wavefront never runs dry; every feed returns |
| `replay_server` | 3 requests of mixed shapes, 2 slots, both policies, MTP off and verify, 1 failure, fairness | records outlive their use, one pass suffices, answers come from the own prompt, the exit after the last request is orderly and comes (a failed `accept()` and the runtime closed under handlers are reached, section 6) |
| `speculative` | 8 option sets, context 7, one near tie, 2 failures (95k) | tokens, layer state and logits agree after every call; the stream is the target's |
| `replay_mtp` | 2 requests that cannot share a batch, MTP verify | a violation, section 6 |

Why these bounds are enough for the cases that matter. Two slots and three
sessions are the smallest instance in which a batch is full while another
session must evict; four connections let one wait in `pending` while a full
batch runs and another arrives. Three clients give a job in the worker, one in
the queue and one about to enqueue. Two clients and three requests are enough
for A–B–A, the shortest sequence in which a conversation returns to a session
that was replaced. Two nested texts let a lookup choose and an eviction prefer;
the byte sizes make the budget hold the long file alone, the short file alone,
or both but not a longer map. Four threads and five rows give a short share and
an empty one. Three stages are the least with a stage that has both neighbours;
two dispatches let a stage be late for the second; three slots let a span be
cut and a wavefront hold two layers at once. Three requests for two generation
slots make one wait or be refused while two share a pass. A context of seven
lets two calls in a row speculate, the second next to the end of the window.

### Mutants

Each property of a passing run has a mutant in `PROJECT.json`: an operator kept
next to the definition it replaces (`NotSaved`, `rows_per_thread_down`,
`wait_prev_any_generation`, `pending_mark_done_keeps_listed`, `CommitNothing`,
...) that is wrong in the way that code could be wrong, and under which TLC
finds the property violated.

## 4. Fairness

Everywhere: the operating system runs runnable threads, calls into the engine
return; arrivals, signals, failures, timeouts and spurious wakeups are owed to
nobody, so no property relies on them.

* `ApplianceServer!FairSpec` is `WF_vars(Serve)`. `Serve` contains the end of a
  `read()`, so this also assumes that a connected client sends its request or
  hangs up; the code has no read timeout, and a silent client does stop the
  appliance.
* `ServerQueue!FairSpec`: weak fairness of the main thread, the worker and
  every client thread separately.
* `ThreadPool!FairSpec`: of the caller inside a call, of the join, and of every
  worker. No call and no shutdown is owed.
* `StageRuntime!FairSpec`: of the waiting host, of the join and of every stage
  thread. `StepPipeline!FairSpec`: of creating and joining, and of every stage.
* `ReplayServer!FairSpec`: of every request's thread (again, a connected client
  sends its request), of `run_server`'s own steps, and of main closing the
  runtime and returning after an orderly end. Nothing is owed after a failed
  `accept()`, where `pthread_cond_destroy` may block on a waiter.
* `LiveSession`, `KvDiskCache` and `SpeculativeDecode` are checked for safety
  only: they are sequential but for one reader, and their loops end by counting.

## 5. What is proved

Each theorem holds for every value of the constants that satisfies the named
assumptions; TLC evaluates those assumptions in the runs.

| Theorem | Module | States |
|---|---|---|
| `TypeCorrect` | `ApplianceServerProofs` | `Spec => []TypeOK` |
| `SessionHasOneSlot` | 〃 | `Spec => []OneSlotPerSession` |
| `BatchKeepsItsSlots` | 〃 | `Spec => []BatchOwnsItsSlots` |
| `NeverRefusesABatch` | 〃 | `Spec => []NoBatchRefused`: the 503 branch after `assign` is unreachable |
| `CursorIsTimelineLength` | 〃 | `Spec => []CursorMatchesTimeline` |
| `FreshBatchesFitTheWindow` | 〃 | `Spec => []FreshPreviewHolds` |
| `EveryRequestHeldOnce` | 〃 | `Spec => []HeldOnce` |
| `ExitAnswersEverybody` | 〃 | `Spec => []ExitLeavesNobodyWaiting` |
| `JobsStayOnLiveStacks` | `ServerProofs` | `ServerSpec => []JobsOutliveTheirUse` |
| `NothingFreedEarly` | 〃 | `ServerSpec => []ResourcesOutliveThreads` |
| `DecodesTheConversation` | 〃 | `Spec => []AnswersOwnHistory` |
| `CheckpointsAreKeyedByTheirText` | 〃 | `Spec => []KeysDescribePayloads` |
| `BindingsPointIntoTheSession` | 〃 | `Spec => []BindingsFollowTheSession` (with `TypeOK`) |
| `SwitchesKeepTheWork` | 〃 | `Spec => SwitchKeepsWork`: saved under a key that says the same, not always a prefix of the next prompt |
| `MemoryStaysConsistent` | `KvDiskCacheProofs` | `Spec => []MemoryConsistent` (with `TypeOK`) |
| `ReplaysAreExact` | 〃 | `Spec => []ReplaysWhatWasSampled` |
| `CheckpointsStayComplete` | 〃 | `Spec => []CheckpointsAreComplete` |
| `EvictionEndsWithinBudget` | 〃 | `Spec => EvictionReachesBudget` |
| `StoredCheckpointIsKept` | 〃 | `Spec => StoreKeepsItsCheckpoint` |
| `UsableCheckpointsAreKept` | 〃 | `Spec => UsableCheckpointsStay` |
| `PoolInvariant` | `ThreadPoolProofs` | no worker runs the kernel of a call that has returned, none lags by more than one generation |
| `PoolImplementsParallelFor` | 〃 | `Spec => ImplementsParallelFor` |
| `PipelineKeepsPromise` | `StageRuntimeProofs` | `Spec => BarrierKeepsPromise` |
| `MailboxKeepsOrder` | 〃 | `Spec => []MailboxOrder` |
| `StepPipelineKeepsPromise` | `StepPipelineProofs` | `Spec => FeedKeepsPromise` |
| `WavefrontProgresses` | 〃 | `Spec => []WavefrontMakesProgress`: the "made no progress" branch is unreachable |
| `ReturnsWhenAllHaveLeft` | `ReplayServerProofs` | `Spec => []OrderlyExit`: the way out after the last request only; a failed `accept()` is not covered |
| `SlotsAreCounted` | 〃 | the generation slot counter is the number of its holders, at most `Cap` |
| `PendingRecordsLive` | 〃 | `Spec => []PendingOutlivesUse` |
| `FirstPassCompletes` | 〃 | `Spec => []OnePassSuffices` |
| `TokensAreOfOwnPrompt` | 〃 | `Spec => []AnswersOwnPrompt` |
| `SessionAgreesAlways` | `SpeculativeDecodeProofs` | `Spec => []SessionAgrees` |
| `TargetDefinesTheStream` | 〃 | `Spec => []TargetDefinesStream` |

**Appliance.** Assumptions: `SlotsAssumption` (at least one slot),
`PositionAssumption`, `PromptAssumption`, `ShapeAssumption`, `LimitAssumption`;
each is what the option parser or the types guarantee. None of the three safety
properties is inductive alone, so the proof uses

    IInv == TypeOK /\ PhaseInv /\ DistinctKeys /\ OneSlotPerSession
            /\ BatchOwnsItsSlots /\ NoBatchRefused

`PhaseInv` says what `batch` and `asg` look like at each `pc`. `DistinctKeys`
is the duplicate-key check of the bucketing code as a state predicate: without
it a second member with the key of a first one would *hit* the slot already
given away. The 503 branch needs a counting step, the lemma `RoomForOneMore`:
while fewer members are assigned than the batch has, and the batch has at most
`NSlots` members, some slot is unprotected, hence free, hit or evictable. The
lemmas at the head of `ApplianceServerProofs` say what `find`, `TargetSlot`,
`assign` and `commit` return and leave alone. The cursor theorem adds, for the
members of a batch that are assigned and not committed, that their slot is
still as `assign` left it (`AsAssigned`): `commit` may then compute the position
from the assignment. `PreviewInv` says of a fresh batch that whoever waits for a
slot would still be admitted at the batch's position, and whoever has one was
assigned there. Two members disturb each other only by evicting, and a member
evicts only when it misses; the batch then runs at `BasePos`, where no valid
slot lies, so those still waiting have nothing to lose. `HoldInv` follows the
requests: the open connections are those in `pending` and those of the batch
from the first unanswered member on, none twice and none in both, and the
connections being read are the ones the loop has in hand.

**ServerQueue.** Assumption: finitely many connections. `JobsHeld`: a job that
is queued or held by the worker belongs to a thread that waits and has not seen
`done`; jobs are queued once. `ThreadsCounted`: `s->clients` is the number of
live threads plus the one being spawned, and main has passed the join only when
the worker is gone. With them main frees the server only at zero clients and
after the worker.

**LiveSession.** Assumptions: `ProfileAssumption` (the protocols and switches
of a client; a user's message is none of the symbols the renderers put around
it) and `LiveSessionAssumption` (limits and options are numbers, the context and
the chunks positive); clients and messages are any sets. `Meaning` is defined with `FlattenSeq`, whose definition is a
recursive function chosen to satisfy its equations. That such a function exists
(`JoinsExist`), that joining one more sequence appends it (`FlattenMore`), and
from it that the meaning of a joined text is its parts' meanings joined
(`MeaningConcat`) are proved by a smallest counterexample (`LeastNumber`,
`SequencesAll`), which takes the place of induction. With that, `PromptText`
says that every renderer's prompt says the conversation and the message asked,
whatever it leaves out, and `Continued` that tokens followed by what a text has
after their key say what the text says. The invariant is

    SessionInv == Types /\ Asked /\ Fresh /\ Going /\ (~strayed => Sound)

`Asked`: every request waiting or at work was rendered from a history a client
can have; one that carries only tool results names the call that ended it.
`Fresh`: the id of a request not yet answered occurs in no history, so a binding
made for its call can only be named by those who continue it. `Going`: a job's
goal lies within its prompt, and a binding that outlives the prompt was the one
continued from and points strictly below the session's end, so it cannot match
by length until something is remembered anew. `Sound` is what the properties
need, phase by phase: the prompt says the whole request while it is evaluated,
the session says it and the answer so far while decoding; between jobs a binding
at the session's length names it (`Names`), or holds the id of a call after
which every history with that id says what the session says (`Called`); every
key on disk is the text of its tokens or names them (`Describes`). A binding
matches by length or id, never by content: that `Names` and `Called` survive each
edit, retry, cut answer, overrun token and rebuilt checkpoint is what the proof
shows, one lemma `...Holds` per action. `Begins` is the fact that makes the
length test of a visible prefix sound: a whole conversation has a user's message
where its first turn begins and the tail of a tool result does not, so a key
that names only the end of a session is no prefix of a whole conversation.

**KvDiskCache.** Assumptions: `ToolMemoryAssumption` (limits and sizes are
numbers, an entry and a block cost something) and `CacheAssumption`; ids, blocks,
texts and prompts are any sets, finite or not. `Good` is the state of the
memory's books: the LRU list holds each known id once, a block's references are
its entries, the bytes are those of the entries and of each referenced block
once. `RemoveGood`, `InsertGood`, `TouchGood` and `SourceGood` show each
operation to keep it, so that the guards against subtracting too much in the
code never act; `PruneGood` that dropping the tail reaches the limits, at the
latest when the list is empty (the code leaves the loop there too). `SumAny` –
a sum over a finite set may be taken in any order – is proved from the fold's
definition by a smallest counterexample. The invariant of the cache, `CInv`,
says that pairs are true wherever they are (memory, maps, pairs read and not
yet put; the set of sampled ids only grows, so a pair read before a step is true
after it), that a file the worker is at exists and the one it writes is as
complete as the phase says, and that an eviction's list is the directory and its
total the sum of the sizes, unless an unlink failed. The protected file is never
evicted because eviction needs a total over the budget, and if the protected
file were the only one left the total would be its size, which `Scan` has found
to fit.

**ThreadPool.** Assumption `PoolAssumption`: at least one thread, at least two
generation values. `Stations` says where a worker can be relative to the
current generation (looking with the old one, running, finished), `DoneCounts`
that `done` is the number of finished workers, `Ledger` which rows have been
run. The point is `NobodyLags`: the caller returns only when all workers are
counted, so each of them has seen the current generation when the next is
published, and a counter of two values is enough. `SharesCover` and its
neighbours prove that the shares of `rows_per_thread`, rounded up, partition
the rows.

**StageRuntime.** Assumption `StageRuntimeAssumption`. For the barrier,
`Counted` says that `completed` is the number of stages that have checked out
of the current generation; so `active` falls only when all have, and
`HostAndStages` follows: outside a dispatch every stage is outside its loop and
has seen the last generation. That is why a stage can neither work for a
dispatch that has returned nor sleep through one. `StageInv` determines how
often a stage has decoded each slot from its slot and place, and `Ordered` that
what a stage has decoded all earlier ones have: with both, `Decode` is a `Work`
step of `StagePass` and a return without failure finds every pass made. The
mailbox has no barrier; `MailboxInv` says instead that, while nothing has
failed, a stage that has taken up the current generation has marked exactly the
slots before its own and one that has not has marked none, that `done` is
ordered by stage, and that `completed` is the last stage's slot. Stage 0 is
excepted from "once": it may look at the slots of a dispatch before it takes up
its generation.

**StepPipeline.** Assumption `StepPipelineAssumption`: sizes and chunks are
positive, a batch may have two slots. While a stage is at work its own account
tells exactly which of its layers each slot has been through: `SpanProgress`
(the slots before its span, and those of a span being marked) or, for the
wavefront, `WaveProgress` (the layers below `next_layer`). Only a stage that has
failed or gone loses that, and `Ordered` – no slot skips a layer – is what is
left. A span reaches `"work"` at the stage's first layer only when the stage
before has run each of its slots (`Ready`), because `done` holds only what has
been run. Together they give `WorkSafe`: the slots of a span have been through
all layers before it and none of its own, whichever way it was chosen, so
running it is a `Work` step of `StagePass`. For the wavefront this needs
`GroupIsDue`: `find_layer_group` finds a group when there is one (a least layer
and slot exist), and all of its slots are due. That it also always finds one is
`FrontInv`: between two turns every slot a stage has started is past the
stage's first layer, so a slot that is not complete is unstarted or due.
`Threads` says that an unfailed
join waits for all stages, and the last of them has taken every slot through
its last layer.

**ReplayServer.** Assumption `ReplayServerAssumption`. Both counters equal the
size of the set they count (`HandlersCounted`, `SlotsCounted`) as long as
`accept()` has not failed; a thread is counted before it can leave, so the
guard against a decrement of zero never hides an error, and the wait for zero
handlers is a wait for all. Nobody is there, then, while main closes the runtime
after an orderly return. For the other return, after a failed `accept()`,
nothing of the kind is proved, because it does not hold. `QInv` adds, until an `accept()` fails: the pending
list holds, once each, the requests of the threads in their passes that are not
done (`Listed`); whoever is in the critical section holds `generation_mu`
(`Mutex`); the groups are disjoint parts of the list (`Groups`); and the
holder's own request is done or in a group it still has (`Turn`). That the
holder's request *is* among those collected is a counting fact: a listed thread
holds a generation slot, so the list is no longer than `Cap` and the collection
takes all of it. What `pending_remove` leaves is shown by ranks
(`AmongLists`: the kept elements are numbered without a gap), and that a
batch's plan feeds each prompt whole by looking at the plan's steps slot by
slot (`PlanFeedsAll`).

**SpeculativeDecode.** Assumption `SpeculativeAssumption`. `Sound` is claimed
until `passed_over`, the outcomes of section 6 where a failed call is not looked
at. Between calls a valid session describes the tokens given out (`Settled`);
in a call `Prefix` says what it started from and that it can be found again
(`AtStart` in the tokens, the snapshot in the layers), `Drafts` that the drafts
accepted are the target's, and `Place` how far tokens and layers have moved at
each step. The target's answer depends on the number of tokens before it, near
ties apart, so a token the verifier has confirmed is the one plain decoding
would give.

Only model-checked: the liveness properties (`EveryClientLeaves`,
`StopEndsTheServer` and their like), which rest on fairness and `ENABLED` and so
are out of the prover's reach; and `VerifiesOwnState`, which does not hold.
Every invariant and every action property of a passing run has a theorem.

## 6. Where the code and its own statements disagree

`replay_mtp` – `tools/replay.c:3543`. `docs/sprints/SPRINT-180.md:53` says
"Verification stays inside the generation critical section so another request
cannot reset the replay runtime before HC is read." That is so for a batch. A
request that was generated alone is checked after `generation_mu` has been
released, and reads the state of whatever ran since.

Seen while modelling, without a run of their own:

* Appliance. A request set aside keeps its preview; when its session advances
  meanwhile it is drained into a batch without a new admission and may commit
  past the context window (`request_scheduler.cu:340`;
  `docs/sprints/VISION.md:1203` says the window is checked before decode). This
  is why `FreshPreviewHolds` speaks of fresh previews.
* A slot's fingerprint survives a rebuild without prompt after a failed batch
  (`request_scheduler.cu:131`). Fallback cache keys are numbered anew when a
  request is popped (`http_server.cu:759`). `read()` has no timeout (227).
  Status requests leave their descriptor open; the loop ends when `accept()`
  fails for lack of descriptors (490). In a batch with prompts of different
  lengths the shorter one decodes at the longer one's position (1015). The
  coalescing window starts anew with every arrival.
* ds4-server. After the stop signal `send_all` sends nothing, so the 503 of a
  stopping server and the answers of drained jobs do not reach their clients
  (`ds4_server.c:4111`, `11623`). The signal handler and main may both close
  the listening descriptor (12099).
* Live continuation. A failed prefill returns before stale bindings are cleared
  (`ds4_server.c:10759`, against the comment at 10768): after a disk load of the
  same length the old conversation would continue the other one's history. The
  context check measures the rendered request, the prefill the session plus its
  suffix (4743). After a Responses request that carried only a tool result, the
  checkpoint is saved under a key without the history (11180). The
  end-of-sentence token of an answer is part of the visible key but is not
  evaluated (10894, 10299). The visible key of a Responses turn that thinks and
  has no tools is never a prefix of the next request (10282). With exact replay
  off, the checkpoint is rebuilt with the raw call while the next prompt renders
  it from JSON (10262, 10341): no prompt begins with its key, so it is saved in
  vain and costs a prefill.
* Disk cache. Rewriting the tool map of an existing file can make it longer,
  and no eviction follows (9262). A crash between truncating and writing a map
  loses the map (9158). Temporary files of a process that died are never removed
  (9270). A client that returns only some of a block's calls gets the whole
  block attached (8084).
* Pipelines. After a failure the mailbox host may dispatch again while the
  first stage is still in its loop; the stage reads the new `n_slots` and may
  decode a slot of the new dispatch twice (`replay_core.inc:1090`).
  `MailboxOrder` therefore speaks of histories without a failure and of stages
  after the first.
* Replay server. A failed `accept()` makes `run_server` destroy its locks and
  return while handlers use them and its stack frame (`tools/replay.c:3716`);
  main then closes the MTP service and the runtime under a handler that may be
  inside the engine (3877). `replay_server` reaches these states
  (`main = "closed_in_use"` with a thread `"astray"`). No comment, document or
  test says otherwise, so no run reports them as a disagreement. Without
  `--max-requests` this is the only return of `run_server` once it listens.
* Speculative decoding. The result of the last `spec_frontier_restore` is not
  looked at, and a failed `DS4_MTP_EXACT_REPLAY` falls through to the normal
  ending (`passed_over`). When drafting fails (`ds4.c:18963`) the rows of the
  drafts stay counted. A full accept counts one MTP row that was never written.
  With `--quality` and a depth other than 2 the batch verifier is used, although
  the comment at 19026 reserves it.

## 7. Abstractions to keep in mind

* Hashes (prompt fingerprints, SHA-1 names) do not collide.
* A prompt, message, call id or block is a symbol; tokens are symbols with at
  most two tokenizations of a text. Sampling parameters, tracing, formatting
  and metrics are left out.
* A signal handler of `ServerQueue` runs without interruption; the model does
  not show two threads closing the listening descriptor at once.
* The reader of `KvDiskCache` is one client thread; more would only repeat the
  same reads, as the memory is changed under one lock.
* In event mode the pipelines' "done" means enqueued; that the devices then
  keep the order chosen by the host is assumed.
* A generation of `ReplayServer` is one step; a device failure inside it is
  the step's failure.
* Named bounds: `MaxRequests` (both servers), `FdLimit`, `Cap`, `SlotChunk` and
  its neighbours exist in the program; `MaxJobs`, `MaxFaults`, `MaxCrashes`,
  `MaxHits`, `MaxCalls`, `MaxRows`, `MaxDispatches`, `MaxTokens` and "each
  client connects once" bound the models. `Generations` is 2^32 in the program.

## 8. Not modelled

Most of the repository's lines are device code: CUDA and Metal kernels, the
TP/EP decode loop, weight packing and quantisation, and the smokes that compare
their numbers. Their correctness is arithmetic and byte layout, which these
models do not speak of, so the models cover a small share of the lines and
the larger part of the concurrent control. Also left out: the tokenizer and
model loading; API parsing and streaming formats (what they decide is in
`LiveSession`, who runs them in `ServerQueue`); the stage scheduler (argument
checks around kernels; its slots appear as `hc` in `ReplayServer`); the MTP
sidecar, which the repository records as not working; option parsing; CLI,
evaluation and benchmarks (one session in sequence); offline tools; vendored
`rax`, `linenoise` and turbomind kernels.

## 9. Plan

Written in this order, most important behaviour first: `SessionTable` and
`ApplianceServer` with their proofs, `ServerQueue`, `Transcript` and
`LiveSession`, `ToolMemory` and `KvDiskCache`, `ThreadPool`, the stage
pipelines, `ReplayServer`, `SpeculativeDecode`, then the proofs of section 5.
Open: the stage scheduler's snapshots and the generation loop above a feed, as a
layer between `ReplayServer` and the pipelines.

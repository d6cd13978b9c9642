---------------------------- MODULE StepPipeline ----------------------------
(***************************************************************************)
(* The per-step stage pipeline, the replay engine's default: every batch   *)
(* of tokens gets one new thread per stage, which is joined before the     *)
(* call returns.  A stage takes its slots in one of three ways, chosen by  *)
(* the environment:                                                        *)
(*   "fixed"      spans of SlotChunk slots, each slot awaited;             *)
(*   "ready"      the next slot, and as many after it as the stage before  *)
(*                has already done, up to ReadyChunk;                      *)
(*   "wavefront"  layer by layer, in groups of neighbouring slots that are *)
(*                due for the same layer, starting new slots in between.   *)
(* The FFN wavefront has the control of the layer wavefront.               *)
(*                                                                         *)
(* Each critical section is one step.  Handing a span over, running its    *)
(* layers and recording or synchronising it is one step that may fail.  In *)
(* event mode "done" means enqueued; the device then keeps the order that  *)
(* the host has chosen here.                                               *)
(***************************************************************************)
EXTENDS Integers, FiniteSets, FiniteSetsExt

CONSTANTS NStages,         \* DS4_V100_EXPECTED_GPUS
          LayersPerStage,  \* layers of each stage
          MaxSlots,        \* slots of the largest batch
          MaxFaults,       \* failures in one batch (a bound of the model)
          Modes,           \* the ways of taking slots that are considered
          SlotChunk,       \* DS4_V100_ASYNC_SLOT_CHUNK
          ReadyChunk,      \* DS4_V100_ASYNC_READY_CHUNK_MAX
          Stage0Chunk,     \* DS4_V100_ASYNC_READY_STAGE0_CHUNK_MAX
          WaveChunk        \* DS4_V100_ASYNC_LAYER_WAVEFRONT_CHUNK

ASSUME StepPipelineAssumption ==
    /\ NStages \in Nat \ {0} /\ LayersPerStage \in Nat \ {0}
    /\ MaxSlots \in Nat \ {0, 1} /\ MaxFaults \in Nat
    /\ SlotChunk \in Nat \ {0} /\ ReadyChunk \in Nat \ {0}
    /\ Stage0Chunk \in Nat \ {0} /\ WaveChunk \in Nat \ {0}
    /\ Modes \subseteq {"fixed", "ready", "wavefront"}

Stages  == 0..(NStages - 1)
Slots   == 0..(MaxSlots - 1)
NLayers == NStages * LayersPerStage
Layers  == 0..(NLayers - 1)
First(k) == k * LayersPerStage
Final(k) == First(k) + LayersPerStage - 1
Smaller(a, b) == IF a < b THEN a ELSE b

VARIABLES
    mode,
    n_slots, failed, done,    \* the batch: done holds <<stage, slot>>
    pc,                       \* where each stage thread is
    slot, chunk, rel, layer,  \* its current span, a position in it, its layer
    started, complete, next_layer,   \* the wavefront's account of its slots
    host, created,            \* the calling thread and the threads it has made
    passes, result, faults    \* layers run, how the last call ended, failures

batch  == <<n_slots, failed, done>>
span   == <<slot, chunk, rel, layer>>
wave   == <<started, complete, next_layer>>
caller == <<host, created, result>>
vars   == <<mode, batch, pc, span, wave, caller, passes, faults>>

Untouched == [l \in Layers |-> [s \in Slots |-> 0]]
PerStage(x) == [k \in Stages |-> x]

Init ==
    /\ mode \in Modes
    /\ n_slots = 0 /\ failed = FALSE /\ done = {}
    /\ pc = PerStage("none")
    /\ slot = PerStage(0) /\ chunk = PerStage(0) /\ rel = PerStage(0) /\ layer = PerStage(0)
    /\ started = PerStage({}) /\ complete = PerStage({})
    /\ next_layer = PerStage([s \in Slots |-> 0])
    /\ host = "idle" /\ created = 0 /\ result = "none"
    /\ passes = Untouched /\ faults = 0

-----------------------------------------------------------------------------
\* pc after stage k has moved to p and cv has been broadcast.
Broadcast(k, p) == [j \in Stages |-> IF j = k THEN p
                                     ELSE IF pc[j] = "asleep" THEN "wait" ELSE pc[j]]
Moved(k, p) == [pc EXCEPT ![k] = p]

PrevDone(k, s) == k = 0 \/ <<k - 1, s>> \in done

Take(k, s, c, l, p) ==
    /\ slot' = [slot EXCEPT ![k] = s]
    /\ chunk' = [chunk EXCEPT ![k] = c]
    /\ rel' = [rel EXCEPT ![k] = 0]
    /\ layer' = [layer EXCEPT ![k] = l]
    /\ pc' = Moved(k, p)

\* The head of the loop over spans: slot has been advanced past the last one.
PickSpan(k) ==
    /\ pc[k] = "pick" /\ mode \in {"fixed", "ready"}
    /\ \/ slot[k] >= n_slots /\ pc' = Moved(k, "gone") /\ UNCHANGED span
       \/ /\ slot[k] < n_slots
          /\ Take(k, slot[k], IF mode = "ready" THEN 1 ELSE Smaller(SlotChunk, n_slots - slot[k]),
                  First(k), "wait")
    /\ UNCHANGED <<mode, batch, wave, caller, passes, faults>>

\* wait_prev for slot + rel, asked for every slot of the span in turn.
wait_prev(k) ==
    /\ pc[k] = "wait"
    /\ \/ /\ k # 0 /\ failed
          /\ pc' = Moved(k, "gone") /\ UNCHANGED rel
       \/ /\ k # 0 /\ ~failed /\ ~PrevDone(k, slot[k] + rel[k])
          /\ pc' = Moved(k, "asleep") /\ UNCHANGED rel
       \/ /\ k = 0 \/ (~failed /\ PrevDone(k, slot[k] + rel[k]))
          /\ rel' = [rel EXCEPT ![k] = @ + 1]
          /\ pc' = Moved(k, IF rel[k] + 1 < chunk[k] THEN "wait"
                            ELSE IF mode = "ready" THEN "collect" ELSE "work")
    /\ UNCHANGED <<mode, batch, slot, chunk, layer, wave, caller, passes, faults>>

collect_ready_chunk_unchecked(k) ==
    /\ pc[k] = "collect"
    /\ chunk' = [chunk EXCEPT ![k] = Smaller(IF k = 0 THEN Stage0Chunk ELSE ReadyChunk, n_slots - slot[k])]
    /\ pc' = Moved(k, "work")
    /\ UNCHANGED <<mode, batch, slot, rel, layer, wave, caller, passes, faults>>

\* One turn of collect_ready_chunk: the next slot is ready, or the stage goes
\* on without it (the timed wait ends at any moment).
collect_ready_chunk(k) ==
    LET max == Smaller(ReadyChunk, n_slots - slot[k])
        next == slot[k] + chunk[k]
    IN
    /\ pc[k] = "collect"
    /\ \/ /\ k = 0
          /\ chunk' = [chunk EXCEPT ![k] = Smaller(Stage0Chunk, max)]
          /\ pc' = Moved(k, "work")
       \/ /\ k # 0 /\ chunk[k] < max /\ ~failed /\ PrevDone(k, next)
          /\ chunk' = [chunk EXCEPT ![k] = @ + 1]
          /\ UNCHANGED pc
       \/ /\ k # 0 /\ ~(chunk[k] < max /\ ~failed /\ PrevDone(k, next))
          /\ pc' = Moved(k, "work")
          /\ UNCHANGED chunk
    /\ UNCHANGED <<mode, batch, slot, rel, layer, wave, caller, passes, faults>>

-----------------------------------------------------------------------------
\* The wavefront.  Slot s of stage k is due for layer l, which is not its
\* first one.
Due(k, l, s) == s < n_slots /\ s \notin complete[k] /\ next_layer[k][s] = l

\* The spans of slots due for l that the scan of find_layer_group makes: runs
\* of neighbours, cut every max slots.
Cut(k, l, max) ==
    LET from(s) == Min({a \in 0..s : \A b \in a..s : Due(k, l, b)})
        to(s)   == Max({a \in s..(n_slots - 1) : \A b \in s..a : Due(k, l, b)})
    IN {[layer |-> l, slot |-> s, chunk |-> Smaller(max, to(s) - s + 1)] :
           s \in {t \in Slots : Due(k, l, t) /\ (t - from(t)) % max = 0}}

Groups(k, max, min) ==
    {g \in UNION {Cut(k, l, max) : l \in (First(k) + 1)..Final(k)} : g.chunk >= min}

\* The first one, by layer and then by slot.
find_layer_group(k, max, min) ==
    CHOOSE g \in Groups(k, max, min) : \A h \in Groups(k, max, min) :
        g.layer < h.layer \/ (g.layer = h.layer /\ g.slot <= h.slot)

Unstarted(k) == {s \in Slots : s < n_slots /\ s \notin started[k] \cup complete[k]}

Begun(k, s) ==
    /\ started' = [started EXCEPT ![k] = @ \cup {s}]
    /\ next_layer' = [next_layer EXCEPT ![k][s] = First(k)]
    /\ UNCHANGED complete

Continue(k, g) == Take(k, g.slot, g.chunk, g.layer, "work") /\ UNCHANGED wave

WaveDone(k) == Cardinality(complete[k]) >= n_slots \/ failed

\* One turn of the wavefront's loop.  The scan for a slot to start takes the
\* lock once per slot, so beyond the first stage a slot may become ready
\* behind it: it may start any ready slot, or overlook them all.
PickWave(k) ==
    /\ pc[k] = "pick" /\ mode = "wavefront"
    /\ \/ /\ WaveDone(k)
          /\ pc' = Moved(k, "gone") /\ UNCHANGED <<span, wave>>
       \/ /\ ~WaveDone(k) /\ Groups(k, WaveChunk, WaveChunk) # {}
          /\ Continue(k, find_layer_group(k, WaveChunk, WaveChunk))
       \/ /\ ~WaveDone(k) /\ Groups(k, WaveChunk, WaveChunk) = {}
          /\ \E s \in Unstarted(k) :
                /\ IF k = 0 THEN \A t \in Unstarted(k) : s <= t ELSE PrevDone(k, s)
                /\ Take(k, s, 1, First(k), "work") /\ Begun(k, s)
       \/ /\ ~WaveDone(k) /\ Groups(k, WaveChunk, WaveChunk) = {}
          /\ k = 0 => Unstarted(k) = {}
          /\ \/ /\ Groups(k, WaveChunk, 2) # {}
                /\ Continue(k, find_layer_group(k, WaveChunk, 2))
             \/ /\ Groups(k, WaveChunk, 2) = {} /\ Groups(k, 1, 1) # {}
                /\ Continue(k, find_layer_group(k, 1, 1))
             \/ /\ Groups(k, 1, 1) = {} /\ Unstarted(k) # {}
                /\ Take(k, Min(Unstarted(k)), 1, First(k), "wait") /\ Begun(k, Min(Unstarted(k)))
    /\ UNCHANGED <<mode, batch, caller, passes, faults>>

-----------------------------------------------------------------------------
Span(k) == slot[k]..(slot[k] + chunk[k] - 1)
LayersOf(k) == IF mode = "wavefront" THEN {layer[k]} ELSE First(k)..Final(k)
Ran(k) == [l \in Layers |-> [s \in Slots |->
              IF l \in LayersOf(k) /\ s \in Span(k) THEN passes[l][s] + 1 ELSE passes[l][s]]]

Work_completes_first(k) ==
    /\ pc[k] = "work"
    /\ passes' = Ran(k)
    /\ rel' = [rel EXCEPT ![k] = 0]
    /\ IF mode = "wavefront"
       THEN /\ next_layer' = [next_layer EXCEPT ![k] =
                  [s \in Slots |-> IF s \in Span(k) THEN layer[k] + 1 ELSE @[s]]]
            /\ complete' = [complete EXCEPT ![k] = IF layer[k] = Final(k) THEN @ \cup {slot[k]} ELSE @]
            /\ pc' = Moved(k, IF layer[k] = Final(k) THEN "mark" ELSE "pick")
       ELSE /\ UNCHANGED <<next_layer, complete>>
            /\ \E p \in IF failed THEN {"mark", "gone"} ELSE {"mark"} : pc' = Moved(k, p)
    /\ UNCHANGED <<mode, batch, slot, chunk, layer, started, caller, faults>>

\* The layers of the span are run; a wavefront slot moves to its next layer
\* and is marked when that was the last one of the stage.  With events a stage
\* that finds another one has failed leaves its span unmarked.
Work(k) ==
    /\ pc[k] = "work"
    /\ passes' = Ran(k)
    /\ rel' = [rel EXCEPT ![k] = 0]
    /\ IF mode = "wavefront"
       THEN /\ next_layer' = [next_layer EXCEPT ![k] =
                  [s \in Slots |-> IF s \in Span(k) THEN layer[k] + 1 ELSE @[s]]]
            /\ complete' = [complete EXCEPT ![k] = IF layer[k] = Final(k) THEN @ \cup Span(k) ELSE @]
            /\ pc' = Moved(k, IF layer[k] = Final(k) THEN "mark" ELSE "pick")
       ELSE /\ UNCHANGED <<next_layer, complete>>
            /\ \E p \in IF failed THEN {"mark", "gone"} ELSE {"mark"} : pc' = Moved(k, p)
    /\ UNCHANGED <<mode, batch, slot, chunk, layer, started, caller, faults>>

\* A handoff, a layer, an event or a synchronisation fails.
WorkFails(k) ==
    /\ pc[k] = "work" /\ faults < MaxFaults
    /\ passes' \in {passes, Ran(k)}
    /\ faults' = faults + 1
    /\ pc' = Moved(k, "fail")
    /\ UNCHANGED <<mode, batch, span, wave, caller>>

\* The slots of the span are marked one critical section at a time.
mark_done(k) ==
    /\ pc[k] = "mark"
    /\ done' = done \cup {<<k, slot[k] + rel[k]>>}
    /\ rel' = [rel EXCEPT ![k] = @ + 1]
    /\ IF rel[k] + 1 < chunk[k]
       THEN pc' = Broadcast(k, "mark") /\ UNCHANGED slot
       ELSE /\ pc' = Broadcast(k, "pick")
            /\ slot' = IF mode = "wavefront" THEN slot ELSE [slot EXCEPT ![k] = @ + chunk[k]]
    /\ UNCHANGED <<mode, n_slots, failed, chunk, layer, wave, caller, passes, faults>>

fail_unsignalled(k) ==
    /\ pc[k] = "fail"
    /\ failed' = TRUE
    /\ pc' = Moved(k, "gone")
    /\ UNCHANGED <<mode, n_slots, done, span, wave, caller, passes, faults>>

fail(k) ==
    /\ pc[k] = "fail"
    /\ failed' = TRUE
    /\ pc' = Broadcast(k, "gone")
    /\ UNCHANGED <<mode, n_slots, done, span, wave, caller, passes, faults>>

worker_main(k) ==
    \/ PickSpan(k) \/ wait_prev(k) \/ collect_ready_chunk(k) \/ PickWave(k)
    \/ Work(k) \/ WorkFails(k) \/ mark_done(k) \/ fail(k)

-----------------------------------------------------------------------------
\* replay_feed_token_batch_async_per_step: a fresh batch of two slots or more.
feed_token_batch(n) ==
    /\ host = "idle"
    /\ n_slots' = n /\ failed' = FALSE /\ done' = {}
    /\ slot' = PerStage(0) /\ chunk' = PerStage(0) /\ rel' = PerStage(0) /\ layer' = PerStage(0)
    /\ started' = PerStage({}) /\ complete' = PerStage({})
    /\ next_layer' = PerStage([s \in Slots |-> 0])
    /\ host' = "create" /\ created' = 0 /\ result' = "none"
    /\ passes' = Untouched /\ faults' = 0
    /\ UNCHANGED <<mode, pc>>

CreateThread ==
    /\ host = "create"
    /\ pc' = Moved(created, "pick")
    /\ created' = created + 1
    /\ host' = IF created + 1 = NStages THEN "join" ELSE "create"
    /\ UNCHANGED <<mode, batch, span, wave, result, passes, faults>>

CreateFails ==
    /\ host = "create" /\ faults < MaxFaults
    /\ failed' = TRUE
    /\ pc' = [j \in Stages |-> IF pc[j] = "asleep" THEN "wait" ELSE pc[j]]
    /\ faults' = faults + 1
    /\ host' = "join"
    /\ UNCHANGED <<mode, n_slots, done, span, wave, created, result, passes>>

Joined == {k \in Stages : k < created}

\* The threads that were created are joined; the devices are synchronised.
JoinThreads ==
    /\ host = "join" /\ \A k \in Joined : pc[k] = "gone"
    /\ pc' = PerStage("none")
    /\ host' = "idle"
    /\ \/ result' = (IF failed THEN "failed" ELSE "ok") /\ UNCHANGED faults
       \/ ~failed /\ faults < MaxFaults /\ result' = "failed" /\ faults' = faults + 1
    /\ UNCHANGED <<mode, batch, span, wave, created, passes>>

\* A wait may return without a signal.
SpuriousWakeup ==
    \E k \in Stages :
       /\ pc[k] = "asleep"
       /\ pc' = Moved(k, "wait")
       /\ UNCHANGED <<mode, batch, span, wave, caller, passes, faults>>

Next ==
    \/ \E n \in 2..MaxSlots : feed_token_batch(n)
    \/ CreateThread \/ CreateFails \/ JoinThreads
    \/ \E k \in Stages : worker_main(k)
    \/ SpuriousWakeup

Fairness ==
    /\ WF_vars(CreateThread \/ CreateFails \/ JoinThreads)
    /\ \A k \in Stages : WF_vars(worker_main(k))

Spec == Init /\ [][Next]_vars
FairSpec == Spec /\ Fairness

-----------------------------------------------------------------------------
TypeOK ==
    /\ mode \in Modes
    /\ n_slots \in 0..MaxSlots /\ failed \in BOOLEAN /\ done \subseteq Stages \X Slots
    /\ pc \in [Stages -> {"none", "pick", "wait", "asleep", "collect", "work", "mark", "fail", "gone"}]
    /\ slot \in [Stages -> 0..MaxSlots] /\ chunk \in [Stages -> 0..MaxSlots]
    /\ rel \in [Stages -> 0..MaxSlots] /\ layer \in [Stages -> Layers]
    /\ started \in [Stages -> SUBSET Slots] /\ complete \in [Stages -> SUBSET Slots]
    /\ next_layer \in [Stages -> [Slots -> 0..NLayers]]
    /\ host \in {"idle", "create", "join"} /\ created \in 0..NStages
    /\ result \in {"none", "ok", "failed"}
    /\ passes \in [Layers -> [Slots -> Nat]]
    /\ faults \in 0..MaxFaults

InFeed == host \in {"create", "join"}

\* However a stage groups its slots, every slot goes through every layer once
\* and in order, and the call returns success only when all have.
Pass == INSTANCE StagePass WITH open <- InFeed
FeedKeepsPromise == Pass!Spec

\* The wavefront is never left without something to do: the branch that
\* reports "layer-wavefront made no progress" is not reached.
WavefrontMakesProgress ==
    /\ TypeOK
    /\ \A k \in Stages :
          (mode = "wavefront" /\ pc[k] = "pick" /\ ~WaveDone(k)) =>
              Groups(k, 1, 1) # {} \/ Unstarted(k) # {}

\* Every call returns, also when a thread cannot be created or a stage fails
\* while others wait for its slots.
EveryFeedReturns == InFeed ~> ~InFeed
=============================================================================

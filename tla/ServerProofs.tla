---------------------------- MODULE ServerProofs -----------------------------
(***************************************************************************)
(* What is proved of ds4-server: first its threads, for any finite set of  *)
(* connections (jobs on the stacks of client threads are never used after  *)
(* they are gone, and main frees the server only when no thread is left);  *)
(* then the worker's one live session, for any clients, messages, context, *)
(* cache options and number of jobs and faults (every answer is decoded    *)
(* from the asking client's conversation, checkpoints and bindings say     *)
(* what they stand for, and a switch keeps the work it replaces).          *)
(***************************************************************************)
EXTENDS ServerQueue, LiveSession, SequenceTheorems, FiniteSetTheorems, WellFoundedInduction, TLAPS

-----------------------------------------------------------------------------
(***************************************************************************)
(* The inductive invariant.  A job that is queued or held belongs to a     *)
(* thread that has not seen `done' yet, and a thread that has not enqueued *)
(* its job is not done: so a thread leaves its wait only after the worker  *)
(* has let go.  s->clients counts the live threads, and from the moment    *)
(* main has counted a connection also the one it is about to create.       *)
(***************************************************************************)
JobsHeld ==
    /\ \A c \in Queued \cup current :
          thread[c] \in {"check", "asleep", "awake"} /\ ~ done[c]
    /\ \A c \in Connections : thread[c] \in {"none", "parse", "submit"} => ~ done[c]
    /\ \A i, j \in 1 .. Len(jobQueue) : jobQueue[i] = jobQueue[j] => i = j
    /\ Queued \cap current = {}

ThreadsCounted ==
    /\ main # "killed" => clients = Cardinality(Live) + (IF main = "spawn" THEN 1 ELSE 0)
    /\ main \in {"accepted", "spawn"} =>
          \E c \in Connections : accepted = {c} /\ thread[c] = "none"
    /\ main \in {"await", "asleep", "persist", "exited"} => worker = "gone"
    /\ main \in {"listen", "failed", "persist", "exited"} => Live = {}

ServerInv == ServerTypeOK /\ JobsHeld /\ ThreadsCounted

\* The live threads are finitely many, so that counting them makes sense.
LEMMA LiveFinite == IsFiniteSet(Live) /\ Cardinality(Live) \in Nat
<1>1. Live \in SUBSET Connections
  BY DEF Live
<1> QED
  BY <1>1, ConnectionsAssumption, FS_Subset, FS_CardinalityType

\* What the queue holds after dequeue took its head.
LEMMA TailQueue ==
    ASSUME jobQueue \in Seq(Connections), jobQueue # <<>>,
           \A i, j \in 1 .. Len(jobQueue) : jobQueue[i] = jobQueue[j] => i = j
    PROVE  /\ Head(jobQueue) \in Connections /\ Tail(jobQueue) \in Seq(Connections)
           /\ Head(jobQueue) \in Queued
           /\ \A i \in 1 .. Len(Tail(jobQueue)) : Tail(jobQueue)[i] \in Queued \ {Head(jobQueue)}
           /\ \A i, j \in 1 .. Len(Tail(jobQueue)) : Tail(jobQueue)[i] = Tail(jobQueue)[j] => i = j
<1>1. /\ Head(jobQueue) \in Connections /\ Tail(jobQueue) \in Seq(Connections)
      /\ Len(Tail(jobQueue)) = Len(jobQueue) - 1
      /\ \A i \in 1 .. Len(Tail(jobQueue)) : Tail(jobQueue)[i] = jobQueue[i + 1]
  BY HeadTailProperties
<1>2. Len(jobQueue) \in Nat /\ Len(jobQueue) # 0 /\ Head(jobQueue) = jobQueue[1]
  BY EmptySeq
<1>3. \A i \in 1 .. Len(Tail(jobQueue)) : i + 1 \in 1 .. Len(jobQueue) /\ i + 1 # 1
  BY <1>1, <1>2
<1>4. 1 \in 1 .. Len(jobQueue)
  BY <1>2
<1>5. ASSUME NEW i \in 1 .. Len(Tail(jobQueue))
      PROVE  Tail(jobQueue)[i] \in Queued \ {Head(jobQueue)}
  BY <1>1, <1>2, <1>3, <1>4 DEF Queued
<1>6. ASSUME NEW i \in 1 .. Len(Tail(jobQueue)), NEW j \in 1 .. Len(Tail(jobQueue)),
             Tail(jobQueue)[i] = Tail(jobQueue)[j]
      PROVE  i = j
  <2>1. jobQueue[i + 1] = jobQueue[j + 1]
    BY <1>1, <1>6
  <2>2. i + 1 = j + 1
    BY <2>1, <1>3
  <2> QED
    BY <2>2, <1>1
<1> QED
  BY <1>1, <1>2, <1>4, <1>5, <1>6 DEF Queued

\* The server starts with nothing queued and nobody to wait for.
LEMMA ServerInitHolds == ServerInit => ServerInv
<1> SUFFICES ASSUME ServerInit PROVE ServerInv
  OBVIOUS
<1>1. jobQueue \in Seq(Connections) /\ Len(jobQueue) = 0
  BY EmptySeq DEF ServerInit
<1>2. ServerTypeOK
  BY <1>1 DEF ServerInit, ServerTypeOK, MainStates, WorkerStates, ThreadStates, Replies
<1>3. Queued = {} /\ Live = {}
  BY <1>1 DEF ServerInit, Queued, Live
<1>4. JobsHeld
  BY <1>1, <1>3 DEF ServerInit, JobsHeld
<1>5. ThreadsCounted
  BY <1>3, FS_EmptySet DEF ServerInit, ThreadsCounted
<1> QED
  BY <1>2, <1>4, <1>5 DEF ServerInv

\* A step of the threads keeps every variable's type; s->clients is positive
\* when main takes back the count of a thread it could not create.
LEMMA TypeStep == ServerInv /\ ServerNext => ServerTypeOK'
<1> SUFFICES ASSUME ServerInv, ServerNext PROVE ServerTypeOK'
  OBVIOUS
<1> USE DEF signalVars, mainVars, workerVars, clientVars
<1>0. ServerTypeOK
  BY DEF ServerInv
<1>1. CASE Environment
  <2>1. CASE stop_signal_handler
    BY <1>0, <2>1 DEF ServerTypeOK, stop_signal_handler
  <2>2. CASE SecondSignal
    <3>1. thread' \in [Connections -> ThreadStates]
      BY <1>0, <2>2 DEF ServerTypeOK, SecondSignal, ThreadStates
    <3> QED
      BY <1>0, <2>2, <3>1, EmptySeq DEF ServerTypeOK, SecondSignal, MainStates, WorkerStates
  <2>3. CASE SpuriousWakeup
    BY <1>0, <2>3 DEF ServerTypeOK, SpuriousWakeup, WakeWorker, WakeMain, MainStates, WorkerStates,
       ThreadStates
  <2>4. ASSUME NEW c \in Connections, Accept(c) PROVE ServerTypeOK'
    BY <1>0, <2>4 DEF ServerTypeOK, Accept, MainStates
  <2> QED
    BY <1>1, <2>1, <2>2, <2>3, <2>4 DEF Environment
<1>2. CASE MainThread
  <2>1. CASE SpawnFails
    <3>1. clients - 1 \in Nat
      BY <2>1, LiveFinite DEF ServerInv, ThreadsCounted, SpawnFails
    <3> QED
      BY <1>0, <2>1, <3>1 DEF ServerTypeOK, SpawnFails, MainStates, Replies
  <2>2. CASE CountClient
    BY <1>0, <2>2 DEF ServerTypeOK, CountClient, MainStates, Replies
  <2>3. CASE Spawn
    BY <1>0, <2>3 DEF ServerTypeOK, Spawn, MainStates, ThreadStates
  <2>4. CASE Drain \/ ListenFails
    BY <1>0, <2>4 DEF ServerTypeOK, Drain, ListenFails, WakeWorker, MainStates, WorkerStates
  <2>5. CASE listen_on \/ LoopHead \/ AcceptFails \/ JoinWorker \/ AwaitClients \/ CloseResources
    BY <1>0, <2>5 DEF ServerTypeOK, listen_on, LoopHead, AcceptFails, JoinWorker, AwaitClients,
       CloseResources, MainStates
  <2> QED
    BY <1>2, <2>1, <2>2, <2>3, <2>4, <2>5 DEF MainThread
<1>3. CASE worker_main
  <2>1. CASE dequeue
    BY <1>0, <2>1, TailQueue, SMTT(30) DEF ServerInv, JobsHeld, ServerTypeOK, dequeue, WorkerStates
  <2>2. CASE generate_job
    BY <1>0, <2>2 DEF ServerTypeOK, generate_job, send_all, WorkerStates, Replies
  <2>3. CASE FinishJob
    BY <1>0, <2>3 DEF ServerTypeOK, FinishJob, WorkerStates, ThreadStates
  <2> QED
    BY <1>3, <2>1, <2>2, <2>3 DEF worker_main
<1>4. ASSUME NEW c \in Connections, client_main(c) PROVE ServerTypeOK'
  <2>1. CASE enqueue(c)
    <3>1. Append(jobQueue, c) \in Seq(Connections)
      BY <1>0, AppendProperties DEF ServerTypeOK
    <3>2. jobQueue' \in Seq(Connections) /\ worker' \in WorkerStates
      BY <1>0, <2>1, <3>1 DEF ServerTypeOK, enqueue, WakeWorker, WorkerStates
    <3>3. thread' \in [Connections -> ThreadStates] /\ reply' \in [Connections -> Replies]
      BY <1>0, <2>1 DEF ServerTypeOK, enqueue, send_all, ThreadStates, Replies
    <3> QED
      BY <1>0, <2>1, <3>2, <3>3 DEF ServerTypeOK, enqueue
  <2>2. CASE client_done(c)
    BY <1>0, <2>2 DEF ServerTypeOK, client_done, WakeMain, MainStates, ThreadStates
  <2>3. CASE AnswerDirectly(c) \/ PrepareJob(c) \/ AwaitJob(c)
    BY <1>0, <2>3 DEF ServerTypeOK, AnswerDirectly, PrepareJob, AwaitJob, send_all, ThreadStates, Replies
  <2> QED
    BY <1>4, <2>1, <2>2, <2>3 DEF client_main
<1> QED
  BY <1>1, <1>2, <1>3, <1>4 DEF ServerNext

\* JobsHeld is kept: a job enters the queue while its thread waits with `done'
\* unset, and leaves queue and worker before the thread can see it set.
LEMMA JobsStep == ServerInv /\ ServerNext => JobsHeld'
<1> SUFFICES ASSUME ServerInv, ServerNext PROVE JobsHeld'
  OBVIOUS
<1> USE DEF signalVars, mainVars, workerVars, clientVars
<1>0. ServerTypeOK /\ JobsHeld
  BY DEF ServerInv
<1>1. CASE Environment
  <2>1. CASE SecondSignal
    <3>1. Len(jobQueue') = 0
      BY <2>1, EmptySeq DEF SecondSignal
    <3>2. Queued' = {}
      BY <3>1 DEF Queued
    <3> QED
      BY <1>0, <2>1, <3>1, <3>2 DEF ServerTypeOK, JobsHeld, SecondSignal
  <2>2. CASE stop_signal_handler \/ \E c \in Connections : Accept(c)
    BY <1>0, <2>2 DEF JobsHeld, Queued, stop_signal_handler, Accept
  <2>3. CASE SpuriousWakeup
    BY <1>0, <2>3 DEF ServerTypeOK, JobsHeld, Queued, SpuriousWakeup
  <2> QED
    BY <1>1, <2>1, <2>2, <2>3 DEF Environment
<1>2. CASE MainThread
  <2>1. CASE Spawn
    <3>1. PICK c \in Connections : accepted = {c} /\ thread[c] = "none"
      BY <2>1 DEF ServerInv, ThreadsCounted, Spawn
    <3> QED
      BY <1>0, <2>1, <3>1 DEF ServerTypeOK, JobsHeld, Queued, Spawn
  <2>2. CASE ~ Spawn
    <3>1. UNCHANGED <<jobQueue, current, thread, done>>
      BY <1>2, <2>2 DEF MainThread, listen_on, ListenFails, LoopHead, AcceptFails, CountClient,
         SpawnFails, Drain, JoinWorker, AwaitClients, CloseResources
    <3> QED
      BY <1>0, <3>1 DEF JobsHeld, Queued
  <2> QED
    BY <2>1, <2>2
<1>3. CASE worker_main
  <2>1. CASE dequeue /\ jobQueue # <<>>
    <3>1. /\ current' = {Head(jobQueue)} /\ jobQueue' = Tail(jobQueue)
          /\ UNCHANGED <<thread, done>>
      BY <2>1 DEF dequeue
    <3>2. /\ Head(jobQueue) \in Queued
          /\ \A i \in 1 .. Len(Tail(jobQueue)) : Tail(jobQueue)[i] \in Queued \ {Head(jobQueue)}
          /\ \A i, j \in 1 .. Len(Tail(jobQueue)) : Tail(jobQueue)[i] = Tail(jobQueue)[j] => i = j
      BY <1>0, <2>1, TailQueue DEF ServerTypeOK, JobsHeld
    <3>3. Queued' \subseteq Queued \ {Head(jobQueue)}
      BY <3>1, <3>2 DEF Queued
    <3> QED
      BY <1>0, <3>1, <3>2, <3>3 DEF JobsHeld
  <2>2. CASE (dequeue /\ jobQueue = <<>>) \/ generate_job
    BY <1>0, <2>2 DEF JobsHeld, Queued, dequeue, generate_job
  <2>3. CASE FinishJob
    BY <1>0, <2>3 DEF ServerTypeOK, JobsHeld, Queued, FinishJob
  <2> QED
    BY <1>3, <2>1, <2>2, <2>3 DEF worker_main
<1>4. ASSUME NEW c \in Connections, client_main(c) PROVE JobsHeld'
  <2>1. CASE enqueue(c) /\ ~ stopping
    <3>1. /\ jobQueue' = Append(jobQueue, c) /\ thread' = [thread EXCEPT ![c] = "check"]
          /\ UNCHANGED <<current, done>> /\ thread[c] = "submit"
      BY <2>1 DEF enqueue
    <3>2. c \notin Queued \cup current /\ ~ done[c]
      BY <1>0, <3>1 DEF JobsHeld
    <3>3. /\ Len(jobQueue) \in Nat /\ Len(jobQueue') = Len(jobQueue) + 1
          /\ \A i \in 1 .. Len(jobQueue) : jobQueue'[i] = jobQueue[i]
          /\ jobQueue'[Len(jobQueue) + 1] = c
      BY <1>0, <3>1, AppendProperties DEF ServerTypeOK
    <3>4. Queued' = Queued \cup {c}
      BY <3>3 DEF Queued
    <3>5. ASSUME NEW i \in 1 .. Len(jobQueue'), NEW j \in 1 .. Len(jobQueue'), jobQueue'[i] = jobQueue'[j]
          PROVE  i = j
      <4>1. CASE i \in 1 .. Len(jobQueue) /\ j \in 1 .. Len(jobQueue)
        BY <1>0, <3>3, <3>5, <4>1 DEF JobsHeld
      <4>2. CASE i = Len(jobQueue) + 1 \/ j = Len(jobQueue) + 1
        BY <3>2, <3>3, <3>5, <4>2 DEF Queued
      <4> QED
        BY <3>3, <4>1, <4>2
    <3> QED
      BY <1>0, <3>1, <3>2, <3>4, <3>5 DEF ServerTypeOK, JobsHeld
  <2>2. CASE (enqueue(c) /\ stopping) \/ AnswerDirectly(c) \/ PrepareJob(c) \/ AwaitJob(c) \/ client_done(c)
    BY <1>0, <2>2 DEF ServerTypeOK, JobsHeld, Queued, enqueue, AnswerDirectly, PrepareJob, AwaitJob, client_done
  <2> QED
    BY <1>4, <2>1, <2>2 DEF client_main
<1> QED
  BY <1>1, <1>2, <1>3, <1>4 DEF ServerNext

\* ThreadsCounted is kept: main counts a connection before its thread exists
\* and a thread gives its count back as its last step.
LEMMA ThreadsStep == ServerInv /\ ServerNext => ThreadsCounted'
<1> SUFFICES ASSUME ServerInv, ServerNext PROVE ThreadsCounted'
  OBVIOUS
<1> USE DEF signalVars, mainVars, workerVars, clientVars
<1>0. ServerTypeOK /\ ThreadsCounted
  BY DEF ServerInv
<1>1. CASE Environment
  <2>1. CASE SecondSignal
    BY <2>1 DEF SecondSignal, ThreadsCounted
  <2>2. CASE stop_signal_handler
    BY <1>0, <2>2 DEF stop_signal_handler, ThreadsCounted, Live
  <2>3. ASSUME NEW c \in Connections, Accept(c) PROVE ThreadsCounted'
    <3>1. Live' = Live
      BY <2>3 DEF Accept, Live
    <3> QED
      BY <1>0, <2>3, <3>1 DEF Accept, ThreadsCounted
  <2>4. CASE SpuriousWakeup
    <3>1. Live' = Live
      BY <1>0, <2>4 DEF ServerTypeOK, SpuriousWakeup, Live
    <3>2. (main' = main \/ (main = "asleep" /\ main' = "await")) /\ UNCHANGED <<clients, accepted>>
      BY <2>4 DEF SpuriousWakeup, WakeMain
    <3>3. worker = "gone" => worker' = "gone"
      BY <2>4 DEF SpuriousWakeup, WakeWorker
    <3>4. \A c \in Connections : thread[c] = "none" => thread'[c] = "none"
      BY <1>0, <2>4 DEF ServerTypeOK, SpuriousWakeup
    <3> QED
      BY <1>0, <3>1, <3>2, <3>3, <3>4 DEF ThreadsCounted
  <2> QED
    BY <1>1, <2>1, <2>2, <2>3, <2>4 DEF Environment
<1>2. CASE MainThread
  <2>1. CASE Spawn
    <3>1. PICK c \in Connections : accepted = {c} /\ thread[c] = "none"
      BY <1>0, <2>1 DEF ThreadsCounted, Spawn
    <3>2. Live' = Live \cup {c} /\ c \notin Live
      BY <1>0, <2>1, <3>1 DEF ServerTypeOK, Spawn, Live
    <3>3. Cardinality(Live') = Cardinality(Live) + 1
      BY <3>2, LiveFinite, FS_AddElement
    <3> QED
      BY <1>0, <2>1, <3>3, LiveFinite DEF ThreadsCounted, Spawn
  <2>2. CASE ~ Spawn
    <3>1. Live' = Live
      BY <1>2, <2>2 DEF MainThread, listen_on, ListenFails, LoopHead, AcceptFails, CountClient,
         SpawnFails, Drain, JoinWorker, AwaitClients, CloseResources, Live
    <3>2. CASE CountClient
      BY <1>0, <3>1, <3>2, LiveFinite DEF ThreadsCounted, CountClient
    <3>3. CASE SpawnFails
      BY <1>0, <3>1, <3>3, LiveFinite DEF ThreadsCounted, SpawnFails
    <3>4. CASE AwaitClients
      <4>1. clients = 0 => Live = {}
        BY <1>0, <3>4, LiveFinite, FS_EmptySet DEF ThreadsCounted, AwaitClients
      <4> QED
        BY <1>0, <3>1, <3>4, <4>1 DEF ServerTypeOK, ThreadsCounted, AwaitClients
    <3>5. CASE listen_on \/ LoopHead \/ AcceptFails \/ JoinWorker \/ CloseResources
      BY <1>0, <3>1, <3>5 DEF ThreadsCounted, listen_on, LoopHead, AcceptFails, JoinWorker, CloseResources
    <3>6. CASE ListenFails \/ Drain
      BY <1>0, <3>1, <3>6 DEF ThreadsCounted, ListenFails, Drain, WakeWorker
    <3> QED
      BY <1>2, <2>2, <3>2, <3>3, <3>4, <3>5, <3>6 DEF MainThread
  <2> QED
    BY <2>1, <2>2
<1>3. CASE worker_main
  <2>1. Live' = Live /\ \A c \in Connections : thread[c] = "none" => thread'[c] = "none"
    BY <1>0, <1>3 DEF ServerTypeOK, worker_main, dequeue, generate_job, FinishJob, Live
  <2>2. UNCHANGED <<main, clients, accepted>> /\ worker # "gone"
    BY <1>3 DEF worker_main, dequeue, generate_job, FinishJob
  <2> QED
    BY <1>0, <2>1, <2>2 DEF ThreadsCounted
<1>4. ASSUME NEW c \in Connections, client_main(c) PROVE ThreadsCounted'
  <2>1. c \in Live /\ \A d \in Connections : thread[d] = "none" => thread'[d] = "none"
    BY <1>0, <1>4 DEF ServerTypeOK, client_main, AnswerDirectly, PrepareJob, enqueue, AwaitJob, client_done, Live
  <2>2. worker = "gone" => worker' = "gone"
    BY <1>4 DEF client_main, AnswerDirectly, PrepareJob, enqueue, AwaitJob, client_done, WakeWorker
  <2>3. CASE client_done(c)
    <3>1. Live' = Live \ {c}
      BY <1>0, <2>3 DEF ServerTypeOK, client_done, Live
    <3>2. Cardinality(Live') = Cardinality(Live) - 1 /\ Cardinality(Live) - 1 \in Nat
      <4>1. IsFiniteSet(Live') /\ Cardinality(Live') = Cardinality(Live) - 1
        BY <2>1, <3>1, LiveFinite, FS_RemoveElement
      <4> QED
        BY <4>1, FS_CardinalityType
    <3>3. (main' = main \/ (main = "asleep" /\ main' = "await")) /\ UNCHANGED accepted
      BY <2>3 DEF client_done, WakeMain
    <3>4. main # "killed" => clients' = clients - 1
      BY <1>0, <2>3, <3>2, LiveFinite DEF ThreadsCounted, client_done
    <3> QED
      BY <1>0, <2>1, <2>2, <3>1, <3>2, <3>3, <3>4, LiveFinite DEF ThreadsCounted
  <2>4. CASE ~ client_done(c)
    <3>1. Live' = Live
      BY <1>0, <1>4, <2>4 DEF ServerTypeOK, client_main, AnswerDirectly, PrepareJob, enqueue, AwaitJob, Live
    <3>2. UNCHANGED <<main, clients, accepted>>
      BY <1>4, <2>4 DEF client_main, AnswerDirectly, PrepareJob, enqueue, AwaitJob
    <3> QED
      BY <1>0, <2>1, <2>2, <3>1, <3>2 DEF ThreadsCounted
  <2> QED
    BY <2>3, <2>4
<1> QED
  BY <1>1, <1>2, <1>3, <1>4 DEF ServerNext

\* The invariant holds in every reachable state.
LEMMA ServerInvariance == ServerSpec => []ServerInv
<1>1. ServerInv /\ [ServerNext]_serverVars => ServerInv'
  <2>1. CASE ServerNext
    BY <2>1, TypeStep, JobsStep, ThreadsStep DEF ServerInv
  <2>2. CASE UNCHANGED serverVars
    BY <2>2 DEF ServerInv, serverVars, ServerTypeOK, JobsHeld, ThreadsCounted, Queued, Live
  <2> QED
    BY <2>1, <2>2
<1> QED
  BY <1>1, ServerInitHolds, PTL DEF ServerSpec

\* Whatever the queue or the worker refers to is on the stack of a thread that
\* still waits for it, once, and not done: for any number of connections and
\* any interleaving of enqueue, dequeue, wakeups and shutdown.
THEOREM JobsStayOnLiveStacks == ServerSpec => []JobsOutliveTheirUse
<1>1. ServerInv => JobsOutliveTheirUse
  <2> SUFFICES ASSUME ServerInv PROVE JobsOutliveTheirUse
    OBVIOUS
  <2>1. Queued \cup current \subseteq Connections
    BY DEF ServerInv, ServerTypeOK, Queued
  <2> QED
    BY <2>1 DEF ServerInv, JobsHeld, JobsOutliveTheirUse, OwnsJob
<1> QED
  BY <1>1, ServerInvariance, PTL

\* server_close_resources runs only when the worker and every client thread
\* have ended, on both ways out of main.
THEOREM NothingFreedEarly == ServerSpec => []ResourcesOutliveThreads
<1>1. ServerInv => ResourcesOutliveThreads
  BY DEF ServerInv, ThreadsCounted, ResourcesOutliveThreads
<1> QED
  BY <1>1, ServerInvariance, PTL

-----------------------------------------------------------------------------
(***************************************************************************)
(* What the live session is for: the conversations told so far.            *)
(***************************************************************************)
Says(tokens) == Meaning(render_tokens_text(tokens))

\* The messages and answers of a list of turns.
Said(turns) == FlattenSeq([i \in DOMAIN turns |-> <<turns[i].ask, turns[i].ans>>])

\* A whole conversation has a user's message where its first turn begins.
Opening == Len(System) + 1
Begins(text) == Len(text) >= Opening => text[Opening] \in Msgs
Begun(text) == Len(text) >= Opening /\ text[Opening] \in Msgs

\* A text that names the tokens without being their text: the whole of them,
\* or no more than the end of them.
Names(text, tokens) ==
    /\ Len(tokens) >= Opening
    /\ Len(text) >= Opening + 2
    /\ \/ text[Opening] \in Msgs /\ Meaning(text) = Says(tokens)
       \/ text[Opening] = "result" /\ IsSuffix(Meaning(text), Says(tokens))

Describes(text, tokens) == text = render_tokens_text(tokens) \/ Names(text, tokens)

(***************************************************************************)
(* The requests: what each carries, and that the id of a request that is   *)
(* not answered yet occurs in no history.                                  *)
(***************************************************************************)
Requests == [c : Clients, text : Seq(TextSymbols), ids : SUBSET Nat,
             requires_live : BOOLEAN, id : Nat, turns : Seq(Turns),
             ask : Msgs \cup {"result"}, whole : Seq(TextSymbols)]

History(c, turns) ==
    /\ turns # <<>> => turns[1].ask \in Msgs
    /\ \A k \in DOMAIN turns : turns[k].ans = "call" => Profile[c].tools

WellAsked(r) ==
    /\ History(r.c, r.turns)
    /\ r.turns = <<>> => r.ask \in Msgs
    /\ Meaning(r.whole) = Append(Said(r.turns), r.ask)
    /\ Begun(r.whole)
    /\ r.text = IF r.requires_live THEN System \o <<"result">> \o Prefix(r.c) ELSE r.whole
    /\ Profile[r.c].think => Last(r.text) = "think"
    /\ r.requires_live => Profile[r.c].tools /\ r.ids # {}
    /\ r.ids # {} => /\ r.turns # <<>>
                     /\ r.ids = {Last(r.turns).id}
                     /\ r.ask = "result"
    /\ Len(r.text) < Ctx

Jobs == [c : Clients, r : Requests,
         source : {"none", "disk-text", "responses-visible", "responses-tool-output",
                   "anthropic-tool-output", "memory-token", "thinking-visible", "memory-text"},
         prompt : Seq(Tokens), cached : Nat, cold : Nat, suppressed : {0, -1},
         goal : Nat, chunked : BOOLEAN, out : Seq(Tokens), turns : Seq(Turns)]

(***************************************************************************)
(* The types of the variables, part by part.                               *)
(***************************************************************************)
Sessions == [tokens : Seq(Tokens), valid : BOOLEAN]
SessionType(s) == s \in Sessions /\ Len(s.tokens) <= Ctx

\* The disk: finitely many entries, none longer than the context.
Entries == [text : Seq(TextSymbols), tokens : Seq(Tokens)]
DiskType(D) == /\ IsFiniteSet(D)
               /\ Cardinality(D) <= DiskSlots
               /\ \A e \in D : e \in Entries /\ Len(e.tokens) <= Ctx

\* The other variables.
BindingsType == resp \in BindingType /\ anth \in BindingType /\ thnk \in BindingType

ClientsType == /\ client \in [Clients -> [turns : Seq(Turns), busy : BOOLEAN]]
               /\ queue \in Seq(Requests)

\* A request is being worked on.
Active == phase # "idle"
WorkerType == /\ phase \in Phases
              /\ ~ Active => job = NoJob
              /\ Active => job \in Jobs

CountersType == /\ last \in 0..Ctx
                /\ jobs \in 0..MaxJobs
                /\ faults \in 0..MaxFaults
                /\ strayed \in BOOLEAN

Types ==
    /\ SessionType(session)
    /\ BindingsType
    /\ DiskType(disk)
    /\ ClientsType
    /\ WorkerType
    /\ CountersType

\* Every request and every history is one a client can have.
Asked ==
    /\ \A c \in Clients : History(c, client[c].turns)
    /\ \A i \in DOMAIN queue : WellAsked(queue[i])
    /\ Active => /\ WellAsked(job.r)
                 /\ job.c = job.r.c
                 /\ History(job.c, job.turns)

\* The ids of a history, and the histories clients, queue and job know.
Ids(turns) == {turns[k].id : k \in DOMAIN turns}

Past == {client[c].turns : c \in Clients} \cup {queue[i].turns : i \in DOMAIN queue}
            \cup (IF Active THEN {job.r.turns} ELSE {})
Histories == Past \cup (IF Active THEN {job.turns} ELSE {})

\* An id is handed out once: no history holds that of a request still open.
Fresh ==
    /\ \A i \in DOMAIN queue : queue[i].id \in 1..jobs
    /\ \A i, j \in DOMAIN queue : queue[i].id = queue[j].id => i = j
    /\ \A turns \in Past : \A k \in DOMAIN turns :
          /\ turns[k].id <= jobs
          /\ \A i \in DOMAIN queue : turns[k].id # queue[i].id
          /\ Active => turns[k].id # job.r.id
    /\ Active => /\ job.r.id \in 1..jobs
                 /\ \A i \in DOMAIN queue : queue[i].id # job.r.id
                 /\ \A id \in Ids(job.turns) : id \in Ids(job.r.turns) \cup {0, job.r.id}

(***************************************************************************)
(* Where the worker is going, and what the session says on the way.        *)
(***************************************************************************)
RespSources == {"responses-visible", "responses-tool-output"}

\* The goal of a job lies within its prompt, and what it was continued from and
\* the bindings it keeps lie strictly before the end of it.
Going ==
    /\ Active => /\ job.goal <= Len(job.prompt)
                 /\ job.goal < Len(job.prompt) => job.goal = job.cold
                 /\ job.cold <= Len(job.prompt)
    /\ phase = "rebuild" => job.goal = Len(job.prompt)
    /\ phase \in {"prefill", "decode"} => job.turns = <<>>
    /\ phase = "prefill" => job.out = <<>>
    /\ phase = "prefill" =>
          /\ job.source \in RespSources =>
                resp.live_tokens < Len(job.prompt) /\ Profile[job.c].api = "responses"
          /\ job.source = "anthropic-tool-output" =>
                anth.live_tokens < Len(job.prompt) /\ Profile[job.c].api = "anthropic"
          /\ job.source = "thinking-visible" => thnk.live_tokens < Len(job.prompt)
    /\ phase = "decode" =>
          /\ resp.valid => resp.live_tokens < ds4_session_pos /\ Profile[job.c].api = "responses"
          /\ anth.valid => anth.live_tokens < ds4_session_pos /\ Profile[job.c].api = "anthropic"
          /\ thnk.valid => thnk.live_tokens < ds4_session_pos
    /\ phase = "decode" /\ Answered =>
          \/ Last(job.out) \in {"say", "say2"}
          \/ Last(job.out) \in {"call", "call2"} /\ Profile[job.c].tools

\* What an answer has said so far.
Spoken(out) == IF out = <<>> \/ Last(out) = "reason" THEN <<>>
               ELSE IF Last(out) \in {"say", "say2"} THEN <<"say">> ELSE <<"call">>

\* The histories of H that hold the tool call of a binding are what the tokens say.
Called(H, b, tokens) ==
    /\ Len(tokens) >= Opening
    /\ \A turns \in H : \A k \in DOMAIN turns :
          turns[k].id \in b.ids => Said(SubSeq(turns, 1, k)) = Says(tokens)

\* What the bindings of the three protocols promise of the tokens they point to.
BoundBy(H, r, a, t, tokens) ==
    /\ r.valid /\ r.live_tokens = Len(tokens) => Names(r.visible, tokens) /\ Called(H, r, tokens)
    /\ a.valid /\ a.live_tokens = Len(tokens) => Called(H, a, tokens)
    /\ t.valid /\ t.live_tokens = Len(tokens) => Names(t.visible, tokens) /\ t.visible[Opening] \in Msgs

Bound == BoundBy(Histories, resp, anth, thnk, session.tokens)

\* Every checkpoint on disk is described by its key.
SoundDisk(D) == \A e \in D : Begins(e.tokens) /\ Describes(e.text, e.tokens)

\* What the session, the disk and the bindings say, phase by phase.
Sound ==
    /\ SoundDisk(disk)
    /\ Begins(session.tokens)
    /\ phase = "prefill" => Says(job.prompt) = Meaning(job.r.whole) /\ Begun(job.prompt)
    /\ phase = "decode" => /\ Says(session.tokens) = Meaning(job.r.whole) \o Spoken(job.out)
                           /\ Begun(session.tokens)
    /\ phase \in {"idle", "reply"} /\ ds4_session_pos > 0 => Bound
    /\ phase = "rebuild" => /\ Says(job.prompt) = Append(Meaning(job.r.whole), "call")
                            /\ Begun(job.prompt)
                            /\ ~resp.valid /\ ~thnk.valid
                            /\ anth.valid => Called(Histories, anth, job.prompt)

\* The inductive invariant; strayed: a failed prefill has left a binding in place.
SessionInv == Types /\ Asked /\ Fresh /\ Going /\ (~strayed => Sound)

-----------------------------------------------------------------------------
(***************************************************************************)
(* Induction, as the existence of a smallest counterexample.               *)
(***************************************************************************)
LEMMA LeastNumber ==
    ASSUME NEW S, S \subseteq Nat, S # {}
    PROVE  \E m \in S : \A n \in S : m <= n
<1>1. PICK m \in S : \A n \in S : ~ (<<n, m>> \in OpToRel(<, Nat))
  BY NatLessThanWellFounded, WFMin
<1>2. ASSUME NEW n \in S PROVE m <= n
  <2>1. ~ (<<n, m>> \in {ss \in Nat \X Nat : ss[1] < ss[2]})
    BY <1>1 DEF OpToRel
  <2>2. <<n, m>> \in Nat \X Nat /\ <<n, m>>[1] = n /\ <<n, m>>[2] = m
    OBVIOUS
  <2>3. ~ (n < m)
    BY <2>1, <2>2
  <2> QED
    BY <2>3
<1> QED
  BY <1>2

\* A set of sequences that holds the empty one, and s with e appended whenever
\* it holds s, holds them all.
LEMMA SequencesAll ==
    ASSUME NEW S, NEW A, <<>> \in A,
           \A s \in Seq(S), e \in S : s \in A => Append(s, e) \in A
    PROVE  Seq(S) \subseteq A
<1> DEFINE C == {n \in Nat : \E s \in Seq(S) : Len(s) = n /\ s \notin A}
<1> SUFFICES ASSUME NEW z \in Seq(S), z \notin A PROVE FALSE
  OBVIOUS
<1>1. Len(z) \in C
  BY LenProperties
<1>2. PICK n \in C : \A m \in C : n <= m
  <2>1. C \subseteq Nat /\ C # {}
    BY <1>1
  <2> HIDE DEF C
  <2> QED
    BY <2>1, LeastNumber
<1>3. PICK s \in Seq(S) : Len(s) = n /\ s \notin A
  BY <1>2
<1>4. s # <<>>
  BY <1>3
<1>5. PICK t \in Seq(S), e \in S : s = Append(t, e)
  BY <1>4, SequenceEmptyOrAppend
<1>6. Len(t) \in Nat /\ Len(s) = Len(t) + 1
  BY <1>5, AppendProperties, LenProperties
<1>7. t \in A
  <2>1. ~ (n <= Len(t))
    BY <1>3, <1>6
  <2>2. Len(t) \notin C
    BY <1>2, <2>1
  <2> QED
    BY <1>6, <2>2
<1> QED
  BY <1>3, <1>5, <1>7

-----------------------------------------------------------------------------
(***************************************************************************)
(* FlattenSeq joins the sequences of a sequence, one after the other.      *)
(***************************************************************************)
Joins(f, ss, N) == f = [i \in 1..N |-> IF i = 1 THEN ss[i] ELSE f[i - 1] \o ss[i]]

\* The definition of FlattenSeq, without its LET.
LEMMA FlattenDef ==
    ASSUME NEW ss
    PROVE  FlattenSeq(ss) = IF Len(ss) = 0 THEN ss
                            ELSE (CHOOSE f : Joins(f, ss, Len(ss)))[Len(ss)]
BY DEF FlattenSeq, Joins

\* The joined sequence exists for every number of sequences.
LEMMA JoinsExist ==
    ASSUME NEW ss, NEW N \in Nat
    PROVE  \E f : Joins(f, ss, N)
<1> DEFINE C == {k \in Nat : ~ \E f : Joins(f, ss, k)}
<1> SUFFICES ASSUME C # {} PROVE FALSE
  OBVIOUS
<1>1. PICK k \in C : \A j \in C : k <= j
  <2>1. C \subseteq Nat
    OBVIOUS
  <2> HIDE DEF C
  <2> QED
    BY <2>1, LeastNumber
<1>2. k \in Nat /\ ~ \E f : Joins(f, ss, k)
  OBVIOUS
<1>3. k # 0
  <2>1. PICK f : f = [i \in 1..0 |-> ss[i]]
    OBVIOUS
  <2>2. f = [i \in 1..0 |-> IF i = 1 THEN ss[i] ELSE f[i - 1] \o ss[i]]
    BY <2>1
  <2>3. Joins(f, ss, 0)
    BY <2>2 DEF Joins
  <2> QED
    BY <1>2, <2>3
<1>4. PICK j \in Nat : k = j + 1
  <2>1. k - 1 \in Nat /\ k = (k - 1) + 1
    BY <1>2, <1>3
  <2> QED
    BY <2>1
<1>5. j \notin C
  BY <1>1, <1>4
<1>6. PICK g : Joins(g, ss, j)
  BY <1>5
<1>7. \A i \in 1..j : g[i] = IF i = 1 THEN ss[i] ELSE g[i - 1] \o ss[i]
  BY <1>6 DEF Joins
<1>8. PICK f : f = [i \in 1..k |-> IF i \in 1..j THEN g[i] ELSE IF i = 1 THEN ss[i] ELSE g[j] \o ss[i]]
  OBVIOUS
<1>9. ASSUME NEW i \in 1..k
      PROVE  f[i] = IF i = 1 THEN ss[i] ELSE f[i - 1] \o ss[i]
  <2>1. CASE i = 1
    BY <1>7, <1>8, <2>1
  <2>2. CASE i # 1 /\ i \in 1..j
    <3>1. i - 1 \in 1..j /\ i - 1 \in 1..k
      BY <1>4, <2>2
    <3>2. f[i] = g[i] /\ f[i - 1] = g[i - 1]
      BY <1>8, <2>2, <3>1
    <3> QED
      BY <1>7, <2>2, <3>2
  <2>3. CASE i # 1 /\ i \notin 1..j
    <3>1. i = k /\ i - 1 = j /\ j \in 1..j /\ j \in 1..k
      BY <1>4, <2>3
    <3>2. f[i] = g[j] \o ss[i] /\ f[j] = g[j]
      BY <1>8, <2>3, <3>1
    <3> QED
      BY <2>3, <3>1, <3>2
  <2> QED
    BY <2>1, <2>2, <2>3
<1>10. f = [i \in 1..k |-> f[i]]
  BY <1>8
<1>11. Joins(f, ss, k)
  BY <1>9, <1>10 DEF Joins
<1> QED
  BY <1>2, <1>11

\* What is joined depends on what is joined so far, and is a sequence.
LEMMA JoinsAt ==
    ASSUME NEW S, NEW ss, NEW tt, NEW N \in Nat, NEW M \in Nat, NEW f, NEW g,
           Joins(f, ss, N), Joins(g, tt, M), N <= M,
           \A i \in 1..N : ss[i] = tt[i] /\ ss[i] \in Seq(S)
    PROVE  \A i \in 1..N : f[i] = g[i] /\ f[i] \in Seq(S)
<1> DEFINE C == {i \in 1..N : ~ (f[i] = g[i] /\ f[i] \in Seq(S))}
<1> SUFFICES ASSUME C # {} PROVE FALSE
  OBVIOUS
<1>1. PICK i \in C : \A j \in C : i <= j
  <2>1. C \subseteq Nat
    OBVIOUS
  <2> HIDE DEF C
  <2> QED
    BY <2>1, LeastNumber
<1>2. i \in 1..N /\ i \in 1..M /\ ~ (f[i] = g[i] /\ f[i] \in Seq(S))
  OBVIOUS
<1>3. f[i] = IF i = 1 THEN ss[i] ELSE f[i - 1] \o ss[i]
  BY <1>2 DEF Joins
<1>4. g[i] = IF i = 1 THEN tt[i] ELSE g[i - 1] \o tt[i]
  BY <1>2 DEF Joins
<1>5. CASE i = 1
  BY <1>2, <1>3, <1>4, <1>5
<1>6. CASE i # 1
  <2>1. i - 1 \in 1..N /\ ~ (i <= i - 1)
    BY <1>2, <1>6
  <2>2. i - 1 \notin C
    BY <1>1, <2>1
  <2>3. f[i - 1] = g[i - 1] /\ f[i - 1] \in Seq(S)
    BY <2>1, <2>2
  <2>4. f[i - 1] \o ss[i] \in Seq(S)
    BY <1>2, <2>3, ConcatProperties
  <2> QED
    BY <1>2, <1>3, <1>4, <1>6, <2>3, <2>4
<1> QED
  BY <1>5, <1>6

\* Nothing joined is nothing.
LEMMA FlattenNone == FlattenSeq(<<>>) = <<>>
<1>1. Len(<<>>) = 0
  OBVIOUS
<1> QED
  BY <1>1, FlattenDef

\* One more sequence is joined at the end.
LEMMA FlattenMore ==
    ASSUME NEW S, NEW ss \in Seq(Seq(S)), NEW s \in Seq(S)
    PROVE  FlattenSeq(ss) \in Seq(S) /\ FlattenSeq(Append(ss, s)) = FlattenSeq(ss) \o s
<1> DEFINE tt == Append(ss, s)
           n == Len(ss)
<1>1. /\ n \in Nat /\ tt \in Seq(Seq(S)) /\ Len(tt) = n + 1
      /\ \A i \in 1..n : tt[i] = ss[i] /\ ss[i] \in Seq(S)
      /\ tt[n + 1] = s
  BY AppendProperties, LenProperties, ElementOfSeq
<1>2. PICK f : f = CHOOSE h : Joins(h, ss, n)
  OBVIOUS
<1>3. PICK g : g = CHOOSE h : Joins(h, tt, n + 1)
  OBVIOUS
<1>4. Joins(f, ss, n) /\ Joins(g, tt, n + 1)
  <2>1. n + 1 \in Nat
    BY <1>1
  <2>2. (\E h : Joins(h, ss, n)) /\ \E h : Joins(h, tt, n + 1)
    <3> HIDE DEF n, tt
    <3> QED
      BY <1>1, <2>1, JoinsExist
  <2> QED
    BY <1>2, <1>3, <2>2
<1>5. FlattenSeq(tt) = g[n + 1]
  <2>1. Len(tt) # 0
    BY <1>1
  <2> QED
    BY <1>1, <1>3, <2>1, FlattenDef
<1>6. g[n + 1] = IF n + 1 = 1 THEN tt[n + 1] ELSE g[(n + 1) - 1] \o tt[n + 1]
  <2>1. n + 1 \in 1..(n + 1)
    BY <1>1
  <2> HIDE DEF tt, n
  <2> QED
    BY <1>4, <2>1 DEF Joins
<1>7. CASE n = 0
  <2>1. ss = <<>> /\ FlattenSeq(ss) = <<>>
    BY <1>7, EmptySeq, FlattenNone
  <2>2. FlattenSeq(tt) = s
    BY <1>1, <1>5, <1>6, <1>7
  <2> QED
    BY <2>1, <2>2, ConcatEmptySeq, EmptySeq
<1>8. CASE n # 0
  <2>1. FlattenSeq(ss) = f[n]
    BY <1>2, <1>8, FlattenDef
  <2>2. f[n] = g[n] /\ f[n] \in Seq(S)
    <3>1. n \in 1..n /\ n <= n + 1 /\ n + 1 \in Nat
      BY <1>1, <1>8
    <3>2. \A i \in 1..n : ss[i] = tt[i] /\ ss[i] \in Seq(S)
      BY <1>1
    <3>3. PICK m \in Nat : m = n + 1
      BY <3>1
    <3>4. \A i \in 1..n : f[i] = g[i] /\ f[i] \in Seq(S)
      <4>1. Joins(f, ss, n) /\ Joins(g, tt, m) /\ n <= m /\ n \in Nat
        BY <1>1, <1>4, <3>1, <3>3
      <4> HIDE DEF tt, n
      <4> QED
        BY <4>1, <3>2, JoinsAt
    <3> QED
      BY <3>1, <3>4
  <2>3. n + 1 # 1 /\ (n + 1) - 1 = n
    BY <1>1, <1>8
  <2> QED
    BY <1>1, <1>5, <1>6, <2>1, <2>2, <2>3
<1> QED
  BY <1>1, <1>7, <1>8

-----------------------------------------------------------------------------
(***************************************************************************)
(* What texts, turns and tokens say, piece by piece.                       *)
(***************************************************************************)
Symbols == {"sys", "result", "think", "reason", "say", "cut", "call", "json", "eos"}

\* Which symbols are which: messages, the fixed text symbols, tokens.
LEMMA TextFacts ==
    /\ Symbols \subseteq TextSymbols /\ Msgs \subseteq TextSymbols
    /\ TextSymbols \subseteq Tokens
    /\ "say2" \notin TextSymbols /\ "call2" \notin TextSymbols
    /\ \A m \in Msgs : m \notin Symbols
    /\ System \in Seq(TextSymbols) /\ Len(System) \in Nat /\ Opening \in Nat
    /\ Opening = Len(System) + 1 /\ (System = <<>> \/ System = <<"sys">>)
<1>1. System \in Seq(TextSymbols) /\ Len(System) \in Nat
  <2>1. "sys" \in TextSymbols
    BY DEF TextSymbols
  <2>2. <<>> \in Seq(TextSymbols) /\ <<"sys">> \in Seq(TextSymbols)
    BY <2>1
  <2>3. System = <<>> \/ System = <<"sys">>
    BY ProfileAssumption
  <2> QED
    BY <2>2, <2>3, LenProperties
<1>2. Opening \in Nat /\ Opening = Len(System) + 1
  BY <1>1 DEF Opening
<1>3. "say2" \notin TextSymbols /\ "call2" \notin TextSymbols
  BY ProfileAssumption DEF TextSymbols
<1>4. \A m \in Msgs : m \notin Symbols
  BY ProfileAssumption DEF Symbols
<1>5. System = <<>> \/ System = <<"sys">>
  BY ProfileAssumption
<1>6. Symbols \subseteq TextSymbols /\ Msgs \subseteq TextSymbols /\ TextSymbols \subseteq Tokens
  BY DEF Symbols, TextSymbols, Tokens
<1> QED
  BY <1>1, <1>2, <1>3, <1>4, <1>5, <1>6

\* What each symbol adds to the meaning of a text.
LEMMA SayingFacts ==
    /\ \A x \in TextSymbols : Saying(x) \in Seq(TextSymbols)
    /\ \A m \in Msgs : Saying(m) = <<m>>
    /\ Saying("sys") = <<>> /\ Saying("think") = <<>> /\ Saying("reason") = <<>>
    /\ Saying("eos") = <<>>
    /\ Saying("result") = <<"result">> /\ Saying("say") = <<"say">>
    /\ Saying("cut") = <<"cut">> /\ Saying("call") = <<"call">> /\ Saying("json") = <<"call">>
<1>1. ASSUME NEW m \in Msgs PROVE Saying(m) = <<m>>
  BY TextFacts DEF Saying, Symbols
<1>2. /\ Saying("sys") = <<>> /\ Saying("think") = <<>> /\ Saying("reason") = <<>>
      /\ Saying("eos") = <<>>
      /\ Saying("result") = <<"result">> /\ Saying("say") = <<"say">>
      /\ Saying("cut") = <<"cut">> /\ Saying("call") = <<"call">> /\ Saying("json") = <<"call">>
  BY DEF Saying
<1>3. ASSUME NEW x \in TextSymbols PROVE Saying(x) \in Seq(TextSymbols)
  <2>1. Saying(x) \in {<<>>, <<"call">>, <<x>>}
    BY DEF Saying
  <2>2. "call" \in TextSymbols
    BY DEF TextSymbols
  <2>3. <<>> \in Seq(TextSymbols) /\ <<"call">> \in Seq(TextSymbols) /\ <<x>> \in Seq(TextSymbols)
    BY <2>2
  <2> QED
    BY <2>1, <2>3
<1> QED
  BY <1>1, <1>2, <1>3

\* Texts join associatively.
LEMMA TextsJoin ==
    /\ \A a, b \in Seq(TextSymbols) : a \o b \in Seq(TextSymbols)
    /\ \A a, b, c \in Seq(TextSymbols) : (a \o b) \o c = a \o (b \o c)
    /\ \A a \in Seq(TextSymbols) : a \o <<>> = a /\ <<>> \o a = a
<1>1. ASSUME NEW a \in Seq(TextSymbols), NEW b \in Seq(TextSymbols)
      PROVE  a \o b \in Seq(TextSymbols)
  BY ConcatProperties
<1>2. ASSUME NEW a \in Seq(TextSymbols), NEW b \in Seq(TextSymbols), NEW c \in Seq(TextSymbols)
      PROVE  (a \o b) \o c = a \o (b \o c)
  BY ConcatAssociative
<1>3. ASSUME NEW a \in Seq(TextSymbols) PROVE a \o <<>> = a /\ <<>> \o a = a
  BY ConcatEmptySeq
<1> QED
  BY <1>1, <1>2, <1>3

\* A sequence mapped element by element.
Mapped(f, s) == [i \in DOMAIN s |-> f[s[i]]]

Maps(f, S, R) == \A x \in S : f[x] \in R

\* Mapping a sequence, one element more.
LEMMA MapAppend ==
    ASSUME NEW S, NEW s \in Seq(S), NEW e \in S, NEW R, NEW f, Maps(f, S, R)
    PROVE  Mapped(f, s) \in Seq(R) /\ Mapped(f, Append(s, e)) = Append(Mapped(f, s), f[e])
<1>0. PICK t, m, b : /\ t = Append(s, e)
                     /\ m = [i \in DOMAIN s |-> f[s[i]]]
                     /\ b = [i \in DOMAIN t |-> f[t[i]]]
  OBVIOUS
<1>1. PICK n \in Nat : Len(s) = n /\ DOMAIN s = 1..n /\ \A i \in 1..n : s[i] \in S
  BY LenProperties, ElementOfSeq
<1>2. m \in Seq(R) /\ Len(m) = n
  <2>1. m = [i \in 1..n |-> f[s[i]]] /\ \A i \in 1..n : f[s[i]] \in R
    BY <1>0, <1>1 DEF Maps
  <2>2. m \in Seq(R)
    BY <2>1, IsASeq
  <2>3. DOMAIN m = 1..n
    BY <2>1
  <2> QED
    BY <2>2, <2>3, LenProperties
<1>5. /\ t \in Seq(S) /\ Len(t) = n + 1 /\ DOMAIN t = 1..(n + 1)
      /\ \A i \in 1..n : t[i] = s[i]
      /\ t[n + 1] = e
  BY <1>0, <1>1, AppendProperties, LenProperties
<1>6. PICK a : a = Append(m, f[e])
  OBVIOUS
<1>7. /\ a \in Seq(R) /\ DOMAIN a = 1..(n + 1)
      /\ \A i \in 1..n : a[i] = m[i]
      /\ a[n + 1] = f[e]
  <2>1. f[e] \in R
    BY DEF Maps
  <2> QED
    BY <1>1, <1>2, <1>6, <2>1, AppendProperties, LenProperties
<1>9. DOMAIN b = 1..(n + 1) /\ b = [i \in 1..(n + 1) |-> b[i]] /\ a = [i \in 1..(n + 1) |-> a[i]]
  BY <1>0, <1>5, <1>7
<1>10. ASSUME NEW i \in 1..(n + 1) PROVE a[i] = b[i]
  <2>1. CASE i \in 1..n
    BY <1>0, <1>1, <1>5, <1>7, <2>1
  <2>2. CASE i \notin 1..n
    <3>1. i = n + 1
      BY <2>2
    <3> QED
      BY <1>0, <1>5, <1>7, <3>1
  <2> QED
    BY <2>1, <2>2
<1>11. a = b
  BY <1>9, <1>10
<1> QED
  BY <1>0, <1>2, <1>6, <1>11 DEF Mapped

\* The meaning of a text, one symbol more.
LEMMA MeaningMore ==
    /\ Meaning(<<>>) = <<>>
    /\ \A text \in Seq(TextSymbols) : Meaning(text) \in Seq(TextSymbols)
    /\ \A text \in Seq(TextSymbols), x \in TextSymbols :
          Meaning(Append(text, x)) = Meaning(text) \o Saying(x)
<1>1. Meaning(<<>>) = <<>>
  <2>1. [i \in DOMAIN <<>> |-> Saying(<<>>[i])] = <<>>
    OBVIOUS
  <2> QED
    BY <2>1, FlattenNone DEF Meaning
<1>2. ASSUME NEW text \in Seq(TextSymbols), NEW x \in TextSymbols
      PROVE  Meaning(text) \in Seq(TextSymbols) /\ Meaning(Append(text, x)) = Meaning(text) \o Saying(x)
  <2>1. PICK f : f = [y \in TextSymbols |-> Saying(y)]
    OBVIOUS
  <2>2. \A y \in TextSymbols : f[y] = Saying(y) /\ f[y] \in Seq(TextSymbols)
    BY <2>1, SayingFacts
  <2>3. PICK m : m = Mapped(f, text)
    OBVIOUS
  <2>4. PICK t : t = Append(text, x)
    OBVIOUS
  <2>5. m \in Seq(Seq(TextSymbols)) /\ Mapped(f, t) = Append(m, f[x])
    <3>1. PICK R : R = Seq(TextSymbols)
      OBVIOUS
    <3>2. Maps(f, TextSymbols, R)
      BY <2>2, <3>1 DEF Maps
    <3>3. Mapped(f, text) \in Seq(R) /\ Mapped(f, Append(text, x)) = Append(Mapped(f, text), f[x])
      BY <3>2, MapAppend
    <3> QED
      BY <2>3, <2>4, <3>1, <3>3
  <2>6. t \in Seq(TextSymbols)
    BY <2>4, AppendProperties
  <2>7. /\ Mapped(f, text) = [i \in DOMAIN text |-> Saying(text[i])]
        /\ Mapped(f, t) = [i \in DOMAIN t |-> Saying(t[i])]
    BY <2>2, <2>6 DEF Mapped
  <2>8. Meaning(text) = FlattenSeq(m) /\ Meaning(t) = FlattenSeq(Append(m, Saying(x)))
    BY <2>2, <2>3, <2>5, <2>7 DEF Meaning
  <2>9. FlattenSeq(m) \in Seq(TextSymbols) /\ FlattenSeq(Append(m, Saying(x))) = FlattenSeq(m) \o Saying(x)
    BY <2>5, SayingFacts, FlattenMore
  <2> QED
    BY <2>4, <2>8, <2>9
<1>3. ASSUME NEW text \in Seq(TextSymbols) PROVE Meaning(text) \in Seq(TextSymbols)
  <2>1. "sys" \in TextSymbols
    BY DEF TextSymbols
  <2> QED
    BY <1>2, <2>1
<1> QED
  BY <1>1, <1>2, <1>3

\* The meaning of a joined text is its parts' meanings, joined.
LEMMA MeaningConcat ==
    ASSUME NEW s \in Seq(TextSymbols), NEW t \in Seq(TextSymbols)
    PROVE  Meaning(s \o t) = Meaning(s) \o Meaning(t)
<1> DEFINE A == {u \in Seq(TextSymbols) : Meaning(s \o u) = Meaning(s) \o Meaning(u)}
<1>1. <<>> \in A
  BY MeaningMore, ConcatEmptySeq, EmptySeq
<1>2. ASSUME NEW u \in Seq(TextSymbols), NEW x \in TextSymbols, u \in A
      PROVE  Append(u, x) \in A
  <2>1. Append(u, x) \in Seq(TextSymbols) /\ s \o u \in Seq(TextSymbols)
    BY AppendProperties, ConcatProperties
  <2>2. s \o Append(u, x) = Append(s \o u, x)
    <3>1. /\ Append(u, x) = u \o <<x>> /\ Append(s \o u, x) = (s \o u) \o <<x>>
          /\ <<x>> \in Seq(TextSymbols)
      BY <2>1, AppendIsConcat
    <3> QED
      BY <3>1, ConcatAssociative
  <2>3. Meaning(Append(s \o u, x)) = (Meaning(s) \o Meaning(u)) \o Saying(x)
    BY <1>2, <2>1, MeaningMore
  <2>4. Meaning(Append(u, x)) = Meaning(u) \o Saying(x)
    BY MeaningMore
  <2>5. (Meaning(s) \o Meaning(u)) \o Saying(x) = Meaning(s) \o (Meaning(u) \o Saying(x))
    <3>1. Meaning(s) \in Seq(TextSymbols) /\ Meaning(u) \in Seq(TextSymbols)
          /\ Saying(x) \in Seq(TextSymbols)
      BY MeaningMore, SayingFacts
    <3>2. \A a, b, c \in Seq(TextSymbols) : (a \o b) \o c = a \o (b \o c)
      BY TextsJoin
    <3>3. PICK a, b, c : a = Meaning(s) /\ b = Meaning(u) /\ c = Saying(x)
      OBVIOUS
    <3>4. (a \o b) \o c = a \o (b \o c)
      BY <3>1, <3>2, <3>3, ZenonT(40)
    <3> QED
      BY <3>3, <3>4
  <2> QED
    BY <2>1, <2>2, <2>3, <2>4, <2>5
<1>3. Seq(TextSymbols) \subseteq A
  <2> HIDE DEF A
  <2> QED
    BY <1>1, <1>2, SequencesAll
<1> QED
  BY <1>3

\* The meaning of one symbol.
LEMMA MeaningOfOne ==
    ASSUME NEW x \in TextSymbols
    PROVE  Meaning(<<x>>) = Saying(x) /\ <<x>> \in Seq(TextSymbols)
<1>1. <<x>> = Append(<<>>, x) /\ <<>> \in Seq(TextSymbols)
  BY EmptySeq
<1>2. Meaning(<<x>>) = <<>> \o Saying(x)
  BY <1>1, MeaningMore
<1> QED
  BY <1>2, SayingFacts, ConcatEmptySeq

\* The meaning of two symbols.
LEMMA MeaningOfTwo ==
    ASSUME NEW x \in TextSymbols, NEW y \in TextSymbols
    PROVE  Meaning(<<x, y>>) = Saying(x) \o Saying(y) /\ <<x, y>> \in Seq(TextSymbols)
<1>1. <<x, y>> = Append(<<x>>, y)
  OBVIOUS
<1>2. <<x>> \in Seq(TextSymbols) /\ Meaning(<<x>>) = Saying(x)
  BY MeaningOfOne
<1>3. PICK u \in Seq(TextSymbols) : u = <<x>>
  BY <1>2
<1>4. Meaning(Append(u, y)) = Meaning(u) \o Saying(y)
  BY MeaningMore
<1>5. Append(u, y) \in Seq(TextSymbols)
  BY AppendProperties
<1> QED
  BY <1>1, <1>2, <1>3, <1>4, <1>5

\* What turns say, one turn more.
LEMMA SaidMore ==
    /\ Said(<<>>) = <<>>
    /\ \A turns \in Seq(Turns) : Said(turns) \in Seq(TextSymbols)
    /\ \A turns \in Seq(Turns), t \in Turns :
          Said(Append(turns, t)) = Said(turns) \o <<t.ask, t.ans>>
<1>1. Said(<<>>) = <<>>
  <2>1. [i \in DOMAIN <<>> |-> <<<<>>[i].ask, <<>>[i].ans>>] = <<>>
    OBVIOUS
  <2> QED
    BY <2>1, FlattenNone DEF Said
<1>2. ASSUME NEW t \in Turns
      PROVE  <<t.ask, t.ans>> \in Seq(TextSymbols)
  BY DEF Turns, TextSymbols
<1>3. ASSUME NEW turns \in Seq(Turns), NEW t \in Turns
      PROVE  /\ Said(turns) \in Seq(TextSymbols)
             /\ Said(Append(turns, t)) = Said(turns) \o <<t.ask, t.ans>>
  <2>1. PICK f : f = [y \in Turns |-> <<y.ask, y.ans>>]
    OBVIOUS
  <2>2. \A y \in Turns : f[y] = <<y.ask, y.ans>> /\ f[y] \in Seq(TextSymbols)
    BY <1>2, <2>1
  <2>3. PICK m : m = Mapped(f, turns)
    OBVIOUS
  <2>4. PICK a : a = Append(turns, t)
    OBVIOUS
  <2>5. m \in Seq(Seq(TextSymbols)) /\ Mapped(f, a) = Append(m, f[t])
    <3>1. PICK R : R = Seq(TextSymbols)
      OBVIOUS
    <3>2. Maps(f, Turns, R)
      BY <2>2, <3>1 DEF Maps
    <3>3. Mapped(f, turns) \in Seq(R) /\ Mapped(f, Append(turns, t)) = Append(Mapped(f, turns), f[t])
      BY <3>2, MapAppend
    <3> QED
      BY <2>3, <2>4, <3>1, <3>3
  <2>6. a \in Seq(Turns)
    BY <2>4, AppendProperties
  <2>7. /\ Mapped(f, turns) = [i \in DOMAIN turns |-> <<turns[i].ask, turns[i].ans>>]
        /\ Mapped(f, a) = [i \in DOMAIN a |-> <<a[i].ask, a[i].ans>>]
    BY <2>2, <2>6 DEF Mapped
  <2>8. Said(turns) = FlattenSeq(m) /\ Said(a) = FlattenSeq(Append(m, f[t]))
    BY <2>3, <2>5, <2>7 DEF Said
  <2>9. FlattenSeq(m) \in Seq(TextSymbols) /\ FlattenSeq(Append(m, f[t])) = FlattenSeq(m) \o f[t]
    BY <2>2, <2>5, FlattenMore
  <2> QED
    BY <2>2, <2>4, <2>8, <2>9
<1>4. ASSUME NEW turns \in Seq(Turns) PROVE Said(turns) \in Seq(TextSymbols)
  <2>1. CASE turns = <<>>
    BY <1>1, <2>1, EmptySeq
  <2>2. CASE turns # <<>>
    <3>1. Turns # {}
      BY <2>2, EmptySeq, HeadTailProperties
    <3> QED
      BY <1>3, <3>1
  <2> QED
    BY <2>1, <2>2
<1> QED
  BY <1>1, <1>3, <1>4

-----------------------------------------------------------------------------
(***************************************************************************)
(* Rendered tokens, prefixes and suffixes.                                 *)
(***************************************************************************)
Plain(x) == CASE x = "say2" -> "say" [] x = "call2" -> "call" [] OTHER -> x

\* What a token renders to.
LEMMA PlainFacts ==
    /\ \A x \in Tokens : Plain(x) \in TextSymbols
    /\ \A x \in TextSymbols : Plain(x) = x
    /\ \A x \in Tokens : Plain(x) \in Msgs <=> x \in Msgs
<1>1. \A x \in Tokens : x \in TextSymbols \/ x = "say2" \/ x = "call2"
  BY DEF Tokens
<1>2. "say" \in TextSymbols /\ "call" \in TextSymbols
  BY DEF TextSymbols
<1>3. \A m \in Msgs : m # "say" /\ m # "call" /\ m # "say2" /\ m # "call2"
  BY ProfileAssumption
<1>4. \A x \in TextSymbols : x # "say2" /\ x # "call2"
  BY TextFacts
<1>5. \A x \in Tokens : Plain(x) \in TextSymbols
  BY <1>1, <1>2 DEF Plain
<1>6. \A x \in TextSymbols : Plain(x) = x
  BY <1>4 DEF Plain
<1>7. \A x \in Tokens : Plain(x) \in Msgs <=> x \in Msgs
  BY <1>3 DEF Plain
<1> QED
  BY <1>5, <1>6, <1>7

\* Tokens render one by one, and a message stays where it is.
LEMMA RenderAt ==
    ASSUME NEW s \in Seq(Tokens)
    PROVE  /\ render_tokens_text(s) \in Seq(TextSymbols)
           /\ Len(render_tokens_text(s)) = Len(s)
           /\ \A i \in 1..Len(s) : /\ render_tokens_text(s)[i] = Plain(s[i])
                                   /\ render_tokens_text(s)[i] \in Msgs <=> s[i] \in Msgs
<1>1. PICK n \in Nat : Len(s) = n /\ DOMAIN s = 1..n /\ \A i \in 1..n : s[i] \in Tokens
  BY LenProperties, ElementOfSeq
<1>2. render_tokens_text(s) = [i \in 1..n |-> Plain(s[i])]
  BY <1>1 DEF render_tokens_text, Plain
<1>3. \A i \in 1..n : Plain(s[i]) \in TextSymbols /\ (Plain(s[i]) \in Msgs <=> s[i] \in Msgs)
  BY <1>1, PlainFacts
<1>4. PICK r : r = [i \in 1..n |-> Plain(s[i])]
  OBVIOUS
<1>5. r \in Seq(TextSymbols) /\ DOMAIN r = 1..n /\ \A i \in 1..n : r[i] = Plain(s[i])
  BY <1>3, <1>4, IsASeq
<1>6. Len(r) = n
  BY <1>5, LenProperties
<1> QED
  BY <1>1, <1>2, <1>3, <1>4, <1>5, <1>6

\* A text taken as tokens renders to itself.
LEMMA TextIsTokens ==
    ASSUME NEW s \in Seq(TextSymbols)
    PROVE  s \in Seq(Tokens) /\ render_tokens_text(s) = s
<1>1. s \in Seq(Tokens)
  BY TextFacts, SeqMonotonic
<1>2. PICK n \in Nat : Len(s) = n /\ DOMAIN s = 1..n /\ \A i \in 1..n : s[i] \in TextSymbols
  BY LenProperties, ElementOfSeq
<1>3. PICK r : r = render_tokens_text(s)
  OBVIOUS
<1>4. r \in Seq(TextSymbols) /\ Len(r) = n /\ \A i \in 1..n : r[i] = s[i]
  BY <1>1, <1>2, <1>3, RenderAt, PlainFacts
<1>5. r = s
  BY <1>2, <1>4, SeqEqual
<1> QED
  BY <1>1, <1>3, <1>5

\* Joined tokens render to joined texts.
LEMMA RenderConcat ==
    ASSUME NEW s \in Seq(Tokens), NEW t \in Seq(Tokens)
    PROVE  render_tokens_text(s \o t) = render_tokens_text(s) \o render_tokens_text(t)
<1>1. PICK u : u = s \o t
  OBVIOUS
<1>2. PICK m \in Nat, n \in Nat : m = Len(s) /\ n = Len(t)
  BY LenProperties
<1>3. /\ u \in Seq(Tokens) /\ Len(u) = m + n
      /\ \A i \in 1..m : u[i] = s[i]
      /\ \A i \in 1..n : u[m + i] = t[i]
  BY <1>1, <1>2, ConcatProperties
<1>4. PICK a \in Seq(TextSymbols), b \in Seq(TextSymbols), c \in Seq(TextSymbols) :
          a = render_tokens_text(s) /\ b = render_tokens_text(t) /\ c = render_tokens_text(u)
  BY <1>3, RenderAt
<1>5. /\ Len(a) = m /\ \A i \in 1..m : a[i] = Plain(s[i])
      /\ Len(b) = n /\ \A i \in 1..n : b[i] = Plain(t[i])
      /\ Len(c) = m + n /\ \A i \in 1..(m + n) : c[i] = Plain(u[i])
  BY <1>2, <1>3, <1>4, RenderAt
<1>6. PICK d : d = a \o b
  OBVIOUS
<1>7. /\ d \in Seq(TextSymbols) /\ Len(d) = m + n
      /\ \A i \in 1..m : d[i] = a[i]
      /\ \A i \in 1..n : d[m + i] = b[i]
  <2>1. m = Len(a) /\ n = Len(b)
    BY <1>5
  <2>2. d \in Seq(TextSymbols)
    BY <1>6, ConcatProperties
  <2>3. Len(d) = m + n /\ \A i \in 1..m : d[i] = a[i]
    BY <1>6, <2>1
  <2>4. \A i \in 1..n : d[m + i] = b[i]
    BY <1>6, <2>1
  <2> QED
    BY <2>2, <2>3, <2>4
<1>8. ASSUME NEW i \in 1..(m + n) PROVE c[i] = d[i]
  <2>1. CASE i \in 1..m
    BY <1>3, <1>5, <1>7, <2>1
  <2>2. CASE i \notin 1..m
    <3>1. PICK k \in 1..n : i = m + k
      <4>1. i - m \in 1..n /\ i = m + (i - m)
        BY <2>2
      <4> QED
        BY <4>1
    <3>2. c[m + k] = Plain(u[m + k]) /\ u[m + k] = t[k]
      BY <1>3, <1>5, <3>1
    <3>3. d[m + k] = b[k] /\ b[k] = Plain(t[k])
      BY <1>5, <1>7
    <3> QED
      BY <3>1, <3>2, <3>3
  <2> QED
    BY <2>1, <2>2
<1>9. c = d
  BY <1>5, <1>7, <1>8, SeqEqual
<1> QED
  BY <1>1, <1>4, <1>6, <1>9

\* What tokens say is a text, and joins as they do.
LEMMA SaysFacts ==
    /\ \A s \in Seq(Tokens) : Says(s) \in Seq(TextSymbols)
    /\ \A s \in Seq(TextSymbols) : Says(s) = Meaning(s)
    /\ \A s, t \in Seq(Tokens) : Says(s \o t) = Says(s) \o Says(t)
<1>1. \A s \in Seq(Tokens) : Says(s) \in Seq(TextSymbols)
  BY RenderAt, MeaningMore DEF Says
<1>2. \A s \in Seq(TextSymbols) : Says(s) = Meaning(s)
  BY TextIsTokens DEF Says
<1>3. ASSUME NEW s \in Seq(Tokens), NEW t \in Seq(Tokens)
      PROVE  Says(s \o t) = Says(s) \o Says(t)
  <2>1. PICK a \in Seq(TextSymbols), b \in Seq(TextSymbols) :
            a = render_tokens_text(s) /\ b = render_tokens_text(t)
    BY RenderAt
  <2>2. render_tokens_text(s \o t) = a \o b
    BY <2>1, RenderConcat
  <2>3. Meaning(a \o b) = Meaning(a) \o Meaning(b)
    BY MeaningConcat
  <2> QED
    BY <2>1, <2>2, <2>3 DEF Says
<1> QED
  BY <1>1, <1>2, <1>3

\* A text is its prefix and what comes after it.
LEMMA PrefixSplits ==
    ASSUME NEW S, NEW p \in Seq(S), NEW t \in Seq(S), IsPrefix(p, t)
    PROVE  /\ After(t, p) \in Seq(S) /\ t = p \o After(t, p)
           /\ Len(p) <= Len(t)
           /\ \A i \in 1..Len(p) : p[i] = t[i]
<1>1. PICK m \in Nat, n \in Nat : m = Len(p) /\ n = Len(t)
  BY LenProperties
<1>2. m <= n /\ SubSeq(p, 1, m) = SubSeq(t, 1, m)
  BY <1>1 DEF IsPrefix
<1>3. SubSeq(p, 1, m) = p
  BY <1>1, SubSeqFull
<1>4. p = SubSeq(t, 1, m)
  BY <1>2, <1>3
<1>5. PICK a : a = After(t, p)
  OBVIOUS
<1>6. a = SubSeq(t, m + 1, n)
  BY <1>1, <1>5 DEF After
<1>7. a \in Seq(S)
  <2>1. \A i \in (m + 1)..n : i \in 1..n
    BY <1>1
  <2>2. \A i \in (m + 1)..n : t[i] \in S
    BY <1>1, <2>1, ElementOfSeq
  <2> QED
    BY <1>1, <1>6, <2>2, SubSeqProperties
<1>8. \A i \in 1..m : p[i] = t[i]
  <2>1. 1 \in Int /\ \A i \in 1..m : i \in 1..(m - 1 + 1)
    OBVIOUS
  <2> QED
    BY <1>1, <1>2, <1>4
<1>9. t = p \o a
  <2>1. /\ Len(a) = n - m
        /\ \A i \in 1..(n - m) : a[i] = t[m + i]
    BY <1>1, <1>2, <1>6
  <2>2. PICK d : d = p \o a
    OBVIOUS
  <2>3. /\ d \in Seq(S) /\ Len(d) = m + (n - m)
        /\ \A i \in 1..m : d[i] = p[i]
        /\ \A i \in 1..(n - m) : d[m + i] = a[i]
    BY <1>1, <1>7, <2>1, <2>2, ConcatProperties
  <2>4. ASSUME NEW i \in 1..n PROVE d[i] = t[i]
    <3>1. CASE i \in 1..m
      BY <1>8, <2>3, <3>1
    <3>2. CASE i \notin 1..m
      <4>1. PICK k \in 1..(n - m) : i = m + k
        <5>1. i - m \in 1..(n - m) /\ i = m + (i - m)
          BY <1>1, <1>2, <3>2
        <5> QED
          BY <5>1
      <4> QED
        BY <2>1, <2>3, <4>1
    <3> QED
      BY <3>1, <3>2
  <2>5. Len(d) = n
    BY <1>1, <1>2, <2>3
  <2> QED
    BY <1>1, <2>2, <2>3, <2>4, <2>5, SeqEqual
<1> QED
  BY <1>1, <1>2, <1>5, <1>7, <1>8, <1>9

\* A joined sequence ends with its second part.
LEMMA JoinedEnds ==
    ASSUME NEW S, NEW u \in Seq(S), NEW s \in Seq(S)
    PROVE  IsSuffix(s, u \o s)
<1>1. PICK m \in Nat, n \in Nat : m = Len(u) /\ n = Len(s)
  BY LenProperties
<1>2. PICK d : d = u \o s
  OBVIOUS
<1>3. d \in Seq(S) /\ Len(d) = m + n /\ \A i \in 1..n : d[m + i] = s[i]
  BY <1>1, <1>2, ConcatProperties
<1>4. PICK a, b : a = Reverse(s) /\ b = Reverse(d)
  OBVIOUS
<1>5. a = [i \in 1..n |-> s[(n - i) + 1]] /\ b = [i \in 1..(m + n) |-> d[((m + n) - i) + 1]]
  BY <1>1, <1>3, <1>4 DEF Reverse
<1>6. a \in Seq(S) /\ Len(a) = n
  <2>1. \A i \in 1..n : (n - i) + 1 \in 1..n
    OBVIOUS
  <2>2. \A i \in 1..n : s[(n - i) + 1] \in S
    BY <1>1, <2>1, ElementOfSeq
  <2>3. a \in Seq(S) /\ DOMAIN a = 1..n
    BY <1>5, <2>2, IsASeq
  <2> QED
    BY <2>3, LenProperties
<1>7. b \in Seq(S) /\ Len(b) = m + n
  <2>1. \A i \in 1..(m + n) : ((m + n) - i) + 1 \in 1..(m + n)
    OBVIOUS
  <2>2. \A i \in 1..(m + n) : d[((m + n) - i) + 1] \in S
    BY <1>3, <2>1, ElementOfSeq
  <2>3. b \in Seq(S) /\ DOMAIN b = 1..(m + n)
    BY <1>5, <2>2, IsASeq
  <2> QED
    BY <2>3, LenProperties
<1>8. \A i \in 1..n : a[i] = b[i]
  <2> SUFFICES ASSUME NEW i \in 1..n PROVE a[i] = b[i]
    OBVIOUS
  <2>1. PICK k \in 1..n : k = (n - i) + 1 /\ ((m + n) - i) + 1 = m + k
    <3>1. (n - i) + 1 \in 1..n /\ ((m + n) - i) + 1 = m + ((n - i) + 1)
      OBVIOUS
    <3> QED
      BY <3>1
  <2>2. i \in 1..(m + n)
    OBVIOUS
  <2>3. a[i] = s[k] /\ b[i] = d[m + k]
    BY <1>5, <2>1, <2>2
  <2> QED
    BY <1>3, <2>3
<1>9. SubSeq(a, 1, n) = SubSeq(b, 1, n)
  <2>1. SubSeq(a, 1, n) = a
    BY <1>6, SubSeqFull
  <2>2. PICK e : e = SubSeq(b, 1, n)
    OBVIOUS
  <2>3. e \in Seq(S) /\ Len(e) = n /\ \A i \in 1..n : e[i] = b[i]
    <3>1. \A i \in 1..n : i \in 1..(m + n)
      OBVIOUS
    <3>2. \A i \in 1..n : b[i] \in S
      BY <1>7, <3>1, ElementOfSeq
    <3>3. e \in Seq(S)
      BY <1>7, <2>2, <3>2, SubSeqProperties
    <3> QED
      BY <1>7, <2>2, <3>3
  <2>4. a = e
    BY <1>6, <1>8, <2>3, SeqEqual
  <2> QED
    BY <2>1, <2>2, <2>4
<1> QED
  BY <1>2, <1>4, <1>6, <1>7, <1>9 DEF IsSuffix, IsPrefix

-----------------------------------------------------------------------------
(***************************************************************************)
(* What the renderers of a client's conversation say.                      *)
(***************************************************************************)
LEMMA ProfileFacts ==
    ASSUME NEW c \in Clients
    PROVE  /\ Profile[c] \in [api : Apis, tools : BOOLEAN, think : BOOLEAN, shows : BOOLEAN]
           /\ Profile[c].think \in BOOLEAN /\ Profile[c].tools \in BOOLEAN
           /\ Prefix(c) \in Seq(TextSymbols) /\ Meaning(Prefix(c)) = <<>>
           /\ Profile[c].think => Prefix(c) = <<"think">>
           /\ ~Profile[c].think => Prefix(c) = <<>>
<1>1. Profile[c] \in [api : Apis, tools : BOOLEAN, think : BOOLEAN, shows : BOOLEAN]
  BY ProfileAssumption
<1>2. Profile[c].think \in BOOLEAN /\ Profile[c].tools \in BOOLEAN
  BY <1>1
<1>3. CASE Profile[c].think
  <2>1. Prefix(c) = <<"think">>
    BY <1>3 DEF Prefix
  <2>2. "think" \in TextSymbols
    BY DEF TextSymbols
  <2>3. Meaning(<<"think">>) = <<>> /\ <<"think">> \in Seq(TextSymbols)
    BY <2>2, MeaningOfOne, SayingFacts
  <2> QED
    BY <1>1, <1>2, <1>3, <2>1, <2>3
<1>4. CASE ~Profile[c].think
  <2>1. Prefix(c) = <<>>
    BY <1>4 DEF Prefix
  <2>2. Meaning(<<>>) = <<>> /\ <<>> \in Seq(TextSymbols)
    BY MeaningMore, EmptySeq
  <2> QED
    BY <1>1, <1>2, <1>4, <2>1, <2>2
<1> QED
  BY <1>2, <1>3, <1>4

\* Sequences of one and two elements as joined ones.
LEMMA OneThenOne ==
    ASSUME NEW S, NEW x \in S, NEW y \in S
    PROVE  <<x>> \o <<>> = <<x>> /\ <<x>> \o <<y>> = <<x, y>>
<1>1. <<x, y>> = Append(<<x>>, y)
  OBVIOUS
<1>2. PICK u \in Seq(S) : u = <<x>>
  <2>1. <<x>> = Append(<<>>, x) /\ <<>> \in Seq(S)
    BY EmptySeq
  <2> QED
    BY <2>1, AppendProperties
<1>3. Append(u, y) = u \o <<y>>
  BY AppendIsConcat
<1>4. u \o <<>> = u
  BY ConcatEmptySeq
<1> QED
  BY <1>1, <1>2, <1>3, <1>4

\* A rendered turn says its message and its answer.
LEMMA TurnText ==
    ASSUME NEW c \in Clients, NEW t \in Turns, NEW exact
    PROVE  /\ RenderTurn(c, t, exact) \in Seq(TextSymbols)
           /\ Meaning(RenderTurn(c, t, exact)) = <<t.ask, t.ans>>
           /\ Len(RenderTurn(c, t, exact)) >= 1 /\ RenderTurn(c, t, exact)[1] = t.ask
<1>1. /\ t.ask \in Msgs \cup {"result"} /\ t.ans \in {"say", "cut", "call"}
      /\ t.ask \in TextSymbols /\ "eos" \in TextSymbols
      /\ "think" \in TextSymbols /\ "reason" \in TextSymbols
      /\ {"say", "cut", "call", "json"} \subseteq TextSymbols
  BY DEF Turns, TextSymbols
<1>2. PICK answer : answer = IF t.ans = "call" /\ ~exact THEN "json" ELSE t.ans
  OBVIOUS
<1>3. answer \in TextSymbols /\ Saying(answer) = <<t.ans>>
  BY <1>1, <1>2, SayingFacts
<1>4. PICK reasoning : reasoning = IF Profile[c].shows /\ t.ans = "call" THEN <<"reason">> ELSE <<>>
  OBVIOUS
<1>5. PICK opening : opening = IF Profile[c].think /\ Profile[c].tools
                               THEN <<"think">> \o reasoning ELSE <<>>
  OBVIOUS
<1>6. reasoning \in Seq(TextSymbols) /\ Meaning(reasoning) = <<>>
  <2>1. Meaning(<<"reason">>) = <<>> /\ <<"reason">> \in Seq(TextSymbols)
    BY <1>1, MeaningOfOne, SayingFacts
  <2>2. Meaning(<<>>) = <<>> /\ <<>> \in Seq(TextSymbols)
    BY MeaningMore, EmptySeq
  <2> QED
    BY <1>4, <2>1, <2>2
<1>7. opening \in Seq(TextSymbols) /\ Meaning(opening) = <<>>
  <2>1. Meaning(<<"think">>) = <<>> /\ <<"think">> \in Seq(TextSymbols)
    BY <1>1, MeaningOfOne, SayingFacts
  <2>2. Meaning(<<>>) = <<>> /\ <<>> \in Seq(TextSymbols)
    BY MeaningMore, EmptySeq
  <2>3. PICK a \in Seq(TextSymbols) : a = <<"think">>
    BY <2>1
  <2>4. a \o reasoning \in Seq(TextSymbols) /\ Meaning(a \o reasoning) = Meaning(a) \o Meaning(reasoning)
    BY <1>6, MeaningConcat, ConcatProperties
  <2>5. <<>> \o <<>> = <<>>
    OBVIOUS
  <2> QED
    BY <1>5, <1>6, <2>1, <2>2, <2>3, <2>4, <2>5
<1>8. Meaning(<<t.ask>>) = <<t.ask>> /\ <<t.ask>> \in Seq(TextSymbols)
  BY <1>1, MeaningOfOne, SayingFacts
<1>9. Meaning(<<answer, "eos">>) = <<t.ans>> /\ <<answer, "eos">> \in Seq(TextSymbols)
  <2>1. Meaning(<<answer, "eos">>) = Saying(answer) \o Saying("eos") /\ <<answer, "eos">> \in Seq(TextSymbols)
    BY <1>1, <1>3, MeaningOfTwo
  <2>2. <<t.ans>> \o <<>> = <<t.ans>>
    OBVIOUS
  <2> QED
    BY <1>3, <2>1, <2>2, SayingFacts
<1>10. PICK a \in Seq(TextSymbols), b \in Seq(TextSymbols), d \in Seq(TextSymbols) :
          a = <<t.ask>> /\ b = opening /\ d = <<answer, "eos">>
  BY <1>7, <1>8, <1>9
<1>11. RenderTurn(c, t, exact) = (a \o b) \o d
  BY <1>2, <1>4, <1>5, <1>10 DEF RenderTurn
<1>12. a \o b \in Seq(TextSymbols) /\ Meaning(a \o b) = Meaning(a) \o Meaning(b)
  BY MeaningConcat, ConcatProperties
<1>13. PICK e \in Seq(TextSymbols) : e = a \o b
  BY <1>12
<1>14. e \o d \in Seq(TextSymbols) /\ Meaning(e \o d) = Meaning(e) \o Meaning(d)
  BY MeaningConcat, ConcatProperties
<1>15. <<t.ask>> \o <<>> = <<t.ask>> /\ <<t.ask>> \o <<t.ans>> = <<t.ask, t.ans>>
  BY <1>1, OneThenOne
<1>16. Meaning(e \o d) = <<t.ask, t.ans>>
  BY <1>7, <1>8, <1>9, <1>10, <1>12, <1>13, <1>14, <1>15
<1>17. Len(e) >= 1 /\ e[1] = t.ask
  <2>1. Len(a) = 1 /\ a[1] = t.ask
    BY <1>10
  <2>2. Len(e) = Len(a) + Len(b) /\ Len(b) \in Nat
    BY <1>13, ConcatProperties, LenProperties
  <2>3. 1 \in 1..Len(a) /\ 1 <= Len(a)
    BY <2>1
  <2>4. e[1] = a[1]
    BY <1>13, <2>1, <2>3, ConcatProperties, SMTT(30)
  <2> QED
    BY <2>1, <2>2, <2>4
<1>18. Len(e \o d) >= 1 /\ (e \o d)[1] = t.ask
  <2>1. Len(e \o d) = Len(e) + Len(d) /\ Len(d) \in Nat /\ Len(e) \in Nat
    BY ConcatProperties, LenProperties
  <2>2. (e \o d)[1] = e[1]
    BY <1>17, ConcatProperties
  <2> QED
    BY <1>17, <2>1, <2>2
<1> QED
  BY <1>11, <1>13, <1>14, <1>16, <1>18

TurnsText(c, turns, exact) == FlattenSeq([i \in DOMAIN turns |-> RenderTurn(c, turns[i], exact)])

\* Rendered turns, one turn more.
LEMMA TurnsTextMore ==
    ASSUME NEW c \in Clients, NEW exact, NEW turns \in Seq(Turns), NEW t \in Turns
    PROVE  /\ TurnsText(c, turns, exact) \in Seq(TextSymbols)
           /\ TurnsText(c, Append(turns, t), exact)
                = TurnsText(c, turns, exact) \o RenderTurn(c, t, exact)
<1>1. PICK f : f = [y \in Turns |-> RenderTurn(c, y, exact)]
  OBVIOUS
<1>2. \A y \in Turns : f[y] = RenderTurn(c, y, exact) /\ f[y] \in Seq(TextSymbols)
  BY <1>1, TurnText
<1>3. PICK m : m = Mapped(f, turns)
  OBVIOUS
<1>4. PICK a : a = Append(turns, t)
  OBVIOUS
<1>5. m \in Seq(Seq(TextSymbols)) /\ Mapped(f, a) = Append(m, f[t])
  <2>1. PICK R : R = Seq(TextSymbols)
    OBVIOUS
  <2>2. Maps(f, Turns, R)
    BY <1>2, <2>1 DEF Maps
  <2>3. Mapped(f, turns) \in Seq(R) /\ Mapped(f, Append(turns, t)) = Append(Mapped(f, turns), f[t])
    BY <2>2, MapAppend
  <2> QED
    BY <1>3, <1>4, <2>1, <2>3
<1>6. a \in Seq(Turns)
  BY <1>4, AppendProperties
<1>7. /\ Mapped(f, turns) = [i \in DOMAIN turns |-> RenderTurn(c, turns[i], exact)]
      /\ Mapped(f, a) = [i \in DOMAIN a |-> RenderTurn(c, a[i], exact)]
  BY <1>2, <1>6 DEF Mapped
<1>8. TurnsText(c, turns, exact) = FlattenSeq(m) /\ TurnsText(c, a, exact) = FlattenSeq(Append(m, f[t]))
  BY <1>3, <1>5, <1>7 DEF TurnsText
<1>9. FlattenSeq(m) \in Seq(TextSymbols) /\ FlattenSeq(Append(m, f[t])) = FlattenSeq(m) \o f[t]
  BY <1>2, <1>5, FlattenMore
<1> QED
  BY <1>2, <1>4, <1>8, <1>9

\* No turns render to nothing.
LEMMA TurnsTextNone == \A c, exact : TurnsText(c, <<>>, exact) = <<>>
<1>1. ASSUME NEW c, NEW exact PROVE TurnsText(c, <<>>, exact) = <<>>
  <2>1. [i \in DOMAIN <<>> |-> RenderTurn(c, <<>>[i], exact)] = <<>>
    OBVIOUS
  <2> QED
    BY <2>1, FlattenNone DEF TurnsText
<1> QED
  BY <1>1

\* Rendered turns say what the turns say, beginning with their first message.
LEMMA TurnsTextSays ==
    ASSUME NEW c \in Clients, NEW exact, NEW turns \in Seq(Turns)
    PROVE  /\ TurnsText(c, turns, exact) \in Seq(TextSymbols)
           /\ Meaning(TurnsText(c, turns, exact)) = Said(turns)
           /\ turns # <<>> => /\ Len(TurnsText(c, turns, exact)) >= 1
                              /\ TurnsText(c, turns, exact)[1] = turns[1].ask
<1> DEFINE Good(u) == /\ TurnsText(c, u, exact) \in Seq(TextSymbols)
                      /\ Meaning(TurnsText(c, u, exact)) = Said(u)
                      /\ u # <<>> => /\ Len(TurnsText(c, u, exact)) >= 1
                                     /\ TurnsText(c, u, exact)[1] = u[1].ask
           A == {u \in Seq(Turns) : Good(u)}
<1>1. <<>> \in A
  BY TurnsTextNone, MeaningMore, SaidMore, EmptySeq
<1>2. ASSUME NEW u \in Seq(Turns), NEW t \in Turns, u \in A
      PROVE  Append(u, t) \in A
  <2>1. PICK x \in Seq(TextSymbols), y \in Seq(TextSymbols) :
            x = TurnsText(c, u, exact) /\ y = RenderTurn(c, t, exact)
    BY <1>2, TurnText
  <2>2. TurnsText(c, Append(u, t), exact) = x \o y
    BY <2>1, TurnsTextMore
  <2>3. x \o y \in Seq(TextSymbols) /\ Meaning(x \o y) = Meaning(x) \o Meaning(y)
    BY MeaningConcat, ConcatProperties
  <2>4. Meaning(x) = Said(u) /\ Meaning(y) = <<t.ask, t.ans>>
    BY <1>2, <2>1, TurnText
  <2>5. Meaning(x \o y) = Said(Append(u, t))
    BY <2>3, <2>4, SaidMore
  <2>6. Append(u, t) \in Seq(Turns)
    BY AppendProperties
  <2>7. Len(x) \in Nat /\ Len(y) \in Nat /\ Len(x \o y) = Len(x) + Len(y)
    BY ConcatProperties, LenProperties
  <2>8. CASE u = <<>>
    <3>1. x = <<>> /\ Append(u, t) = <<t>>
      BY <2>1, <2>8, TurnsTextNone
    <3>2. x \o y = y
      BY <3>1, ConcatEmptySeq
    <3>3. Append(u, t)[1] = t
      BY <3>1
    <3>4. Len(y) >= 1 /\ y[1] = t.ask
      BY <2>1, TurnText
    <3> QED
      BY <2>2, <2>3, <2>5, <2>6, <3>2, <3>3, <3>4
  <2>9. CASE u # <<>>
    <3>1. Len(x) >= 1 /\ x[1] = u[1].ask
      BY <1>2, <2>1, <2>9
    <3>2. Len(u) \in Nat /\ Len(u) # 0
      BY <2>9, EmptySeq, LenProperties
    <3>3. Append(u, t)[1] = u[1]
      BY <3>2, AppendProperties
    <3>4. (x \o y)[1] = x[1]
      BY <2>7, <3>1, ConcatProperties
    <3>5. Len(x \o y) >= 1
      BY <2>7, <3>1
    <3> QED
      BY <2>2, <2>3, <2>5, <2>6, <3>1, <3>3, <3>4, <3>5
  <2> QED
    BY <2>8, <2>9
<1>3. Seq(Turns) \subseteq A
  <2> HIDE DEF A
  <2> QED
    BY <1>1, <1>2, SequencesAll
<1> QED
  BY <1>3

Asks(text, c, turns, ask) ==
    /\ text \in Seq(TextSymbols)
    /\ Meaning(text) = Append(Said(turns), ask)
    /\ Len(text) >= Opening
    /\ text[Opening] = IF turns = <<>> THEN ask ELSE turns[1].ask
    /\ Profile[c].think => Last(text) = "think"
    /\ turns = <<>> => text = System \o <<ask>> \o Prefix(c)

\* A rendered prompt says the conversation and the message that is asked.
LEMMA PromptText ==
    ASSUME NEW c \in Clients, NEW exact, NEW turns \in Seq(Turns), NEW ask \in Msgs \cup {"result"},
           NEW text, text = render_chat_prompt_text(c, turns, ask, exact)
    PROVE  Asks(text, c, turns, ask)
<1>1. PICK x \in Seq(TextSymbols) : x = TurnsText(c, turns, exact)
  BY TurnsTextSays
<1>2. Saying(ask) = <<ask>> /\ ask \in TextSymbols
  BY TextFacts, SayingFacts DEF TextSymbols
<1>3. PICK a \in Seq(TextSymbols) : a = <<ask>>
  BY <1>2, MeaningOfOne
<1>4. PICK p \in Seq(TextSymbols) : p = Prefix(c)
  BY ProfileFacts
<1>5. text = ((System \o x) \o a) \o p
  BY <1>1, <1>3, <1>4 DEF render_chat_prompt_text, TurnsText
<1>6. System \in Seq(TextSymbols) /\ Meaning(System) = <<>>
  <2>1. "sys" \in TextSymbols
    BY DEF TextSymbols
  <2>2. Meaning(<<>>) = <<>> /\ Meaning(<<"sys">>) = <<>>
    BY <2>1, MeaningMore, MeaningOfOne, SayingFacts
  <2> QED
    BY <2>2, TextFacts
<1>7. PICK s \in Seq(TextSymbols) : s = System
  BY <1>6
<1>8. PICK u \in Seq(TextSymbols) : u = s \o x
  BY ConcatProperties
<1>9. PICK v \in Seq(TextSymbols) : v = u \o a
  BY ConcatProperties
<1>10. text = v \o p /\ text \in Seq(TextSymbols)
  <2>1. v \o p \in Seq(TextSymbols)
    BY ConcatProperties
  <2> QED
    BY <1>5, <1>7, <1>8, <1>9, <2>1
<1>11. Meaning(text) = Append(Said(turns), ask)
  <2>1. Meaning(u) = Meaning(s) \o Meaning(x)
    BY <1>8, MeaningConcat
  <2>2. Meaning(v) = Meaning(u) \o Meaning(a)
    BY <1>9, MeaningConcat
  <2>3. Meaning(text) = Meaning(v) \o Meaning(p)
    BY <1>10, MeaningConcat
  <2>4. PICK w \in Seq(TextSymbols) : w = Said(turns)
    BY SaidMore
  <2>5. Meaning(s) = <<>> /\ Meaning(x) = w /\ Meaning(a) = <<ask>> /\ Meaning(p) = <<>>
    BY <1>1, <1>2, <1>3, <1>4, <1>6, <1>7, <2>4, TurnsTextSays, ProfileFacts, MeaningOfOne
  <2>6. Meaning(u) = w
    BY <2>1, <2>5, ConcatEmptySeq
  <2>7. Meaning(v) = Append(w, ask)
    BY <2>2, <2>5, <2>6, <1>2, AppendIsConcat
  <2>8. Append(w, ask) \in Seq(TextSymbols)
    BY <1>2, AppendProperties
  <2>9. Append(w, ask) \o <<>> = Append(w, ask)
    BY <2>8, ConcatEmptySeq
  <2> QED
    BY <2>3, <2>4, <2>5, <2>7, <2>9
<1>12. /\ Len(s) \in Nat /\ Len(x) \in Nat /\ Len(u) = Len(s) + Len(x)
       /\ Len(a) = 1 /\ Len(v) = Len(u) + 1
       /\ Len(p) \in Nat /\ Len(text) = Len(v) + Len(p)
  BY <1>3, <1>8, <1>9, <1>10, ConcatProperties, LenProperties
<1>13. Opening = Len(s) + 1
  BY <1>7, TextFacts
<1>14. Len(v) >= Opening /\ v[Opening] = IF turns = <<>> THEN ask ELSE turns[1].ask
  <2>1. CASE turns = <<>>
    <3>1. x = <<>>
      BY <1>1, <2>1, TurnsTextNone
    <3>2. u = s
      BY <1>8, <3>1, ConcatEmptySeq
    <3>3. v[Len(u) + 1] = ask
      BY <1>3, <1>9
    <3> QED
      BY <1>12, <1>13, <2>1, <3>2, <3>3
  <2>2. CASE turns # <<>>
    <3>1. Len(x) >= 1 /\ x[1] = turns[1].ask
      BY <1>1, <2>2, TurnsTextSays
    <3>2. u[Len(s) + 1] = x[1]
      BY <1>8, <1>12, <3>1
    <3>3. Opening \in 1..Len(u)
      BY <1>12, <1>13, <3>1
    <3>4. v[Opening] = u[Opening]
      BY <1>9, <3>3
    <3> QED
      BY <1>12, <1>13, <2>2, <3>1, <3>2, <3>4
  <2> QED
    BY <2>1, <2>2
<1>15. Len(text) >= Opening /\ text[Opening] = v[Opening]
  <2>1. Opening \in 1..Len(v)
    BY <1>12, <1>13, <1>14
  <2>2. text[Opening] = v[Opening]
    BY <1>10, <2>1
  <2> QED
    BY <1>12, <1>14, <2>2, TextFacts
<1>16. ASSUME Profile[c].think PROVE Last(text) = "think"
  <2>1. p = <<"think">>
    BY <1>4, <1>16, ProfileFacts
  <2>2. text = v \o <<"think">>
    BY <1>10, <2>1
  <2>3. Len(text) = Len(v) + 1 /\ text[Len(v) + 1] = "think"
    BY <2>2
  <2> QED
    BY <2>3 DEF Last
<1>17. ASSUME turns = <<>> PROVE text = System \o <<ask>> \o Prefix(c)
  <2>1. x = <<>>
    BY <1>1, <1>17, TurnsTextNone
  <2>2. u = s
    BY <1>8, <2>1, ConcatEmptySeq
  <2> QED
    BY <1>3, <1>4, <1>7, <1>9, <1>10, <2>2
<1> QED
  BY <1>10, <1>11, <1>14, <1>15, <1>16, <1>17 DEF Asks

\* A tool result sent alone, and what it adds to the live session.
LEMMA ResultText ==
    ASSUME NEW c \in Clients, NEW text, text = System \o <<"result">> \o Prefix(c)
    PROVE  /\ text \in Seq(TextSymbols) /\ Meaning(text) = <<"result">>
           /\ Len(text) >= Opening /\ Len(text) <= Opening + 1 /\ text[Opening] = "result"
           /\ Profile[c].think => Len(text) = Opening + 1
<1>1. PICK turns \in Seq(Turns), ask \in Msgs \cup {"result"} : turns = <<>> /\ ask = "result"
  BY EmptySeq
<1>2. PICK exact, x : x = render_chat_prompt_text(c, turns, ask, exact)
  OBVIOUS
<1>a. Asks(x, c, turns, ask)
  BY <1>2, PromptText
<1>3. x = text /\ x \in Seq(TextSymbols) /\ Meaning(x) = Append(Said(<<>>), "result")
      /\ Len(x) >= Opening /\ x[Opening] = "result"
  BY <1>1, <1>a DEF Asks
<1>4. Append(<<>>, "result") = <<"result">>
  OBVIOUS
<1>5. PICK s \in Seq(TextSymbols), p \in Seq(TextSymbols) : s = System /\ p = Prefix(c)
  BY TextFacts, ProfileFacts
<1>6. Len(p) \in {0, 1} /\ (Profile[c].think => Len(p) = 1)
  BY <1>5, ProfileFacts
<1>7. Len(text) = Len(s) + 1 + Len(p)
  <2>0. "result" \in TextSymbols
    BY DEF TextSymbols
  <2>1. PICK q \in Seq(TextSymbols) : q = <<"result">>
    BY <2>0, MeaningOfOne
  <2>2. text = (s \o q) \o p
    BY <1>5, <2>1
  <2>3. Len(q) = 1
    BY <2>1
  <2>4. PICK v \in Seq(TextSymbols) : v = s \o q
    BY ConcatProperties
  <2>5. Len(v) = Len(s) + 1
    <3>1. Len(v) = Len(s) + Len(q)
      BY <2>4, ConcatProperties
    <3> QED
      BY <2>3, <3>1
  <2>6. text = v \o p
    BY <2>2, <2>4
  <2>7. Len(text) = Len(v) + Len(p)
    BY <2>6, ConcatProperties
  <2> QED
    BY <2>5, <2>7
<1>8. Len(s) \in Nat /\ Opening = Len(s) + 1
  BY <1>5, TextFacts
<1>9. Len(text) <= Opening + 1 /\ (Profile[c].think => Len(text) = Opening + 1)
  <2>1. PICK n \in Nat, m \in Nat : n = Len(s) /\ m = Len(p)
    BY LenProperties
  <2>2. m \in {0, 1} /\ (Profile[c].think => m = 1) /\ Len(text) = n + 1 + m /\ Opening = n + 1
    BY <1>6, <1>7, <1>8, <2>1
  <2> QED
    BY <2>2
<1>10. Meaning(text) = <<"result">>
  BY <1>3, <1>4, SaidMore
<1> QED
  BY <1>3, <1>9, <1>10

\* render_live_tool_tail says a tool result and no more.
LEMMA TailText ==
    ASSUME NEW c \in Clients
    PROVE  /\ render_live_tool_tail(c) \in Seq(TextSymbols)
           /\ Meaning(render_live_tool_tail(c)) = <<"result">>
           /\ Len(render_live_tool_tail(c)) >= 2
<1>1. "eos" \in TextSymbols /\ "result" \in TextSymbols
  BY DEF TextSymbols
<1>2. PICK a \in Seq(TextSymbols), p \in Seq(TextSymbols) : a = <<"eos", "result">> /\ p = Prefix(c)
  BY <1>1, MeaningOfTwo, ProfileFacts
<1>3. <<>> \o <<"result">> = <<"result">> /\ <<"result">> \o <<>> = <<"result">>
  OBVIOUS
<1>4. Meaning(a) = <<"result">> /\ Meaning(p) = <<>>
  BY <1>1, <1>2, <1>3, MeaningOfTwo, ProfileFacts, SayingFacts
<1>5. Meaning(a \o p) = Meaning(a) \o Meaning(p) /\ a \o p \in Seq(TextSymbols)
  BY MeaningConcat, ConcatProperties
<1>6. Len(a \o p) = Len(a) + Len(p) /\ Len(p) \in Nat /\ Len(a) = 2
  BY <1>2, ConcatProperties, LenProperties
<1> QED
  BY <1>2, <1>3, <1>4, <1>5, <1>6 DEF render_live_tool_tail

\* The suffixes the server appends to a text say the answer, in any wording.
LEMMA SuffixTexts ==
    ASSUME NEW c \in Clients, NEW ans \in {"say", "cut", "call"}
    PROVE  /\ build_responses_visible_assistant_suffix(c, ans) \in Seq(TextSymbols)
           /\ Meaning(build_responses_visible_assistant_suffix(c, ans)) = <<ans>>
           /\ Len(build_responses_visible_assistant_suffix(c, ans)) >= 2
           /\ build_tool_checkpoint_suffix(c) \in Seq(TextSymbols)
           /\ Meaning(build_tool_checkpoint_suffix(c)) = <<"call">>
           /\ Meaning(<<ans, "eos">>) = <<ans>> /\ <<ans, "eos">> \in Seq(TextSymbols)
<1>1. ans \in TextSymbols /\ "eos" \in TextSymbols /\ "reason" \in TextSymbols /\ "call" \in TextSymbols
  BY DEF TextSymbols
<1>2. Saying(ans) = <<ans>> /\ Saying("eos") = <<>> /\ Saying("call") = <<"call">>
  BY SayingFacts
<1>3. <<ans>> \o <<>> = <<ans>> /\ <<"call">> \o <<>> = <<"call">>
      /\ <<>> \o <<ans>> = <<ans>> /\ <<>> \o <<"call">> = <<"call">>
  OBVIOUS
<1>4. PICK a \in Seq(TextSymbols), b \in Seq(TextSymbols) : a = <<ans, "eos">> /\ b = <<"call", "eos">>
  BY <1>1, MeaningOfTwo
<1>5. Meaning(a) = <<ans>> /\ Meaning(b) = <<"call">>
  BY <1>1, <1>2, <1>3, <1>4, MeaningOfTwo
<1>6. Meaning(<<"reason">>) = <<>> /\ <<"reason">> \in Seq(TextSymbols)
      /\ Meaning(<<>>) = <<>> /\ <<>> \in Seq(TextSymbols)
  BY <1>1, MeaningOfOne, MeaningMore, SayingFacts, EmptySeq
<1>7. PICK r \in Seq(TextSymbols) :
          /\ r = IF Profile[c].think /\ Profile[c].shows /\ ans = "call" THEN <<"reason">> ELSE <<>>
          /\ Meaning(r) = <<>>
  BY <1>6
<1>8. PICK q \in Seq(TextSymbols) :
          q = (IF Profile[c].think THEN <<"reason">> ELSE <<>>) /\ Meaning(q) = <<>>
  BY <1>6
<1>9. /\ Meaning(r \o a) = Meaning(r) \o Meaning(a) /\ r \o a \in Seq(TextSymbols)
      /\ Meaning(q \o b) = Meaning(q) \o Meaning(b) /\ q \o b \in Seq(TextSymbols)
  BY MeaningConcat, ConcatProperties
<1>10. Len(r \o a) = Len(r) + Len(a) /\ Len(r) \in Nat /\ Len(a) = 2
  BY <1>4, ConcatProperties, LenProperties
<1>11. build_responses_visible_assistant_suffix(c, ans) = r \o a
  BY <1>4, <1>7 DEF build_responses_visible_assistant_suffix
<1>12. build_tool_checkpoint_suffix(c) = q \o b
  BY <1>4, <1>8 DEF build_tool_checkpoint_suffix
<1>13. Meaning(r \o a) = <<ans>> /\ Len(r \o a) >= 2
  BY <1>3, <1>5, <1>7, <1>9, <1>10
<1>14. Meaning(q \o b) = <<"call">>
  BY <1>3, <1>5, <1>8, <1>9
<1>15. Meaning(<<ans, "eos">>) = <<ans>> /\ <<ans, "eos">> \in Seq(TextSymbols)
  BY <1>4, <1>5
<1> QED
  BY <1>9, <1>11, <1>12, <1>13, <1>14, <1>15

-----------------------------------------------------------------------------
(***************************************************************************)
(* A prompt that goes on from tokens whose key begins the text says what   *)
(* the text says.                                                          *)
(***************************************************************************)
Tells(prompt, text) ==
    /\ prompt \in Seq(Tokens)
    /\ Says(prompt) = Meaning(text)
    /\ Begun(prompt)

\* Tokens followed by what the text has after their key say what the text says.
LEMMA Continued ==
    ASSUME NEW tokens \in Seq(Tokens), NEW key \in Seq(TextSymbols), NEW text \in Seq(TextSymbols),
           Begins(tokens), Begun(text), Describes(key, tokens), IsPrefix(key, text)
    PROVE  Tells(tokens \o After(text, key), text)
<1>1. PICK rest \in Seq(TextSymbols) : rest = After(text, key) /\ text = key \o rest
  BY PrefixSplits
<1>2. Len(key) <= Len(text) /\ \A i \in 1..Len(key) : key[i] = text[i]
  BY PrefixSplits
<1>3. rest \in Seq(Tokens) /\ render_tokens_text(rest) = rest
  BY TextIsTokens
<1>4. PICK p \in Seq(Tokens) : p = tokens \o rest
  BY <1>3, ConcatProperties
<1>5. Says(p) = Says(tokens) \o Meaning(rest)
  BY <1>3, <1>4, SaysFacts
<1>6. Meaning(text) = Meaning(key) \o Meaning(rest)
  BY <1>1, MeaningConcat
<1>7. Len(text) >= Opening /\ text[Opening] \in Msgs /\ Opening \in 1..Len(text)
  BY TextFacts, LenProperties DEF Begun
<1>8. CASE key = render_tokens_text(tokens)
  <2>1. Says(p) = Meaning(text)
    BY <1>5, <1>6, <1>8 DEF Says
  <2>2. render_tokens_text(p) = text
    BY <1>1, <1>3, <1>4, <1>8, RenderConcat, ZenonT(60)
  <2>3. Len(p) = Len(text) /\ (text[Opening] \in Msgs <=> p[Opening] \in Msgs)
    <3>1. Len(p) = Len(text)
      BY <2>2, RenderAt
    <3>2. Opening \in 1..Len(p)
      BY <1>7, <3>1
    <3> QED
      BY <2>2, <3>1, <3>2, RenderAt
  <2> QED
    BY <1>1, <1>4, <1>7, <2>1, <2>3 DEF Tells, Begun
<1>9. CASE Names(key, tokens)
  <2>1. Len(tokens) >= Opening /\ Len(key) >= Opening + 2
    BY <1>9 DEF Names
  <2>2. Opening \in 1..Len(key) /\ Opening \in 1..Len(tokens)
    BY <2>1, TextFacts, LenProperties
  <2>3. key[Opening] \in Msgs
    BY <1>2, <1>7, <2>2
  <2>4. "result" \notin Msgs
    BY ProfileAssumption
  <2>5. Meaning(key) = Says(tokens)
    BY <1>9, <2>3, <2>4 DEF Names
  <2>6. tokens[Opening] \in Msgs
    BY <2>1 DEF Begins
  <2>7. Len(p) >= Opening /\ p[Opening] = tokens[Opening]
    BY <1>3, <1>4, <2>2, ConcatProperties, LenProperties
  <2> QED
    BY <1>1, <1>4, <1>5, <1>6, <2>5, <2>6, <2>7 DEF Tells, Begun
<1> QED
  BY <1>8, <1>9 DEF Describes

\* What a key that begins a whole conversation says.
LEMMA KeySays ==
    ASSUME NEW tokens \in Seq(Tokens), NEW key \in Seq(TextSymbols), NEW text \in Seq(TextSymbols),
           Begun(text), Describes(key, tokens), IsPrefix(key, text)
    PROVE  Meaning(key) = Says(tokens)
<1>1. Len(key) <= Len(text) /\ \A i \in 1..Len(key) : key[i] = text[i]
  BY PrefixSplits
<1>2. CASE key = render_tokens_text(tokens)
  BY <1>2 DEF Says
<1>3. CASE Names(key, tokens)
  <2>1. Opening \in 1..Len(key)
    BY <1>3, TextFacts, LenProperties DEF Names
  <2>2. key[Opening] \in Msgs
    BY <1>1, <2>1 DEF Begun
  <2>3. "result" \notin Msgs
    BY ProfileAssumption
  <2> QED
    BY <1>3, <2>2, <2>3 DEF Names
<1> QED
  BY <1>2, <1>3 DEF Describes

\* The first tokens of a prompt.
LEMMA FirstOf ==
    ASSUME NEW S, NEW s \in Seq(S), NEW n \in 0..Len(s), NEW t, t = SubSeq(s, 1, n)
    PROVE  /\ t \in Seq(S) /\ Len(t) = n
           /\ \A i \in 1..n : t[i] = s[i]
           /\ n = Len(s) => t = s
<1>1. Len(s) \in Nat /\ \A i \in 1..n : s[i] \in S
  BY LenProperties
<1>2. PICK m \in Int : m = 1
  OBVIOUS
<1>3. n \in Int /\ m \in Int /\ \A i \in m..n : s[i] \in S
  BY <1>1, <1>2
<1>4. t \in Seq(S) /\ Len(t) = n /\ \A i \in 1..n : t[i] = s[i]
  <2>1. /\ t \in Seq(S)
        /\ Len(t) = IF m <= n THEN n - m + 1 ELSE 0
        /\ \A i \in 1 .. n - m + 1 : t[i] = s[m + i - 1]
    BY <1>2, <1>3, SubSeqProperties
  <2> QED
    BY <1>2, <2>1
<1>5. n = Len(s) => t = s
  BY <1>4, SeqEqual
<1> QED
  BY <1>4, <1>5

\* The first tokens of a conversation begin as it does.
LEMMA FirstBegins ==
    ASSUME NEW s \in Seq(Tokens), NEW n \in 0..Len(s), Begins(s)
    PROVE  Begins(SubSeq(s, 1, n))
<1>1. PICK t : t = SubSeq(s, 1, n)
  OBVIOUS
<1>2. Len(t) = n /\ \A i \in 1..n : t[i] = s[i]
  BY <1>1, FirstOf
<1>3. ASSUME Len(t) >= Opening PROVE t[Opening] \in Msgs
  <2>1. Opening \in 1..n /\ Opening <= Len(s)
    BY <1>2, <1>3, TextFacts, LenProperties
  <2> QED
    BY <1>2, <2>1, TextFacts, LenProperties DEF Begins
<1> QED
  BY <1>1, <1>3 DEF Begins

\* A session that extends to the whole goal holds the goal.
LEMMA PrefixOfSameLength ==
    ASSUME NEW S, NEW s \in Seq(S), NEW t \in Seq(S), IsPrefix(s, t), Len(s) = Len(t)
    PROVE  s = t
BY PrefixSplits, SeqEqual

-----------------------------------------------------------------------------
(***************************************************************************)
(* Least and greatest numbers, and the common prefix of two sequences.     *)
(***************************************************************************)
LEMMA MinIn ==
    ASSUME NEW S, S \subseteq Nat, S # {}
    PROVE  Min(S) \in S
<1>1. \E m \in S : \A n \in S : m <= n
  BY LeastNumber
<1> QED
  BY <1>1 DEF Min

\* A bounded set of numbers that is not empty has a greatest one.
LEMMA MaxIn ==
    ASSUME NEW N \in Nat, NEW S, S \subseteq 0..N, S # {}
    PROVE  Max(S) \in S /\ \A n \in S : n <= Max(S)
<1> DEFINE T == {k \in Nat : N - k \in S}
<1>1. PICK x \in S : TRUE
  OBVIOUS
<1>2. x \in Nat /\ x <= N /\ N - x \in Nat /\ N - (N - x) = x
  BY <1>1
<1>3. T \subseteq Nat /\ N - x \in T
  BY <1>1, <1>2
<1>4. PICK m \in T : \A n \in T : m <= n
  <2> HIDE DEF T
  <2> QED
    BY <1>3, LeastNumber
<1>5. N - m \in S /\ m \in Nat
  BY <1>4
<1>6. ASSUME NEW n \in S PROVE N - m >= n
  <2>1. n \in Nat /\ n <= N /\ N - n \in Nat /\ N - (N - n) = n
    BY <1>6
  <2>2. N - n \in T
    BY <1>6, <2>1
  <2>3. m <= N - n
    BY <1>4, <2>2
  <2> QED
    BY <1>5, <2>1, <2>3
<1>7. Max(S) \in S /\ \A n \in S : Max(S) >= n
  BY <1>5, <1>6 DEF Max
<1>8. \A n \in S : n \in Nat
  OBVIOUS
<1> QED
  BY <1>7, <1>8

\* The common prefix is within both sequences, and they agree on it.
LEMMA CommonPrefixFacts ==
    ASSUME NEW S, NEW s \in Seq(S), NEW t \in Seq(S)
    PROVE  /\ CommonPrefix(s, t) \in 0..Len(s) /\ CommonPrefix(s, t) <= Len(t)
           /\ \A i \in 1..CommonPrefix(s, t) : s[i] = t[i]
<1> DEFINE C == {k \in 0..Len(s) : k <= Len(t) /\ \A i \in 1..k : s[i] = t[i]}
<1>1. Len(s) \in Nat /\ Len(t) \in Nat
  BY LenProperties
<1>2. 0 \in C /\ C \subseteq 0..Len(s)
  BY <1>1
<1>3. PICK n \in C : \A k \in C : k <= n
  <2> HIDE DEF C
  <2> QED
    BY <1>1, <1>2, MaxIn
<1>4. n \in 0..Len(s) /\ n <= Len(t) /\ \A i \in 1..n : s[i] = t[i]
  BY <1>3
<1>5. SubSeq(s, 1, n) = SubSeq(t, 1, n)
  <2>1. PICK a, b : a = SubSeq(s, 1, n) /\ b = SubSeq(t, 1, n)
    OBVIOUS
  <2>2. n \in 0..Len(t)
    BY <1>1, <1>4
  <2>3. a \in Seq(S) /\ Len(a) = n /\ \A i \in 1..n : a[i] = s[i]
    BY <1>4, <2>1, FirstOf
  <2>4. b \in Seq(S) /\ Len(b) = n /\ \A i \in 1..n : b[i] = t[i]
    BY <2>1, <2>2, FirstOf
  <2> QED
    BY <1>4, <2>1, <2>3, <2>4, SeqEqual
<1>6. n < Len(s) /\ n < Len(t) => s[n + 1] # t[n + 1]
  <2> SUFFICES ASSUME n < Len(s), n < Len(t), s[n + 1] = t[n + 1] PROVE FALSE
    OBVIOUS
  <2>1. n + 1 \in 0..Len(s) /\ n + 1 <= Len(t) /\ \A i \in 1..(n + 1) : s[i] = t[i]
    <3>1. \A i \in 1..(n + 1) : i \in 1..n \/ i = n + 1
      BY <1>4
    <3> QED
      BY <1>1, <1>4, <3>1
  <2>2. n + 1 <= n
    BY <1>3, <2>1
  <2> QED
    BY <1>4, <2>2
<1>7. PICK c : c = CommonPrefix(s, t)
  OBVIOUS
<1>8. c \in 0..Len(s) /\ c <= Len(t) /\ SubSeq(s, 1, c) = SubSeq(t, 1, c)
  BY <1>4, <1>5, <1>6, <1>7 DEF CommonPrefix
<1>9. \A i \in 1..c : s[i] = t[i]
  <2>1. PICK a, b : a = SubSeq(s, 1, c) /\ b = SubSeq(t, 1, c)
    OBVIOUS
  <2>2. c \in 0..Len(t)
    BY <1>1, <1>8
  <2>3. \A i \in 1..c : a[i] = s[i]
    BY <1>8, <2>1, FirstOf
  <2>4. \A i \in 1..c : b[i] = t[i]
    BY <2>1, <2>2, FirstOf
  <2> QED
    BY <1>8, <2>1, <2>3, <2>4
<1> QED
  BY <1>7, <1>8, <1>9

-----------------------------------------------------------------------------
(***************************************************************************)
(* Saving the session: the disk keeps its size, and its keys keep telling  *)
(* what their payloads are.                                                *)
(***************************************************************************)
LEMMA ConstantFacts ==
    /\ Ctx \in Nat \ {0} /\ MinTokens \in Nat \ {0} /\ Chunk \in Nat \ {0} /\ ResumeMin \in Nat \ {0}
    /\ ColdMax \in Nat /\ Trim \in Nat /\ Align \in Nat /\ Interval \in Nat
    /\ DiskSlots \in Nat /\ MaxJobs \in Nat /\ MaxFaults \in Nat
BY LiveSessionAssumption

\* A store keeps the disk's type and, under a key that describes the tokens, its soundness.
LEMMA StoreKeeps ==
    ASSUME NEW D, DiskType(D), NEW s, SessionType(s), NEW text \in Seq(TextSymbols),
           NEW K \in kv_cache_store_live_prefix_text(D, s, text)
    PROVE  /\ DiskType(K)
           /\ SoundDisk(D) /\ Begins(s.tokens) /\ Describes(text, s.tokens) => SoundDisk(K)
           /\ CanStore(s) => \E e \in K : e.text = text
<1>1. CASE ~CanStore(s) \/ \E e \in D : e.text = text
  <2>1. K = D
    BY <1>1 DEF kv_cache_store_live_prefix_text
  <2> QED
    BY <1>1, <2>1
<1>2. CASE ~(~CanStore(s) \/ \E e \in D : e.text = text)
  <2>1. PICK x : x = [text |-> text, tokens |-> s.tokens]
    OBVIOUS
  <2>2. PICK keep : keep = IF Cardinality(D) < DiskSlots THEN Cardinality(D) ELSE DiskSlots - 1
    OBVIOUS
  <2>3. K \in {L \cup {x} : L \in {M \in SUBSET D : Cardinality(M) = keep}}
    BY <1>2, <2>1, <2>2 DEF kv_cache_store_live_prefix_text
  <2>4. PICK L \in SUBSET D : Cardinality(L) = keep /\ K = L \cup {x}
    BY <2>3
  <2>5. IsFiniteSet(D) /\ Cardinality(D) \in Nat /\ IsFiniteSet(L)
    BY <2>4, FS_CardinalityType, FS_Subset DEF DiskType
  <2>6. /\ IsFiniteSet(L \cup {x})
        /\ Cardinality(L \cup {x}) = IF x \in L THEN Cardinality(L) ELSE Cardinality(L) + 1
    BY <2>5, FS_AddElement
  <2>7. DiskSlots > 0 /\ DiskSlots \in Nat
    BY <1>2, ConstantFacts DEF CanStore, KvEnabled
  <2>8. Cardinality(K) <= DiskSlots
    <3>1. keep \in Nat /\ keep + 1 <= DiskSlots
      BY <2>2, <2>5, <2>7
    <3> QED
      BY <2>4, <2>6, <2>7, <3>1
  <2>9. x \in Entries /\ Len(x.tokens) <= Ctx /\ x.text = text /\ x.tokens = s.tokens
    BY <2>1 DEF Entries, SessionType, Sessions
  <2>10. DiskType(K)
    BY <2>4, <2>6, <2>8, <2>9 DEF DiskType
  <2>11. ASSUME SoundDisk(D), Begins(s.tokens), Describes(text, s.tokens)
         PROVE  SoundDisk(K)
    BY <2>4, <2>9, <2>11 DEF SoundDisk
  <2>12. x \in K
    BY <2>4
  <2> QED
    BY <2>9, <2>10, <2>11, <2>12
<1> QED
  BY <1>1, <1>2

\* The same for a store under the session's own text.
LEMMA StoreLive ==
    ASSUME NEW D, DiskType(D), NEW s, SessionType(s), NEW K \in kv_cache_store_live_prefix(D, s)
    PROVE  /\ DiskType(K)
           /\ SoundDisk(D) /\ Begins(s.tokens) => SoundDisk(K)
           /\ CanStore(s) => \E e \in K : e.text = render_tokens_text(s.tokens)
<1>1. PICK text : text = render_tokens_text(s.tokens)
  OBVIOUS
<1>2. s.tokens \in Seq(Tokens)
  BY DEF SessionType, Sessions
<1>3. text \in Seq(TextSymbols) /\ Describes(text, s.tokens)
  BY <1>1, <1>2, RenderAt DEF Describes
<1>4. K \in kv_cache_store_live_prefix_text(D, s, text)
  BY <1>1 DEF kv_cache_store_live_prefix
<1> QED
  BY <1>1, <1>3, <1>4, StoreKeeps

\* The same for a continued store.
LEMMA ContinuedStores ==
    ASSUME NEW D, DiskType(D), NEW s, SessionType(s), NEW l \in 0..Ctx,
           NEW saved \in kv_cache_maybe_store_continued(D, l, s)
    PROVE  /\ DiskType(saved[1])
           /\ saved[2] \in 0..Ctx
           /\ SoundDisk(D) /\ Begins(s.tokens) => SoundDisk(saved[1])
<1>1. CASE saved = <<D, l>>
  BY <1>1
<1>2. CASE saved # <<D, l>>
  <2>1. PICK K \in kv_cache_store_live_prefix(D, s) :
            saved = <<K, kv_cache_note_store(l, Len(s.tokens))>>
    BY <1>2 DEF kv_cache_maybe_store_continued
  <2>2. Len(s.tokens) \in 0..Ctx
    BY LenProperties DEF SessionType, Sessions
  <2>3. saved[1] = K /\ saved[2] \in 0..Ctx
    BY <2>1, <2>2 DEF kv_cache_note_store
  <2> QED
    BY <2>3, StoreLive
<1> QED
  BY <1>1, <1>2

\* The session is saved under the text of a binding at its frontier, or under its own.
LEMMA StoreCurrent ==
    ASSUME DiskType(disk), SessionType(session), BindingsType,
           NEW K \in kv_cache_store_current(disk, session)
    PROVE  /\ DiskType(K)
           /\ SoundDisk(disk) /\ Begins(session.tokens) /\ Bound => SoundDisk(K)
           /\ CanStore(session) /\ Bound /\ ~NamesLastTurnOnly =>
                 \E e \in K : Meaning(e.text) = Says(session.tokens)
<1> DEFINE keyed(b) == b.valid /\ b.live_tokens = Len(session.tokens) /\ b.visible # <<>>
<1>1. resp.visible \in Seq(TextSymbols) /\ thnk.visible \in Seq(TextSymbols)
  BY DEF BindingsType, BindingType
<1>2. CASE keyed(resp)
  <2>1. K \in kv_cache_store_live_prefix_text(disk, session, resp.visible)
    BY <1>2 DEF kv_cache_store_current
  <2>2. Bound => Names(resp.visible, session.tokens)
    BY <1>2 DEF Bound, BoundBy
  <2>3. ASSUME Bound, ~NamesLastTurnOnly
        PROVE  Meaning(resp.visible) = Says(session.tokens)
    <3>1. resp.visible[Opening] # "result"
      BY <1>2, <2>3 DEF NamesLastTurnOnly, AtFrontier, ds4_session_pos, Opening
    <3> QED
      BY <2>2, <2>3, <3>1 DEF Names
  <2>4. /\ DiskType(K)
        /\ SoundDisk(disk) /\ Begins(session.tokens) /\ Describes(resp.visible, session.tokens) => SoundDisk(K)
        /\ CanStore(session) => \E e \in K : e.text = resp.visible
    BY <1>1, <2>1, StoreKeeps
  <2> QED
    BY <2>2, <2>3, <2>4 DEF Describes
<1>3. CASE ~keyed(resp) /\ keyed(thnk)
  <2>1. K \in kv_cache_store_live_prefix_text(disk, session, thnk.visible)
    BY <1>3 DEF kv_cache_store_current
  <2>2. Bound => /\ Names(thnk.visible, session.tokens)
                                 /\ thnk.visible[Opening] \in Msgs
    BY <1>3 DEF Bound, BoundBy
  <2>3. "result" \notin Msgs
    BY ProfileAssumption
  <2>4. Bound => Meaning(thnk.visible) = Says(session.tokens)
    BY <2>2, <2>3 DEF Names
  <2>5. /\ DiskType(K)
        /\ SoundDisk(disk) /\ Begins(session.tokens) /\ Describes(thnk.visible, session.tokens) => SoundDisk(K)
        /\ CanStore(session) => \E e \in K : e.text = thnk.visible
    BY <1>1, <2>1, StoreKeeps
  <2> QED
    BY <2>2, <2>4, <2>5 DEF Describes
<1>4. CASE ~keyed(resp) /\ ~keyed(thnk)
  <2>1. K \in kv_cache_store_live_prefix(disk, session)
    BY <1>4 DEF kv_cache_store_current
  <2> QED
    BY <2>1, StoreLive DEF Says
<1> QED
  BY <1>2, <1>3, <1>4

\* Saving the session first leaves a key that says all it held.
LEMMA SavedFirstKeeps ==
    ASSUME DiskType(disk), SessionType(session), BindingsType, NEW K \in SavedFirst,
           NEW sound \in BOOLEAN,
           sound => SoundDisk(disk) /\ Begins(session.tokens)
                        /\ (ds4_session_pos > 0 => Bound)
    PROVE  /\ DiskType(K)
           /\ sound => SoundDisk(K)
           /\ sound /\ CanStore(session) /\ ~NamesLastTurnOnly =>
                 \E e \in K : Meaning(e.text) = Says(session.tokens)
<1>1. ds4_session_pos \in Nat /\ MinTokens \in Nat \ {0}
  BY ConstantFacts, LenProperties DEF ds4_session_pos, SessionType, Sessions
<1>2. CASE ds4_session_pos >= MinTokens
  <2>1. K \in kv_cache_store_current(disk, session)
    BY <1>2 DEF SavedFirst
  <2>2. sound => Bound
    BY <1>1, <1>2
  <2> QED
    BY <2>1, <2>2, StoreCurrent
<1>3. CASE ~(ds4_session_pos >= MinTokens)
  <2>1. K = disk
    BY <1>3 DEF SavedFirst
  <2>2. ~CanStore(session)
    BY <1>3 DEF CanStore, ds4_session_pos
  <2> QED
    BY <2>1, <2>2
<1> QED
  BY <1>2, <1>3

-----------------------------------------------------------------------------
(***************************************************************************)
(* A job at the start of its prefill.                                      *)
(***************************************************************************)
LEMMA AnchorBound ==
    ASSUME NEW prompt \in Seq(Tokens), kv_cache_chat_anchor_pos(prompt) >= MinTokens
    PROVE  kv_cache_chat_anchor_pos(prompt) \in 0..Len(prompt)
<1> DEFINE said == {i \in DOMAIN prompt : prompt[i] \in Msgs \cup {"result"}}
           users == {i \in said : \A k \in 1..i : prompt[k] \in Msgs \cup {"sys", "result"}}
<1>1. Len(prompt) \in Nat /\ users \subseteq 0..Len(prompt) /\ \A i \in users : i >= 1
  BY LenProperties
<1>2. kv_cache_chat_anchor_pos(prompt) = IF users # {} /\ Max(users) > MinTokens THEN Max(users) - 1 ELSE -1
  BY DEF kv_cache_chat_anchor_pos
<1> HIDE DEF users
<1>3. CASE users # {} /\ Max(users) > MinTokens
  <2>1. Max(users) \in users
    BY <1>1, <1>3, MaxIn
  <2>2. PICK m \in 0..Len(prompt) : m = Max(users) /\ m >= 1
    BY <1>1, <2>1
  <2>3. kv_cache_chat_anchor_pos(prompt) = m - 1
    BY <1>2, <1>3, <2>2
  <2> QED
    BY <1>1, <2>2, <2>3
<1>4. CASE ~(users # {} /\ Max(users) > MinTokens)
  BY <1>2, <1>4, ConstantFacts
<1> QED
  BY <1>3, <1>4

\* kv_cache_store_len trims and aligns, and never grows.
LEMMA StoreLenBound ==
    ASSUME NEW n \in Nat
    PROVE  kv_cache_store_len(n) \in 0..n
<1>1. PICK stable : stable = n - Trim
  OBVIOUS
<1>2. PICK aligned : aligned = IF Align > 0 THEN stable - (stable % Align) ELSE stable
  OBVIOUS
<1>3. kv_cache_store_len(n) = IF n > MinTokens + Trim /\ aligned >= MinTokens THEN aligned ELSE n
  BY <1>1, <1>2 DEF kv_cache_store_len
<1>4. CASE n > MinTokens + Trim /\ aligned >= MinTokens
  <2>1. stable \in Nat /\ stable <= n
    BY <1>1, <1>4, ConstantFacts
  <2>2. Align > 0 => stable % Align \in Nat
    BY <2>1, ConstantFacts
  <2>3. aligned \in Int /\ aligned <= n
    BY <1>2, <2>1, <2>2
  <2> QED
    BY <1>3, <1>4, <2>3, ConstantFacts
<1>5. CASE ~(n > MinTokens + Trim /\ aligned >= MinTokens)
  BY <1>3, <1>5
<1> QED
  BY <1>4, <1>5

\* The cold prefix is within the prompt.
LEMMA ColdLenBound ==
    ASSUME NEW prompt \in Seq(Tokens)
    PROVE  ColdLen(prompt) \in 0..Len(prompt)
<1>1. Len(prompt) \in Nat
  BY LenProperties
<1> QED
  BY <1>1, AnchorBound, StoreLenBound DEF ColdLen

Starts(j, r, source, prompt) ==
    /\ j \in Jobs
    /\ j.c = r.c /\ j.r = r /\ j.source = source /\ j.prompt = prompt
    /\ j.out = <<>> /\ j.turns = <<>>
    /\ j.goal <= Len(prompt) /\ j.cold <= Len(prompt)
    /\ j.goal < Len(prompt) => j.goal = j.cold

Sources == {"none", "disk-text", "responses-visible", "responses-tool-output",
            "anthropic-tool-output", "memory-token", "thinking-visible", "memory-text"}

\* Whether a sync goes chunk by chunk is known.
LEMMA InChunksOrNot ==
    ASSUME NEW s, NEW prompt
    PROVE  InChunks(s, prompt) \in BOOLEAN
<1>1. CASE s.valid /\ IsPrefix(s.tokens, prompt)
  <2>1. InChunks(s, prompt) = (Len(prompt) - Len(s.tokens) >= ResumeMin)
    BY <1>1 DEF InChunks
  <2> QED
    BY <2>1
<1>2. CASE ~(s.valid /\ IsPrefix(s.tokens, prompt))
  <2>1. InChunks(s, prompt) = (Len(prompt) > Chunk)
    BY <1>2 DEF InChunks
  <2> QED
    BY <2>1
<1> QED
  BY <1>1, <1>2

\* What Start sets up.
LEMMA StartFacts ==
    ASSUME NEW r \in Requests, NEW source \in Sources, NEW s, SessionType(s),
           NEW prompt \in Seq(Tokens), NEW cached \in Nat
    PROVE  Starts(Start(r, source, s, prompt, cached), r, source, prompt)
<1>1. PICK cold : cold = IF cached = 0 THEN ColdLen(prompt) ELSE 0
  OBVIOUS
<1>2. PICK goal : goal = IF cold > 0 /\ cold < Len(prompt) THEN cold ELSE Len(prompt)
  OBVIOUS
<1>3. PICK chunked : chunked = InChunks(s, SubSeq(prompt, 1, goal))
  OBVIOUS
<1>4. PICK suppressed : suppressed = IF kv_cache_continued_store_target(0, cold) > 0 THEN 0 ELSE -1
  OBVIOUS
<1>5. PICK out \in Seq(Tokens), turns \in Seq(Turns) : out = <<>> /\ turns = <<>>
  BY EmptySeq
<1>6. PICK j : j = [c |-> r.c, r |-> r, source |-> source, prompt |-> prompt, cached |-> cached,
                    cold |-> cold, suppressed |-> suppressed, goal |-> goal, chunked |-> chunked,
                    out |-> out, turns |-> turns]
  OBVIOUS
<1>7. Start(r, source, s, prompt, cached) = j
  BY <1>1, <1>2, <1>3, <1>4, <1>5, <1>6 DEF Start
<1>8. Len(prompt) \in Nat /\ cold \in Nat /\ cold <= Len(prompt)
  BY <1>1, ColdLenBound, LenProperties
<1>9. goal \in Nat /\ goal <= Len(prompt) /\ (goal < Len(prompt) => goal = cold)
  BY <1>2, <1>8
<1>10. chunked \in BOOLEAN
  BY <1>3, InChunksOrNot
<1>11. suppressed \in {0, -1}
  BY <1>4
<1>12. r.c \in Clients
  BY DEF Requests
<1>13. j \in Jobs
  BY <1>6, <1>8, <1>9, <1>10, <1>11, <1>12 DEF Jobs, Sources
<1>14. /\ j.c = r.c /\ j.r = r /\ j.source = source /\ j.prompt = prompt
       /\ j.out = out /\ j.turns = turns /\ j.goal = goal /\ j.cold = cold
  BY <1>6
<1> QED
  BY <1>5, <1>7, <1>8, <1>9, <1>13, <1>14 DEF Starts

\* A job is a record, and no record is the empty sequence.
LEMMA JobIsSome == \A j \in Jobs : j # NoJob
<1> SUFFICES ASSUME NEW j \in Jobs, j = <<>> PROVE FALSE
  BY DEF NoJob
<1>1. "c" \in DOMAIN j
  BY DEF Jobs
<1>2. DOMAIN <<>> = {}
  OBVIOUS
<1> QED
  BY <1>1, <1>2

-----------------------------------------------------------------------------
(***************************************************************************)
(* The requests and histories after a step.                                *)
(***************************************************************************)
LEMMA SameRequest ==
    ASSUME Active, Active', client' = client, queue' = queue, jobs' = jobs,
           job'.r = job.r, job'.c = job.c, job'.turns = job.turns, Asked, Fresh
    PROVE  Asked' /\ Fresh' /\ Histories' = Histories
<1>1. Past' = Past /\ Histories' = Histories
  BY DEF Past, Histories
<1>2. Asked'
  BY DEF Asked
<1>3. Fresh'
  BY <1>1 DEF Fresh
<1> QED
  BY <1>1, <1>2, <1>3

\* The head of a queue, and what stays in it.
LEMMA HeadAndTail ==
    ASSUME NEW S, NEW s \in Seq(S), s # <<>>
    PROVE  /\ Head(s) = s[1] /\ 1 \in DOMAIN s /\ Head(s) \in S
           /\ Tail(s) \in Seq(S)
           /\ \A i \in DOMAIN Tail(s) : i + 1 \in DOMAIN s /\ Tail(s)[i] = s[i + 1] /\ i \in Nat /\ i >= 1
<1>1. /\ Head(s) \in S /\ Tail(s) \in Seq(S) /\ Len(Tail(s)) = Len(s) - 1
      /\ \A i \in 1 .. Len(Tail(s)) : Tail(s)[i] = s[i + 1]
  BY HeadTailProperties
<1>2. Len(s) \in Nat /\ Len(s) # 0 /\ DOMAIN s = 1..Len(s) /\ DOMAIN Tail(s) = 1..Len(Tail(s))
  BY <1>1, LenProperties, EmptySeq
<1>3. Head(s) = s[1]
  OBVIOUS
<1> QED
  BY <1>1, <1>2, <1>3

\* Taking the head request keeps what is asked and how fresh its id is.
LEMMA TakesHead ==
    ASSUME phase = "idle", phase' = "prefill", queue \in Seq(Requests), queue # <<>>,
           client' = client, queue' = Tail(queue), jobs' = jobs,
           job'.r = Head(queue), job'.c = Head(queue).c, job'.turns = <<>>, Asked, Fresh
    PROVE  Asked' /\ Fresh'
<1>1. /\ Head(queue) = queue[1] /\ 1 \in DOMAIN queue
      /\ \A i \in DOMAIN queue' : i + 1 \in DOMAIN queue /\ queue'[i] = queue[i + 1] /\ i \in Nat /\ i >= 1
  BY HeadAndTail
<1>2. Active' /\ ~Active
  BY DEF Active
<1>3. Asked'
  <2>1. \A c \in Clients : History(c, client'[c].turns)
    BY DEF Asked
  <2>2. \A i \in DOMAIN queue' : WellAsked(queue'[i])
    BY <1>1 DEF Asked
  <2>3. WellAsked(job'.r) /\ job'.c = job'.r.c
    BY <1>1 DEF Asked
  <2>4. History(job'.c, job'.turns)
    <3>1. DOMAIN <<>> = {}
      OBVIOUS
    <3> QED
      BY <3>1 DEF History
  <2> QED
    BY <2>1, <2>2, <2>3, <2>4 DEF Asked
<1>4. Past' \subseteq Past
  <2>1. Past' = {client[c].turns : c \in Clients} \cup {queue'[i].turns : i \in DOMAIN queue'}
                   \cup {job'.r.turns}
    BY <1>2 DEF Past
  <2>2. \A i \in DOMAIN queue' : queue'[i].turns \in Past
    BY <1>1 DEF Past
  <2>3. job'.r.turns \in Past
    BY <1>1 DEF Past
  <2>4. {client[c].turns : c \in Clients} \subseteq Past
    BY DEF Past
  <2> QED
    BY <2>1, <2>2, <2>3, <2>4
<1>5. Fresh'
  <2>1. \A i \in DOMAIN queue' : queue'[i].id \in 1..jobs'
    BY <1>1 DEF Fresh
  <2>2. \A i, j \in DOMAIN queue' : queue'[i].id = queue'[j].id => i = j
    <3> SUFFICES ASSUME NEW i \in DOMAIN queue', NEW j \in DOMAIN queue', queue'[i].id = queue'[j].id
                 PROVE  i = j
      OBVIOUS
    <3>1. i + 1 \in DOMAIN queue /\ j + 1 \in DOMAIN queue /\ queue[i + 1].id = queue[j + 1].id
      BY <1>1
    <3>2. i + 1 = j + 1 /\ i \in Nat /\ j \in Nat
      BY <1>1, <3>1 DEF Fresh
    <3> QED
      BY <3>2
  <2>3. ASSUME NEW turns \in Past', NEW k \in DOMAIN turns
        PROVE  /\ turns[k].id <= jobs'
               /\ \A i \in DOMAIN queue' : turns[k].id # queue'[i].id
               /\ Active' => turns[k].id # job'.r.id
    <3>1. turns \in Past
      BY <1>4
    <3> QED
      BY <1>1, <3>1 DEF Fresh
  <2>4. Active' => /\ job'.r.id \in 1..jobs'
                   /\ \A i \in DOMAIN queue' : queue'[i].id # job'.r.id
                   /\ \A id \in Ids(job'.turns) : id \in Ids(job'.r.turns) \cup {0, job'.r.id}
    <3>1. job'.r.id \in 1..jobs'
      BY <1>1 DEF Fresh
    <3>2. ASSUME NEW i \in DOMAIN queue', queue'[i].id = job'.r.id PROVE FALSE
      <4>1. i + 1 \in DOMAIN queue /\ queue[i + 1].id = queue[1].id /\ i \in Nat /\ i >= 1
        BY <1>1, <3>2
      <4>2. i + 1 = 1
        BY <1>1, <4>1 DEF Fresh
      <4> QED
        BY <4>1, <4>2
    <3>3. Ids(job'.turns) = {}
      <4>1. DOMAIN <<>> = {}
        OBVIOUS
      <4> QED
        BY <4>1 DEF Ids
    <3> QED
      BY <3>1, <3>2, <3>3
  <2> QED
    BY <2>1, <2>2, <2>3, <2>4 DEF Fresh
<1> QED
  BY <1>3, <1>5

\* A step that ends between two jobs and makes no history.
LEMMA FewerHistories ==
    ASSUME phase' = "idle", jobs' = jobs, queue \in Seq(Requests),
           queue' = queue \/ (queue # <<>> /\ queue' = Tail(queue)),
           \A c \in Clients : client'[c].turns \in Histories /\ History(c, client'[c].turns),
           jobs \in Nat, Asked, Fresh
    PROVE  Asked' /\ Fresh' /\ Histories' \subseteq Histories
<1>1. \E d \in {0, 1} : \A i \in DOMAIN queue' : i + d \in DOMAIN queue /\ queue'[i] = queue[i + d] /\ i \in Nat
  <2>1. CASE queue' = queue
    <3>1. \A i \in DOMAIN queue' : i + 0 \in DOMAIN queue /\ queue'[i] = queue[i + 0] /\ i \in Nat
      BY <2>1, LenProperties
    <3> QED
      BY <3>1
  <2>2. CASE queue # <<>> /\ queue' = Tail(queue)
    <3>1. \A i \in DOMAIN queue' : i + 1 \in DOMAIN queue /\ queue'[i] = queue[i + 1] /\ i \in Nat
      BY <2>2, HeadAndTail
    <3> QED
      BY <3>1
  <2> QED
    BY <2>1, <2>2
<1>2. PICK d \in {0, 1} : \A i \in DOMAIN queue' :
          i + d \in DOMAIN queue /\ queue'[i] = queue[i + d] /\ i \in Nat
  BY <1>1
<1>3. ~Active'
  BY DEF Active
<1>4. Past' = {client'[c].turns : c \in Clients} \cup {queue'[i].turns : i \in DOMAIN queue'}
      /\ Histories' = Past'
  BY <1>3 DEF Past, Histories
<1>5. \A i \in DOMAIN queue' : queue'[i].turns \in Past
  BY <1>2 DEF Past
<1>6. Histories' \subseteq Histories
  BY <1>4, <1>5 DEF Histories
<1>7. Asked'
  <2>1. \A i \in DOMAIN queue' : WellAsked(queue'[i])
    BY <1>2 DEF Asked
  <2> QED
    BY <1>3, <2>1 DEF Asked
<1>8. \A turns \in Histories : \A k \in DOMAIN turns :
          turns[k].id <= jobs /\ \A i \in DOMAIN queue : turns[k].id # queue[i].id
  <2> SUFFICES ASSUME NEW turns \in Histories, NEW k \in DOMAIN turns
               PROVE  turns[k].id <= jobs /\ \A i \in DOMAIN queue : turns[k].id # queue[i].id
    OBVIOUS
  <2>1. CASE turns \in Past
    BY <2>1 DEF Fresh
  <2>2. CASE Active /\ turns = job.turns
    <3>1. turns[k].id \in Ids(job.turns)
      BY <2>2 DEF Ids
    <3>2. turns[k].id \in Ids(job.r.turns) \cup {0, job.r.id} /\ job.r.id \in 1..jobs
          /\ \A i \in DOMAIN queue : queue[i].id # job.r.id /\ queue[i].id \in 1..jobs
      BY <2>2, <3>1 DEF Fresh
    <3>3. CASE turns[k].id \in Ids(job.r.turns)
      <4>1. PICK m \in DOMAIN job.r.turns : job.r.turns[m].id = turns[k].id
        BY <3>3 DEF Ids
      <4>2. job.r.turns \in Past
        BY <2>2 DEF Past
      <4>3. /\ job.r.turns[m].id <= jobs
            /\ \A i \in DOMAIN queue : job.r.turns[m].id # queue[i].id
        BY <4>2 DEF Fresh
      <4> QED
        BY <4>1, <4>3
    <3>4. CASE turns[k].id \in {0, job.r.id}
      BY <3>2, <3>4
    <3> QED
      BY <3>2, <3>3, <3>4
  <2> QED
    BY <2>1, <2>2 DEF Histories
<1>9. Fresh'
  <2>1. \A i \in DOMAIN queue' : queue'[i].id \in 1..jobs'
    BY <1>2 DEF Fresh
  <2>2. \A i, j \in DOMAIN queue' : queue'[i].id = queue'[j].id => i = j
    <3> SUFFICES ASSUME NEW i \in DOMAIN queue', NEW j \in DOMAIN queue', queue'[i].id = queue'[j].id
                 PROVE  i = j
      OBVIOUS
    <3>1. i + d \in DOMAIN queue /\ j + d \in DOMAIN queue /\ queue[i + d].id = queue[j + d].id
      BY <1>2
    <3>2. i + d = j + d /\ i \in Nat /\ j \in Nat
      BY <1>2, <3>1 DEF Fresh
    <3> QED
      BY <3>2
  <2>3. ASSUME NEW turns \in Past', NEW k \in DOMAIN turns
        PROVE  /\ turns[k].id <= jobs'
               /\ \A i \in DOMAIN queue' : turns[k].id # queue'[i].id
    <3>1. turns \in Histories
      BY <1>4, <1>6
    <3> QED
      BY <1>2, <1>8, <3>1
  <2> QED
    BY <1>3, <2>1, <2>2, <2>3 DEF Fresh
<1> QED
  BY <1>6, <1>7, <1>9

\* The turn a job ends with.
LEMMA TurnFacts ==
    ASSUME job \in Jobs, NEW ans \in {"say", "cut", "call"}
    PROVE  /\ Turn(ans) \in Seq(Turns)
           /\ Said(Turn(ans)) = Append(Said(job.r.turns), job.r.ask) \o <<ans>>
           /\ Len(Turn(ans)) = Len(job.r.turns) + 1 /\ Len(job.r.turns) \in Nat
           /\ \A k \in 1..Len(job.r.turns) : Turn(ans)[k] = job.r.turns[k]
           /\ Turn(ans)[Len(job.r.turns) + 1].ask = job.r.ask
           /\ Turn(ans)[Len(job.r.turns) + 1].ans = ans
           /\ Turn(ans)[Len(job.r.turns) + 1].id = IF ans = "call" THEN job.r.id ELSE 0
<1>1. job.r \in Requests
  BY DEF Jobs
<1>2. job.r.turns \in Seq(Turns) /\ job.r.ask \in Msgs \cup {"result"} /\ job.r.id \in Nat
  BY <1>1 DEF Requests
<1>3. PICK turns \in Seq(Turns), ask \in Msgs \cup {"result"}, id \in Nat :
          turns = job.r.turns /\ ask = job.r.ask /\ id = IF ans = "call" THEN job.r.id ELSE 0
  BY <1>2
<1>4. PICK t : t = [ask |-> ask, ans |-> ans, id |-> id]
  OBVIOUS
<1>5. t \in Turns /\ t.ask = ask /\ t.ans = ans /\ t.id = id
  BY <1>4 DEF Turns
<1>6. PICK new \in Seq(Turns) : new = Append(turns, t) /\ new = Turn(ans)
  BY <1>3, <1>4, <1>5, AppendProperties DEF Turn
<1>7. PICK n \in Nat : n = Len(turns)
  BY LenProperties
<1>8. Len(new) = n + 1 /\ new[n + 1] = t /\ \A k \in 1..n : new[k] = turns[k]
  <2>1. /\ Len(Append(turns, t)) = Len(turns) + 1
        /\ \A i \in 1..Len(turns) : Append(turns, t)[i] = turns[i]
        /\ Append(turns, t)[Len(turns) + 1] = t
    BY <1>5, AppendProperties
  <2> QED
    BY <1>6, <1>7, <2>1
<1>9. Said(new) = Append(Said(turns), ask) \o <<ans>>
  <2>1. Said(new) = Said(turns) \o <<ask, ans>>
    BY <1>5, <1>6, SaidMore
  <2>2. PICK u \in Seq(TextSymbols) : u = Said(turns)
    BY SaidMore
  <2>3. ask \in TextSymbols /\ ans \in TextSymbols
    BY DEF TextSymbols
  <2>4. PICK a \in Seq(TextSymbols), b \in Seq(TextSymbols) : a = <<ask>> /\ b = <<ans>>
    BY <2>3, MeaningOfOne
  <2>5. a \o b = <<ask, ans>>
    BY <2>3, <2>4, OneThenOne
  <2>6. (u \o a) \o b = u \o (a \o b)
    BY TextsJoin, ZenonT(40)
  <2>7. Append(u, ask) = u \o a
    BY <2>3, <2>4, AppendIsConcat
  <2> QED
    BY <2>1, <2>2, <2>4, <2>5, <2>6, <2>7
<1> QED
  BY <1>3, <1>5, <1>6, <1>7, <1>8, <1>9

\* A finished turn joins the histories with the id of its own request only.
LEMMA EndsTurn ==
    ASSUME job \in Jobs, NEW ans \in {"say", "cut", "call"}, ans = "call" => Profile[job.c].tools,
           Active, Active', client' = client, queue' = queue, jobs' = jobs,
           job'.r = job.r, job'.c = job.c, job'.turns = Turn(ans), Asked, Fresh
    PROVE  Asked' /\ Fresh' /\ Past' = Past /\ Histories' = Past \cup {Turn(ans)}
<1>1. Past' = Past
  BY DEF Past
<1>2. Histories' = Past \cup {Turn(ans)}
  BY <1>1 DEF Histories
<1>3. PICK n \in Nat : n = Len(job.r.turns)
  BY TurnFacts
<1>4. PICK new \in Seq(Turns), turns \in Seq(Turns) : new = Turn(ans) /\ turns = job.r.turns
  BY TurnFacts DEF Jobs, Requests
<1>5. DOMAIN new = 1..(n + 1) /\ DOMAIN turns = 1..n
  <2>1. Len(new) = n + 1
    BY <1>3, <1>4, TurnFacts
  <2> QED
    BY <1>3, <1>4, <2>1, LenProperties
<1>6. /\ \A k \in 1..n : new[k] = turns[k]
      /\ new[n + 1].ask = job.r.ask /\ new[n + 1].ans = ans
      /\ new[n + 1].id = IF ans = "call" THEN job.r.id ELSE 0
  BY <1>3, <1>4, TurnFacts
<1>7. History(job.c, turns) /\ (turns = <<>> => job.r.ask \in Msgs)
  BY <1>4 DEF Asked, WellAsked
<1>8. History(job.c, new)
  <2>1. new[1].ask \in Msgs
    <3>1. CASE turns = <<>>
      BY <1>3, <1>4, <1>6, <1>7, <3>1
    <3>2. CASE turns # <<>>
      <4>1. 1 \in 1..n
        BY <1>3, <1>4, <3>2, EmptySeq
      <4> QED
        BY <1>6, <1>7, <3>2, <4>1 DEF History
    <3> QED
      BY <3>1, <3>2
  <2>2. ASSUME NEW k \in DOMAIN new, new[k].ans = "call" PROVE Profile[job.c].tools
    <3>1. CASE k \in 1..n
      BY <1>5, <1>6, <1>7, <2>2, <3>1 DEF History
    <3>2. CASE k = n + 1
      BY <1>6, <2>2, <3>2
    <3> QED
      BY <1>5, <3>1, <3>2
  <2> QED
    BY <2>1, <2>2 DEF History
<1>9. Asked'
  BY <1>4, <1>8 DEF Asked
<1>10. ASSUME NEW id \in Ids(new) PROVE id \in Ids(turns) \cup {0, job.r.id}
  <2>1. PICK k \in DOMAIN new : id = new[k].id
    BY <1>10 DEF Ids
  <2>2. CASE k \in 1..n
    BY <1>5, <1>6, <2>1, <2>2 DEF Ids
  <2>3. CASE k = n + 1
    BY <1>6, <2>1, <2>3
  <2> QED
    BY <1>5, <2>1, <2>2, <2>3
<1>11. Fresh'
  BY <1>1, <1>4, <1>10 DEF Fresh
<1> QED
  BY <1>1, <1>2, <1>9, <1>11

-----------------------------------------------------------------------------
(***************************************************************************)
(* The bindings after a step that makes no history, or repeats part of one.*)
(***************************************************************************)
LEMMA CalledFewer ==
    ASSUME NEW H, NEW G, G \subseteq H, NEW b, NEW tokens, Called(H, b, tokens)
    PROVE  Called(G, b, tokens)
BY DEF Called

\* Bindings promise no more of fewer histories.
LEMMA BoundFewer ==
    ASSUME NEW H, NEW G, G \subseteq H, NEW r, NEW a, NEW t, NEW tokens, BoundBy(H, r, a, t, tokens)
    PROVE  BoundBy(G, r, a, t, tokens)
BY CalledFewer DEF BoundBy

\* The beginning of a history promises nothing new of one binding ...
LEMMA CalledPrefix ==
    ASSUME NEW H, NEW b, NEW tokens, Called(H, b, tokens),
           NEW turns \in H, turns \in Seq(Turns), NEW n \in 0..Len(turns),
           NEW G, G \subseteq H \cup {SubSeq(turns, 1, n)}
    PROVE  Called(G, b, tokens)
<1>1. PICK first : first = SubSeq(turns, 1, n)
  OBVIOUS
<1>2. first \in Seq(Turns) /\ Len(first) = n /\ \A i \in 1..n : first[i] = turns[i]
  BY <1>1, FirstOf
<1>3. ASSUME NEW k \in DOMAIN first, first[k].id \in b.ids
      PROVE  Said(SubSeq(first, 1, k)) = Says(tokens)
  <2>1. k \in 1..n /\ k \in DOMAIN turns /\ first[k] = turns[k] /\ n <= Len(turns)
    BY <1>2, LenProperties
  <2>2. SubSeq(first, 1, k) = SubSeq(turns, 1, k)
    <3>1. PICK x, y : x = SubSeq(first, 1, k) /\ y = SubSeq(turns, 1, k)
      OBVIOUS
    <3>2. k \in 0..Len(first) /\ k \in 0..Len(turns)
      BY <1>2, <2>1, LenProperties
    <3>3. x \in Seq(Turns) /\ Len(x) = k /\ \A i \in 1..k : x[i] = first[i]
      BY <1>2, <3>1, <3>2, FirstOf
    <3>4. y \in Seq(Turns) /\ Len(y) = k /\ \A i \in 1..k : y[i] = turns[i]
      BY <3>1, <3>2, FirstOf
    <3>5. \A i \in 1..k : x[i] = y[i]
      BY <1>2, <2>1, <3>3, <3>4
    <3> QED
      BY <3>1, <3>3, <3>4, <3>5, SeqEqual
  <2>3. Said(SubSeq(turns, 1, k)) = Says(tokens)
    BY <1>3, <2>1 DEF Called
  <2> QED
    BY <2>2, <2>3
<1>4. ASSUME NEW g \in G, NEW k \in DOMAIN g, g[k].id \in b.ids
      PROVE  Said(SubSeq(g, 1, k)) = Says(tokens)
  <2>1. CASE g = first
    BY <1>3, <1>4, <2>1
  <2>2. CASE g \in H
    BY <1>4, <2>2 DEF Called
  <2> QED
    BY <1>1, <2>1, <2>2
<1> QED
  BY <1>4 DEF Called

\* ... nor of the three.
LEMMA BoundPrefix ==
    ASSUME NEW H, NEW r, NEW a, NEW t, NEW tokens, BoundBy(H, r, a, t, tokens),
           NEW turns \in H, turns \in Seq(Turns), NEW n \in 0..Len(turns),
           NEW G, G \subseteq H \cup {SubSeq(turns, 1, n)}
    PROVE  BoundBy(G, r, a, t, tokens)
BY CalledPrefix DEF BoundBy

-----------------------------------------------------------------------------
(***************************************************************************)
(* The invariant, action by action.  First what its parts come to after    *)
(* the steps that many actions share.                                      *)
(***************************************************************************)
LEMMA InitHolds == Init => SessionInv
<1> SUFFICES ASSUME Init PROVE SessionInv
  OBVIOUS
<1>1. /\ session = NoSession /\ resp = NoBinding /\ anth = NoBinding /\ thnk = NoBinding
      /\ disk = {} /\ last = 0 /\ client = [c \in Clients |-> [turns |-> <<>>, busy |-> FALSE]]
      /\ queue = <<>> /\ job = NoJob /\ phase = "idle" /\ jobs = 0 /\ faults = 0 /\ strayed = FALSE
  BY DEF Init
<1>2. <<>> \in Seq(Tokens) /\ <<>> \in Seq(TextSymbols) /\ <<>> \in Seq(Requests) /\ <<>> \in Seq(Turns)
      /\ Len(<<>>) = 0 /\ DOMAIN <<>> = {}
  BY EmptySeq
<1>3. SessionType(session)
  BY <1>1, <1>2, ConstantFacts DEF SessionType, Sessions, NoSession
<1>4. BindingsType
  BY <1>1, <1>2, ConstantFacts DEF BindingsType, BindingType, NoBinding
<1>5. DiskType(disk)
  BY <1>1, ConstantFacts, FS_EmptySet DEF DiskType
<1>6. ClientsType
  BY <1>1, <1>2 DEF ClientsType
<1>7. WorkerType /\ ~Active
  <2>1. ~Active
    BY <1>1 DEF Active
  <2>2. phase \in Phases
    BY <1>1 DEF Phases
  <2>3. job = NoJob /\ (Active => job \in Jobs)
    BY <1>1, <2>1
  <2> QED
    BY <2>1, <2>2, <2>3 DEF WorkerType
<1>8. CountersType
  <2>1. strayed \in BOOLEAN
    BY <1>1
  <2>2. last \in 0..Ctx /\ jobs \in 0..MaxJobs /\ faults \in 0..MaxFaults
    BY <1>1, ConstantFacts
  <2> QED
    BY <2>1, <2>2 DEF CountersType
<1>9. \A c \in Clients : client[c].turns = <<>>
  BY <1>1
<1>10. Asked
  BY <1>1, <1>2, <1>7, <1>9 DEF Asked, History
<1>11. Past \subseteq {<<>>}
  BY <1>1, <1>2, <1>7, <1>9 DEF Past
<1>12. Fresh
  BY <1>1, <1>2, <1>7, <1>11 DEF Fresh
<1>13. Going
  BY <1>1, <1>7 DEF Going
<1>14. Sound
  <2>1. SoundDisk(disk)
    BY <1>1 DEF SoundDisk
  <2>2. Len(session.tokens) = 0
    BY <1>1, <1>2 DEF NoSession
  <2>3. Begins(session.tokens)
    BY <2>2, TextFacts, LenProperties DEF Begins
  <2> QED
    BY <1>1, <2>1, <2>2, <2>3 DEF Sound, ds4_session_pos
<1> QED
  BY <1>3, <1>4, <1>5, <1>6, <1>7, <1>8, <1>10, <1>12, <1>13, <1>14 DEF SessionInv, Types

\* A disk that lost entries is as sound as it was.
LEMMA DiskShrinks ==
    ASSUME NEW D, DiskType(D), NEW K, K \subseteq D
    PROVE  DiskType(K) /\ (SoundDisk(D) => SoundDisk(K))
<1>1. IsFiniteSet(K) /\ Cardinality(K) <= Cardinality(D) /\ Cardinality(K) \in Nat /\ Cardinality(D) \in Nat
  BY FS_Subset, FS_CardinalityType DEF DiskType
<1> QED
  BY <1>1, ConstantFacts DEF DiskType, SoundDisk

\* A step within a job that leaves the request and the turns it ends with alone.
LEMMA WithinJob ==
    ASSUME SessionInv, Active, Active', client' = client, queue' = queue, jobs' = jobs,
           job'.r = job.r, job'.c = job.c, job'.turns = job.turns,
           SessionType(session'), BindingsType', DiskType(disk'), job' \in Jobs, phase' \in Phases,
           last' \in 0..Ctx, faults' \in 0..MaxFaults, strayed' \in BOOLEAN, Going',
           Histories' = Histories => (~strayed' => Sound')
    PROVE  SessionInv'
<1>1. Asked' /\ Fresh' /\ Histories' = Histories
  BY SameRequest DEF SessionInv
<1>2. ClientsType' /\ WorkerType' /\ CountersType'
  BY DEF SessionInv, Types, ClientsType, WorkerType, CountersType
<1> QED
  BY <1>1, <1>2 DEF SessionInv, Types

\* A step that ends a turn.
LEMMA EndsJob ==
    ASSUME SessionInv, NEW ans \in {"say", "cut", "call"}, ans = "call" => Profile[job.c].tools,
           Active, Active', client' = client, queue' = queue, jobs' = jobs,
           job'.r = job.r, job'.c = job.c, job'.turns = Turn(ans),
           SessionType(session'), BindingsType', DiskType(disk'), job' \in Jobs, phase' \in Phases,
           last' \in 0..Ctx, faults' \in 0..MaxFaults, strayed' = strayed, Going',
           Histories' = Past \cup {Turn(ans)} => (~strayed => Sound')
    PROVE  SessionInv'
<1>1. job \in Jobs
  BY DEF SessionInv, Types, WorkerType
<1>2. Asked' /\ Fresh' /\ Histories' = Past \cup {Turn(ans)}
  BY <1>1, EndsTurn DEF SessionInv
<1>3. ClientsType' /\ WorkerType' /\ CountersType'
  BY DEF SessionInv, Types, ClientsType, WorkerType, CountersType
<1> QED
  BY <1>2, <1>3 DEF SessionInv, Types

\* The invariant after a request became a job, given what its prompt says.
LEMMA PrefillBegins ==
    ASSUME SessionInv, TakeJob, NEW source \in Sources, NEW s, SessionType(s), NEW prompt \in Seq(Tokens),
           NEW cached \in Nat, job' = Start(Head(queue), source, s, prompt, cached),
           queue' = Tail(queue), phase' = "prefill", client' = client, jobs' = jobs,
           strayed' = strayed, UNCHANGED bindings,
           source \in RespSources =>
               resp.live_tokens < Len(prompt) /\ Profile[Head(queue).c].api = "responses",
           source = "anthropic-tool-output" =>
               anth.live_tokens < Len(prompt) /\ Profile[Head(queue).c].api = "anthropic",
           source = "thinking-visible" => thnk.live_tokens < Len(prompt),
           SessionType(session'), DiskType(disk'), last' \in 0..Ctx, faults' \in 0..MaxFaults,
           ~strayed => /\ SoundDisk(disk') /\ Begins(session'.tokens)
                       /\ Tells(prompt, Head(queue).whole)
    PROVE  SessionInv'
<1>1. phase = "idle" /\ queue # <<>> /\ queue \in Seq(Requests)
  BY DEF TakeJob, SessionInv, Types, ClientsType
<1>2. PICK r \in Requests : r = Head(queue)
  BY <1>1, HeadAndTail
<1>3. Starts(job', r, source, prompt)
  BY <1>2, StartFacts
<1>4. Asked' /\ Fresh'
  BY <1>1, <1>2, <1>3, TakesHead DEF SessionInv, Starts
<1>5. ClientsType'
  BY <1>1, HeadAndTail DEF SessionInv, Types, ClientsType
<1>6. WorkerType'
  BY <1>3 DEF Starts, WorkerType, Active, Phases
<1>7. CountersType'
  BY DEF SessionInv, Types, CountersType
<1>8. resp' = resp /\ anth' = anth /\ thnk' = thnk
  BY DEF bindings
<1>9. BindingsType'
  BY <1>8 DEF SessionInv, Types, BindingsType
<1>10. job'.r = r /\ job'.c = r.c /\ job'.source = source /\ job'.prompt = prompt
       /\ job'.out = <<>> /\ job'.turns = <<>> /\ job'.goal <= Len(prompt) /\ job'.cold <= Len(prompt)
       /\ (job'.goal < Len(prompt) => job'.goal = job'.cold)
  BY <1>3 DEF Starts
<1>11. Going'
  BY <1>2, <1>8, <1>10 DEF Going
<1>12. ~strayed' => Sound'
  BY <1>2, <1>10 DEF Sound, Tells
<1> QED
  BY <1>4, <1>5, <1>6, <1>7, <1>9, <1>11, <1>12 DEF SessionInv, Types

\* Nothing is promised of bindings that are gone or point short of the session.
LEMMA BoundShort ==
    ASSUME NEW H, NEW r, NEW a, NEW t, NEW tokens \in Seq(Tokens), r \in BindingType,
           a \in BindingType, t \in BindingType,
           r.valid => r.live_tokens < Len(tokens), a.valid => a.live_tokens < Len(tokens),
           t.valid => t.live_tokens < Len(tokens)
    PROVE  BoundBy(H, r, a, t, tokens)
<1>1. /\ r.valid => r.live_tokens # Len(tokens)
      /\ a.valid => a.live_tokens # Len(tokens)
      /\ t.valid => t.live_tokens # Len(tokens)
  BY LenProperties DEF BindingType
<1> QED
  BY <1>1 DEF BoundBy

-----------------------------------------------------------------------------
(***************************************************************************)
(* A parsed request.                                                       *)
(***************************************************************************)
MayAsk(c, all, k, ask, alone) ==
    /\ ask \in IF k > 0 /\ all[k].ans = "call" THEN {"result"} ELSE Msgs
    /\ alone => k > 0 /\ all[k].ans = "call" /\ BoundIds(Profile[c].api) # {}

Parsed(r, c, turns) ==
    /\ r \in Requests /\ WellAsked(r)
    /\ r.c = c /\ r.turns = turns /\ r.id = jobs + 1

\* A parsed request is well asked and its histories are beginnings of the client's.
LEMMA RequestFacts ==
    ASSUME NEW c \in Clients, NEW all \in Seq(Turns), History(c, all), NEW k \in 0..Len(all),
           NEW turns, turns = SubSeq(all, 1, k), NEW ask, NEW exact, NEW alone \in BOOLEAN,
           MayAsk(c, all, k, ask, alone), jobs \in Nat,
           NEW r, r = Request(c, turns, ask, exact, alone), Len(r.text) < Ctx
    PROVE  Parsed(r, c, turns)
<1>0. /\ ask \in IF k > 0 /\ all[k].ans = "call" THEN {"result"} ELSE Msgs
      /\ alone => k > 0 /\ all[k].ans = "call" /\ BoundIds(Profile[c].api) # {}
  BY DEF MayAsk
<1>1. /\ turns \in Seq(Turns) /\ Len(turns) = k /\ DOMAIN turns = 1..k
      /\ \A i \in 1..k : turns[i] = all[i] /\ i \in DOMAIN all
  BY FirstOf, LenProperties
<1>2. ask \in Msgs \cup {"result"} /\ (turns = <<>> => ask \in Msgs) /\ ("result" \notin Msgs)
      /\ (ask = "result" => k > 0 /\ all[k].ans = "call")
  BY <1>0, <1>1, ProfileAssumption
<1>3. PICK whole : whole = render_chat_prompt_text(c, turns, ask, exact)
  OBVIOUS
<1>4. Asks(whole, c, turns, ask)
  BY <1>1, <1>2, <1>3, PromptText
<1>5. PICK none \in Seq(Turns), result \in Msgs \cup {"result"} : none = <<>> /\ result = "result"
  BY EmptySeq
<1>6. PICK tail : tail = render_chat_prompt_text(c, none, result, exact)
  OBVIOUS
<1>7. Asks(tail, c, none, result)
  BY <1>5, <1>6, PromptText
<1>a. PICK text, ids, id :
          /\ text = IF alone THEN tail ELSE whole
          /\ ids = IF ask = "result" /\ Profile[c].api # "openai" THEN {Last(turns).id} ELSE {}
          /\ id = jobs + 1
  OBVIOUS
<1>8. r = [c |-> c, text |-> text, ids |-> ids,
           requires_live |-> alone, id |-> id, turns |-> turns, ask |-> ask, whole |-> whole]
  BY <1>3, <1>5, <1>6, <1>a DEF Request
<1>9. /\ r.c = c /\ r.text = (IF alone THEN tail ELSE whole) /\ r.requires_live = alone
      /\ r.id = jobs + 1 /\ r.turns = turns /\ r.ask = ask /\ r.whole = whole
      /\ r.ids = IF ask = "result" /\ Profile[c].api # "openai" THEN {Last(turns).id} ELSE {}
  <2>1. /\ r.c = c /\ r.text = text /\ r.requires_live = alone
        /\ r.id = id /\ r.turns = turns /\ r.ask = ask /\ r.whole = whole /\ r.ids = ids
    BY <1>8
  <2> QED
    BY <1>a, <2>1
<1>10. whole \in Seq(TextSymbols) /\ tail \in Seq(TextSymbols)
  BY <1>4, <1>7 DEF Asks
<1>11. r.ids \subseteq Nat
  <2>1. ask = "result" => Last(turns) \in Turns
    BY <1>1, <1>2 DEF Last
  <2> QED
    BY <1>9, <2>1 DEF Turns
<1>12. r \in Requests
  <2>1. r = [c |-> r.c, text |-> r.text, ids |-> r.ids, requires_live |-> r.requires_live,
             id |-> r.id, turns |-> r.turns, ask |-> r.ask, whole |-> r.whole]
    BY <1>8
  <2>2. r.text \in Seq(TextSymbols) /\ r.ids \in SUBSET Nat /\ r.id \in Nat
    BY <1>9, <1>10, <1>11
  <2> QED
    BY <1>1, <1>2, <1>9, <1>10, <2>1, <2>2 DEF Requests
<1>13. History(c, turns)
  <2>1. turns # <<>> => 1 \in 1..k /\ all # <<>> /\ turns[1] = all[1]
    BY <1>1, EmptySeq
  <2> QED
    BY <1>1, <2>1 DEF History
<1>14. Meaning(whole) = Append(Said(turns), ask)
  BY <1>4 DEF Asks
<1>15. Begun(whole)
  <2>1. Len(whole) >= Opening /\ whole[Opening] = IF turns = <<>> THEN ask ELSE turns[1].ask
    BY <1>4 DEF Asks
  <2> QED
    BY <1>2, <1>13, <2>1 DEF Begun, History
<1>16. r.text = IF r.requires_live THEN System \o <<"result">> \o Prefix(c) ELSE whole
  BY <1>5, <1>7, <1>9 DEF Asks
<1>17. Profile[c].think => Last(r.text) = "think"
  BY <1>4, <1>7, <1>9 DEF Asks
<1>18. alone => Profile[c].tools /\ r.ids # {}
  <2>1. alone => k \in DOMAIN all /\ all[k].ans = "call" /\ ask = "result"
    BY <1>0, <1>1
  <2>2. BoundIds("openai") = {}
    BY DEF BoundIds
  <2>3. alone => Profile[c].api # "openai"
    BY <1>0, <2>2
  <2> QED
    BY <1>9, <2>1, <2>3 DEF History
<1>19. r.ids # {} => turns # <<>> /\ r.ids = {Last(turns).id} /\ ask = "result"
  BY <1>1, <1>2, <1>9
<1>20. WellAsked(r)
  BY <1>2, <1>9, <1>13, <1>14, <1>15, <1>16, <1>17, <1>18, <1>19 DEF WellAsked
<1> QED
  BY <1>9, <1>12, <1>20 DEF Parsed

\* A client sends its next message, an edit, a retry or a tool result.
LEMMA ParseHolds ==
    ASSUME SessionInv, NEW c \in Clients, Parse(c)
    PROVE  SessionInv'
<1>1. PICK all : all = client[c].turns
  OBVIOUS
<1>2. all \in Seq(Turns) /\ History(c, all) /\ all \in Histories /\ all \in Past
  <2>1. all \in Seq(Turns)
    BY <1>1 DEF SessionInv, Types, ClientsType
  <2>2. History(c, all)
    BY <1>1 DEF SessionInv, Asked
  <2>3. all \in Past
    BY <1>1 DEF Past
  <2> QED
    BY <2>1, <2>2, <2>3 DEF Histories
<1>a. PICK k \in 0..Len(all) :
          \E ask \in IF k > 0 /\ SubSeq(all, 1, k)[k].ans = "call" THEN {"result"} ELSE Msgs,
             exact \in {ExactReplay, FALSE}, alone \in BOOLEAN :
             /\ alone => /\ k > 0 /\ SubSeq(all, 1, k)[k].ans = "call"
                         /\ SubSeq(all, 1, k)[k].id \in BoundIds(Profile[c].api)
             /\ Len(Request(c, SubSeq(all, 1, k), ask, exact, alone).text) < Ctx
             /\ queue' = Append(queue, Request(c, SubSeq(all, 1, k), ask, exact, alone))
  BY <1>1, ZenonT(60) DEF Parse
<1>b. PICK turns : turns = SubSeq(all, 1, k)
  OBVIOUS
<1>c. PICK ask \in IF k > 0 /\ turns[k].ans = "call" THEN {"result"} ELSE Msgs,
           exact \in {ExactReplay, FALSE}, alone \in BOOLEAN :
          /\ alone => /\ k > 0 /\ turns[k].ans = "call"
                      /\ turns[k].id \in BoundIds(Profile[c].api)
          /\ Len(Request(c, turns, ask, exact, alone).text) < Ctx
          /\ queue' = Append(queue, Request(c, turns, ask, exact, alone))
  BY <1>a, <1>b
<1>d. PICK r : r = Request(c, turns, ask, exact, alone)
  OBVIOUS
<1>3. /\ turns = SubSeq(all, 1, k)
      /\ r = Request(c, turns, ask, exact, alone)
      /\ Len(r.text) < Ctx
      /\ queue' = Append(queue, r)
  BY <1>b, <1>c, <1>d
<1>4. turns \in Seq(Turns) /\ Len(turns) = k /\ \A i \in 1..k : turns[i] = all[i] /\ i \in DOMAIN all
  BY <1>2, <1>3, FirstOf, LenProperties
<1>5. jobs \in 0..MaxJobs /\ jobs < MaxJobs /\ jobs \in Nat /\ jobs' = jobs + 1
  BY ConstantFacts DEF Parse, SessionInv, Types, CountersType
<1>6. r \in Requests /\ WellAsked(r) /\ r.c = c /\ r.turns = turns /\ r.id = jobs + 1
  <2>1. k > 0 => turns[k] = all[k]
    BY <1>3, <1>4
  <2>2. ask \in IF k > 0 /\ all[k].ans = "call" THEN {"result"} ELSE Msgs
    BY <1>c, <2>1
  <2>3. alone => k > 0 /\ all[k].ans = "call" /\ BoundIds(Profile[c].api) # {}
    BY <1>c, <2>1
  <2>4. MayAsk(c, all, k, ask, alone)
    BY <2>2, <2>3 DEF MayAsk
  <2>5. Parsed(r, c, turns)
    BY <1>2, <1>3, <1>5, <2>4, RequestFacts
  <2> QED
    BY <2>5 DEF Parsed
<1>7. /\ UNCHANGED <<session, resp, anth, thnk, disk, last, job, phase, faults, strayed>>
      /\ client' = [client EXCEPT ![c].busy = TRUE]
  BY DEF Parse, bindings
<1>8. queue \in Seq(Requests)
  BY DEF SessionInv, Types, ClientsType
<1>9. PICK n \in Nat : n = Len(queue)
  BY <1>8, LenProperties
<1>10. /\ queue' \in Seq(Requests) /\ DOMAIN queue' = 1..(n + 1) /\ DOMAIN queue = 1..n
       /\ queue'[n + 1] = r /\ \A i \in 1..n : queue'[i] = queue[i]
  <2>1. /\ Append(queue, r) \in Seq(Requests)
        /\ Len(Append(queue, r)) = Len(queue) + 1
        /\ \A i \in 1..Len(queue) : Append(queue, r)[i] = queue[i]
        /\ Append(queue, r)[Len(queue) + 1] = r
    BY <1>6, <1>8, AppendProperties
  <2> QED
    BY <1>3, <1>8, <1>9, <2>1, LenProperties
<1>11. client' \in [Clients -> [turns : Seq(Turns), busy : BOOLEAN]]
       /\ \A d \in Clients : client'[d].turns = client[d].turns
  BY <1>7 DEF SessionInv, Types, ClientsType
<1>12. Types'
  <2>1. ClientsType'
    BY <1>10, <1>11 DEF ClientsType
  <2>2. CountersType'
    <3>1. jobs' \in 0..MaxJobs
      BY <1>5, ConstantFacts
    <3> QED
      BY <1>7, <3>1 DEF SessionInv, Types, CountersType
  <2>3. WorkerType' /\ BindingsType' /\ SessionType(session)' /\ DiskType(disk)'
    BY <1>7 DEF SessionInv, Types, WorkerType, Active, BindingsType
  <2> QED
    BY <2>1, <2>2, <2>3 DEF Types
<1>13. Asked'
  <2>1. \A i \in DOMAIN queue' : WellAsked(queue'[i])
    BY <1>6, <1>10 DEF SessionInv, Asked
  <2> QED
    BY <1>7, <1>11, <2>1 DEF SessionInv, Asked, Active
<1>14. Past' = Past \cup {turns} /\ Histories' = Histories \cup {turns}
  <2>1. {queue'[i].turns : i \in DOMAIN queue'} = {queue[i].turns : i \in DOMAIN queue} \cup {turns}
    BY <1>6, <1>10
  <2>2. {client'[d].turns : d \in Clients} = {client[d].turns : d \in Clients}
    BY <1>11
  <2>3. Past' = Past \cup {turns}
    BY <1>7, <2>1, <2>2 DEF Past, Active
  <2> QED
    BY <1>7, <2>3 DEF Histories, Active
<1>15. Fresh'
  <2>1. \A i \in 1..n : queue[i].id \in 1..jobs
    BY <1>10 DEF SessionInv, Fresh
  <2>2. \A i \in DOMAIN queue' : queue'[i].id \in 1..jobs'
    BY <1>5, <1>6, <1>10, <2>1
  <2>3. \A i, j \in DOMAIN queue' : queue'[i].id = queue'[j].id => i = j
    <3>1. \A i, j \in 1..n : queue[i].id = queue[j].id => i = j
      BY <1>10 DEF SessionInv, Fresh
    <3> QED
      BY <1>5, <1>6, <1>10, <2>1, <3>1
  <2>4. ASSUME NEW h \in Past, NEW i \in DOMAIN h
        PROVE  /\ h[i].id <= jobs
               /\ \A q \in DOMAIN queue : h[i].id # queue[q].id
               /\ Active => h[i].id # job.r.id
    BY DEF SessionInv, Fresh
  <2>5. ASSUME NEW h \in Past', NEW i \in DOMAIN h
        PROVE  /\ h[i].id <= jobs
               /\ \A q \in DOMAIN queue : h[i].id # queue[q].id
               /\ Active => h[i].id # job.r.id
    <3>1. CASE h \in Past
      BY <2>4, <3>1
    <3>2. CASE h = turns
      <4>1. i \in 1..k
        BY <1>4, <3>2, LenProperties
      <4>2. i \in DOMAIN all /\ h[i] = all[i]
        BY <1>4, <3>2, <4>1
      <4> QED
        BY <1>2, <2>4, <4>2
    <3> QED
      BY <1>14, <3>1, <3>2
  <2>6. ASSUME NEW h \in Past', NEW i \in DOMAIN h PROVE h[i].id # jobs + 1 /\ h[i].id <= jobs'
    <3>1. h[i].id \in Nat
      <4>1. h \in Seq(Turns)
        <5>1. CASE h = turns
          BY <1>4, <5>1
        <5>2. CASE h \in Past
          <6>1. ASSUME NEW d \in Clients PROVE client[d].turns \in Seq(Turns)
            BY DEF SessionInv, Types, ClientsType
          <6>2. ASSUME NEW q \in DOMAIN queue PROVE queue[q].turns \in Seq(Turns)
            <7>1. queue[q] \in Requests
              BY <1>8, <1>9, <1>10, ElementOfSeq
            <7> QED
              BY <7>1 DEF Requests
          <6>3. Active => job.r.turns \in Seq(Turns)
            BY DEF SessionInv, Types, WorkerType, Jobs, Requests
          <6> QED
            BY <5>2, <6>1, <6>2, <6>3 DEF Past
        <5> QED
          BY <1>14, <5>1, <5>2
      <4>2. h[i] \in Turns
        BY <4>1, ElementOfSeq, LenProperties
      <4> QED
        BY <4>2 DEF Turns
    <3> QED
      BY <1>5, <2>5, <3>1
  <2>7. \A h \in Past' : \A i \in DOMAIN h :
            /\ h[i].id <= jobs'
            /\ \A q \in DOMAIN queue' : h[i].id # queue'[q].id
            /\ Active' => h[i].id # job'.r.id
    BY <1>6, <1>7, <1>10, <2>5, <2>6 DEF Active
  <2>8. Active' => /\ job'.r.id \in 1..jobs'
                   /\ \A i \in DOMAIN queue' : queue'[i].id # job'.r.id
                   /\ \A id \in Ids(job'.turns) : id \in Ids(job'.r.turns) \cup {0, job'.r.id}
    <3>1. Active => /\ job.r.id \in 1..jobs
                    /\ \A i \in DOMAIN queue : queue[i].id # job.r.id
                    /\ \A id \in Ids(job.turns) : id \in Ids(job.r.turns) \cup {0, job.r.id}
      BY DEF SessionInv, Fresh
    <3> SUFFICES ASSUME Active
                 PROVE  /\ job.r.id \in 1..jobs'
                        /\ \A i \in DOMAIN queue' : queue'[i].id # job.r.id
                        /\ \A id \in Ids(job.turns) : id \in Ids(job.r.turns) \cup {0, job.r.id}
      BY <1>7 DEF Active
    <3>2. job.r.id \in 1..jobs'
      BY <1>5, <3>1
    <3>3. ASSUME NEW i \in DOMAIN queue' PROVE queue'[i].id # job.r.id
      <4>1. CASE i \in 1..n
        BY <1>10, <3>1, <4>1
      <4>2. CASE i = n + 1
        BY <1>5, <1>6, <1>10, <3>1, <4>2
      <4> QED
        BY <1>10, <4>1, <4>2
    <3> QED
      BY <3>1, <3>2, <3>3
  <2> QED
    BY <2>2, <2>3, <2>7, <2>8 DEF Fresh
<1>16. Going'
  BY <1>7 DEF SessionInv, Going, Active, Answered, ds4_session_pos
<1>17. ~strayed' => Sound'
  <2> SUFFICES ASSUME ~strayed PROVE Sound'
    BY <1>7
  <2>1. Sound
    BY DEF SessionInv
  <2>2. Histories' \subseteq Histories \cup {SubSeq(all, 1, k)}
    BY <1>3, <1>14
  <2>3. Bound => Bound'
    BY <1>2, <1>7, <2>2, BoundPrefix DEF Bound
  <2>4. Called(Histories, anth, job.prompt) => Called(Histories', anth', job'.prompt)
    BY <1>2, <1>7, <2>2, CalledPrefix
  <2> QED
    BY <1>7, <2>1, <2>3, <2>4 DEF Sound, ds4_session_pos
<1> QED
  BY <1>12, <1>13, <1>15, <1>16, <1>17 DEF SessionInv

-----------------------------------------------------------------------------
(***************************************************************************)
(* What each live source continues from.                                   *)
(***************************************************************************)
Continues(source, r, prompt) ==
    /\ prompt \in Seq(Tokens)
    /\ source \in RespSources =>
          resp.live_tokens < Len(prompt) /\ Profile[r.c].api = "responses"
    /\ source = "anthropic-tool-output" =>
          anth.live_tokens < Len(prompt) /\ Profile[r.c].api = "anthropic"
    /\ source = "thinking-visible" => thnk.live_tokens < Len(prompt)

\* The request's history is told, and the session and its bindings are sound.
Told(r, sound) ==
    /\ r \in Requests /\ WellAsked(r) /\ r.turns \in Histories
    /\ SessionType(session) /\ BindingsType
    /\ sound \in BOOLEAN
    /\ sound => Begins(session.tokens) /\ Bound

\* A request that is not a tool result alone carries its whole conversation.
LEMMA WholeText ==
    ASSUME NEW r \in Requests, WellAsked(r)
    PROVE  /\ r.text \in Seq(TextSymbols) /\ r.whole \in Seq(TextSymbols) /\ r.c \in Clients
           /\ Begun(r.whole)
           /\ ~r.requires_live => r.text = r.whole
           /\ r.requires_live => /\ Meaning(r.text) = <<"result">> /\ Len(r.text) >= Opening
                                 /\ Len(r.text) <= Opening + 1 /\ r.text[Opening] = "result"
<1>1. r.text \in Seq(TextSymbols) /\ r.whole \in Seq(TextSymbols) /\ r.c \in Clients
  BY DEF Requests
<1>2. Begun(r.whole) /\ (~r.requires_live => r.text = r.whole)
  BY DEF WellAsked
<1>3. ASSUME r.requires_live
      PROVE  /\ Meaning(r.text) = <<"result">> /\ Len(r.text) >= Opening
             /\ Len(r.text) <= Opening + 1 /\ r.text[Opening] = "result"
  <2>1. r.text = System \o <<"result">> \o Prefix(r.c)
    BY <1>3 DEF WellAsked
  <2> QED
    BY <1>1, <2>1, ResultText
<1> QED
  BY <1>1, <1>2, <1>3

\* A visible text at the frontier: it names the session, so the request that
\* begins with it carries its whole conversation.
LEMMA ContinueVisible ==
    ASSUME NEW r, NEW sound, Told(r, sound), NEW b \in BindingType, VisiblePrefix(b, r),
           NEW prompt, prompt = session.tokens \o After(r.text, b.visible),
           sound => Names(b.visible, session.tokens)
    PROVE  /\ prompt \in Seq(Tokens) /\ b.live_tokens < Len(prompt)
           /\ sound => Tells(prompt, r.whole)
<1>1. /\ r.text \in Seq(TextSymbols) /\ r.whole \in Seq(TextSymbols) /\ Begun(r.whole)
      /\ ~r.requires_live => r.text = r.whole
      /\ r.requires_live => Len(r.text) <= Opening + 1
      /\ r.requires_live \in BOOLEAN
  BY WholeText DEF Told, Requests
<1>2. /\ session.tokens \in Seq(Tokens) /\ b.visible \in Seq(TextSymbols)
      /\ b.live_tokens = Len(session.tokens) /\ IsPrefix(b.visible, r.text) /\ b.visible # r.text
  BY DEF Told, SessionType, Sessions, BindingType, VisiblePrefix, AtFrontier, ds4_session_pos, IsStrictPrefix
<1>3. PICK v \in Seq(TextSymbols), text \in Seq(TextSymbols), rest \in Seq(TextSymbols), tokens \in Seq(Tokens) :
          v = b.visible /\ text = r.text /\ rest = After(text, v) /\ text = v \o rest /\ tokens = session.tokens
  BY <1>1, <1>2, PrefixSplits
<1>4. Len(v) <= Len(text)
  BY <1>2, <1>3, PrefixSplits
<1>5. Len(rest) > 0
  <2>1. rest # <<>>
    BY <1>2, <1>3, ConcatEmptySeq
  <2> QED
    BY <2>1, EmptySeq, LenProperties
<1>6. rest \in Seq(Tokens)
  BY TextIsTokens
<1>7. prompt = tokens \o rest
  BY <1>3
<1>8. prompt \in Seq(Tokens) /\ Len(prompt) = Len(tokens) + Len(rest) /\ Len(tokens) \in Nat /\ Len(rest) \in Nat
  BY <1>6, <1>7, ConcatProperties, LenProperties
<1>9. b.live_tokens < Len(prompt)
  <2>1. PICK m \in Nat, n \in Nat : m = Len(tokens) /\ n = Len(rest)
    BY <1>8
  <2>2. b.live_tokens = m /\ Len(prompt) = m + n /\ n > 0
    BY <1>2, <1>3, <1>5, <1>8, <2>1
  <2> QED
    BY <2>2
<1>10. ASSUME sound PROVE Tells(prompt, r.whole)
  <2>1. Names(v, tokens) /\ Begins(tokens)
    BY <1>3, <1>10 DEF Told
  <2>2. Len(v) >= Opening + 2
    BY <2>1 DEF Names
  <2>3. ~r.requires_live
    <3>1. PICK m \in Nat, n \in Nat, o \in Nat : m = Len(v) /\ n = Len(text) /\ o = Opening
      BY TextFacts, LenProperties
    <3>2. m <= n /\ m >= o + 2
      BY <1>4, <2>2, <3>1
    <3>3. r.requires_live => n <= o + 1
      BY <1>1, <1>3, <3>1
    <3> QED
      BY <3>2, <3>3
  <2>4. Tells(tokens \o After(text, v), text)
    BY <1>1, <1>2, <1>3, <2>1, <2>3, Continued DEF Describes
  <2> QED
    BY <1>1, <1>3, <1>7, <2>3, <2>4
<1> QED
  BY <1>8, <1>9, <1>10

\* A tool result at the frontier: the history that made the call is the session.
LEMMA ContinueTool ==
    ASSUME NEW r, NEW sound, Told(r, sound), NEW b \in BindingType, ToolOutput(b, r),
           NEW prompt, prompt = session.tokens \o render_live_tool_tail(r.c),
           sound => Called(Histories, b, session.tokens)
    PROVE  /\ prompt \in Seq(Tokens) /\ b.live_tokens < Len(prompt)
           /\ sound => Tells(prompt, r.whole)
<1>1. /\ r.c \in Clients /\ r.turns \in Seq(Turns) /\ r.turns \in Histories
      /\ r.turns # <<>> /\ r.ids = {Last(r.turns).id} /\ r.ask = "result"
      /\ Meaning(r.whole) = Append(Said(r.turns), r.ask)
  BY DEF Told, Requests, ToolOutput, WellAsked
<1>2. /\ session.tokens \in Seq(Tokens) /\ b.live_tokens = Len(session.tokens) /\ b.ids = r.ids
  BY DEF Told, SessionType, Sessions, ToolOutput, AtFrontier, ds4_session_pos
<1>3. PICK tokens \in Seq(Tokens), tail \in Seq(TextSymbols) :
          tokens = session.tokens /\ tail = render_live_tool_tail(r.c)
  BY <1>1, <1>2, TailText
<1>4. tail \in Seq(Tokens) /\ Meaning(tail) = <<"result">> /\ Len(tail) >= 2
  BY <1>1, <1>3, TailText, TextIsTokens
<1>5. prompt = tokens \o tail
  BY <1>3
<1>6. prompt \in Seq(Tokens) /\ Len(prompt) = Len(tokens) + Len(tail) /\ Len(tokens) \in Nat /\ Len(tail) \in Nat
      /\ \A i \in 1..Len(tokens) : prompt[i] = tokens[i]
  BY <1>4, <1>5, ConcatProperties, LenProperties
<1>7. b.live_tokens < Len(prompt)
  <2>1. PICK m \in Nat, n \in Nat : m = Len(tokens) /\ n = Len(tail)
    BY <1>6
  <2>2. b.live_tokens = m /\ Len(prompt) = m + n /\ n >= 2
    BY <1>2, <1>3, <1>4, <1>6, <2>1
  <2> QED
    BY <2>2
<1>8. ASSUME sound PROVE Tells(prompt, r.whole)
  <2>1. Called(Histories, b, tokens) /\ Begins(tokens)
    BY <1>3, <1>8 DEF Told
  <2>2. PICK turns \in Seq(Turns) : turns = r.turns
    BY <1>1
  <2>3. Len(turns) \in DOMAIN turns /\ turns[Len(turns)].id \in b.ids
    BY <1>1, <1>2, <2>2, EmptySeq, LenProperties DEF Last
  <2>4. Said(SubSeq(turns, 1, Len(turns))) = Says(tokens)
    BY <1>1, <2>1, <2>2, <2>3 DEF Called
  <2>5. SubSeq(turns, 1, Len(turns)) = turns
    BY SubSeqFull
  <2>6. PICK u \in Seq(TextSymbols), x \in TextSymbols : u = Said(turns) /\ x = "result"
    BY SaidMore DEF TextSymbols
  <2>7. Says(prompt) = Says(tokens) \o Meaning(tail)
    BY <1>4, <1>5, SaysFacts
  <2>8. Append(u, x) = u \o <<x>>
    BY AppendIsConcat
  <2>9. Says(prompt) = Meaning(r.whole)
    BY <1>1, <1>4, <2>2, <2>4, <2>5, <2>6, <2>7, <2>8
  <2>10. Len(tokens) >= Opening /\ tokens[Opening] \in Msgs
    BY <2>1 DEF Called, Begins
  <2>11. Begun(prompt)
    <3>1. Opening \in 1..Len(tokens)
      BY <1>6, <2>10, TextFacts
    <3>2. prompt[Opening] \in Msgs
      BY <1>6, <2>10, <3>1
    <3>3. PICK m \in Nat, n \in Nat, o \in Nat : m = Len(tokens) /\ n = Len(tail) /\ o = Opening
      BY <1>6, TextFacts
    <3>4. Len(prompt) = m + n /\ m >= o
      BY <1>6, <2>10, <3>3
    <3>5. Len(prompt) >= Opening
      BY <3>3, <3>4
    <3> QED
      BY <3>2, <3>5 DEF Begun
  <2> QED
    BY <1>6, <2>9, <2>11 DEF Tells
<1> QED
  BY <1>6, <1>7, <1>8

\* Each live source's effective prompt goes on from the session and says what was asked.
LEMMA ContinueFacts ==
    ASSUME NEW r, NEW sound, Told(r, sound),
           NEW source \in {LiveSources[i] : i \in DOMAIN LiveSources}, Applies(source, r),
           NEW prompt, prompt = EffectivePrompt(source, r)
    PROVE  /\ source \in Sources /\ Continues(source, r, prompt)
           /\ sound => Tells(prompt, r.whole)
<1>1. source \in {"responses-visible", "responses-tool-output", "anthropic-tool-output",
                  "memory-token", "thinking-visible", "memory-text"}
  BY DEF LiveSources
<1>2. resp \in BindingType /\ anth \in BindingType /\ thnk \in BindingType /\ session.tokens \in Seq(Tokens)
  BY DEF Told, BindingsType, SessionType, Sessions
<1>3. /\ r.text \in Seq(TextSymbols) /\ r.whole \in Seq(TextSymbols) /\ Begun(r.whole)
      /\ ~r.requires_live => r.text = r.whole
  BY WholeText DEF Told
<1>4. CASE source = "responses-visible"
  <2>1. VisiblePrefix(resp, r) /\ Profile[r.c].api = "responses"
    BY <1>4 DEF Applies
  <2>2. prompt = session.tokens \o After(r.text, resp.visible)
    BY <1>4 DEF EffectivePrompt, build_prompt_from_exact_prefix_and_text_suffix, ds4_tokenize_rendered_chat
  <2>3. sound => Names(resp.visible, session.tokens)
    BY <2>1 DEF Told, Bound, BoundBy, VisiblePrefix, AtFrontier, ds4_session_pos
  <2>4. /\ prompt \in Seq(Tokens) /\ resp.live_tokens < Len(prompt)
        /\ sound => Tells(prompt, r.whole)
    BY <1>2, <2>1, <2>2, <2>3, ContinueVisible
  <2> QED
    BY <1>4, <2>1, <2>4 DEF Continues, Sources, RespSources
<1>5. CASE source = "responses-tool-output"
  <2>1. ToolOutput(resp, r) /\ Profile[r.c].api = "responses"
    BY <1>5 DEF Applies
  <2>2. prompt = session.tokens \o render_live_tool_tail(r.c)
    BY <1>5 DEF EffectivePrompt, build_prompt_from_exact_prefix_and_text_suffix, ds4_tokenize_rendered_chat
  <2>3. sound => Called(Histories, resp, session.tokens)
    BY <2>1 DEF Told, Bound, BoundBy, ToolOutput, AtFrontier, ds4_session_pos
  <2>4. /\ prompt \in Seq(Tokens) /\ resp.live_tokens < Len(prompt)
        /\ sound => Tells(prompt, r.whole)
    BY <1>2, <2>1, <2>2, <2>3, ContinueTool
  <2> QED
    BY <1>5, <2>1, <2>4 DEF Continues, Sources, RespSources
<1>6. CASE source = "anthropic-tool-output"
  <2>1. ToolOutput(anth, r) /\ Profile[r.c].api = "anthropic"
    BY <1>6 DEF Applies
  <2>2. prompt = session.tokens \o render_live_tool_tail(r.c)
    BY <1>6 DEF EffectivePrompt, build_prompt_from_exact_prefix_and_text_suffix, ds4_tokenize_rendered_chat
  <2>3. sound => Called(Histories, anth, session.tokens)
    BY <2>1 DEF Told, Bound, BoundBy, ToolOutput, AtFrontier, ds4_session_pos
  <2>4. /\ prompt \in Seq(Tokens) /\ anth.live_tokens < Len(prompt)
        /\ sound => Tells(prompt, r.whole)
    BY <1>2, <2>1, <2>2, <2>3, ContinueTool
  <2> QED
    BY <1>6, <2>1, <2>4 DEF Continues, Sources, RespSources
<1>7. CASE source = "memory-token"
  <2>1. ~r.requires_live
    BY <1>7 DEF Applies
  <2>2. prompt = r.whole
    BY <1>3, <1>7, <2>1 DEF EffectivePrompt, ds4_tokenize_rendered_chat
  <2>3. prompt \in Seq(Tokens) /\ Tells(prompt, r.whole)
    BY <1>3, <2>2, TextIsTokens, SaysFacts DEF Tells
  <2> QED
    BY <1>7, <2>3 DEF Continues, Sources, RespSources
<1>8. CASE source = "thinking-visible"
  <2>1. VisiblePrefix(thnk, r)
    BY <1>8 DEF Applies
  <2>2. prompt = session.tokens \o After(r.text, thnk.visible)
    BY <1>8 DEF EffectivePrompt, build_prompt_from_exact_prefix_and_text_suffix, ds4_tokenize_rendered_chat
  <2>3. sound => Names(thnk.visible, session.tokens)
    BY <2>1 DEF Told, Bound, BoundBy, VisiblePrefix, AtFrontier, ds4_session_pos
  <2>4. /\ prompt \in Seq(Tokens) /\ thnk.live_tokens < Len(prompt)
        /\ sound => Tells(prompt, r.whole)
    BY <1>2, <2>1, <2>2, <2>3, ContinueVisible
  <2> QED
    BY <1>8, <2>4 DEF Continues, Sources, RespSources
<1>9. CASE source = "memory-text"
  <2>1. PICK key \in Seq(TextSymbols) : key = render_tokens_text(session.tokens) /\ Len(key) = Len(session.tokens)
    BY <1>2, RenderAt
  <2>2. ~r.requires_live /\ IsPrefix(key, r.text)
    BY <1>9, <2>1 DEF Applies
  <2>3. prompt = session.tokens \o After(r.text, key)
    BY <1>9, <2>1 DEF EffectivePrompt, build_prompt_from_exact_prefix_and_text_suffix,
                     ds4_tokenize_rendered_chat, After
  <2>4. After(r.text, key) \in Seq(Tokens)
    BY <1>3, <2>2, PrefixSplits, TextIsTokens
  <2>5. prompt \in Seq(Tokens)
    BY <1>2, <2>3, <2>4, ConcatProperties
  <2>6. sound => Tells(prompt, r.whole)
    BY <1>2, <1>3, <2>1, <2>2, <2>3, Continued DEF Told, Describes
  <2> QED
    BY <1>9, <2>5, <2>6 DEF Continues, Sources, RespSources
<1> QED
  BY <1>1, <1>4, <1>5, <1>6, <1>7, <1>8, <1>9

\* The worker goes on from what is live.
LEMMA ContinueLiveHolds == SessionInv /\ ContinueLive => SessionInv'
<1> SUFFICES ASSUME SessionInv, ContinueLive PROVE SessionInv'
  OBVIOUS
<1>1. /\ TakeJob /\ phase = "idle" /\ queue # <<>> /\ queue \in Seq(Requests)
      /\ Offered(Head(queue)) # {}
      /\ queue' = Tail(queue) /\ phase' = "prefill"
      /\ UNCHANGED <<session, resp, anth, thnk, disk, last, client, jobs, faults, strayed>>
  BY DEF ContinueLive, TakeJob, SessionInv, Types, ClientsType, bindings, counters
<1>2. PICK r : r = Head(queue)
  OBVIOUS
<1>3. r \in Requests /\ r = queue[1] /\ 1 \in DOMAIN queue
  BY <1>1, <1>2, HeadAndTail
<1>4. Told(r, ~strayed /\ ds4_session_pos > 0)
  <2>1. WellAsked(r)
    BY <1>3 DEF SessionInv, Asked
  <2>2. r.turns \in Histories
    BY <1>3 DEF Histories, Past
  <2>3. ~strayed /\ ds4_session_pos > 0 => Begins(session.tokens) /\ Bound
    BY <1>1 DEF SessionInv, Sound
  <2> QED
    BY <1>3, <2>1, <2>2, <2>3 DEF Told, SessionInv, Types
<1>5. PICK i \in Offered(r) : i = Min(Offered(r))
  <2>1. Offered(r) \subseteq Nat
    BY DEF Offered, LiveSources
  <2> QED
    BY <1>1, <1>2, <2>1, MinIn
<1>6. PICK source : source = LiveSources[i]
  OBVIOUS
<1>7. i \in DOMAIN LiveSources /\ ds4_session_pos > 0 /\ Applies(source, r)
  BY <1>5, <1>6 DEF Offered
<1>8. PICK prompt : prompt = EffectivePrompt(source, r)
  OBVIOUS
<1>9. job' = Start(r, source, session, prompt, ds4_session_pos)
  BY <1>2, <1>5, <1>6, <1>8 DEF ContinueLive
<1>10. /\ source \in Sources /\ Continues(source, r, prompt)
       /\ ~strayed => Tells(prompt, r.whole)
  <2>1. PICK sound : sound = (~strayed /\ ds4_session_pos > 0)
    OBVIOUS
  <2>2. source \in {LiveSources[j] : j \in DOMAIN LiveSources}
    BY <1>6, <1>7
  <2>3. Told(r, sound)
    BY <1>4, <2>1
  <2>4. /\ source \in Sources /\ Continues(source, r, prompt)
        /\ sound => Tells(prompt, r.whole)
    BY <1>7, <1>8, <2>2, <2>3, ContinueFacts
  <2> QED
    BY <1>7, <2>1, <2>4
<1>11. SessionType(session) /\ DiskType(disk) /\ last \in 0..Ctx /\ faults \in 0..MaxFaults
       /\ ds4_session_pos \in Nat
  BY LenProperties DEF SessionInv, Types, CountersType, ds4_session_pos, SessionType, Sessions
<1>12. ~strayed => SoundDisk(disk) /\ Begins(session.tokens)
  BY DEF SessionInv, Sound
<1> QED
  BY <1>1, <1>2, <1>9, <1>10, <1>11, <1>12, PrefillBegins DEF Continues, bindings

-----------------------------------------------------------------------------
(***************************************************************************)
(* A refused continuation, and the jobs that leave the session.            *)
(***************************************************************************)
LEMMA RefuseHolds == SessionInv /\ RefuseContinuation => SessionInv'
<1> SUFFICES ASSUME SessionInv, RefuseContinuation PROVE SessionInv'
  OBVIOUS
<1>1. /\ phase = "idle" /\ phase' = "idle" /\ queue # <<>> /\ queue \in Seq(Requests)
      /\ queue' = Tail(queue)
      /\ client' = [client EXCEPT ![Head(queue).c].busy = FALSE]
      /\ UNCHANGED <<session, resp, anth, thnk, disk, last, job, jobs, faults, strayed>>
  BY DEF RefuseContinuation, TakeJob, SessionInv, Types, ClientsType, bindings, counters
<1>2. Tail(queue) \in Seq(Requests) /\ Head(queue) \in Requests
  BY <1>1, HeadAndTail
<1>3. PICK d \in Clients : d = Head(queue).c
  BY <1>2 DEF Requests
<1>4. client \in [Clients -> [turns : Seq(Turns), busy : BOOLEAN]]
  BY DEF SessionInv, Types, ClientsType
<1>5. client' \in [Clients -> [turns : Seq(Turns), busy : BOOLEAN]]
      /\ \A c \in Clients : client'[c].turns = client[c].turns
  BY <1>1, <1>3, <1>4
<1>6. \A c \in Clients : client[c].turns \in Histories /\ History(c, client[c].turns)
  BY DEF SessionInv, Asked, Histories, Past
<1>7. jobs \in Nat
  BY ConstantFacts DEF SessionInv, Types, CountersType
<1>8. Asked' /\ Fresh' /\ Histories' \subseteq Histories
  BY <1>1, <1>5, <1>6, <1>7, FewerHistories DEF SessionInv
<1>9. Types'
  <2>1. ClientsType'
    BY <1>1, <1>2, <1>5 DEF ClientsType
  <2>2. WorkerType' /\ BindingsType' /\ SessionType(session)' /\ DiskType(disk)' /\ CountersType'
    BY <1>1 DEF SessionInv, Types, WorkerType, Active, BindingsType, CountersType
  <2> QED
    BY <2>1, <2>2 DEF Types
<1>10. Going'
  BY <1>1 DEF Going, Active
<1>11. ~strayed' => Sound'
  <2> SUFFICES ASSUME ~strayed PROVE Sound'
    BY <1>1
  <2>1. Sound
    BY DEF SessionInv
  <2>2. Bound => Bound'
    BY <1>1, <1>8, BoundFewer DEF Bound
  <2> QED
    BY <1>1, <2>1, <2>2 DEF Sound, ds4_session_pos
<1> QED
  BY <1>8, <1>9, <1>10, <1>11 DEF SessionInv

\* What a request that is not in the session and not on its own tells.
LEMMA MissedFacts ==
    ASSUME SessionInv, TakeJob, Missed(Head(queue))
    PROVE  /\ phase = "idle" /\ Head(queue) \in Requests /\ WellAsked(Head(queue))
           /\ Head(queue).text = Head(queue).whole
           /\ Head(queue).text \in Seq(TextSymbols) /\ Begun(Head(queue).text)
           /\ Len(Head(queue).text) < Ctx
<1>1. phase = "idle" /\ queue # <<>> /\ queue \in Seq(Requests) /\ ~Head(queue).requires_live
  BY DEF TakeJob, Missed, SessionInv, Types, ClientsType
<1>2. Head(queue) \in Requests /\ Head(queue) = queue[1] /\ 1 \in DOMAIN queue
  BY <1>1, HeadAndTail
<1>3. WellAsked(Head(queue))
  BY <1>2 DEF SessionInv, Asked
<1>4. /\ Head(queue).text \in Seq(TextSymbols) /\ Begun(Head(queue).whole)
      /\ Head(queue).text = Head(queue).whole
  BY <1>1, <1>2, <1>3, WholeText
<1>5. Len(Head(queue).text) < Ctx
  BY <1>3 DEF WellAsked
<1> QED
  BY <1>1, <1>2, <1>3, <1>4, <1>5

\* Saving the session between two jobs.
LEMMA IdleSaves ==
    ASSUME SessionInv, phase = "idle", NEW K \in SavedFirst
    PROVE  /\ DiskType(K)
           /\ ~strayed => SoundDisk(K)
           /\ ~strayed /\ CanStore(session) /\ ~NamesLastTurnOnly =>
                 \E e \in K : Meaning(e.text) = Says(session.tokens)
<1>1. PICK sound \in BOOLEAN : sound = ~strayed
  OBVIOUS
<1>2. sound => SoundDisk(disk) /\ Begins(session.tokens) /\ (ds4_session_pos > 0 => Bound)
  BY <1>1 DEF SessionInv, Sound
<1>3. DiskType(disk) /\ SessionType(session) /\ BindingsType
  BY DEF SessionInv, Types
<1> QED
  BY <1>1, <1>2, <1>3, SavedFirstKeeps

\* A checkpoint whose key begins the text, and the prompt that goes on from it.
LEMMA HitFacts ==
    ASSUME NEW D, DiskType(D), NEW text \in Seq(TextSymbols),
           NEW e \in kv_cache_find_text_prefix(D, text), NEW prompt, prompt = LoadedPrompt(e, text)
    PROVE  /\ e \in D /\ e.tokens \in Seq(Tokens) /\ e.text \in Seq(TextSymbols)
           /\ Len(e.tokens) <= Ctx /\ Len(e.tokens) \in Nat /\ IsPrefix(e.text, text)
           /\ SessionType(Held(e.tokens)) /\ Held(e.tokens).tokens = e.tokens
           /\ prompt \in Seq(Tokens)
           /\ SoundDisk(D) /\ Begun(text) =>
                 Begins(e.tokens) /\ Describes(e.text, e.tokens) /\ Tells(prompt, text)
<1>1. e \in D /\ IsPrefix(e.text, text)
  BY DEF kv_cache_find_text_prefix
<1>2. e.tokens \in Seq(Tokens) /\ e.text \in Seq(TextSymbols) /\ Len(e.tokens) <= Ctx /\ Len(e.tokens) \in Nat
  BY <1>1, LenProperties DEF DiskType, Entries
<1>3. SessionType(Held(e.tokens)) /\ Held(e.tokens).tokens = e.tokens
  BY <1>2 DEF SessionType, Sessions, Held
<1>4. After(text, e.text) \in Seq(Tokens)
  BY <1>1, <1>2, PrefixSplits, TextIsTokens
<1>5. prompt = e.tokens \o After(text, e.text)
  BY DEF LoadedPrompt, build_prompt_from_exact_prefix_and_text_suffix, ds4_tokenize_rendered_chat
<1>6. prompt \in Seq(Tokens)
  BY <1>2, <1>4, <1>5, ConcatProperties
<1>7. ASSUME SoundDisk(D), Begun(text) PROVE Begins(e.tokens) /\ Describes(e.text, e.tokens) /\ Tells(prompt, text)
  <2>1. Begins(e.tokens) /\ Describes(e.text, e.tokens)
    BY <1>1, <1>7 DEF SoundDisk
  <2> QED
    BY <1>1, <1>2, <1>5, <1>7, <2>1, Continued
<1> QED
  BY <1>1, <1>2, <1>3, <1>6, <1>7

\* A saved checkpoint replaces the session.
LEMMA LoadFromDiskHolds == SessionInv /\ LoadFromDisk => SessionInv'
<1> SUFFICES ASSUME SessionInv, LoadFromDisk PROVE SessionInv'
  OBVIOUS
<1>1. /\ TakeJob /\ Missed(Head(queue))
      /\ queue' = Tail(queue) /\ phase' = "prefill"
      /\ UNCHANGED <<resp, anth, thnk, client, jobs, faults, strayed>>
  BY DEF LoadFromDisk, bindings, counters
<1>2. PICK r : r = Head(queue)
  OBVIOUS
<1>0. PICK D \in SavedFirst : \E e \in kv_cache_find_text_prefix(D, r.text) :
          /\ session' = Held(e.tokens)
          /\ job' = Start(r, "disk-text", session', LoadedPrompt(e, r.text), Len(e.tokens))
          /\ disk' = IF Consumed(e) THEN D \ {e} ELSE D
          /\ last' = Len(e.tokens)
  BY <1>2 DEF LoadFromDisk
<1>3. PICK e \in kv_cache_find_text_prefix(D, r.text) :
          /\ session' = Held(e.tokens)
          /\ job' = Start(r, "disk-text", session', LoadedPrompt(e, r.text), Len(e.tokens))
          /\ disk' = IF Consumed(e) THEN D \ {e} ELSE D
          /\ last' = Len(e.tokens)
  BY <1>0
<1>4. /\ phase = "idle" /\ r \in Requests /\ r.text = r.whole
      /\ r.text \in Seq(TextSymbols) /\ Begun(r.text)
  BY <1>1, <1>2, MissedFacts
<1>5. DiskType(D) /\ (~strayed => SoundDisk(D))
  BY <1>3, <1>4, IdleSaves
<1>6. PICK prompt : prompt = LoadedPrompt(e, r.text)
  OBVIOUS
<1>7. /\ Len(e.tokens) <= Ctx /\ Len(e.tokens) \in Nat
      /\ SessionType(session') /\ session'.tokens = e.tokens
      /\ prompt \in Seq(Tokens)
      /\ SoundDisk(D) => Begins(e.tokens) /\ Tells(prompt, r.text)
  BY <1>3, <1>4, <1>5, <1>6, HitFacts
<1>8. disk' \subseteq D
  BY <1>3
<1>9. DiskType(disk') /\ (~strayed => SoundDisk(disk'))
  BY <1>5, <1>8, DiskShrinks
<1>10. last' \in 0..Ctx /\ faults' \in 0..MaxFaults /\ "disk-text" \in Sources
       /\ "disk-text" \notin RespSources
  BY <1>1, <1>3, <1>7, ConstantFacts DEF SessionInv, Types, CountersType, Sources, RespSources
<1>11. PICK source \in Sources : source = "disk-text"
  BY <1>10
<1>12. job' = Start(Head(queue), source, session', prompt, Len(e.tokens))
  BY <1>2, <1>3, <1>6, <1>11
<1>13. /\ source \in RespSources =>
               resp.live_tokens < Len(prompt) /\ Profile[Head(queue).c].api = "responses"
       /\ source = "anthropic-tool-output" =>
               anth.live_tokens < Len(prompt) /\ Profile[Head(queue).c].api = "anthropic"
       /\ source = "thinking-visible" => thnk.live_tokens < Len(prompt)
  BY <1>10, <1>11
<1>14. ~strayed => /\ SoundDisk(disk') /\ Begins(session'.tokens)
                   /\ Tells(prompt, Head(queue).whole)
  BY <1>2, <1>4, <1>5, <1>7, <1>9
<1> QED
  BY <1>1, <1>7, <1>9, <1>10, <1>12, <1>13, <1>14, PrefillBegins DEF bindings

\* A job that starts from nothing, whatever is left of the session.
LEMMA ColdStartHolds ==
    ASSUME SessionInv, TakeJob, Missed(Head(queue)), NEW D \in SavedFirst, ColdStart(Head(queue), D),
           session' \in {session, ds4_session_invalidate(session)}, faults' \in 0..MaxFaults
    PROVE  SessionInv'
<1>1. PICK r : r = Head(queue)
  OBVIOUS
<1>2. /\ phase = "idle" /\ r \in Requests /\ r.text = r.whole
      /\ r.text \in Seq(TextSymbols) /\ Begun(r.text) /\ Len(r.text) < Ctx
  BY <1>1, MissedFacts
<1>3. PICK source \in Sources, prompt \in Seq(Tokens) :
          source = "none" /\ prompt = r.text
  BY <1>2, TextIsTokens DEF Sources
<1>4. /\ job' = Start(r, source, session, prompt, 0)
      /\ disk' = D
      /\ last' = (IF job'.suppressed >= 0 THEN job'.cold ELSE 0)
      /\ queue' = Tail(queue) /\ phase' = "prefill" /\ client' = client /\ jobs' = jobs
      /\ strayed' = strayed /\ UNCHANGED bindings
  BY <1>1, <1>3 DEF ColdStart, ds4_tokenize_rendered_chat
<1>5. DiskType(D) /\ (~strayed => SoundDisk(D))
  BY <1>2, IdleSaves
<1>6. SessionType(session)
  BY DEF SessionInv, Types
<1>7. SessionType(session') /\ (~strayed => Begins(session'.tokens))
  <2>1. CASE session' = session
    BY <1>6, <2>1 DEF SessionInv, Sound
  <2>2. CASE session' = NoSession
    <3>1. session'.tokens = <<>> /\ session' \in Sessions /\ Len(<<>>) = 0
      BY <2>2, EmptySeq DEF NoSession, Sessions
    <3> QED
      BY <3>1, ConstantFacts, TextFacts, LenProperties DEF SessionType, Begins
  <2> QED
    BY <2>1, <2>2 DEF ds4_session_invalidate
<1>8. Tells(prompt, r.whole)
  BY <1>2, <1>3, SaysFacts DEF Tells
<1>9. Starts(job', r, source, prompt)
  BY <1>2, <1>4, <1>6, StartFacts
<1>10. last' \in 0..Ctx
  <2>1. job'.cold \in Nat /\ job'.cold <= Len(prompt) /\ Len(prompt) \in Nat
    BY <1>9, LenProperties DEF Starts, Jobs
  <2>2. job'.cold \in 0..Ctx
    BY <1>2, <1>3, <2>1, ConstantFacts
  <2> QED
    BY <1>4, <2>2, ConstantFacts
<1>11. /\ source \notin RespSources /\ source # "anthropic-tool-output" /\ source # "thinking-visible"
  BY <1>3 DEF RespSources
<1>12. job' = Start(Head(queue), source, session, prompt, 0)
  BY <1>1, <1>4
<1>13. ~strayed => /\ SoundDisk(disk') /\ Begins(session'.tokens)
                   /\ Tells(prompt, Head(queue).whole)
  BY <1>1, <1>4, <1>5, <1>7, <1>8
<1> QED
  BY <1>4, <1>5, <1>6, <1>7, <1>10, <1>11, <1>12, <1>13, PrefillBegins

\* Nothing fits: a cold start, the session saved first.
LEMMA MissDiskHolds == SessionInv /\ MissDisk => SessionInv'
<1> SUFFICES ASSUME SessionInv, MissDisk PROVE SessionInv'
  OBVIOUS
<1>1. PICK D \in SavedFirst : TakeJob /\ Missed(Head(queue)) /\ ColdStart(Head(queue), D)
  BY DEF MissDisk
<1>2. session' = session /\ faults' \in 0..MaxFaults
  BY DEF MissDisk, SessionInv, Types, CountersType
<1> QED
  BY <1>1, <1>2, ColdStartHolds

\* A checkpoint that cannot be loaded: a cold start without a session.
LEMMA LoadFailsHolds == SessionInv /\ LoadFails => SessionInv'
<1> SUFFICES ASSUME SessionInv, LoadFails PROVE SessionInv'
  OBVIOUS
<1>1. PICK D \in SavedFirst : TakeJob /\ Missed(Head(queue)) /\ ColdStart(Head(queue), D)
  BY DEF LoadFails
<1>2. session' \in {session, ds4_session_invalidate(session)}
  BY DEF LoadFails
<1>3. faults' \in 0..MaxFaults
  BY ConstantFacts DEF LoadFails, SessionInv, Types, CountersType
<1> QED
  BY <1>1, <1>2, <1>3, ColdStartHolds

-----------------------------------------------------------------------------
(***************************************************************************)
(* Bringing the session to the prompt.                                     *)
(***************************************************************************)
\* What holds of the job and the session while a job runs.
LEMMA JobFacts ==
    ASSUME SessionInv, Active
    PROVE  /\ job \in Jobs /\ SessionType(session) /\ BindingsType /\ DiskType(disk)
           /\ session.tokens \in Seq(Tokens) /\ Len(session.tokens) \in Nat /\ Len(session.tokens) <= Ctx
           /\ session.valid \in BOOLEAN
           /\ last \in 0..Ctx /\ faults \in 0..MaxFaults /\ strayed \in BOOLEAN
           /\ job.prompt \in Seq(Tokens) /\ Len(job.prompt) \in Nat
           /\ job.goal \in 0..Len(job.prompt) /\ job.cold \in 0..Len(job.prompt)
           /\ job.goal < Len(job.prompt) => job.goal = job.cold
           /\ job.suppressed \in {0, -1} /\ job.chunked \in BOOLEAN
<1>1. /\ job \in Jobs /\ SessionType(session) /\ BindingsType /\ DiskType(disk)
      /\ last \in 0..Ctx /\ faults \in 0..MaxFaults /\ strayed \in BOOLEAN
  BY DEF SessionInv, Types, WorkerType, CountersType
<1>2. /\ job.prompt \in Seq(Tokens) /\ Len(job.prompt) \in Nat /\ job.goal \in Nat /\ job.cold \in Nat
      /\ job.suppressed \in {0, -1} /\ job.chunked \in BOOLEAN
  BY <1>1, LenProperties DEF Jobs
<1>3. /\ job.goal <= Len(job.prompt) /\ job.cold <= Len(job.prompt)
      /\ job.goal < Len(job.prompt) => job.goal = job.cold
  BY DEF SessionInv, Going
<1>4. /\ session.tokens \in Seq(Tokens) /\ Len(session.tokens) \in Nat /\ Len(session.tokens) <= Ctx
      /\ session.valid \in BOOLEAN
  BY <1>1, LenProperties DEF SessionType, Sessions
<1> QED
  BY <1>1, <1>2, <1>3, <1>4

\* The session a step of the prefill makes.
LEMMA PartOfPrompt ==
    ASSUME SessionInv, Active, NEW n \in 0..job.goal, n <= Ctx, NEW valid \in BOOLEAN,
           NEW s, s = [tokens |-> SubSeq(job.prompt, 1, n), valid |-> valid]
    PROVE  /\ SessionType(s)
           /\ Begun(job.prompt) => Begins(s.tokens)
<1>1. job.prompt \in Seq(Tokens) /\ n \in 0..Len(job.prompt)
  BY JobFacts
<1>2. PICK t : t = SubSeq(job.prompt, 1, n)
  OBVIOUS
<1>3. t \in Seq(Tokens) /\ Len(t) = n
  BY <1>1, <1>2, FirstOf
<1>4. s = [tokens |-> t, valid |-> valid] /\ s.tokens = t
  BY <1>2
<1>5. SessionType(s)
  BY <1>3, <1>4 DEF SessionType, Sessions
<1>6. Begun(job.prompt) => Begins(t)
  BY <1>1, <1>2, FirstBegins DEF Begun, Begins
<1> QED
  BY <1>4, <1>5, <1>6

\* The next chunk ends at the goal at most.
LEMMA NextChunkBound ==
    ASSUME SessionInv, Active
    PROVE  NextChunk \in 0..job.goal
<1>1. job.goal \in Nat /\ Len(session.tokens) \in Nat
  BY JobFacts
<1>2. Reached \in Nat
  BY <1>1 DEF Reached, ds4_session_pos
<1>3. PICK m : m = (Reached \div Chunk + 1) * Chunk
  OBVIOUS
<1>4. m \in Nat
  BY <1>2, <1>3, ConstantFacts
<1>5. Min({m, job.goal}) \in {m, job.goal} /\ Min({m, job.goal}) <= job.goal
  <2>1. \E x \in {m, job.goal} : \A y \in {m, job.goal} : x <= y
    BY <1>1, <1>4
  <2> QED
    BY <2>1 DEF Min
<1>6. NextChunk = IF job.chunked THEN Min({m, job.goal}) ELSE job.goal
  BY <1>3 DEF NextChunk
<1> QED
  BY <1>1, <1>4, <1>5, <1>6

\* One chunk of the prompt is evaluated.
LEMMA PrefillChunkHolds == SessionInv /\ PrefillChunk => SessionInv'
<1> SUFFICES ASSUME SessionInv, PrefillChunk PROVE SessionInv'
  OBVIOUS
<1>1. /\ phase \in {"prefill", "rebuild"} /\ job.goal < Ctx
      /\ session' = Held(SubSeq(job.prompt, 1, NextChunk))
      /\ UNCHANGED <<resp, anth, thnk, client, queue, job, phase, jobs, faults, strayed>>
  BY DEF PrefillChunk, Syncing, bindings, counters
<1>2. Active /\ Active'
  BY <1>1 DEF Active
<1>3. PICK n \in 0..job.goal : n = NextChunk
  BY <1>2, NextChunkBound
<1>4. n <= Ctx
  BY <1>1, <1>2, JobFacts, ConstantFacts
<1>5. session' = [tokens |-> SubSeq(job.prompt, 1, n), valid |-> TRUE]
  BY <1>1, <1>3 DEF Held
<1>6. SessionType(session') /\ (Begun(job.prompt) => Begins(session'.tokens))
  BY <1>2, <1>4, <1>5, PartOfPrompt
<1>7. ~strayed => Begun(job.prompt)
  BY <1>1 DEF SessionInv, Sound
<1>8. PICK saved : /\ \/ saved \in kv_cache_maybe_store_continued(disk, last, session')
                      \/ saved = <<disk, last>>
                   /\ disk' = saved[1] /\ last' = saved[2]
  BY DEF PrefillChunk
<1>9. /\ DiskType(disk') /\ last' \in 0..Ctx
      /\ ~strayed => SoundDisk(disk')
  <2>1. DiskType(disk) /\ last \in 0..Ctx /\ (~strayed => SoundDisk(disk))
    BY <1>2, JobFacts DEF SessionInv, Sound
  <2>2. CASE saved \in kv_cache_maybe_store_continued(disk, last, session')
    BY <1>6, <1>7, <1>8, <2>1, <2>2, ContinuedStores
  <2>3. CASE saved = <<disk, last>>
    BY <1>8, <2>1, <2>3
  <2> QED
    BY <1>8, <2>2, <2>3
<1>10. BindingsType' /\ job' \in Jobs /\ phase' \in Phases /\ faults' \in 0..MaxFaults /\ strayed' \in BOOLEAN
  <2>1. phase \in Phases /\ job \in Jobs /\ BindingsType /\ faults \in 0..MaxFaults /\ strayed \in BOOLEAN
    BY <1>2, JobFacts DEF SessionInv, Types, WorkerType
  <2> QED
    BY <1>1, <2>1 DEF BindingsType
<1>11. Going'
  BY <1>1 DEF SessionInv, Going, Active
<1>12. ASSUME Histories' = Histories, ~strayed' PROVE Sound'
  BY <1>1, <1>6, <1>7, <1>9, <1>12 DEF SessionInv, Sound
<1> QED
  BY <1>1, <1>2, <1>6, <1>9, <1>10, <1>11, <1>12, WithinJob

\* A sync that ends in an error leaves no binding behind, or strays.
LEMMA EndFailedSyncHolds ==
    ASSUME SessionInv, phase \in {"prefill", "rebuild"}, EndFailedSync, SessionType(session'),
           faults' \in 0..MaxFaults, ~strayed => Begins(session'.tokens)
    PROVE  SessionInv'
<1>1. /\ phase' = "reply" /\ strayed' = (strayed \/ resp.valid \/ anth.valid \/ thnk.valid)
      /\ UNCHANGED <<resp, anth, thnk, disk, client, queue, job, jobs>>
      /\ last' = IF phase = "prefill" THEN kv_cache_restore_suppressed_continued(job) ELSE last
  BY DEF EndFailedSync, bindings
<1>2. Active /\ Active'
  BY <1>1 DEF Active
<1>3. job \in Jobs /\ BindingsType /\ DiskType(disk) /\ last \in 0..Ctx /\ job.suppressed \in {0, -1}
  BY <1>2, JobFacts
<1>4. last' \in 0..Ctx
  BY <1>1, <1>3, ConstantFacts DEF kv_cache_restore_suppressed_continued
<1>5. BindingsType' /\ job' \in Jobs /\ phase' \in Phases /\ DiskType(disk')
  BY <1>1, <1>3 DEF BindingsType, Phases
<1>6. strayed' \in BOOLEAN
  BY <1>1
<1>7. Going'
  BY <1>1, <1>2 DEF SessionInv, Going
<1>8. ASSUME ~strayed' PROVE Sound'
  <2>1. ~strayed /\ ~resp.valid /\ ~anth.valid /\ ~thnk.valid
    BY <1>1, <1>8
  <2>2. SoundDisk(disk)
    BY <2>1 DEF SessionInv, Sound
  <2>3. BoundBy(Histories', resp', anth', thnk', session'.tokens)
    BY <1>1, <2>1 DEF BoundBy
  <2> QED
    BY <1>1, <2>1, <2>2, <2>3 DEF Sound, Bound
<1> QED
  BY <1>1, <1>2, <1>4, <1>5, <1>6, <1>7, <1>8, WithinJob

\* ds4_session_sync refuses a prompt that does not fit.
LEMMA SyncRefusedHolds == SessionInv /\ SyncRefused => SessionInv'
<1> SUFFICES ASSUME SessionInv, SyncRefused PROVE SessionInv'
  OBVIOUS
<1>1. phase \in {"prefill", "rebuild"} /\ EndFailedSync /\ session' = session /\ faults' = faults
  BY DEF SyncRefused, Syncing
<1>2. Active
  BY <1>1 DEF Active
<1>3. SessionType(session) /\ faults \in 0..MaxFaults /\ (~strayed => Begins(session.tokens))
  BY <1>2, JobFacts DEF SessionInv, Sound
<1> QED
  BY <1>1, <1>3, EndFailedSyncHolds

\* The tokens of the goal.
LEMMA GoalFacts ==
    ASSUME SessionInv, Active
    PROVE  /\ Goal \in Seq(Tokens) /\ Len(Goal) = job.goal
           /\ job.goal = Len(job.prompt) => Goal = job.prompt
<1>1. job.prompt \in Seq(Tokens) /\ job.goal \in 0..Len(job.prompt)
  BY JobFacts
<1>2. PICK g : g = SubSeq(job.prompt, 1, job.goal)
  OBVIOUS
<1>3. g \in Seq(Tokens) /\ Len(g) = job.goal /\ (job.goal = Len(job.prompt) => g = job.prompt)
  BY <1>1, <1>2, FirstOf
<1> QED
  BY <1>2, <1>3 DEF Goal

\* The backend fails in a chunk: the session is gone.
LEMMA SyncFailsHolds == SessionInv /\ SyncFails => SessionInv'
<1> SUFFICES ASSUME SessionInv, SyncFails PROVE SessionInv'
  OBVIOUS
<1>1. /\ phase \in {"prefill", "rebuild"} /\ EndFailedSync /\ job.goal < Ctx
      /\ faults < MaxFaults /\ faults' = faults + 1
  BY DEF SyncFails, Syncing
<1>2. Active
  BY <1>1 DEF Active
<1>3. PICK n \in IF Extends /\ ~job.chunked THEN Reached..job.goal - 1 ELSE {ds4_session_pos} :
          session' = [tokens |-> IF Extends THEN SubSeq(job.prompt, 1, n) ELSE session.tokens,
                      valid |-> FALSE]
  BY DEF SyncFails
<1>4. /\ faults' \in 0..MaxFaults /\ job.goal \in Nat /\ Len(session.tokens) \in Nat
      /\ SessionType(session)
  BY <1>1, <1>2, JobFacts, ConstantFacts
<1>5. CASE Extends
  <2>1. Len(session.tokens) <= Len(Goal)
    BY <1>5 DEF Extends, IsPrefix
  <2>2. Len(session.tokens) <= job.goal
    BY <1>2, <2>1, GoalFacts
  <2>3. Reached = Len(session.tokens) /\ ds4_session_pos = Len(session.tokens)
    BY <1>5 DEF Reached, ds4_session_pos
  <2>4. n \in 0..job.goal
    BY <1>3, <1>4, <2>2, <2>3
  <2>5. n <= Ctx
    BY <1>1, <1>4, <2>4, ConstantFacts
  <2>6. session' = [tokens |-> SubSeq(job.prompt, 1, n), valid |-> FALSE]
    BY <1>3, <1>5
  <2>7. SessionType(session') /\ (Begun(job.prompt) => Begins(session'.tokens))
    BY <1>2, <2>4, <2>5, <2>6, PartOfPrompt
  <2>8. ~strayed => Begun(job.prompt)
    BY <1>1 DEF SessionInv, Sound
  <2> QED
    BY <1>1, <1>4, <2>7, <2>8, EndFailedSyncHolds
<1>6. CASE ~Extends
  <2>1. session' = [tokens |-> session.tokens, valid |-> FALSE]
    BY <1>3, <1>6
  <2>2. SessionType(session') /\ session'.tokens = session.tokens
    BY <1>4, <2>1 DEF SessionType, Sessions
  <2>3. ~strayed => Begins(session'.tokens)
    BY <2>2 DEF SessionInv, Sound
  <2> QED
    BY <1>1, <1>4, <2>2, <2>3, EndFailedSyncHolds
<1> QED
  BY <1>5, <1>6

\* A session that reached the end of the prompt holds the prompt.
LEMMA SyncedFacts ==
    ASSUME SessionInv, Synced
    PROVE  /\ Active /\ phase \in {"prefill", "rebuild"} /\ job.goal < Ctx
           /\ Len(session.tokens) = job.goal
           /\ job.goal = Len(job.prompt) => session.tokens = job.prompt
<1>1. /\ phase \in {"prefill", "rebuild"} /\ job.goal < Ctx
      /\ IsPrefix(session.tokens, Goal) /\ Len(session.tokens) = job.goal
  BY DEF Synced, Syncing, Extends, ds4_session_pos
<1>2. Active
  BY <1>1 DEF Active
<1>3. session.tokens \in Seq(Tokens)
  BY <1>2, JobFacts
<1>4. /\ Goal \in Seq(Tokens) /\ Len(Goal) = job.goal
      /\ job.goal = Len(job.prompt) => Goal = job.prompt
  BY <1>2, GoalFacts
<1>5. session.tokens = Goal
  BY <1>1, <1>3, <1>4, PrefixOfSameLength
<1> QED
  BY <1>1, <1>2, <1>4, <1>5

\* The cold prefix is evaluated and stored, and the prompt goes on.
LEMMA ColdPrefixDoneHolds == SessionInv /\ ColdPrefixDone => SessionInv'
<1> SUFFICES ASSUME SessionInv, ColdPrefixDone PROVE SessionInv'
  OBVIOUS
<1>1. /\ Synced /\ job.goal < Len(job.prompt)
      /\ disk' \in kv_cache_store_live_prefix(disk, session)
      /\ last' = (IF CanStore(session) THEN kv_cache_note_store(last, job.cold)
                  ELSE kv_cache_restore_suppressed_continued(job))
      /\ UNCHANGED <<session, resp, anth, thnk, client, queue, phase, jobs, faults, strayed>>
  BY DEF ColdPrefixDone, bindings, counters
<1>2. Active /\ job.goal < Ctx /\ phase \in {"prefill", "rebuild"}
  BY <1>1, SyncedFacts
<1>3. phase = "prefill" /\ Active'
  BY <1>1, <1>2, JobFacts DEF SessionInv, Going, Active
<1>4. PICK goal, chunked : /\ goal = Len(job.prompt) /\ goal \in Nat
                           /\ chunked = InChunks(session, job.prompt)
  BY <1>2, JobFacts
<1>5. chunked \in BOOLEAN
  BY <1>4, InChunksOrNot
<1>6. job' = [job EXCEPT !.goal = goal, !.suppressed = -1, !.chunked = chunked]
  BY <1>4 DEF ColdPrefixDone
<1>7. job \in Jobs
  BY <1>2, JobFacts
<1>8. /\ job' \in Jobs /\ job'.goal = goal /\ job'.r = job.r /\ job'.c = job.c /\ job'.turns = job.turns
      /\ job'.prompt = job.prompt /\ job'.cold = job.cold /\ job'.source = job.source /\ job'.out = job.out
  BY <1>4, <1>5, <1>6, <1>7 DEF Jobs
<1>9. last' \in 0..Ctx
  <2>1. job.cold \in 0..Ctx /\ last \in 0..Ctx /\ job.suppressed \in {0, -1}
    BY <1>1, <1>2, JobFacts, ConstantFacts
  <2> QED
    BY <1>1, <2>1, ConstantFacts DEF kv_cache_note_store, kv_cache_restore_suppressed_continued
<1>10. DiskType(disk') /\ (~strayed => SoundDisk(disk'))
  <2>1. DiskType(disk) /\ SessionType(session) /\ (~strayed => SoundDisk(disk) /\ Begins(session.tokens))
    BY <1>2, JobFacts DEF SessionInv, Sound
  <2> QED
    BY <1>1, <2>1, StoreLive
<1>11. SessionType(session') /\ BindingsType' /\ phase' \in Phases /\ faults' \in 0..MaxFaults /\ strayed' \in BOOLEAN
  BY <1>1, <1>2, <1>3, JobFacts DEF BindingsType, Phases
<1>12. Going'
  <2>1. /\ job'.goal = Len(job'.prompt) /\ job'.cold <= Len(job'.prompt)
    BY <1>2, <1>4, <1>8, JobFacts
  <2> QED
    BY <1>1, <1>3, <1>8, <2>1 DEF SessionInv, Going, Active
<1>13. ASSUME ~strayed' PROVE Sound'
  BY <1>1, <1>3, <1>8, <1>10, <1>13 DEF SessionInv, Sound
<1> QED
  BY <1>1, <1>2, <1>3, <1>8, <1>9, <1>10, <1>11, <1>12, <1>13, WithinJob

-----------------------------------------------------------------------------
(***************************************************************************)
(* From the end of the prefill to the answer.                              *)
(***************************************************************************)
LEMMA ContinuedStoreFacts ==
    ASSUME SessionInv, Active, ContinuedStore
    PROVE  DiskType(disk') /\ last' \in 0..Ctx /\ (~strayed => SoundDisk(disk'))
<1>1. PICK saved \in kv_cache_maybe_store_continued(disk, last, session) :
          disk' = saved[1] /\ last' = saved[2]
  BY DEF ContinuedStore
<1>2. DiskType(disk) /\ SessionType(session) /\ last \in 0..Ctx
      /\ (~strayed => SoundDisk(disk) /\ Begins(session.tokens))
  BY JobFacts DEF SessionInv, Sound
<1> QED
  BY <1>1, <1>2, ContinuedStores

\* A binding is kept as it is, or emptied.
LEMMA KeptBinding ==
    ASSUME NEW b \in BindingType, NEW sources
    PROVE  KeepIfContinued(b, sources) \in BindingType
           /\ (KeepIfContinued(b, sources).valid => job.source \in sources /\ KeepIfContinued(b, sources) = b)
<1>1. NoBinding \in BindingType /\ ~NoBinding.valid
  BY EmptySeq, ConstantFacts DEF NoBinding, BindingType
<1> QED
  BY <1>1 DEF KeepIfContinued

\* The prompt is evaluated: the session says the whole request.
LEMMA PromptDoneHolds == SessionInv /\ PromptDone => SessionInv'
<1> SUFFICES ASSUME SessionInv, PromptDone PROVE SessionInv'
  OBVIOUS
<1>1. /\ Synced /\ phase = "prefill" /\ phase' = "decode" /\ job.goal = Len(job.prompt)
      /\ resp' = KeepIfContinued(resp, RespSources)
      /\ anth' = KeepIfContinued(anth, {"anthropic-tool-output"})
      /\ thnk' = KeepIfContinued(thnk, {"thinking-visible"})
      /\ UNCHANGED <<session, client, queue, job, jobs, faults, strayed>>
  BY DEF PromptDone, counters, RespSources
<1>2. Active /\ Active' /\ session.tokens = job.prompt /\ Len(session.tokens) = Len(job.prompt)
      /\ job.goal < Ctx
  BY <1>1, SyncedFacts DEF Active
<1>3. /\ job \in Jobs /\ SessionType(session) /\ DiskType(disk) /\ last \in 0..Ctx
      /\ resp \in BindingType /\ anth \in BindingType /\ thnk \in BindingType
      /\ job.cold \in 0..Len(job.prompt) /\ Len(job.prompt) \in Nat
      /\ faults \in 0..MaxFaults /\ strayed \in BOOLEAN
  BY <1>2, JobFacts DEF BindingsType
<1>4. /\ BindingsType'
      /\ resp'.valid => job.source \in RespSources /\ resp' = resp
      /\ anth'.valid => job.source = "anthropic-tool-output" /\ anth' = anth
      /\ thnk'.valid => job.source = "thinking-visible" /\ thnk' = thnk
  BY <1>1, <1>3, KeptBinding DEF BindingsType
<1>5. PICK saved \in kv_cache_maybe_store_continued(disk, last, session) :
          IF job.cold = Len(job.prompt)
          THEN /\ disk' \in kv_cache_store_live_prefix(saved[1], session)
               /\ last' = kv_cache_note_store(saved[2], job.cold)
          ELSE /\ disk' = saved[1]
               /\ last' = saved[2]
  BY DEF PromptDone
<1>6. ~strayed => SoundDisk(disk) /\ Begins(session.tokens)
  BY DEF SessionInv, Sound
<1>7. DiskType(saved[1]) /\ saved[2] \in 0..Ctx /\ (~strayed => SoundDisk(saved[1]))
  BY <1>3, <1>5, <1>6, ContinuedStores
<1>8. DiskType(disk') /\ last' \in 0..Ctx /\ (~strayed => SoundDisk(disk'))
  <2>1. CASE job.cold = Len(job.prompt)
    <3>1. /\ disk' \in kv_cache_store_live_prefix(saved[1], session)
          /\ last' = kv_cache_note_store(saved[2], job.cold)
      BY <1>5, <2>1
    <3>2. last' \in 0..Ctx
      BY <1>1, <1>2, <1>3, <1>7, <2>1, <3>1, ConstantFacts DEF kv_cache_note_store
    <3> QED
      BY <1>3, <1>6, <1>7, <3>1, <3>2, StoreLive
  <2>2. CASE job.cold # Len(job.prompt)
    BY <1>5, <1>7, <2>2
  <2> QED
    BY <2>1, <2>2
<1>9. Going'
  <2>1. /\ job.goal <= Len(job.prompt) /\ job.cold <= Len(job.prompt)
        /\ job.goal < Len(job.prompt) => job.goal = job.cold
        /\ job.turns = <<>> /\ job.out = <<>>
    BY <1>1, <1>2 DEF SessionInv, Going
  <2>2. /\ resp'.valid => resp'.live_tokens < Len(session.tokens) /\ Profile[job.c].api = "responses"
        /\ anth'.valid => anth'.live_tokens < Len(session.tokens) /\ Profile[job.c].api = "anthropic"
        /\ thnk'.valid => thnk'.live_tokens < Len(session.tokens)
    BY <1>1, <1>2, <1>4 DEF SessionInv, Going
  <2> QED
    BY <1>1, <2>1, <2>2 DEF Going, Answered, ds4_session_pos
<1>10. ASSUME ~strayed' PROVE Sound'
  <2>1. Says(job.prompt) = Meaning(job.r.whole) /\ Begun(job.prompt)
    BY <1>1, <1>10 DEF SessionInv, Sound
  <2>2. job.out = <<>>
    BY <1>1 DEF SessionInv, Going
  <2>3. Spoken(job.out) = <<>>
    BY <2>2 DEF Spoken
  <2>4. Meaning(job.r.whole) \in Seq(TextSymbols)
    BY <1>3, MeaningMore DEF Jobs, Requests
  <2>5. Meaning(job.r.whole) \o Spoken(job.out) = Meaning(job.r.whole)
    BY <2>3, <2>4, TextsJoin
  <2> QED
    BY <1>1, <1>2, <1>6, <1>8, <1>10, <2>1, <2>5 DEF Sound
<1>11. job' \in Jobs /\ SessionType(session') /\ phase' \in Phases
  BY <1>1, <1>3 DEF Phases
<1> QED
  BY <1>1, <1>2, <1>3, <1>4, <1>8, <1>9, <1>10, <1>11, WithinJob

\* The rebuilt checkpoint is evaluated.
LEMMA RebuildDoneHolds == SessionInv /\ RebuildDone => SessionInv'
<1> SUFFICES ASSUME SessionInv, RebuildDone PROVE SessionInv'
  OBVIOUS
<1>1. /\ Synced /\ phase = "rebuild" /\ phase' = "reply"
      /\ UNCHANGED <<session, resp, anth, thnk, disk, last, client, queue, job, jobs, faults, strayed>>
  BY DEF RebuildDone, bindings, counters
<1>2. job.goal = Len(job.prompt)
  BY <1>1 DEF SessionInv, Going
<1>3. Active /\ Active' /\ session.tokens = job.prompt
  BY <1>1, <1>2, SyncedFacts DEF Active
<1>4. /\ job \in Jobs /\ SessionType(session) /\ DiskType(disk) /\ BindingsType
      /\ last \in 0..Ctx /\ faults \in 0..MaxFaults /\ strayed \in BOOLEAN
  BY <1>3, JobFacts
<1>5. /\ job' \in Jobs /\ SessionType(session') /\ DiskType(disk') /\ BindingsType'
      /\ last' \in 0..Ctx /\ faults' \in 0..MaxFaults /\ strayed' \in BOOLEAN /\ phase' \in Phases
  BY <1>1, <1>4 DEF BindingsType, Phases
<1>6. Going'
  BY <1>1, <1>3 DEF SessionInv, Going
<1>7. ASSUME Histories' = Histories, ~strayed' PROVE Sound'
  <2>1. /\ ~resp.valid /\ ~thnk.valid /\ SoundDisk(disk) /\ Begins(session.tokens)
        /\ anth.valid => Called(Histories, anth, job.prompt)
    BY <1>1, <1>7 DEF SessionInv, Sound
  <2>2. Bound'
    BY <1>1, <1>3, <1>7, <2>1 DEF Bound, BoundBy
  <2> QED
    BY <1>1, <2>1, <2>2 DEF Sound
<1> QED
  BY <1>1, <1>3, <1>5, <1>6, <1>7, WithinJob

\* A turn that ends without an answer: what is left of the bindings points
\* short of the session.
LEMMA EndsShort ==
    ASSUME SessionInv, phase = "decode", phase' = "reply",
           UNCHANGED <<client, queue, job, jobs, strayed>>,
           session'.tokens = session.tokens, SessionType(session'),
           resp' \in {resp, NoBinding}, anth' \in {anth, NoBinding}, thnk' \in {thnk, NoBinding},
           DiskType(disk'), last' \in 0..Ctx, faults' \in 0..MaxFaults,
           ~strayed => SoundDisk(disk')
    PROVE  SessionInv'
<1>1. Active /\ Active'
  BY DEF Active
<1>2. /\ job \in Jobs /\ BindingsType /\ strayed \in BOOLEAN /\ session.tokens \in Seq(Tokens)
  BY <1>1, JobFacts
<1>3. NoBinding \in BindingType /\ ~NoBinding.valid
  BY EmptySeq, ConstantFacts DEF NoBinding, BindingType
<1>4. resp' \in BindingType /\ anth' \in BindingType /\ thnk' \in BindingType
  BY <1>2, <1>3 DEF BindingsType
<1>5. /\ resp'.valid => resp'.live_tokens < Len(session.tokens)
      /\ anth'.valid => anth'.live_tokens < Len(session.tokens)
      /\ thnk'.valid => thnk'.live_tokens < Len(session.tokens)
  BY <1>3 DEF SessionInv, Going, ds4_session_pos
<1>6. Bound'
  <2>1. PICK H : H = Histories'
    OBVIOUS
  <2>2. BoundBy(H, resp', anth', thnk', session.tokens)
    BY <1>2, <1>4, <1>5, BoundShort
  <2> QED
    BY <2>1, <2>2 DEF Bound
<1>7. Going'
  BY <1>1 DEF SessionInv, Going
<1>8. ~strayed' => Sound'
  BY <1>6 DEF SessionInv, Sound
<1>9. job' \in Jobs /\ phase' \in Phases /\ strayed' \in BOOLEAN /\ BindingsType'
  BY <1>2, <1>4 DEF Phases, BindingsType
<1> QED
  BY <1>1, <1>7, <1>8, <1>9, WithinJob

\* The response cannot be started.
LEMMA StreamFailsHolds == SessionInv /\ StreamFailsToStart => SessionInv'
<1> SUFFICES ASSUME SessionInv, StreamFailsToStart PROVE SessionInv'
  OBVIOUS
<1>1. /\ phase = "decode" /\ phase' = "reply"
      /\ UNCHANGED <<session, resp, anth, thnk, disk, last, client, queue, job, jobs, faults, strayed>>
  BY DEF StreamFailsToStart, bindings, counters
<1>2. SessionType(session) /\ DiskType(disk) /\ last \in 0..Ctx /\ faults \in 0..MaxFaults
      /\ (~strayed => SoundDisk(disk))
  BY <1>1, JobFacts DEF Active, SessionInv, Sound
<1> QED
  BY <1>1, <1>2, EndsShort

\* The answer ends before it began, or at the token limit.
LEMMA FinishShortHolds == SessionInv /\ FinishShort => SessionInv'
<1> SUFFICES ASSUME SessionInv, FinishShort PROVE SessionInv'
  OBVIOUS
<1>1. /\ phase = "decode" /\ phase' = "reply"
      /\ UNCHANGED <<session, disk, last, client, queue, job, jobs, faults, strayed>>
  BY DEF FinishShort, counters
<1>2. resp' \in {resp, NoBinding} /\ anth' \in {anth, NoBinding} /\ thnk' \in {thnk, NoBinding}
  BY DEF FinishShort, Forget
<1>3. SessionType(session) /\ DiskType(disk) /\ last \in 0..Ctx /\ faults \in 0..MaxFaults
      /\ (~strayed => SoundDisk(disk))
  BY <1>1, JobFacts DEF Active, SessionInv, Sound
<1> QED
  BY <1>1, <1>2, <1>3, EndsShort

\* The backend fails while decoding.
LEMMA EvalFailsHolds == SessionInv /\ EvalFails => SessionInv'
<1> SUFFICES ASSUME SessionInv, EvalFails PROVE SessionInv'
  OBVIOUS
<1>1. /\ phase = "decode" /\ phase' = "reply" /\ faults < MaxFaults /\ faults' = faults + 1
      /\ session' = [session EXCEPT !.valid = FALSE] /\ ContinuedStore
      /\ UNCHANGED <<client, queue, job, jobs, strayed>>
  BY DEF EvalFails
<1>2. resp' \in {resp, NoBinding} /\ anth' \in {anth, NoBinding} /\ thnk' \in {thnk, NoBinding}
  BY DEF EvalFails, Forget
<1>3. Active
  BY <1>1 DEF Active
<1>4. SessionType(session) /\ faults' \in 0..MaxFaults
  <2>1. SessionType(session) /\ faults \in 0..MaxFaults
    BY <1>3, JobFacts
  <2>2. MaxFaults \in Nat /\ faults < MaxFaults /\ faults' = faults + 1
    BY <1>1, ConstantFacts
  <2> QED
    BY <2>1, <2>2
<1>5. SessionType(session') /\ session'.tokens = session.tokens
  BY <1>1, <1>4 DEF SessionType, Sessions
<1>6. DiskType(disk') /\ last' \in 0..Ctx /\ (~strayed => SoundDisk(disk'))
  BY <1>1, <1>3, ContinuedStoreFacts
<1> QED
  BY <1>1, <1>2, <1>4, <1>5, <1>6, EndsShort

\* A token is sampled and evaluated.
LEMMA DecodeHolds == SessionInv /\ Decode => SessionInv'
<1> SUFFICES ASSUME SessionInv, Decode PROVE SessionInv'
  OBVIOUS
<1>1. /\ phase = "decode" /\ phase' = "decode" /\ ~Answered /\ ds4_session_pos < Ctx /\ ContinuedStore
      /\ UNCHANGED <<resp, anth, thnk, client, queue, jobs, faults, strayed>>
  BY DEF Decode, bindings, counters
<1>2. PICK token \in Sampled : /\ session' = Held(Append(session.tokens, token))
                               /\ job' = [job EXCEPT !.out = Append(@, token)]
  BY DEF Decode
<1>3. Active /\ Active'
  BY <1>1 DEF Active
<1>4. /\ job \in Jobs /\ SessionType(session) /\ BindingsType /\ session.tokens \in Seq(Tokens)
      /\ Len(session.tokens) \in Nat /\ faults \in 0..MaxFaults /\ strayed \in BOOLEAN
  BY <1>3, JobFacts
<1>5. /\ token \in {"reason", "say", "say2", "call", "call2"}
      /\ token \in {"call", "call2"} => Profile[job.c].tools
  BY <1>2 DEF Sampled, Answers
<1>6. token \in Tokens
  BY <1>5 DEF Tokens, TextSymbols
<1>7. /\ Append(session.tokens, token) \in Seq(Tokens)
      /\ Len(Append(session.tokens, token)) = Len(session.tokens) + 1
      /\ \A i \in 1..Len(session.tokens) : Append(session.tokens, token)[i] = session.tokens[i]
  BY <1>4, <1>6, AppendProperties
<1>8. session'.tokens = Append(session.tokens, token) /\ session'.valid = TRUE
      /\ session' = [tokens |-> Append(session.tokens, token), valid |-> TRUE]
  BY <1>2 DEF Held
<1>9. SessionType(session')
  BY <1>1, <1>4, <1>7, <1>8, ConstantFacts DEF SessionType, Sessions, ds4_session_pos
<1>10. PICK out \in Seq(Tokens) : out = Append(job.out, token)
  BY <1>4, <1>6, AppendProperties DEF Jobs
<1>11. out # <<>> /\ Last(out) = token
  <2>1. job.out \in Seq(Tokens)
    BY <1>4 DEF Jobs
  <2>2. Len(out) = Len(job.out) + 1 /\ out[Len(job.out) + 1] = token /\ Len(job.out) \in Nat
    BY <1>6, <1>10, <2>1, AppendProperties, LenProperties
  <2> QED
    BY <1>10, <2>2, EmptySeq DEF Last
<1>12. job' = [job EXCEPT !.out = out]
  BY <1>2, <1>10
<1>13. /\ job' \in Jobs /\ job'.out = out /\ job'.r = job.r /\ job'.c = job.c /\ job'.turns = job.turns
       /\ job'.prompt = job.prompt /\ job'.cold = job.cold /\ job'.goal = job.goal
  BY <1>4, <1>12 DEF Jobs
<1>14. DiskType(disk') /\ last' \in 0..Ctx /\ (~strayed => SoundDisk(disk'))
  BY <1>1, <1>3, ContinuedStoreFacts
<1>15. BindingsType' /\ phase' \in Phases /\ faults' \in 0..MaxFaults /\ strayed' \in BOOLEAN
  BY <1>1, <1>4 DEF BindingsType, Phases
<1>16. Going'
  <2>1. /\ job.goal <= Len(job.prompt) /\ job.cold <= Len(job.prompt)
        /\ job.goal < Len(job.prompt) => job.goal = job.cold
        /\ job.turns = <<>>
    BY <1>1, <1>3 DEF SessionInv, Going
  <2>2. /\ resp.valid => resp.live_tokens < Len(session.tokens) /\ Profile[job.c].api = "responses"
        /\ anth.valid => anth.live_tokens < Len(session.tokens) /\ Profile[job.c].api = "anthropic"
        /\ thnk.valid => thnk.live_tokens < Len(session.tokens)
    BY <1>1 DEF SessionInv, Going, ds4_session_pos
  <2>3. /\ resp.live_tokens \in Int /\ anth.live_tokens \in Int /\ thnk.live_tokens \in Int
    BY <1>4 DEF BindingsType, BindingType
  <2>4. /\ resp.valid => resp.live_tokens < Len(session'.tokens)
        /\ anth.valid => anth.live_tokens < Len(session'.tokens)
        /\ thnk.valid => thnk.live_tokens < Len(session'.tokens)
    BY <1>4, <1>7, <1>8, <2>2, <2>3
  <2>5. Answered' => \/ Last(job'.out) \in {"say", "say2"}
                     \/ Last(job'.out) \in {"call", "call2"} /\ Profile[job'.c].tools
    BY <1>5, <1>11, <1>13 DEF Answered
  <2> QED
    BY <1>1, <1>13, <2>1, <2>2, <2>4, <2>5 DEF Going, ds4_session_pos
<1>17. ASSUME ~strayed' PROVE Sound'
  <2>1. /\ Says(session.tokens) = Meaning(job.r.whole) \o Spoken(job.out)
        /\ Begun(session.tokens)
    BY <1>1, <1>17 DEF SessionInv, Sound
  <2>2. PICK m \in Seq(TextSymbols) : m = Meaning(job.r.whole)
    BY <1>4, MeaningMore DEF Jobs, Requests
  <2>3. Spoken(job.out) = <<>>
    BY <1>1 DEF Answered, Spoken
  <2>4. Says(session.tokens) = m
    BY <2>1, <2>2, <2>3, TextsJoin
  <2>5. <<token>> \in Seq(Tokens) /\ Says(<<token>>) = Spoken(out)
    <3>0. PICK one : one = <<token>>
      OBVIOUS
    <3>1. one \in Seq(Tokens) /\ Len(one) = 1 /\ one[1] = token
      BY <1>6, <3>0
    <3>2. PICK x \in TextSymbols : x = Plain(token)
      BY <1>6, PlainFacts
    <3>a. PICK text : text = render_tokens_text(one)
      OBVIOUS
    <3>b. text \in Seq(TextSymbols) /\ Len(text) = Len(one) /\ \A i \in 1..Len(one) : text[i] = Plain(one[i])
      BY <3>1, <3>a, RenderAt
    <3>3. text \in Seq(TextSymbols) /\ text = render_tokens_text(one) /\ Len(text) = 1 /\ text[1] = x
      BY <3>1, <3>2, <3>a, <3>b
    <3>4. text = <<x>>
      BY <3>3
    <3>5. Says(one) = Saying(x)
      BY <3>3, <3>4, MeaningOfOne DEF Says
    <3>6. Saying(x) = Spoken(out)
      BY <1>5, <1>11, <3>2, SayingFacts DEF Plain, Spoken
    <3> QED
      BY <3>0, <3>1, <3>5, <3>6
  <2>6. Append(session.tokens, token) = session.tokens \o <<token>>
    BY <1>4, <1>6, AppendIsConcat
  <2>7. Says(session'.tokens) = m \o Spoken(out)
    BY <1>4, <1>8, <2>4, <2>5, <2>6, SaysFacts
  <2>8. Begun(session'.tokens)
    <3>1. Opening \in 1..Len(session.tokens)
      BY <1>4, <2>1, TextFacts DEF Begun
    <3> QED
      BY <1>4, <1>7, <1>8, <2>1, <3>1, TextFacts DEF Begun
  <2> QED
    BY <1>1, <1>13, <1>14, <1>17, <2>2, <2>7, <2>8 DEF Sound, Begun, Begins
<1> QED
  BY <1>1, <1>3, <1>9, <1>13, <1>14, <1>15, <1>16, <1>17, WithinJob

-----------------------------------------------------------------------------
(***************************************************************************)
(* Between two jobs.                                                       *)
(***************************************************************************)
LEMMA ReplyHolds == SessionInv /\ Reply => SessionInv'
<1> SUFFICES ASSUME SessionInv, Reply PROVE SessionInv'
  OBVIOUS
<1>1. /\ phase = "reply" /\ phase' = "idle" /\ job' = NoJob
      /\ UNCHANGED <<session, resp, anth, thnk, disk, last, queue, jobs, faults, strayed>>
  BY DEF Reply, bindings, counters
<1>2. PICK delivered \in BOOLEAN :
          client' = [client EXCEPT
              ![job.c] = [turns |-> IF delivered /\ job.turns # <<>> THEN job.turns ELSE @.turns,
                          busy |-> FALSE]]
  BY DEF Reply
<1>3. Active /\ ~Active'
  BY <1>1 DEF Active
<1>4. job \in Jobs /\ job.c \in Clients /\ job.turns \in Seq(Turns)
  BY <1>3, JobFacts DEF Jobs
<1>5. client \in [Clients -> [turns : Seq(Turns), busy : BOOLEAN]] /\ queue \in Seq(Requests)
  BY DEF SessionInv, Types, ClientsType
<1>6. PICK d \in Clients, turns \in Seq(Turns) :
          d = job.c /\ turns = IF delivered /\ job.turns # <<>> THEN job.turns ELSE client[d].turns
  BY <1>4, <1>5
<1>7. client' = [client EXCEPT ![d] = [turns |-> turns, busy |-> FALSE]]
  BY <1>2, <1>6
<1>8. /\ client' \in [Clients -> [turns : Seq(Turns), busy : BOOLEAN]]
      /\ \A c \in Clients : client'[c].turns = IF c = d THEN turns ELSE client[c].turns
  BY <1>5, <1>7
<1>9. \A c \in Clients : client[c].turns \in Histories /\ History(c, client[c].turns)
  BY DEF SessionInv, Asked, Histories, Past
<1>10. job.turns \in Histories /\ History(d, job.turns)
  BY <1>3, <1>6 DEF SessionInv, Asked, Histories
<1>11. \A c \in Clients : client'[c].turns \in Histories /\ History(c, client'[c].turns)
  BY <1>6, <1>8, <1>9, <1>10
<1>12. jobs \in Nat
  BY ConstantFacts DEF SessionInv, Types, CountersType
<1>13. Asked' /\ Fresh' /\ Histories' \subseteq Histories
  BY <1>1, <1>5, <1>11, <1>12, FewerHistories DEF SessionInv
<1>14. Types'
  <2>1. ClientsType'
    BY <1>1, <1>5, <1>8 DEF ClientsType
  <2>2. WorkerType'
    BY <1>1, <1>3 DEF WorkerType, Phases
  <2>3. BindingsType' /\ SessionType(session)' /\ DiskType(disk)' /\ CountersType'
    BY <1>1 DEF SessionInv, Types, BindingsType, CountersType
  <2> QED
    BY <2>1, <2>2, <2>3 DEF Types
<1>15. Going'
  BY <1>1, <1>3 DEF Going
<1>16. ~strayed' => Sound'
  <2> SUFFICES ASSUME ~strayed PROVE Sound'
    BY <1>1
  <2>1. Sound
    BY DEF SessionInv
  <2>2. Bound => Bound'
    BY <1>1, <1>13, BoundFewer DEF Bound
  <2> QED
    BY <1>1, <2>1, <2>2 DEF Sound, ds4_session_pos
<1> QED
  BY <1>13, <1>14, <1>15, <1>16 DEF SessionInv

\* A shutdown saves the session; the process starts again with the disk only.
LEMMA RestartHolds == SessionInv /\ Restart => SessionInv'
<1> SUFFICES ASSUME SessionInv, Restart PROVE SessionInv'
  OBVIOUS
<1>1. /\ phase = "idle" /\ phase' = "idle" /\ disk' \in SavedFirst
      /\ session' = NoSession /\ resp' = NoBinding /\ anth' = NoBinding /\ thnk' = NoBinding /\ last' = 0
      /\ UNCHANGED <<client, queue, job, jobs, faults, strayed>>
  BY DEF Restart, counters
<1>2. \A c \in Clients : client[c].turns \in Histories /\ History(c, client[c].turns)
  BY DEF SessionInv, Asked, Histories, Past
<1>3. jobs \in Nat /\ queue \in Seq(Requests)
  BY ConstantFacts DEF SessionInv, Types, CountersType, ClientsType
<1>4. Asked' /\ Fresh' /\ Histories' \subseteq Histories
  BY <1>1, <1>2, <1>3, FewerHistories DEF SessionInv
<1>5. DiskType(disk') /\ (~strayed => SoundDisk(disk'))
  BY <1>1, IdleSaves
<1>6. NoBinding \in BindingType
  BY EmptySeq, ConstantFacts DEF NoBinding, BindingType
<1>7. session'.tokens = <<>> /\ session' \in Sessions /\ Len(<<>>) = 0
  BY <1>1, EmptySeq DEF NoSession, Sessions
<1>8. SessionType(session')
  BY <1>7, ConstantFacts DEF SessionType
<1>9. Types'
  <2>1. ClientsType' /\ BindingsType'
    BY <1>1, <1>6 DEF SessionInv, Types, ClientsType, BindingsType
  <2>2. WorkerType' /\ CountersType'
    BY <1>1, ConstantFacts DEF SessionInv, Types, WorkerType, Active, CountersType
  <2> QED
    BY <1>5, <1>8, <2>1, <2>2 DEF Types
<1>10. Going'
  BY <1>1 DEF Going, Active
<1>11. ~strayed' => Sound'
  <2>1. Begins(session'.tokens)
    BY <1>7, TextFacts, LenProperties DEF Begins
  <2>2. ~(ds4_session_pos' > 0)
    BY <1>7 DEF ds4_session_pos
  <2> QED
    BY <1>1, <1>5, <2>1, <2>2 DEF Sound
<1> QED
  BY <1>4, <1>9, <1>10, <1>11 DEF SessionInv

-----------------------------------------------------------------------------
(***************************************************************************)
(* The end of a turn.                                                      *)
(***************************************************************************)
\* What was asked, and what it comes to with its answer.
LEMMA AnsweredTurn ==
    ASSUME job \in Jobs, WellAsked(job.r), NEW ans \in {"say", "cut", "call"}
    PROVE  /\ Said(Turn(ans)) = Meaning(job.r.whole) \o <<ans>>
           /\ Said(Turn(ans)) = Append(Meaning(job.r.whole), ans)
           /\ Said(Turn(ans)) \in Seq(TextSymbols) /\ Meaning(job.r.whole) \in Seq(TextSymbols)
           /\ <<ans>> \in Seq(TextSymbols)
<1>1. Said(Turn(ans)) = Append(Said(job.r.turns), job.r.ask) \o <<ans>>
  BY TurnFacts
<1>2. Meaning(job.r.whole) = Append(Said(job.r.turns), job.r.ask)
  BY DEF WellAsked
<1>3. Meaning(job.r.whole) \in Seq(TextSymbols)
  BY MeaningMore DEF Jobs, Requests
<1>4. ans \in TextSymbols
  BY DEF TextSymbols
<1>5. <<ans>> \in Seq(TextSymbols)
  BY <1>4, MeaningOfOne
<1>6. Append(Meaning(job.r.whole), ans) = Meaning(job.r.whole) \o <<ans>>
  BY <1>3, <1>4, AppendIsConcat
<1> QED
  BY <1>1, <1>2, <1>3, <1>5, <1>6, TextsJoin

\* The session after the answer says the turn.
LEMMA AnswerFacts ==
    ASSUME SessionInv, phase = "decode", Answered, NEW ans \in {"say", "call"},
           ans = "say" => Last(job.out) \in {"say", "say2"},
           ans = "call" => Last(job.out) \in {"call", "call2"}
    PROVE  /\ Active /\ job \in Jobs /\ WellAsked(job.r) /\ job.c = job.r.c
           /\ ans = "call" => Profile[job.c].tools
           /\ ~strayed => Says(session.tokens) = Said(Turn(ans)) /\ Begun(session.tokens)
<1>1. Active
  BY DEF Active
<1>2. job \in Jobs /\ WellAsked(job.r) /\ job.c = job.r.c
  BY <1>1, JobFacts DEF SessionInv, Asked
<1>3. ans = "call" => Profile[job.c].tools
  BY DEF SessionInv, Going
<1>4. Spoken(job.out) = <<ans>>
  BY DEF Answered, Spoken
<1>5. ~strayed => Says(session.tokens) = Meaning(job.r.whole) \o Spoken(job.out) /\ Begun(session.tokens)
  BY DEF SessionInv, Sound
<1> QED
  BY <1>1, <1>2, <1>3, <1>4, <1>5, AnsweredTurn

\* The end of the turn may be in the session too, and says nothing.
LEMMA OverrunFacts ==
    ASSUME NEW tokens \in Seq(Tokens), Len(tokens) <= Ctx, NEW extra,
           extra = <<>> \/ (extra = <<"eos">> /\ Len(tokens) < Ctx)
    PROVE  /\ tokens \o extra \in Seq(Tokens) /\ Len(tokens \o extra) \in 0..Ctx
           /\ Says(tokens \o extra) = Says(tokens)
           /\ Begun(tokens) => Begun(tokens \o extra)
<1>1. PICK more \in Seq(Tokens) : more = extra /\ Says(more) = <<>> /\ Len(tokens) + Len(more) <= Ctx
                                  /\ Len(more) \in Nat
  <2>1. CASE extra = <<>>
    <3>1. <<>> \in Seq(Tokens) /\ <<>> \in Seq(TextSymbols) /\ Len(<<>>) = 0
      BY EmptySeq
    <3>2. Says(<<>>) = <<>>
      BY <3>1, SaysFacts, MeaningMore
    <3>3. Len(tokens) + 0 <= Ctx
      BY LenProperties
    <3> QED
      BY <2>1, <3>1, <3>2, <3>3
  <2>2. CASE extra = <<"eos">> /\ Len(tokens) < Ctx
    <3>1. "eos" \in TextSymbols
      BY DEF TextSymbols
    <3>2. extra \in Seq(TextSymbols) /\ Meaning(extra) = <<>> /\ Len(extra) = 1
      BY <2>2, <3>1, MeaningOfOne, SayingFacts
    <3>3. extra \in Seq(Tokens) /\ Says(extra) = <<>>
      BY <3>2, TextIsTokens, SaysFacts
    <3>4. Len(tokens) + 1 <= Ctx
      BY <2>2, LenProperties, ConstantFacts
    <3> QED
      BY <3>2, <3>3, <3>4
  <2> QED
    BY <2>1, <2>2
<1>2. PICK n \in Nat, m \in Nat : n = Len(tokens) /\ m = Len(more)
  BY LenProperties
<1>3. PICK all : all = tokens \o more
  OBVIOUS
<1>4. all \in Seq(Tokens) /\ Len(all) = n + m /\ \A i \in 1..n : all[i] = tokens[i]
  BY <1>2, <1>3, ConcatProperties
<1>5. Says(all) = Says(tokens)
  <2>1. PICK u \in Seq(TextSymbols) : u = Says(tokens)
    BY SaysFacts
  <2>2. Says(all) = u \o <<>>
    BY <1>1, <1>3, <2>1, SaysFacts
  <2> QED
    BY <2>1, <2>2, TextsJoin
<1>6. Begun(tokens) => Begun(all)
  <2>1. Begun(tokens) => Opening \in 1..n
    BY <1>2, TextFacts DEF Begun
  <2> QED
    BY <1>2, <1>4, <2>1, TextFacts DEF Begun
<1> QED
  BY <1>1, <1>2, <1>3, <1>4, <1>5, <1>6, ConstantFacts

\* A Responses client's next prompt begins with the request and the answer.
LEMMA RespNames ==
    ASSUME job \in Jobs, WellAsked(job.r), NEW ans \in {"say", "call"},
           NEW visible, visible = job.r.text \o build_responses_visible_assistant_suffix(job.r.c, ans),
           NEW tokens, Says(tokens) = Said(Turn(ans)), Begun(tokens)
    PROVE  Names(visible, tokens)
<1>1. job.r \in Requests
  BY DEF Jobs
<1>2. PICK r \in Requests : r = job.r
  BY <1>1
<1>3. /\ r.text \in Seq(TextSymbols) /\ r.whole \in Seq(TextSymbols) /\ r.c \in Clients
      /\ Begun(r.whole)
      /\ ~r.requires_live => r.text = r.whole
      /\ r.requires_live => /\ Meaning(r.text) = <<"result">> /\ Len(r.text) >= Opening
                            /\ r.text[Opening] = "result"
  BY <1>2, WholeText
<1>4. PICK suffix : suffix = build_responses_visible_assistant_suffix(r.c, ans)
  OBVIOUS
<1>5. suffix \in Seq(TextSymbols) /\ Meaning(suffix) = <<ans>> /\ Len(suffix) >= 2
  BY <1>3, <1>4, SuffixTexts
<1>6. PICK text \in Seq(TextSymbols) : text = r.text
  BY <1>3
<1>7. visible = text \o suffix
  BY <1>2, <1>4, <1>6
<1>8. PICK n \in Nat, m \in Nat : n = Len(text) /\ m = Len(suffix) /\ m >= 2
  BY <1>5, LenProperties
<1>9. Len(visible) = n + m /\ \A i \in 1..n : visible[i] = text[i]
  BY <1>5, <1>7, <1>8, ConcatProperties
<1>10. Meaning(visible) = Meaning(text) \o <<ans>>
  BY <1>5, <1>7, MeaningConcat
<1>11. Opening \in 1..n
  BY <1>3, <1>6, <1>8, TextFacts DEF Begun
<1>12. Len(visible) >= Opening + 2 /\ visible[Opening] = text[Opening]
  <2>1. PICK o \in 1..n : o = Opening
    BY <1>11
  <2>a. n + m >= o + 2
    BY <1>8, <2>1
  <2>2. Len(visible) >= o + 2 /\ visible[o] = text[o]
    BY <1>9, <2>1, <2>a
  <2> QED
    BY <2>1, <2>2
<1>13. Len(tokens) >= Opening
  BY DEF Begun
<1>14. CASE ~r.requires_live
  <2>1. text = r.whole /\ text[Opening] \in Msgs
    BY <1>3, <1>6, <1>14 DEF Begun
  <2>2. Meaning(visible) = Says(tokens)
    BY <1>2, <1>10, <2>1, AnsweredTurn
  <2> QED
    BY <1>12, <1>13, <2>1, <2>2 DEF Names
<1>15. CASE r.requires_live
  <2>1. text[Opening] = "result" /\ Meaning(text) = <<"result">>
    BY <1>3, <1>6, <1>15
  <2>2. r.ask = "result" /\ Meaning(r.whole) = Append(Said(r.turns), r.ask)
    BY <1>2, <1>15 DEF WellAsked
  <2>3. PICK before \in Seq(TextSymbols) : before = Said(r.turns)
    BY <1>2, SaidMore DEF Requests
  <2>4. "result" \in TextSymbols
    BY DEF TextSymbols
  <2>5. PICK result \in Seq(TextSymbols), answer \in Seq(TextSymbols) : result = <<"result">> /\ answer = <<ans>>
    BY <2>4, MeaningOfOne, AnsweredTurn
  <2>6. Meaning(r.whole) = before \o result
    BY <2>2, <2>3, <2>4, <2>5, AppendIsConcat
  <2>7. Says(tokens) = (before \o result) \o answer
    BY <1>2, <2>5, <2>6, AnsweredTurn
  <2>8. Meaning(visible) = result \o answer
    BY <1>10, <2>1, <2>5
  <2>9. PICK end \in Seq(TextSymbols) : end = result \o answer
    BY <2>5, TextsJoin
  <2>10. Says(tokens) = before \o end
    BY <2>7, <2>9, TextsJoin, SMTT(30)
  <2>11. IsSuffix(end, before \o end)
    BY JoinedEnds
  <2>12. IsSuffix(Meaning(visible), Says(tokens))
    BY <2>8, <2>9, <2>10, <2>11
  <2> QED
    BY <1>12, <1>13, <2>1, <2>12 DEF Names
<1> QED
  BY <1>14, <1>15

\* A thinking client without tools shows the request without its open thought.
LEMMA ThinkingText ==
    ASSUME NEW text \in Seq(TextSymbols), Len(text) >= Opening, NEW ans \in {"say", "cut"},
           NEW visible, visible = build_toolless_thinking_visible_text(text, ans)
    PROVE  /\ visible \in Seq(TextSymbols)
           /\ Begun(text) /\ Last(text) = "think" =>
                 /\ Len(visible) >= Opening + 2 /\ visible[Opening] = text[Opening]
                 /\ Meaning(visible) = Meaning(text) \o <<ans>>
<1>1. PICK n \in Nat : n = Len(text) /\ n >= 1
  BY LenProperties, TextFacts
<1>2. PICK front : front = SubSeq(text, 1, n - 1)
  OBVIOUS
<1>3. front \in Seq(TextSymbols) /\ Len(front) = n - 1 /\ \A i \in 1..(n - 1) : front[i] = text[i]
  BY <1>1, <1>2, FirstOf
<1>4. PICK end \in Seq(TextSymbols) : end = <<ans, "eos">> /\ Meaning(end) = <<ans>> /\ Len(end) = 2
  <2>1. ans \in TextSymbols /\ "eos" \in TextSymbols
    BY DEF TextSymbols
  <2>2. Meaning(<<ans, "eos">>) = Saying(ans) \o Saying("eos") /\ <<ans, "eos">> \in Seq(TextSymbols)
    BY <2>1, MeaningOfTwo
  <2>3. PICK said \in Seq(TextSymbols) : said = <<ans>> /\ said = Saying(ans)
    BY <2>1, MeaningOfOne, SayingFacts
  <2>4. Meaning(<<ans, "eos">>) = <<ans>>
    BY <2>2, <2>3, SayingFacts, TextsJoin
  <2> QED
    BY <2>2, <2>4
<1>5. visible = front \o end
  BY <1>1, <1>2, <1>4 DEF build_toolless_thinking_visible_text, Front
<1>6. visible \in Seq(TextSymbols) /\ Len(visible) = (n - 1) + 2 /\ \A i \in 1..(n - 1) : visible[i] = front[i]
  BY <1>1, <1>3, <1>4, <1>5, ConcatProperties
<1>7. ASSUME Begun(text), Last(text) = "think"
      PROVE  /\ Len(visible) >= Opening + 2 /\ visible[Opening] = text[Opening]
             /\ Meaning(visible) = Meaning(text) \o <<ans>>
  <2>1. text[n] = "think" /\ text[Opening] \in Msgs /\ "think" \notin Msgs
    BY <1>1, <1>7, ProfileAssumption DEF Begun, Last
  <2>2. Opening \in 1..(n - 1)
    BY <1>1, <2>1, TextFacts
  <2>3. Len(visible) >= Opening + 2 /\ visible[Opening] = text[Opening]
    BY <1>1, <1>3, <1>6, <2>2
  <2>4. "think" \in TextSymbols /\ Saying("think") = <<>>
    BY SayingFacts DEF TextSymbols
  <2>5. text = Append(front, "think")
    <3>1. PICK new : new = Append(front, "think")
      OBVIOUS
    <3>2. new \in Seq(TextSymbols) /\ Len(new) = (n - 1) + 1 /\ new[(n - 1) + 1] = "think"
          /\ \A i \in 1..(n - 1) : new[i] = front[i]
      BY <1>1, <1>3, <2>4, <3>1, AppendProperties
    <3>3. \A i \in 1..n : new[i] = text[i]
      BY <1>1, <1>3, <2>1, <3>2, SMTT(30)
    <3> QED
      BY <1>1, <3>1, <3>2, <3>3, SeqEqual
  <2>6. Meaning(text) = Meaning(front)
    <3>1. PICK u \in Seq(TextSymbols) : u = Meaning(front)
      BY <1>3, MeaningMore
    <3>2. Meaning(text) = u \o <<>>
      BY <1>3, <2>4, <2>5, <3>1, MeaningMore
    <3> QED
      BY <3>1, <3>2, TextsJoin
  <2> QED
    BY <1>3, <1>4, <1>5, <2>3, <2>6, MeaningConcat
<1> QED
  BY <1>6, <1>7

\* The call of this turn is in no other history.
LEMMA CalledTurn ==
    ASSUME SessionInv, Active, NEW ans \in {"say", "cut", "call"}, NEW tokens, Len(tokens) >= Opening,
           Says(tokens) = Said(Turn(ans)), NEW b, b.ids = CallIds(ans)
    PROVE  Called(Past \cup {Turn(ans)}, b, tokens)
<1>1. job \in Jobs
  BY JobFacts
<1>2. PICK n \in Nat : n = Len(job.r.turns)
  BY <1>1, TurnFacts
<1>3. PICK new \in Seq(Turns) : new = Turn(ans)
  BY <1>1, TurnFacts
<1>4. Len(new) = n + 1 /\ (\A k \in 1..n : new[k] = job.r.turns[k])
  BY <1>1, <1>2, <1>3, TurnFacts
<1>5. ASSUME NEW turns \in Past, NEW k \in DOMAIN turns PROVE turns[k].id \notin b.ids
  BY <1>5 DEF SessionInv, Fresh, CallIds
<1>6. ASSUME NEW k \in DOMAIN new, new[k].id \in b.ids
      PROVE  Said(SubSeq(new, 1, k)) = Says(tokens)
  <2>1. k \in 1..(n + 1)
    BY <1>4, LenProperties
  <2>2. k \notin 1..n
    <3>1. SUFFICES ASSUME k \in 1..n PROVE FALSE
      OBVIOUS
    <3>2. k \in DOMAIN job.r.turns /\ job.r.turns \in Past
      BY <1>1, <1>2, <3>1, LenProperties DEF Past, Jobs, Requests
    <3> QED
      BY <1>4, <1>5, <1>6, <3>1, <3>2
  <2>3. k = Len(new) /\ k \in 0..Len(new)
    BY <1>4, <2>1, <2>2
  <2>4. SubSeq(new, 1, k) = new
    BY <2>3, FirstOf
  <2> QED
    BY <1>3, <2>4
<1> QED
  BY <1>3, <1>5, <1>6 DEF Called

\* What is remembered of the turn.
LEMMA RememberTypes ==
    ASSUME SessionInv, Active, NEW ans \in {"say", "cut", "call"}, NEW n \in 0..Ctx, Remember(ans, n)
    PROVE  BindingsType'
<1>1. job \in Jobs /\ BindingsType /\ WellAsked(job.r) /\ job.c = job.r.c
  BY JobFacts DEF SessionInv, Asked
<1>2. PICK r \in Requests : r = job.r
  BY <1>1 DEF Jobs
<1>3. r.text \in Seq(TextSymbols) /\ r.c \in Clients /\ Len(r.text) >= Opening
  BY <1>1, <1>2, WholeText DEF Begun
<1>4. CallIds(ans) \in SUBSET (1..MaxJobs)
  <2>1. job.r.id \in 1..jobs /\ jobs \in 0..MaxJobs
    BY DEF SessionInv, Fresh, Types, CountersType
  <2> QED
    BY <2>1, ConstantFacts DEF CallIds
<1>5. NoBinding \in BindingType
  BY EmptySeq, ConstantFacts DEF NoBinding, BindingType
<1>6. \A visible \in Seq(TextSymbols), ids \in SUBSET (1..MaxJobs) : Binding(n, visible, ids) \in BindingType
  BY DEF Binding, BindingType
<1>7. resp' \in BindingType
  <2>1. r.text \o build_responses_visible_assistant_suffix(r.c, ans) \in Seq(TextSymbols)
    BY <1>3, SuffixTexts, TextsJoin
  <2>2. PICK visible \in Seq(TextSymbols) : visible = r.text \o build_responses_visible_assistant_suffix(r.c, ans)
    BY <2>1
  <2>3. resp' = IF Profile[r.c].api = "responses" THEN Binding(n, visible, CallIds(ans)) ELSE resp
    BY <1>2, <2>2 DEF Remember
  <2> QED
    BY <1>1, <1>4, <1>6, <2>3 DEF BindingsType
<1>8. anth' \in BindingType
  <2>1. <<>> \in Seq(TextSymbols)
    BY EmptySeq
  <2>2. anth' \in {anth, Binding(n, <<>>, CallIds(ans)), NoBinding}
    BY DEF Remember
  <2> QED
    BY <1>1, <1>4, <1>5, <1>6, <2>1, <2>2 DEF BindingsType
<1>9. thnk' \in BindingType
  <2>1. CASE should_remember_thinking_checkpoint(ans)
    <3>1. ans \in {"say", "cut"}
      BY <2>1 DEF should_remember_thinking_checkpoint
    <3>2. PICK visible : visible = build_toolless_thinking_visible_text(r.text, ans)
      OBVIOUS
    <3>3. visible \in Seq(TextSymbols)
      BY <1>3, <3>1, <3>2, ThinkingText
    <3>4. thnk' = Binding(n, visible, {})
      BY <1>2, <2>1, <3>2 DEF Remember
    <3> QED
      BY <1>6, <3>3, <3>4
  <2>2. CASE ~should_remember_thinking_checkpoint(ans)
    BY <1>5, <2>2 DEF Remember
  <2> QED
    BY <2>1, <2>2
<1> QED
  BY <1>7, <1>8, <1>9 DEF BindingsType

\* What is remembered of an answered turn names the tokens it points to.
LEMMA RememberBinds ==
    ASSUME SessionInv, phase = "decode", NEW ans \in {"say", "call"}, NEW tokens, Remember(ans, Len(tokens)),
           Says(tokens) = Said(Turn(ans)), Begun(tokens)
    PROVE  BoundBy(Past \cup {Turn(ans)}, resp', anth', thnk', tokens)
<1>1. Active
  BY DEF Active
<1>2. job \in Jobs /\ WellAsked(job.r) /\ job.c = job.r.c
  BY <1>1, JobFacts DEF SessionInv, Asked
<1>3. PICK r \in Requests : r = job.r
  BY <1>2 DEF Jobs
<1>4. /\ resp.valid => Profile[r.c].api = "responses"
      /\ anth.valid => Profile[r.c].api = "anthropic"
  BY <1>2, <1>3 DEF SessionInv, Going
<1>5. Len(tokens) >= Opening
  BY DEF Begun
<1>6. PICK H : H = Past \cup {Turn(ans)}
  OBVIOUS
<1>7. ASSUME resp'.valid PROVE Names(resp'.visible, tokens) /\ Called(H, resp', tokens)
  <2>1. PICK visible : visible = r.text \o build_responses_visible_assistant_suffix(r.c, ans)
    OBVIOUS
  <2>2. resp' = IF Profile[r.c].api = "responses" THEN Binding(Len(tokens), visible, CallIds(ans)) ELSE resp
    BY <1>3, <2>1 DEF Remember
  <2>3. resp' = Binding(Len(tokens), visible, CallIds(ans))
    BY <1>4, <1>7, <2>2
  <2>4. resp'.visible = visible /\ resp'.ids = CallIds(ans)
    BY <2>3 DEF Binding
  <2>5. Names(visible, tokens)
    BY <1>2, <1>3, <2>1, RespNames
  <2>6. Called(H, resp', tokens)
    BY <1>1, <1>5, <1>6, <2>4, CalledTurn
  <2> QED
    BY <2>4, <2>5, <2>6
<1>8. ASSUME anth'.valid PROVE Called(H, anth', tokens)
  <2>1. anth' = CASE Profile[r.c].api # "anthropic" -> anth
                  [] ans = "call" -> Binding(Len(tokens), <<>>, CallIds(ans))
                  [] OTHER -> NoBinding
    BY <1>3 DEF Remember
  <2>2. ~NoBinding.valid
    BY DEF NoBinding
  <2>3. anth' = Binding(Len(tokens), <<>>, CallIds(ans))
    BY <1>4, <1>8, <2>1, <2>2
  <2>4. anth'.ids = CallIds(ans)
    BY <2>3 DEF Binding
  <2> QED
    BY <1>1, <1>5, <1>6, <2>4, CalledTurn
<1>9. ASSUME thnk'.valid PROVE Names(thnk'.visible, tokens) /\ thnk'.visible[Opening] \in Msgs
  <2>1. should_remember_thinking_checkpoint(ans)
    BY <1>9 DEF Remember, NoBinding
  <2>2. ans = "say" /\ Profile[r.c].think /\ ~Profile[r.c].tools
    BY <1>2, <1>3, <2>1 DEF should_remember_thinking_checkpoint
  <2>3. PICK visible : visible = build_toolless_thinking_visible_text(r.text, ans)
    OBVIOUS
  <2>4. thnk'.visible = visible
    BY <1>3, <2>1, <2>3 DEF Remember, Binding
  <2>5. ~r.requires_live /\ Last(r.text) = "think"
    BY <1>2, <1>3, <2>2 DEF WellAsked
  <2>6. r.text = r.whole /\ r.text \in Seq(TextSymbols) /\ Begun(r.text)
    BY <1>2, <1>3, <2>5, WholeText
  <2>7. /\ Len(visible) >= Opening + 2 /\ visible[Opening] = r.text[Opening]
        /\ Meaning(visible) = Meaning(r.text) \o <<ans>>
    BY <2>2, <2>3, <2>5, <2>6, ThinkingText DEF Begun
  <2>8. Meaning(visible) = Says(tokens)
    BY <1>2, <1>3, <2>6, <2>7, AnsweredTurn
  <2> QED
    BY <1>5, <2>4, <2>6, <2>7, <2>8 DEF Names, Begun
<1> QED
  BY <1>6, <1>7, <1>8, <1>9 DEF BoundBy

\* The job with the turns it ends with.
LEMMA TurnedJob ==
    ASSUME job \in Jobs, NEW ans \in {"say", "cut", "call"}, job' = [job EXCEPT !.turns = Turn(ans)]
    PROVE  /\ job' \in Jobs /\ job'.r = job.r /\ job'.c = job.c /\ job'.turns = Turn(ans)
           /\ job'.goal = job.goal /\ job'.cold = job.cold /\ job'.prompt = job.prompt
<1>1. PICK turns \in Seq(Turns) : turns = Turn(ans)
  BY TurnFacts
<1>2. job' = [job EXCEPT !.turns = turns]
  BY <1>1
<1> QED
  BY <1>1, <1>2 DEF Jobs

\* A turn that ends with the session at its answer.
LEMMA EndsAtAnswer ==
    ASSUME SessionInv, phase = "decode", phase' = "reply", Answered, NEW ans \in {"say", "call"},
           ans = "say" => Last(job.out) \in {"say", "say2"},
           ans = "call" => Last(job.out) \in {"call", "call2"},
           NEW extra \in Overrun(ans), session' = [session EXCEPT !.tokens = @ \o extra],
           Remember(ans, Len(session'.tokens)), job' = [job EXCEPT !.turns = Turn(ans)],
           UNCHANGED <<client, queue, jobs, faults, strayed>>,
           DiskType(disk'), last' \in 0..Ctx, ~strayed => SoundDisk(disk')
    PROVE  SessionInv'
<1>1. /\ Active /\ job \in Jobs /\ WellAsked(job.r)
      /\ ans = "call" => Profile[job.c].tools
      /\ ~strayed => Says(session.tokens) = Said(Turn(ans)) /\ Begun(session.tokens)
  BY AnswerFacts
<1>2. /\ SessionType(session) /\ session.tokens \in Seq(Tokens) /\ Len(session.tokens) <= Ctx
      /\ faults \in 0..MaxFaults
  BY <1>1, JobFacts
<1>3. extra = <<>> \/ (extra = <<"eos">> /\ Len(session.tokens) < Ctx)
  BY DEF Overrun, ds4_session_pos
<1>4. PICK tokens : tokens = session.tokens \o extra
  OBVIOUS
<1>5. /\ tokens \in Seq(Tokens) /\ Len(tokens) \in 0..Ctx
      /\ Says(tokens) = Says(session.tokens)
      /\ Begun(session.tokens) => Begun(tokens)
  BY <1>2, <1>3, <1>4, OverrunFacts
<1>6. session' = [session EXCEPT !.tokens = tokens]
  BY <1>4
<1>7. SessionType(session') /\ session'.tokens = tokens
  <2>1. session' \in Sessions /\ session'.tokens = tokens
    BY <1>2, <1>5, <1>6 DEF SessionType, Sessions
  <2> QED
    BY <1>5, <2>1 DEF SessionType
<1>8. Active' /\ phase' \in Phases
  BY DEF Active, Phases
<1>9. BindingsType'
  BY <1>1, <1>5, <1>7, RememberTypes
<1>10. /\ job' \in Jobs /\ job'.r = job.r /\ job'.c = job.c /\ job'.turns = Turn(ans)
       /\ job'.goal = job.goal /\ job'.cold = job.cold /\ job'.prompt = job.prompt
  BY <1>1, TurnedJob
<1>11. Going'
  BY <1>1, <1>10 DEF SessionInv, Going
<1>12. ASSUME Histories' = Past \cup {Turn(ans)}, ~strayed PROVE Sound'
  <2>1. Says(tokens) = Said(Turn(ans)) /\ Begun(tokens)
    BY <1>1, <1>5, <1>12
  <2>2. BoundBy(Past \cup {Turn(ans)}, resp', anth', thnk', tokens)
    BY <1>7, <2>1, RememberBinds
  <2>3. Bound'
    BY <1>7, <1>12, <2>2 DEF Bound
  <2>4. Begins(session'.tokens)
    BY <1>7, <2>1 DEF Begun, Begins
  <2> QED
    BY <1>12, <2>3, <2>4 DEF Sound
<1> QED
  BY <1>1, <1>2, <1>7, <1>8, <1>9, <1>10, <1>11, <1>12, EndsJob

\* A plain answer ends with its end token.
LEMMA FinishStopHolds == SessionInv /\ FinishStop => SessionInv'
<1> SUFFICES ASSUME SessionInv, FinishStop PROVE SessionInv'
  OBVIOUS
<1>1. /\ phase = "decode" /\ phase' = "reply" /\ Answered /\ Last(job.out) \in {"say", "say2"}
      /\ Remember("say", Len(session'.tokens)) /\ job' = [job EXCEPT !.turns = Turn("say")]
      /\ UNCHANGED <<client, queue, jobs, faults, strayed>>
  BY DEF FinishStop, counters
<1>2. PICK extra \in Overrun("say") :
          /\ session' = [session EXCEPT !.tokens = @ \o extra]
          /\ IF extra = <<>> THEN ContinuedStore ELSE UNCHANGED <<disk, last>>
  BY DEF FinishStop
<1>3. Active
  BY <1>1 DEF Active
<1>4. DiskType(disk') /\ last' \in 0..Ctx /\ (~strayed => SoundDisk(disk'))
  <2>1. DiskType(disk) /\ last \in 0..Ctx /\ (~strayed => SoundDisk(disk))
    BY <1>3, JobFacts DEF SessionInv, Sound
  <2>2. CASE ContinuedStore
    BY <1>3, <2>2, ContinuedStoreFacts
  <2>3. CASE UNCHANGED <<disk, last>>
    BY <2>1, <2>3
  <2> QED
    BY <1>2, <2>2, <2>3
<1>5. PICK ans \in {"say", "call"} : ans = "say"
  OBVIOUS
<1> QED
  BY <1>1, <1>2, <1>4, <1>5, EndsAtAnswer

\* An answer is cut at a stop sequence, in the text but not in the tokens.
LEMMA FinishAtStopHolds == SessionInv /\ FinishAtStopSequence => SessionInv'
<1> SUFFICES ASSUME SessionInv, FinishAtStopSequence PROVE SessionInv'
  OBVIOUS
<1>1. /\ phase = "decode" /\ phase' = "reply" /\ Answered
      /\ session' = NoSession
      /\ Remember("cut", Len(session'.tokens)) /\ job' = [job EXCEPT !.turns = Turn("cut")]
      /\ UNCHANGED <<disk, last, client, queue, jobs, faults, strayed>>
  BY DEF FinishAtStopSequence, counters, ds4_session_invalidate
<1>2. Active /\ Active' /\ phase' \in Phases
  BY <1>1 DEF Active, Phases
<1>3. /\ job \in Jobs /\ DiskType(disk) /\ last \in 0..Ctx /\ faults \in 0..MaxFaults
      /\ ~strayed => SoundDisk(disk)
  BY <1>2, JobFacts DEF SessionInv, Sound
<1>4. session'.tokens = <<>> /\ session' \in Sessions /\ Len(<<>>) = 0
  BY <1>1, EmptySeq DEF NoSession, Sessions
<1>5. SessionType(session') /\ Begins(session'.tokens)
  BY <1>4, ConstantFacts, TextFacts, LenProperties DEF SessionType, Begins
<1>6. PICK ans \in {"say", "cut", "call"}, n \in 0..Ctx : ans = "cut" /\ n = 0
  BY ConstantFacts
<1>7. BindingsType'
  BY <1>1, <1>2, <1>4, <1>6, RememberTypes
<1>8. /\ job' \in Jobs /\ job'.r = job.r /\ job'.c = job.c /\ job'.turns = Turn(ans)
      /\ job'.goal = job.goal /\ job'.cold = job.cold /\ job'.prompt = job.prompt
  BY <1>1, <1>3, <1>6, TurnedJob
<1>9. Going'
  BY <1>1, <1>2, <1>8 DEF SessionInv, Going
<1>10. ASSUME ~strayed PROVE Sound'
  <2>1. ~(ds4_session_pos' > 0)
    BY <1>4 DEF ds4_session_pos
  <2> QED
    BY <1>1, <1>3, <1>5, <1>10, <2>1 DEF Sound
<1> QED
  BY <1>1, <1>2, <1>3, <1>5, <1>6, <1>7, <1>8, <1>9, <1>10, EndsJob

-----------------------------------------------------------------------------
(***************************************************************************)
(* A checkpoint that is rebuilt to what the next prompt renders.           *)
(***************************************************************************)
\* The checkpoint is the conversation with its call; a request with a tool
\* result alone shares no such prefix with the session.
LEMMA CanonicalFacts ==
    ASSUME job \in Jobs, WellAsked(job.r), job.c = job.r.c,
           NEW s, s.tokens \in Seq(Tokens), CanonicalizationNeeded(s)
    PROVE  /\ Canonical \in Seq(TextSymbols) /\ Canonical \in Seq(Tokens)
           /\ Begun(s.tokens) => Begun(Canonical) /\ Meaning(Canonical) = Said(Turn("call"))
<1>1. PICK r \in Requests : r = job.r
  BY DEF Jobs
<1>2. /\ r.text \in Seq(TextSymbols) /\ r.c \in Clients /\ Begun(r.whole)
      /\ ~r.requires_live => r.text = r.whole
      /\ r.requires_live => Len(r.text) >= Opening /\ r.text[Opening] = "result"
  BY <1>1, WholeText
<1>3. PICK text \in Seq(TextSymbols) : text = r.text
  BY <1>2
<1>4. PICK suffix \in Seq(TextSymbols) :
          suffix = build_tool_checkpoint_suffix(r.c) /\ Meaning(suffix) = <<"call">>
  BY <1>2, SuffixTexts
<1>5. PICK n \in Nat, m \in Nat : n = Len(text) /\ m = Len(suffix)
  BY LenProperties
<1>6. Canonical = text \o suffix
  BY <1>1, <1>3, <1>4 DEF Canonical
<1>7. PICK all : all = text \o suffix
  OBVIOUS
<1>8. all \in Seq(TextSymbols) /\ Len(all) = n + m /\ \A i \in 1..n : all[i] = text[i]
  BY <1>5, <1>7, ConcatProperties
<1>9. all \in Seq(Tokens) /\ Meaning(all) = Meaning(text) \o <<"call">>
  BY <1>4, <1>7, <1>8, TextIsTokens, MeaningConcat, ZenonT(40)
<1>10. Opening \in 1..n
  BY <1>2, <1>3, <1>5, TextFacts DEF Begun
<1>11. PICK k : k = CommonPrefix(s.tokens, all)
  OBVIOUS
<1>12. k \in 0..Len(s.tokens) /\ (\A i \in 1..k : s.tokens[i] = all[i]) /\ k >= n
  <2>1. CommonPrefix(s.tokens, all) >= Len(text)
    BY <1>1, <1>3, <1>6, <1>7 DEF CanonicalizationNeeded
  <2> QED
    BY <1>5, <1>9, <1>11, <2>1, CommonPrefixFacts, SMTT(30)
<1>13. s.tokens[Opening] = text[Opening]
  <2>1. PICK o \in 1..n : o = Opening
    BY <1>10
  <2>2. o \in 1..k
    BY <1>12, <2>1, LenProperties
  <2> QED
    BY <1>8, <1>12, <2>1, <2>2
<1>14. ASSUME Begun(s.tokens) PROVE Begun(all) /\ Meaning(all) = Said(Turn("call"))
  <2>1. text[Opening] \in Msgs /\ "result" \notin Msgs
    BY <1>13, <1>14, ProfileAssumption DEF Begun
  <2>2. text = r.whole
    BY <1>2, <1>3, <2>1
  <2>3. Begun(all)
    BY <1>5, <1>8, <1>10, <2>1 DEF Begun
  <2>4. Said(Turn("call")) = Meaning(job.r.whole) \o <<"call">>
    BY AnsweredTurn
  <2> QED
    BY <1>1, <1>9, <2>2, <2>3, <2>4
<1> QED
  BY <1>6, <1>7, <1>8, <1>9, <1>14

\* What Rebuild sets up.
LEMMA RebuiltJob ==
    ASSUME job \in Jobs, NEW prompt \in Seq(Tokens), NEW cached \in Nat, NEW chunked \in BOOLEAN,
           Rebuild(prompt, cached, chunked)
    PROVE  /\ job' \in Jobs /\ job'.r = job.r /\ job'.c = job.c /\ job'.turns = Turn("call")
           /\ job'.prompt = prompt /\ job'.goal = Len(prompt) /\ job'.cold = 0
<1>1. PICK turns \in Seq(Turns) : turns = Turn("call")
  BY TurnFacts
<1>2. PICK n \in Nat : n = Len(prompt)
  BY LenProperties
<1>3. job' = [job EXCEPT !.turns = turns, !.prompt = prompt, !.cached = cached, !.goal = n,
                         !.chunked = chunked, !.cold = 0, !.suppressed = -1]
  BY <1>1, <1>2 DEF Rebuild
<1>4. /\ job' \in Jobs /\ job'.r = job.r /\ job'.c = job.c /\ job'.turns = turns
      /\ job'.prompt = prompt /\ job'.goal = n /\ job'.cold = 0
  BY <1>3 DEF Jobs
<1> QED
  BY <1>1, <1>2, <1>4

\* However the checkpoint is rebuilt, its prompt is the conversation with its call.
LEMMA RebuildHolds ==
    ASSUME SessionInv, phase = "decode", phase' = "rebuild", Answered, Last(job.out) \in {"call", "call2"},
           NEW n \in 0..Ctx, Remember("call", n), Profile[job.c].api # "responses",
           NEW prompt \in Seq(Tokens), NEW cached \in Nat, NEW chunked \in BOOLEAN,
           Rebuild(prompt, cached, chunked), UNCHANGED <<client, queue, jobs, strayed>>,
           SessionType(session'), DiskType(disk'), last' \in 0..Ctx, faults' \in 0..MaxFaults,
           ~strayed => /\ SoundDisk(disk') /\ Begins(session'.tokens)
                       /\ Says(prompt) = Said(Turn("call")) /\ Begun(prompt)
    PROVE  SessionInv'
<1>1. PICK ans \in {"say", "call"} : ans = "call"
  OBVIOUS
<1>2. Active /\ job \in Jobs /\ WellAsked(job.r) /\ job.c = job.r.c /\ Profile[job.c].tools
  BY <1>1, AnswerFacts
<1>3. Active' /\ phase' \in Phases
  BY DEF Active, Phases
<1>4. BindingsType'
  BY <1>1, <1>2, RememberTypes
<1>5. /\ job' \in Jobs /\ job'.r = job.r /\ job'.c = job.c /\ job'.turns = Turn(ans)
      /\ job'.prompt = prompt /\ job'.goal = Len(prompt) /\ job'.cold = 0
  BY <1>1, <1>2, RebuiltJob
<1>6. Going'
  <2>1. Len(prompt) \in Nat
    BY LenProperties
  <2> QED
    BY <1>5, <2>1 DEF Going
<1>7. /\ resp' = resp /\ ~resp.valid
      /\ thnk' = NoBinding
      /\ anth'.valid => anth'.ids = CallIds("call")
  <2>1. ~resp.valid /\ resp' = resp
    BY <1>2 DEF SessionInv, Going, Remember
  <2>2. thnk' = NoBinding
    BY DEF Remember, should_remember_thinking_checkpoint
  <2>3. anth.valid => Profile[job.r.c].api = "anthropic"
    BY <1>2 DEF SessionInv, Going
  <2>4. anth' = CASE Profile[job.r.c].api # "anthropic" -> anth
                  [] "call" = "call" -> Binding(n, <<>>, CallIds("call"))
                  [] OTHER -> NoBinding
    BY DEF Remember
  <2>5. anth'.valid => anth' = Binding(n, <<>>, CallIds("call"))
    <3>1. CASE Profile[job.r.c].api # "anthropic"
      BY <2>3, <2>4, <3>1
    <3>2. CASE Profile[job.r.c].api = "anthropic"
      BY <2>4, <3>2
    <3> QED
      BY <3>1, <3>2
  <2> QED
    BY <2>1, <2>2, <2>5 DEF Binding
<1>8. ASSUME Histories' = Past \cup {Turn(ans)}, ~strayed PROVE Sound'
  <2>1. Says(prompt) = Append(Meaning(job.r.whole), "call")
    BY <1>2, <1>8, AnsweredTurn
  <2>2. Len(prompt) >= Opening
    BY <1>8 DEF Begun
  <2>3. anth'.valid => Called(Histories', anth', prompt)
    BY <1>1, <1>2, <1>7, <1>8, <2>2, CalledTurn
  <2>4. ~resp'.valid /\ ~thnk'.valid
    BY <1>7 DEF NoBinding
  <2> QED
    BY <1>5, <1>8, <2>1, <2>3, <2>4 DEF Sound
<1> QED
  BY <1>1, <1>2, <1>3, <1>4, <1>5, <1>6, <1>7, <1>8, EndsJob

\* A tool call ends the answer: it is remembered, and rebuilt where it must be.
LEMMA FinishCallsHolds == SessionInv /\ FinishCalls => SessionInv'
<1> SUFFICES ASSUME SessionInv, FinishCalls PROVE SessionInv'
  OBVIOUS
<1>1. /\ phase = "decode" /\ Answered /\ Last(job.out) \in {"call", "call2"}
      /\ UNCHANGED <<client, queue, jobs, strayed>>
  BY DEF FinishCalls
<1>2. PICK ans \in {"say", "call"} : ans = "call"
  OBVIOUS
<1>3. /\ Active /\ job \in Jobs /\ WellAsked(job.r) /\ job.c = job.r.c /\ Profile[job.c].tools
      /\ ~strayed => Says(session.tokens) = Said(Turn(ans)) /\ Begun(session.tokens)
  BY <1>1, <1>2, AnswerFacts
<1>4. /\ SessionType(session) /\ session.tokens \in Seq(Tokens) /\ Len(session.tokens) <= Ctx
      /\ DiskType(disk) /\ last \in 0..Ctx /\ faults \in 0..MaxFaults
      /\ ~strayed => SoundDisk(disk) /\ Begins(session.tokens)
  BY <1>3, JobFacts DEF SessionInv, Sound
<1>5. PICK extra, s :
          /\ extra \in Overrun("call")
          /\ s = [session EXCEPT !.tokens = @ \o extra]
          /\ Remember("call", Len(s.tokens))
          /\ IF CanonicalizationNeeded(s)
             THEN /\ phase' = "rebuild"
                  /\ \/ RebuildInPlace(s)
                     \/ RebuildFromStart(s, kv_cache_find_text_prefix(disk, Canonical))
                     \/ RebuildFromDisk(s, kv_cache_find_text_prefix(disk, Canonical))
             ELSE /\ session' = s
                  /\ job' = [job EXCEPT !.turns = Turn("call")]
                  /\ phase' = "reply"
                  /\ UNCHANGED <<disk, last, faults>>
  BY DEF FinishCalls
<1>6. PICK tokens : tokens = session.tokens \o extra
  OBVIOUS
<1>7. /\ tokens \in Seq(Tokens) /\ Len(tokens) \in 0..Ctx
      /\ Says(tokens) = Says(session.tokens)
      /\ Begun(session.tokens) => Begun(tokens)
  <2>1. extra = <<>> \/ (extra = <<"eos">> /\ Len(session.tokens) < Ctx)
    BY <1>5 DEF Overrun, ds4_session_pos
  <2> QED
    BY <1>4, <1>6, <2>1, OverrunFacts
<1>8. s \in Sessions /\ s.tokens = tokens
  <2>1. s = [session EXCEPT !.tokens = tokens]
    BY <1>5, <1>6
  <2> QED
    BY <1>4, <1>7, <2>1 DEF SessionType, Sessions
<1>9. SessionType(s)
  BY <1>7, <1>8 DEF SessionType
<1>10. CASE ~CanonicalizationNeeded(s)
  <2>1. /\ session' = [session EXCEPT !.tokens = @ \o extra] /\ session' = s
        /\ job' = [job EXCEPT !.turns = Turn("call")]
        /\ phase' = "reply" /\ UNCHANGED <<disk, last, faults>>
    BY <1>5, <1>10
  <2>2. DiskType(disk') /\ last' \in 0..Ctx /\ (~strayed => SoundDisk(disk'))
    BY <1>4, <2>1
  <2>3. Remember(ans, Len(session'.tokens)) /\ extra \in Overrun(ans)
    BY <1>2, <1>5, <2>1
  <2> QED
    BY <1>1, <1>2, <2>1, <2>2, <2>3, EndsAtAnswer
<1>11. CASE CanonicalizationNeeded(s)
  <2>1. phase' = "rebuild" /\ Profile[job.c].api # "responses" /\ Remember("call", Len(tokens))
    BY <1>5, <1>8, <1>11 DEF CanonicalizationNeeded
  <2>2. /\ Canonical \in Seq(TextSymbols) /\ Canonical \in Seq(Tokens)
        /\ ~strayed => Begun(Canonical) /\ Meaning(Canonical) = Said(Turn("call"))
    BY <1>3, <1>7, <1>8, <1>11, CanonicalFacts
  <2>3. PICK text \in Seq(TextSymbols) : text = Canonical /\ text \in Seq(Tokens)
    BY <2>2
  <2>4. ~strayed => Says(text) = Said(Turn("call")) /\ Begun(text)
    BY <2>2, <2>3, SaysFacts
  <2>5. CASE RebuildInPlace(s)
    <3>1. /\ session' = s /\ Rebuild(text, 0, FALSE) /\ UNCHANGED <<disk, last, faults>>
      BY <2>3, <2>5 DEF RebuildInPlace
    <3>2. ~strayed => Begins(session'.tokens)
      BY <1>3, <1>7, <1>8, <3>1 DEF Begun, Begins
    <3>3. SessionType(session') /\ DiskType(disk') /\ last' \in 0..Ctx /\ faults' \in 0..MaxFaults
          /\ (~strayed => SoundDisk(disk'))
      BY <1>4, <1>9, <3>1
    <3>4. PICK cached \in Nat, chunked \in BOOLEAN : cached = 0 /\ chunked = FALSE
      OBVIOUS
    <3>5. Rebuild(text, cached, chunked)
      BY <3>1, <3>4
    <3> QED
      BY <1>1, <1>7, <2>1, <2>3, <2>4, <3>2, <3>3, <3>5, RebuildHolds
  <2>6. CASE RebuildFromStart(s, kv_cache_find_text_prefix(disk, Canonical))
    <3>1. /\ session' = NoSession /\ Rebuild(text, 0, InChunks(session', text))
          /\ faults' \in 0..MaxFaults /\ UNCHANGED <<disk, last>>
      <4>1. /\ session' = NoSession /\ Rebuild(text, 0, InChunks(session', text))
            /\ UNCHANGED <<disk, last>>
        BY <2>3, <2>6 DEF RebuildFromStart, ds4_session_invalidate
      <4>2. faults' = faults \/ (faults < MaxFaults /\ faults' = faults + 1)
        BY <2>6 DEF RebuildFromStart
      <4>3. faults' \in 0..MaxFaults
        BY <1>4, <4>2, ConstantFacts
      <4> QED
        BY <4>1, <4>3
    <3>2. session'.tokens = <<>> /\ session' \in Sessions /\ Len(<<>>) = 0
      BY <3>1, EmptySeq DEF NoSession, Sessions
    <3>3. SessionType(session') /\ Begins(session'.tokens)
      BY <3>2, ConstantFacts, TextFacts, LenProperties DEF SessionType, Begins
    <3>4. DiskType(disk') /\ last' \in 0..Ctx /\ (~strayed => SoundDisk(disk'))
      BY <1>4, <3>1
    <3>5. PICK cached \in Nat, chunked \in BOOLEAN : cached = 0 /\ chunked = InChunks(session', text)
      BY InChunksOrNot
    <3>6. Rebuild(text, cached, chunked)
      BY <3>1, <3>5
    <3> QED
      BY <1>1, <1>7, <2>1, <2>3, <2>4, <3>1, <3>3, <3>4, <3>6, RebuildHolds
  <2>7. CASE RebuildFromDisk(s, kv_cache_find_text_prefix(disk, Canonical))
    <3>1. PICK e \in kv_cache_find_text_prefix(disk, text) :
              /\ session' = Held(e.tokens)
              /\ Rebuild(LoadedPrompt(e, text), Len(e.tokens), InChunks(session', LoadedPrompt(e, text)))
              /\ disk' = IF Consumed(e) THEN disk \ {e} ELSE disk
              /\ last' = Len(e.tokens)
      BY <2>3, <2>7 DEF RebuildFromDisk
    <3>2. faults' = faults
      BY <2>7 DEF RebuildFromDisk
    <3>3. PICK prompt : prompt = LoadedPrompt(e, text)
      OBVIOUS
    <3>4. /\ Len(e.tokens) <= Ctx /\ Len(e.tokens) \in Nat
          /\ SessionType(session') /\ session'.tokens = e.tokens
          /\ prompt \in Seq(Tokens)
          /\ SoundDisk(disk) /\ Begun(text) => Begins(e.tokens) /\ Tells(prompt, text)
      BY <1>4, <3>1, <3>3, HitFacts
    <3>5. disk' \subseteq disk
      BY <3>1
    <3>6. DiskType(disk') /\ (~strayed => SoundDisk(disk'))
      BY <1>4, <3>5, DiskShrinks
    <3>7. last' \in 0..Ctx /\ faults' \in 0..MaxFaults
      BY <1>4, <3>1, <3>2, <3>4, ConstantFacts
    <3>8. PICK cached \in Nat, chunked \in BOOLEAN :
              cached = Len(e.tokens) /\ chunked = InChunks(session', prompt)
      BY <3>4, InChunksOrNot
    <3>9. Rebuild(prompt, cached, chunked)
      BY <3>1, <3>3, <3>8
    <3>10. ~strayed => /\ SoundDisk(disk') /\ Begins(session'.tokens)
                       /\ Says(prompt) = Said(Turn("call")) /\ Begun(prompt)
      BY <1>4, <2>2, <2>3, <2>4, <3>4, <3>6 DEF Tells
    <3> QED
      BY <1>1, <1>7, <2>1, <3>4, <3>6, <3>7, <3>9, <3>10, RebuildHolds
  <2> QED
    BY <1>5, <1>11, <2>5, <2>6, <2>7
<1> QED
  BY <1>10, <1>11

-----------------------------------------------------------------------------
(***************************************************************************)
(* The invariant, and what it says.                                        *)
(***************************************************************************)
LEMMA SessionStep == SessionInv /\ [Next]_vars => SessionInv'
<1> SUFFICES ASSUME SessionInv, [Next]_vars PROVE SessionInv'
  OBVIOUS
<1>1. ASSUME NEW c \in Clients, Parse(c) PROVE SessionInv'
  BY <1>1, ParseHolds
<1>2. CASE ContinueLive
  BY <1>2, ContinueLiveHolds
<1>3. CASE RefuseContinuation
  BY <1>3, RefuseHolds
<1>4. CASE LoadFromDisk
  BY <1>4, LoadFromDiskHolds
<1>5. CASE MissDisk
  BY <1>5, MissDiskHolds
<1>6. CASE LoadFails
  BY <1>6, LoadFailsHolds
<1>7. CASE PrefillChunk
  BY <1>7, PrefillChunkHolds
<1>8. CASE SyncRefused
  BY <1>8, SyncRefusedHolds
<1>9. CASE SyncFails
  BY <1>9, SyncFailsHolds
<1>10. CASE ColdPrefixDone
  BY <1>10, ColdPrefixDoneHolds
<1>11. CASE PromptDone
  BY <1>11, PromptDoneHolds
<1>12. CASE StreamFailsToStart
  BY <1>12, StreamFailsHolds
<1>13. CASE Decode
  BY <1>13, DecodeHolds
<1>14. CASE FinishStop
  BY <1>14, FinishStopHolds
<1>15. CASE FinishAtStopSequence
  BY <1>15, FinishAtStopHolds
<1>16. CASE FinishCalls
  BY <1>16, FinishCallsHolds
<1>17. CASE RebuildDone
  BY <1>17, RebuildDoneHolds
<1>18. CASE FinishShort
  BY <1>18, FinishShortHolds
<1>19. CASE EvalFails
  BY <1>19, EvalFailsHolds
<1>20. CASE Reply
  BY <1>20, ReplyHolds
<1>21. CASE Restart
  BY <1>21, RestartHolds
<1>22. CASE UNCHANGED vars
  <2>1. UNCHANGED <<session, resp, anth, thnk, disk, last, client, queue, job, phase, jobs, faults, strayed>>
    BY <1>22 DEF vars
  <2>2. Types' /\ Asked' /\ Fresh' /\ Going'
    BY <2>1 DEF SessionInv, Types, BindingsType, ClientsType, WorkerType, CountersType, Active, Asked, Fresh,
                Past, Going, Answered, ds4_session_pos
  <2>3. Bound' = Bound /\ Histories' = Histories
    BY <2>1 DEF Bound, Histories, Past, Active
  <2>4. Sound => Sound'
    BY <2>1, <2>3 DEF Sound, ds4_session_pos
  <2> QED
    BY <2>1, <2>2, <2>4 DEF SessionInv
<1> QED
  BY <1>1, <1>2, <1>3, <1>4, <1>5, <1>6, <1>7, <1>8, <1>9, <1>10, <1>11, <1>12, <1>13, <1>14,
     <1>15, <1>16, <1>17, <1>18, <1>19, <1>20, <1>21, <1>22 DEF Next

\* The invariant holds in every reachable state.
LEMMA SessionInvariance == Spec => []SessionInv
<1>1. Init => SessionInv
  BY InitHolds
<1>2. SessionInv /\ [Next]_vars => SessionInv'
  BY SessionStep
<1> QED
  BY <1>1, <1>2, PTL DEF Spec

\* A text ends with itself, so what names tokens says the end of them.
LEMMA EndsWithItself ==
    ASSUME NEW tokens \in Seq(Tokens), NEW text, Describes(text, tokens)
    PROVE  IsSuffix(Meaning(text), Says(tokens))
<1>1. PICK s \in Seq(TextSymbols), none \in Seq(TextSymbols) : s = Says(tokens) /\ none = <<>>
  BY SaysFacts, EmptySeq
<1>2. IsSuffix(s, none \o s) /\ none \o s = s
  BY <1>1, JoinedEnds, TextsJoin
<1>3. CASE text = render_tokens_text(tokens) \/ Meaning(text) = Says(tokens)
  BY <1>1, <1>2, <1>3 DEF Says
<1>4. CASE IsSuffix(Meaning(text), Says(tokens))
  BY <1>4
<1> QED
  BY <1>3, <1>4 DEF Describes, Names

\* The invariant's types are those of the specification.
LEMMA TypesSay == SessionInv => TypeOK
<1> SUFFICES ASSUME SessionInv PROVE TypeOK
  OBVIOUS
<1>1. session.tokens \in Seq(Tokens) /\ Len(session.tokens) <= Ctx /\ session.valid \in BOOLEAN
  BY DEF SessionInv, Types, SessionType, Sessions
<1>2. {resp, anth, thnk} \subseteq BindingType
  BY DEF SessionInv, Types, BindingsType
<1>3. \A e \in disk : e.text \in Seq(TextSymbols) /\ e.tokens \in Seq(Tokens)
  BY DEF SessionInv, Types, DiskType, Entries
<1>4. Cardinality(disk) <= DiskSlots
  BY DEF SessionInv, Types, DiskType
<1>5. last \in 0..Ctx /\ jobs \in 0..MaxJobs /\ faults \in 0..MaxFaults /\ strayed \in BOOLEAN
  BY DEF SessionInv, Types, CountersType
<1>6. \A c \in Clients : client[c].turns \in Seq(Turns) /\ client[c].busy \in BOOLEAN
  BY DEF SessionInv, Types, ClientsType
<1>7. phase \in Phases
  BY DEF SessionInv, Types, WorkerType
<1>8. phase = "idle" <=> job = NoJob
  BY JobIsSome DEF SessionInv, Types, WorkerType, Active
<1> QED
  BY <1>1, <1>2, <1>3, <1>4, <1>5, <1>6, <1>7, <1>8 DEF TypeOK

(***************************************************************************)
(* Whatever the request was continued from (responses_live, anthropic_live,*)
(* thinking_live, the session's tokens or text, a checkpoint on disk, or   *)
(* nothing), the model decodes from this client's conversation.            *)
(***************************************************************************)
THEOREM DecodesTheConversation == Spec => []AnswersOwnHistory
<1>1. SessionInv => AnswersOwnHistory
  <2> SUFFICES ASSUME SessionInv, phase = "decode", job.out = <<>>, ~strayed
               PROVE  Meaning(render_tokens_text(session.tokens)) = Meaning(job.r.whole)
    BY DEF AnswersOwnHistory
  <2>1. Says(session.tokens) = Meaning(job.r.whole) \o Spoken(job.out)
    BY DEF SessionInv, Sound
  <2>2. Spoken(job.out) = <<>>
    BY DEF Spoken
  <2>3. job \in Jobs
    BY DEF SessionInv, Types, WorkerType, Active
  <2>4. Meaning(job.r.whole) \in Seq(TextSymbols)
    BY <2>3, MeaningMore DEF Jobs, Requests
  <2> QED
    BY <2>1, <2>2, <2>4, TextsJoin DEF Says
<1> QED
  BY <1>1, SessionInvariance, PTL

(***************************************************************************)
(* The key of every checkpoint on disk says what its payload says, or the  *)
(* end of it: kv_cache_store_current uses a binding's visible text as the  *)
(* key only where it belongs to the session that is saved.                 *)
(***************************************************************************)
THEOREM CheckpointsAreKeyedByTheirText == Spec => []KeysDescribePayloads
<1>1. SessionInv => KeysDescribePayloads
  <2> SUFFICES ASSUME SessionInv, ~strayed, NEW e \in disk
               PROVE  IsSuffix(Meaning(e.text), Meaning(render_tokens_text(e.tokens)))
    BY DEF KeysDescribePayloads
  <2>1. e.tokens \in Seq(Tokens)
    BY DEF SessionInv, Types, DiskType, Entries
  <2>2. Describes(e.text, e.tokens)
    BY DEF SessionInv, Sound, SoundDisk
  <2> QED
    BY <2>1, <2>2, EndsWithItself DEF Says
<1> QED
  BY <1>1, SessionInvariance, PTL

(***************************************************************************)
(* Between jobs, a Responses or thinking binding at the length of the      *)
(* session belongs to what is in the session, and every variable has its   *)
(* type (responses_live_remember, remember_thinking_checkpoint).           *)
(***************************************************************************)
THEOREM BindingsPointIntoTheSession == Spec => []BindingsFollowTheSession
<1>1. SessionInv => BindingsFollowTheSession
  <2> SUFFICES ASSUME SessionInv
               PROVE  phase = "idle" /\ ~strayed /\ ds4_session_pos > 0 =>
                         \A b \in {resp, thnk} :
                            AtFrontier(b) =>
                               IsSuffix(Meaning(b.visible), Meaning(render_tokens_text(session.tokens)))
    BY TypesSay DEF BindingsFollowTheSession
  <2> SUFFICES ASSUME phase = "idle", ~strayed, ds4_session_pos > 0,
                      NEW b \in {resp, thnk}, AtFrontier(b)
               PROVE  IsSuffix(Meaning(b.visible), Meaning(render_tokens_text(session.tokens)))
    OBVIOUS
  <2>1. Bound
    BY DEF SessionInv, Sound
  <2>2. Names(b.visible, session.tokens)
    BY <2>1 DEF Bound, BoundBy, AtFrontier, ds4_session_pos
  <2>3. session.tokens \in Seq(Tokens)
    BY DEF SessionInv, Types, SessionType, Sessions
  <2> QED
    BY <2>2, <2>3, EndsWithItself DEF Describes, Says
<1> QED
  BY <1>1, SessionInvariance, PTL

\* A job starts either from a live source, or after the session was saved first.
LEMMA SourceOfStep ==
    ASSUME SessionInv, Next, phase = "idle", phase' = "prefill", job'.source \in {"none", "disk-text"}
    PROVE  LoadFromDisk \/ MissDisk \/ LoadFails
<1>1. ~ContinueLive
  <2> SUFFICES ASSUME ContinueLive PROVE FALSE
    OBVIOUS
  <2>1. PICK r : r = Head(queue)
    OBVIOUS
  <2>2. PICK i : i = Min(Offered(r))
    OBVIOUS
  <2>3. i \in DOMAIN LiveSources
    <3>1. Offered(r) \subseteq Nat /\ Offered(r) # {}
      BY <2>1 DEF ContinueLive, Offered, LiveSources
    <3> QED
      BY <2>2, <3>1, MinIn DEF Offered
  <2>4. PICK source : source = LiveSources[i]
    OBVIOUS
  <2>5. job' = Start(r, source, session, EffectivePrompt(source, r), ds4_session_pos)
    BY <2>1, <2>2, <2>4 DEF ContinueLive
  <2>6. job'.source = source
    BY <2>5 DEF Start
  <2>7. source \notin {"none", "disk-text"}
    BY <2>3, <2>4 DEF LiveSources
  <2> QED
    BY <2>6, <2>7
<1>2. ASSUME NEW c \in Clients, Parse(c) PROVE FALSE
  BY <1>2 DEF Parse
<1>3. ~RefuseContinuation /\ ~Restart
  BY DEF RefuseContinuation, Restart
<1>4. ~PrefillChunk /\ ~SyncRefused /\ ~SyncFails /\ ~ColdPrefixDone /\ ~PromptDone /\ ~RebuildDone
  BY DEF PrefillChunk, SyncRefused, SyncFails, ColdPrefixDone, PromptDone, RebuildDone, Synced, Syncing
<1>5. ~StreamFailsToStart /\ ~Decode /\ ~FinishStop /\ ~FinishAtStopSequence /\ ~FinishCalls
      /\ ~FinishShort /\ ~EvalFails /\ ~Reply
  BY DEF StreamFailsToStart, Decode, FinishStop, FinishAtStopSequence, FinishCalls, FinishShort,
         EvalFails, Reply
<1> QED
  BY <1>1, <1>2, <1>3, <1>4, <1>5 DEF Next

(***************************************************************************)
(* "Persist the current checkpoint first" (ds4_server.c:10612): a job that *)
(* takes the session for another conversation leaves what it held on disk  *)
(* under a key that says all of it, or goes on from the same conversation. *)
(* That the next prompt begins with that key is not part of it: a call may *)
(* be spelled otherwise there.                                             *)
(***************************************************************************)
THEOREM SwitchesKeepTheWork == Spec => SwitchKeepsWork
<1>1. ASSUME SessionInv, [Next]_vars, phase = "idle", phase' = "prefill", CanStore(session),
             ~strayed, ~NamesLastTurnOnly, job'.source \in {"none", "disk-text"}
      PROVE  \/ /\ job'.source = "disk-text"
                /\ Meaning(render_tokens_text(session'.tokens))
                      = Meaning(render_tokens_text(session.tokens))
             \/ \E e \in disk' :
                    Meaning(e.text) = Meaning(render_tokens_text(session.tokens))
  <2> DEFINE Saved == \E e \in disk' : Meaning(e.text) = Meaning(render_tokens_text(session.tokens))
  <2>0. ~UNCHANGED vars
    BY <1>1 DEF vars
  <2>1. LoadFromDisk \/ MissDisk \/ LoadFails
    BY <1>1, <2>0, SourceOfStep
  <2>2. ASSUME NEW D \in SavedFirst
        PROVE  /\ DiskType(D) /\ SoundDisk(D)
               /\ \E e \in D : Meaning(e.text) = Says(session.tokens)
    BY <1>1, <2>2, IdleSaves
  <2>3. ASSUME NEW D \in SavedFirst, ColdStart(Head(queue), D) PROVE Saved
    BY <2>2, <2>3 DEF ColdStart, Says
  <2>4. CASE MissDisk
    BY <2>3, <2>4 DEF MissDisk
  <2>5. CASE LoadFails
    BY <2>3, <2>5 DEF LoadFails
  <2>6. CASE LoadFromDisk
    <3>1. PICK r : r = Head(queue)
      OBVIOUS
    <3>2. PICK D \in SavedFirst : \E e \in kv_cache_find_text_prefix(D, r.text) :
              /\ session' = Held(e.tokens)
              /\ job' = Start(r, "disk-text", session', LoadedPrompt(e, r.text), Len(e.tokens))
              /\ disk' = IF Consumed(e) THEN D \ {e} ELSE D
      BY <2>6, <3>1 DEF LoadFromDisk
    <3>3. PICK e \in kv_cache_find_text_prefix(D, r.text) :
              /\ session' = Held(e.tokens)
              /\ job' = Start(r, "disk-text", session', LoadedPrompt(e, r.text), Len(e.tokens))
              /\ disk' = IF Consumed(e) THEN D \ {e} ELSE D
      BY <3>2
    <3>4. PICK f \in D : Meaning(f.text) = Says(session.tokens)
      BY <2>2
    <3>5. CASE f \in disk'
      BY <3>4, <3>5 DEF Says
    <3>6. CASE f \notin disk'
      <4>1. f = e
        BY <3>3, <3>4, <3>6
      <4>2. r.text \in Seq(TextSymbols) /\ Begun(r.text)
        BY <1>1, <2>6, <3>1, MissedFacts DEF LoadFromDisk
      <4>3. DiskType(D) /\ SoundDisk(D)
        BY <2>2
      <4>4. /\ e.tokens \in Seq(Tokens) /\ e.text \in Seq(TextSymbols) /\ IsPrefix(e.text, r.text)
            /\ Describes(e.text, e.tokens) /\ session'.tokens = e.tokens
        BY <3>3, <4>2, <4>3, HitFacts
      <4>5. Meaning(e.text) = Says(e.tokens)
        BY <4>2, <4>4, KeySays
      <4>6. job'.source = "disk-text"
        BY <3>3 DEF Start
      <4> QED
        BY <3>4, <4>1, <4>4, <4>5, <4>6 DEF Says
    <3> QED
      BY <3>5, <3>6
  <2> QED
    BY <2>1, <2>4, <2>5, <2>6
<1> QED
  BY <1>1, SessionInvariance, PTL DEF Spec, SwitchKeepsWork

=============================================================================

----------------------------- MODULE ServerQueue -----------------------------
(***************************************************************************)
(* The threads of ds4-server (ds4_server.c): the main thread accepts       *)
(* connections and spawns a detached thread for each; a client thread      *)
(* reads and parses its request, puts a job that lives on its own stack in *)
(* the queue and sleeps until the one worker thread, which owns the model  *)
(* session, has written the response.  A signal asks for shutdown: the     *)
(* worker drains the queue, main joins it, waits for the client threads,   *)
(* saves the session and frees everything.                                 *)
(*                                                                         *)
(* A critical section of s->mu is one action.  A condition variable is     *)
(* modelled by what the sleeper's program counter says: only a signal, a   *)
(* broadcast or a spurious wakeup takes it out of its sleeping state.      *)
(***************************************************************************)
EXTENDS Naturals, Sequences, FiniteSets

CONSTANT Connections  \* connections; each connects at most once

ASSUME ConnectionsAssumption == IsFiniteSet(Connections)

VARIABLES
    stop,       \* g_stop_requested
    listening,  \* g_listen_fd >= 0
    stopping,   \* s->stopping
    main,       \* where the main thread is
    accepted,   \* the connection main is setting up: {} or {c}
    clients,    \* s->clients
    worker,     \* where the worker thread is
    current,    \* the job the worker holds: {} or {c}
    jobQueue,   \* s->head .. s->tail; a job is named by its client
    thread,     \* per client: where its thread is
    done,       \* per client: j->done
    reply       \* per client: what was sent on its socket

serverVars == <<stop, listening, stopping, main, accepted, clients, worker,
                current, jobQueue, thread, done, reply>>
signalVars == <<stop, listening>>
mainVars == <<main, accepted, stopping>>
workerVars == <<worker, current>>
clientVars == <<thread, done, reply>>

MainStates == {"listen", "failed", "loop", "accept", "accepted", "spawn", "drain",
               "join", "await", "asleep", "persist", "exited", "killed"}
WorkerStates == {"dequeue", "asleep", "generate", "finish", "gone"}

\* A client thread: not connected; parsing; about to enqueue, with j->mu held;
\* enqueued, with j->mu held; asleep on j->cv; awake; closing; ended.
ThreadStates == {"none", "parse", "submit", "check", "asleep", "awake",
                 "closing", "gone"}

\* "lost": send_all refused to send, or the socket was closed unanswered.
Replies == {"none", "direct", "worker", "shutting_down", "lost"}

\* The threads main has to wait for, and those whose stack holds a live job.
Live == {c \in Connections : thread[c] \notin {"none", "gone"}}
OwnsJob == {c \in Connections : thread[c] \in {"submit", "check", "asleep", "awake"}}

Queued == {jobQueue[i] : i \in 1 .. Len(jobQueue)}

ServerInit ==
    /\ stop = FALSE
    /\ listening = FALSE
    /\ stopping = FALSE
    /\ main = "listen"
    /\ accepted = {}
    /\ clients = 0
    /\ worker = "dequeue"
    /\ current = {}
    /\ jobQueue = <<>>
    /\ thread = [c \in Connections |-> "none"]
    /\ done = [c \in Connections |-> FALSE]
    /\ reply = [c \in Connections |-> "none"]

(***************************************************************************)
(* Signals and condition variables.                                        *)
(***************************************************************************)
\* stop_signal_handler, first signal: accept() fails from now on.
stop_signal_handler ==
    /\ ~ stop
    /\ main # "exited"
    /\ stop' = TRUE
    /\ listening' = FALSE
    /\ UNCHANGED <<mainVars, clients, workerVars, jobQueue, clientVars>>

\* The second signal is _exit: the process and all its threads end at once.
SecondSignal ==
    /\ stop
    /\ main \notin {"exited", "killed"}
    /\ main' = "killed"
    /\ worker' = "gone"
    /\ current' = {}
    /\ jobQueue' = <<>>
    /\ thread' = [c \in Connections |-> IF thread[c] = "none" THEN "none" ELSE "gone"]
    /\ UNCHANGED <<signalVars, accepted, stopping, clients, done, reply>>

\* What a signal or broadcast on s->cv and s->clients_cv does to the sleeper.
WakeWorker == worker' = IF worker = "asleep" THEN "dequeue" ELSE worker
WakeMain == main' = IF main = "asleep" THEN "await" ELSE main

\* pthread_cond_wait may return without a signal.
SpuriousWakeup ==
    \/ /\ worker = "asleep"
       /\ WakeWorker
       /\ UNCHANGED <<signalVars, mainVars, clients, current, jobQueue, clientVars>>
    \/ /\ main = "asleep"
       /\ WakeMain
       /\ UNCHANGED <<signalVars, accepted, stopping, clients, workerVars, jobQueue, clientVars>>
    \/ \E c \in Connections :
          /\ thread[c] = "asleep"
          /\ thread' = [thread EXCEPT ![c] = "awake"]
          /\ UNCHANGED <<signalVars, mainVars, clients, workerVars, jobQueue, done, reply>>

\* send_all gives up as soon as a stop was requested.
send_all(c, what) == reply' = [reply EXCEPT ![c] = IF stop THEN "lost" ELSE what]

(***************************************************************************)
(* The worker thread.                                                      *)
(***************************************************************************)
\* dequeue: take the head, sleep on s->cv, or leave when stopping and empty.
dequeue ==
    /\ worker = "dequeue"
    /\ IF jobQueue # <<>>
       THEN worker' = "generate" /\ current' = {Head(jobQueue)} /\ jobQueue' = Tail(jobQueue)
       ELSE /\ worker' = IF stopping THEN "gone" ELSE "asleep"
            /\ UNCHANGED <<jobQueue, current>>
    /\ UNCHANGED <<signalVars, mainVars, clients, clientVars>>

\* generate_job writes the response, or loses it to the stop signal.
generate_job ==
    /\ worker = "generate"
    /\ \E c \in current : send_all(c, "worker")
    /\ worker' = "finish"
    /\ UNCHANGED <<signalVars, mainVars, clients, current, jobQueue, thread, done>>

\* The worker takes j->mu, which the client releases only in its wait, sets
\* j->done and signals j->cv.
FinishJob ==
    /\ worker = "finish"
    /\ \E c \in current :
          /\ thread[c] \notin {"submit", "check"}
          /\ done' = [done EXCEPT ![c] = TRUE]
          /\ thread' = [thread EXCEPT ![c] = IF @ = "asleep" THEN "awake" ELSE @]
    /\ worker' = "dequeue"
    /\ current' = {}
    /\ UNCHANGED <<signalVars, mainVars, clients, jobQueue, reply>>

worker_main == dequeue \/ generate_job \/ FinishJob

(***************************************************************************)
(* A client thread.                                                        *)
(***************************************************************************)
\* Bad request, OPTIONS, model list, unknown endpoint, parse error, context
\* exceeded: answered without the worker.
AnswerDirectly(c) ==
    /\ thread[c] = "parse"
    /\ send_all(c, "direct")
    /\ thread' = [thread EXCEPT ![c] = "closing"]
    /\ UNCHANGED <<signalVars, mainVars, clients, workerVars, jobQueue, done>>

\* A well-formed generation request: the job is set up and j->mu locked.
PrepareJob(c) ==
    /\ thread[c] = "parse"
    /\ thread' = [thread EXCEPT ![c] = "submit"]
    /\ UNCHANGED <<signalVars, mainVars, clients, workerVars, jobQueue, done, reply>>

\* Mutant: the new job is linked without a signal on s->cv.
enqueue_unsignalled(c) ==
    /\ thread[c] = "submit"
    /\ IF stopping
       THEN /\ send_all(c, "shutting_down")
            /\ thread' = [thread EXCEPT ![c] = "closing"]
            /\ UNCHANGED jobQueue
       ELSE /\ jobQueue' = Append(jobQueue, c)
            /\ thread' = [thread EXCEPT ![c] = "check"]
            /\ UNCHANGED reply
    /\ UNCHANGED <<signalVars, mainVars, clients, workerVars, done>>

\* enqueue, and the 503 when the server is stopping.
enqueue(c) ==
    /\ thread[c] = "submit"
    /\ IF stopping
       THEN /\ send_all(c, "shutting_down")
            /\ thread' = [thread EXCEPT ![c] = "closing"]
            /\ UNCHANGED <<jobQueue, worker>>
       ELSE /\ jobQueue' = Append(jobQueue, c)
            /\ WakeWorker
            /\ thread' = [thread EXCEPT ![c] = "check"]
            /\ UNCHANGED reply
    /\ UNCHANGED <<signalVars, mainVars, clients, current, done>>

\* Mutant: `if' for `while': any wakeup counts as completion.
AwaitJobOnce(c) ==
    /\ thread[c] \in {"check", "awake"}
    /\ thread' = [thread EXCEPT ![c] =
                     IF done[c] \/ thread[c] = "awake" THEN "closing" ELSE "asleep"]
    /\ UNCHANGED <<signalVars, mainVars, clients, workerVars, jobQueue, done, reply>>

\* while (!j.done) pthread_cond_wait; then the job is freed.
AwaitJob(c) ==
    /\ thread[c] \in {"check", "awake"}
    /\ thread' = [thread EXCEPT ![c] = IF done[c] THEN "closing" ELSE "asleep"]
    /\ UNCHANGED <<signalVars, mainVars, clients, workerVars, jobQueue, done, reply>>

\* Mutant: the last client thread does not wake main.
client_done_unsignalled(c) ==
    /\ thread[c] = "closing"
    /\ thread' = [thread EXCEPT ![c] = "gone"]
    /\ clients' = clients - 1
    /\ UNCHANGED <<signalVars, mainVars, workerVars, jobQueue, done, reply>>

\* close(fd) and client_done.
client_done(c) ==
    /\ thread[c] = "closing"
    /\ thread' = [thread EXCEPT ![c] = "gone"]
    /\ clients' = IF clients > 0 THEN clients - 1 ELSE clients
    /\ WakeMain
    /\ UNCHANGED <<signalVars, accepted, stopping, workerVars, jobQueue, done, reply>>

client_main(c) ==
    AnswerDirectly(c) \/ PrepareJob(c) \/ enqueue(c) \/ AwaitJob(c) \/ client_done(c)

(***************************************************************************)
(* The main thread.                                                        *)
(***************************************************************************)
listen_on ==
    /\ main = "listen"
    /\ main' = "loop"
    /\ listening' = TRUE
    /\ UNCHANGED <<stop, accepted, stopping, clients, workerVars, jobQueue, clientVars>>

\* The port is taken: stop and join the worker, free everything.
ListenFails ==
    /\ main = "listen"
    /\ main' = "failed"
    /\ stopping' = TRUE
    /\ WakeWorker
    /\ UNCHANGED <<signalVars, accepted, clients, current, jobQueue, clientVars>>

LoopHead ==
    /\ main = "loop"
    /\ main' = IF stop THEN "drain" ELSE "accept"
    /\ UNCHANGED <<signalVars, accepted, stopping, clients, workerVars, jobQueue, clientVars>>

Accept(c) ==
    /\ main = "accept"
    /\ listening
    /\ thread[c] = "none" /\ reply[c] = "none"
    /\ main' = "accepted"
    /\ accepted' = {c}
    /\ UNCHANGED <<signalVars, stopping, clients, workerVars, jobQueue, clientVars>>

\* accept() returns -1: interrupted, listen socket closed, or another error.
AcceptFails ==
    /\ main = "accept"
    /\ main' = IF stop THEN "drain" ELSE "loop"
    /\ UNCHANGED <<signalVars, accepted, stopping, clients, workerVars, jobQueue, clientVars>>

\* Stop requested meanwhile: drop the connection.  Otherwise count it.
CountClient ==
    /\ main = "accepted"
    /\ IF stop
       THEN /\ main' = "drain"
            /\ accepted' = {}
            /\ reply' = [c \in Connections |-> IF c \in accepted THEN "lost" ELSE reply[c]]
            /\ UNCHANGED clients
       ELSE /\ main' = "spawn"
            /\ clients' = clients + 1
            /\ UNCHANGED <<accepted, reply>>
    /\ UNCHANGED <<signalVars, stopping, workerVars, jobQueue, thread, done>>

\* pthread_create
Spawn ==
    /\ main = "spawn"
    /\ main' = "loop"
    /\ thread' = [c \in Connections |-> IF c \in accepted THEN "parse" ELSE thread[c]]
    /\ accepted' = {}
    /\ UNCHANGED <<signalVars, stopping, clients, workerVars, jobQueue, done, reply>>

SpawnFails ==
    /\ main = "spawn"
    /\ main' = "loop"
    /\ clients' = clients - 1
    /\ reply' = [c \in Connections |-> IF c \in accepted THEN "lost" ELSE reply[c]]
    /\ accepted' = {}
    /\ UNCHANGED <<signalVars, stopping, workerVars, jobQueue, thread, done>>

\* Close the listen socket, set stopping, wake the worker.
Drain ==
    /\ main = "drain"
    /\ main' = "join"
    /\ listening' = FALSE
    /\ stopping' = TRUE
    /\ WakeWorker
    /\ UNCHANGED <<stop, accepted, clients, current, jobQueue, clientVars>>

\* pthread_join(worker); after a failed listen nothing else is awaited.
JoinWorker ==
    /\ main \in {"join", "failed"}
    /\ worker = "gone"
    /\ main' = IF main = "failed" THEN "exited" ELSE "await"
    /\ UNCHANGED <<signalVars, accepted, stopping, clients, workerVars, jobQueue, clientVars>>

\* Mutant: main does not wait for the client threads.
AwaitNobody ==
    /\ main = "await"
    /\ main' = "persist"
    /\ UNCHANGED <<signalVars, accepted, stopping, clients, workerVars, jobQueue, clientVars>>

\* while (s.clients > 0) pthread_cond_wait(&s.clients_cv)
AwaitClients ==
    /\ main = "await"
    /\ main' = IF clients > 0 THEN "asleep" ELSE "persist"
    /\ UNCHANGED <<signalVars, accepted, stopping, clients, workerVars, jobQueue, clientVars>>

\* kv_cache_store_current("shutdown") and server_close_resources.
CloseResources ==
    /\ main = "persist"
    /\ main' = "exited"
    /\ UNCHANGED <<signalVars, accepted, stopping, clients, workerVars, jobQueue, clientVars>>

MainThread ==
    \/ listen_on \/ ListenFails \/ LoopHead \/ AcceptFails \/ CountClient
    \/ Spawn \/ SpawnFails \/ Drain \/ JoinWorker \/ AwaitClients \/ CloseResources

Environment ==
    \/ stop_signal_handler \/ SecondSignal \/ SpuriousWakeup
    \/ \E c \in Connections : Accept(c)

ServerNext ==
    \/ Environment
    \/ MainThread
    \/ worker_main
    \/ \E c \in Connections : client_main(c)

ServerSpec == ServerInit /\ [][ServerNext]_serverVars

(***************************************************************************)
(* Every thread is scheduled.  A client thread leaves "parse" because the  *)
(* socket has a receive timeout, and generate_job ends because decoding is *)
(* bounded and sends give up on a stalled client.  No fairness for         *)
(* connections, signals or spurious wakeups.                               *)
(***************************************************************************)
FairSpec ==
    /\ ServerSpec
    /\ WF_serverVars(MainThread)
    /\ WF_serverVars(worker_main)
    /\ \A c \in Connections : WF_serverVars(client_main(c))

-----------------------------------------------------------------------------
(***************************************************************************)
(* Properties.                                                             *)
(***************************************************************************)
\* Every variable has its type.
ServerTypeOK ==
    /\ stop \in BOOLEAN /\ listening \in BOOLEAN /\ stopping \in BOOLEAN
    /\ main \in MainStates
    /\ accepted \in SUBSET Connections
    /\ clients \in Nat
    /\ worker \in WorkerStates
    /\ current \in SUBSET Connections
    /\ jobQueue \in Seq(Connections)
    /\ thread \in [Connections -> ThreadStates]
    /\ done \in [Connections -> BOOLEAN]
    /\ reply \in [Connections -> Replies]

\* Jobs are stack-owned by the client thread: whatever the queue or the worker
\* refers to is still on the stack of a live thread, whose socket is open, and
\* a job is in one place: queued once, or held by the worker, and not done.
JobsOutliveTheirUse ==
    /\ ServerTypeOK
    /\ Queued \cup current \subseteq OwnsJob
    /\ \A i, j \in 1 .. Len(jobQueue) : jobQueue[i] = jobQueue[j] => i = j
    /\ Queued \cap current = {}
    /\ \A c \in Queued \cup current : ~ done[c]

\* server_close_resources frees the session, the caches and the locks only
\* when no thread is left that could use them.
ResourcesOutliveThreads == main = "exited" => Live = {} /\ worker = "gone"

\* Every accepted connection is closed in the end, whatever the order of its
\* enqueue, the worker's sleep and the shutdown.
EveryClientLeaves ==
    \A c \in Connections : thread[c] # "none" ~> thread[c] = "gone"

\* A stop request ends the process: nobody sleeps through it.
StopEndsTheServer == stop ~> main \in {"exited", "killed"}
=============================================================================

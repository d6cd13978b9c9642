----------------------------- MODULE ThreadPool -----------------------------
(***************************************************************************)
(* The CPU worker pool of ds4.c: persistent workers that wait for a new    *)
(* generation, copy the job under the lock, run their share of its rows    *)
(* outside the lock and count themselves done.  The caller publishes the   *)
(* job, runs the first share itself and sleeps until every worker has      *)
(* counted itself.                                                         *)
(*                                                                         *)
(* Each critical section of g_pool.mutex is one step.  A thread that       *)
(* waits on a condition variable is "asleep" until it is signalled or,     *)
(* since POSIX allows it, wakes for no reason; it then looks again.        *)
(* Threads are numbered as in the code: 0 is the caller, 1.. the workers.  *)
(* A nested call (g_parallel_depth > 0) never reaches the pool: it is part *)
(* of the kernel that makes it.                                            *)
(***************************************************************************)
EXTENDS Integers, FiniteSets

CONSTANTS NThreads,    \* g_pool.n_threads
          MaxCalls,    \* calls followed (a bound of the model)
          MaxRows,     \* rows of the largest job
          MinRows,     \* the values of min_parallel_rows callers pass
          Generations  \* number of values of the generation counter (2^32)

ASSUME PoolAssumption ==
    /\ NThreads \in Nat \ {0}
    /\ MaxCalls \in Nat
    /\ MaxRows \in Nat
    /\ MinRows \subseteq Nat
    /\ Generations \in Nat \ {0, 1}

Calls   == 1..MaxCalls
Rows    == 0..(MaxRows - 1)
Workers == 1..(NThreads - 1)
n_workers == NThreads - 1

VARIABLES
    initialized, shutdown, generation, done,   \* g_pool
    job,          \* g_pool.fn and ctx: the number of the call they belong to
    n_rows,       \* g_pool.n_rows
    pc,           \* where each worker is
    seen,         \* seen_generation of each worker
    mine,         \* the job each worker copied: its call and its rows
    host,         \* where the calling thread is
    call, rows,   \* calls made so far and the rows of the last one
    ran           \* ran[c][r]: times the kernel got row r of call c

pool    == <<initialized, shutdown, generation, done, job, n_rows>>
threads == <<pc, seen, mine>>
vars    == <<pool, threads, host, call, rows, ran>>

InCall == host \in {"serial", "served", "main", "await", "asleep"}

rows_per_thread_down(n) == n \div NThreads

\* The rows of thread t: rows_per_thread is n over the threads, rounded up.
rows_per_thread(n) == (n + NThreads - 1) \div NThreads

RowsOf(t, n) == {r \in 0..(n - 1) : /\ t * rows_per_thread(n) <= r
                                    /\ r < t * rows_per_thread(n) + rows_per_thread(n)}

\* fn(ctx, row0, row1) of call c, for the rows R.
Kernel(c, R) ==
    ran' = [ran EXCEPT ![c] = [r \in Rows |-> IF r \in R THEN @[r] + 1 ELSE @[r]]]

Init ==
    /\ initialized = FALSE /\ shutdown = FALSE
    /\ generation = 0 /\ done = 0 /\ job = 0 /\ n_rows = 0
    /\ pc = [w \in Workers |-> "none"]
    /\ seen = [w \in Workers |-> 0]
    /\ mine = [w \in Workers |-> [call |-> 0, rows |-> 0]]
    /\ host = "idle" /\ call = 0 /\ rows = 0
    /\ ran = [c \in Calls |-> [r \in Rows |-> 0]]

-----------------------------------------------------------------------------
\* pthread_cond_broadcast(&g_pool.work_cond) and, when the pool is created,
\* the new threads.
Broadcast == pc' = [w \in Workers |-> IF pc[w] = "asleep" THEN "look" ELSE pc[w]]

ds4_threads_init ==
    /\ host = "idle" /\ ~initialized
    /\ initialized' = TRUE /\ shutdown' = FALSE /\ generation' = 0 /\ done' = 0
    /\ pc' = [w \in Workers |-> "look"]
    /\ seen' = [w \in Workers |-> 0]
    /\ UNCHANGED <<job, n_rows, mine, host, call, rows, ran>>

\* A call that is too small for the pool: fn(ctx, 0, n_rows) on the caller.
CallSerial(n, min) ==
    /\ host = "idle" /\ initialized /\ call + 1 \in Calls
    /\ NThreads <= 1 \/ n < min
    /\ call' = call + 1 /\ rows' = n
    /\ host' = "serial"
    /\ UNCHANGED <<pool, threads, ran>>

RunSerial ==
    /\ host = "serial"
    /\ Kernel(call, 0..(rows - 1))
    /\ host' = "served"
    /\ UNCHANGED <<pool, threads, call, rows>>

ReturnSerial ==
    /\ host = "served"
    /\ host' = "idle"
    /\ UNCHANGED <<pool, threads, call, rows, ran>>

\* The first critical section of ds4_parallel_for_min_rows.
Publish(n, min) ==
    /\ host = "idle" /\ initialized /\ call + 1 \in Calls
    /\ ~(NThreads <= 1 \/ n < min)
    /\ call' = call + 1 /\ rows' = n
    /\ job' = call + 1 /\ n_rows' = n
    /\ done' = 0
    /\ generation' = (generation + 1) % Generations
    /\ Broadcast
    /\ host' = "main"
    /\ UNCHANGED <<initialized, shutdown, seen, mine, ran>>

\* The caller's own share.
RunMain ==
    /\ host = "main"
    /\ Kernel(call, RowsOf(0, rows))
    /\ host' = "await"
    /\ UNCHANGED <<pool, threads, call, rows>>

AwaitDoneOnce ==
    /\ host = "await"
    /\ host' = "idle"
    /\ UNCHANGED <<pool, threads, call, rows, ran>>

\* while (done < n_workers) wait: return, or sleep.
AwaitDone ==
    /\ host = "await"
    /\ host' = IF done < n_workers THEN "asleep" ELSE "idle"
    /\ UNCHANGED <<pool, threads, call, rows, ran>>

Stop_silently ==
    /\ host = "idle" /\ initialized
    /\ shutdown' = TRUE
    /\ generation' = (generation + 1) % Generations
    /\ host' = "join"
    /\ UNCHANGED <<initialized, done, job, n_rows, pc, seen, mine, call, rows, ran>>

\* ds4_threads_shutdown: the critical section, then the joins and memset.
Stop ==
    /\ host = "idle" /\ initialized
    /\ shutdown' = TRUE
    /\ generation' = (generation + 1) % Generations
    /\ Broadcast
    /\ host' = "join"
    /\ UNCHANGED <<initialized, done, job, n_rows, seen, mine, call, rows, ran>>

Join ==
    /\ host = "join"
    /\ \A w \in Workers : pc[w] = "gone"
    /\ initialized' = FALSE /\ shutdown' = FALSE /\ generation' = 0
    /\ done' = 0 /\ job' = 0 /\ n_rows' = 0
    /\ host' = "idle"
    /\ UNCHANGED <<threads, call, rows, ran>>

-----------------------------------------------------------------------------
\* The first critical section of the worker's loop.
Sleep(w) ==
    /\ pc[w] = "look"
    /\ seen[w] = generation /\ ~shutdown
    /\ pc' = [pc EXCEPT ![w] = "asleep"]
    /\ UNCHANGED <<pool, seen, mine, host, call, rows, ran>>

Quit(w) ==
    /\ pc[w] = "look"
    /\ shutdown
    /\ pc' = [pc EXCEPT ![w] = "gone"]
    /\ UNCHANGED <<pool, seen, mine, host, call, rows, ran>>

Take(w) ==
    /\ pc[w] = "look"
    /\ seen[w] # generation /\ ~shutdown
    /\ seen' = [seen EXCEPT ![w] = generation]
    /\ mine' = [mine EXCEPT ![w] = [call |-> job, rows |-> n_rows]]
    /\ pc' = [pc EXCEPT ![w] = "run"]
    /\ UNCHANGED <<pool, host, call, rows, ran>>

Run(w) ==
    /\ pc[w] = "run"
    /\ Kernel(mine[w].call, RowsOf(w, mine[w].rows))
    /\ pc' = [pc EXCEPT ![w] = "report"]
    /\ UNCHANGED <<pool, seen, mine, host, call, rows>>

Report_signals_late(w) ==
    /\ pc[w] = "report"
    /\ done' = done + 1
    /\ host' = IF done = n_workers /\ host = "asleep" THEN "await" ELSE host
    /\ pc' = [pc EXCEPT ![w] = "look"]
    /\ UNCHANGED <<initialized, shutdown, generation, job, n_rows, seen, mine, call, rows, ran>>

\* The second critical section: the last worker wakes the caller.
Report(w) ==
    /\ pc[w] = "report"
    /\ done' = done + 1
    /\ host' = IF done + 1 = n_workers /\ host = "asleep" THEN "await" ELSE host
    /\ pc' = [pc EXCEPT ![w] = "look"]
    /\ UNCHANGED <<initialized, shutdown, generation, job, n_rows, seen, mine, call, rows, ran>>

ds4_worker_main(w) == Sleep(w) \/ Quit(w) \/ Take(w) \/ Run(w) \/ Report(w)

\* A wait that returns without a signal.
SpuriousWakeup ==
    \/ \E w \in Workers :
          /\ pc[w] = "asleep"
          /\ pc' = [pc EXCEPT ![w] = "look"]
          /\ UNCHANGED <<pool, seen, mine, host, call, rows, ran>>
    \/ /\ host = "asleep"
       /\ host' = "await"
       /\ UNCHANGED <<pool, threads, call, rows, ran>>

ds4_parallel_for_min_rows ==
    \/ \E n \in 0..MaxRows, min \in MinRows : CallSerial(n, min) \/ Publish(n, min)
    \/ RunSerial \/ ReturnSerial \/ RunMain \/ AwaitDone

Next ==
    \/ ds4_threads_init
    \/ ds4_parallel_for_min_rows
    \/ Stop \/ Join
    \/ \E w \in Workers : ds4_worker_main(w)
    \/ SpuriousWakeup

\* The scheduler runs every thread that can run; nothing obliges the program
\* to make another call, and a spurious wakeup is never owed.
Fairness ==
    /\ WF_vars(RunSerial \/ ReturnSerial \/ RunMain \/ AwaitDone)
    /\ WF_vars(Join)
    /\ \A w \in Workers : WF_vars(ds4_worker_main(w))

Spec == Init /\ [][Next]_vars
FairSpec == Spec /\ Fairness

-----------------------------------------------------------------------------
TypeOK ==
    /\ initialized \in BOOLEAN /\ shutdown \in BOOLEAN
    /\ generation \in 0..(Generations - 1)
    /\ done \in 0..n_workers
    /\ job \in 0..MaxCalls /\ n_rows \in 0..MaxRows
    /\ pc \in [Workers -> {"none", "look", "asleep", "run", "report", "gone"}]
    /\ seen \in [Workers -> 0..(Generations - 1)]
    /\ mine \in [Workers -> [call : 0..MaxCalls, rows : 0..MaxRows]]
    /\ host \in {"idle", "serial", "served", "main", "await", "asleep", "join"}
    /\ call \in 0..MaxCalls /\ rows \in 0..MaxRows
    /\ ran \in [Calls -> [Rows -> Nat]]

\* A worker is inside the kernel only while the call it took the job from is
\* in progress: fn and ctx live on the caller's stack, and a worker that is
\* a generation late would read them after the return.
KernelsOutliveNoCall ==
    \A w \in Workers : pc[w] \in {"run", "report"} =>
        /\ host \in {"main", "await", "asleep"}
        /\ mine[w] = [call |-> call, rows |-> rows]

\* A worker may miss no generation: it is at most one behind, so that the
\* counter may wrap around at any size without two generations being taken
\* for one.
NobodyLags ==
    initialized => \A w \in Workers :
        \/ seen[w] = generation
        \/ /\ (seen[w] + 1) % Generations = generation
           /\ host \in {"main", "await", "asleep", "join"}

\* The pool does what a caller is promised: each row exactly once, all of
\* them before the return.
Promise == INSTANCE ParallelFor WITH open <- InCall
ImplementsParallelFor == Promise!Spec

\* Every call returns.
EveryCallReturns == InCall ~> ~InCall

\* ds4_threads_shutdown ends: every worker hears it.
ShutdownEnds == (host = "join") ~> (host = "idle")
=============================================================================

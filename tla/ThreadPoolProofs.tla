-------------------------- MODULE ThreadPoolProofs --------------------------
(***************************************************************************)
(* The worker pool keeps its promise for every number of threads, every    *)
(* job size and every width of the generation counter: a proof that        *)
(* ThreadPool implements ParallelFor.                                      *)
(***************************************************************************)
EXTENDS ThreadPool, FiniteSetTheorems, TLAPS

Threads == 0..(NThreads - 1)

\* The caller is between publishing a job and returning from it.
InPool == host \in {"main", "await", "asleep"}

\* Worker w has counted itself for the current generation.
Finished(w) == seen[w] = generation /\ pc[w] \in {"look", "asleep"}

\* Thread t has run its share of the current job.
Executed(t) ==
    IF t = 0 THEN host \in {"await", "asleep"}
             ELSE seen[t] = generation /\ pc[t] \in {"report", "look", "asleep"}

\* The flags of the pool agree with where the caller is.
Phases ==
    /\ shutdown <=> host = "join"
    /\ ~initialized => host = "idle"
    /\ InCall => call \in Calls
    /\ InPool => job = call /\ n_rows = rows

\* Where the workers are, seen from where the caller is.
Stations == \A w \in Workers :
    /\ ~initialized => pc[w] \in {"none", "gone"}
    /\ initialized =>
          /\ pc[w] # "none"
          /\ pc[w] = "gone" => host = "join"
          /\ pc[w] \in {"run", "report"} => seen[w] = generation
          /\ host \in {"idle", "serial", "served"} => Finished(w)

\* done counts the workers that have finished: without it the caller's test
\* of done says nothing about the workers.
DoneCounts == InPool => done = Cardinality({w \in Workers : Finished(w)})

\* The rows of a thread have been run once if the thread has run and not at
\* all before; nothing has been run for calls still to come.
Ledger ==
    /\ InPool => \A t \in Threads : \A r \in RowsOf(t, rows) :
                    ran[call][r] = IF Executed(t) THEN 1 ELSE 0
    /\ host = "serial" => \A r \in Rows : ran[call][r] = 0
    /\ host = "served" => \A r \in 0..(rows - 1) : ran[call][r] = 1
    /\ \A c \in Calls : c > call => \A r \in Rows : ran[c][r] = 0

IInv ==
    /\ TypeOK /\ KernelsOutliveNoCall /\ NobodyLags
    /\ Phases /\ Stations /\ DoneCounts /\ Ledger

-----------------------------------------------------------------------------
\* What \div means.
LEMMA Quotient ==
  ASSUME NEW a \in Nat, NEW b \in Nat, b > 0
  PROVE  /\ a \div b \in Nat
         /\ (a \div b) * b <= a
         /\ a < (a \div b) * b + b
BY SMTT(30)

\* ceil(n / NThreads) shares of that size cover n rows.
LEMMA SharesSuffice ==
  ASSUME NEW n \in Nat
  PROVE  /\ rows_per_thread(n) \in Nat
         /\ n <= NThreads * rows_per_thread(n)
<1> DEFINE q == (n + NThreads - 1) \div NThreads
<1>1. NThreads \in Nat /\ NThreads > 0
  BY PoolAssumption
<1>2. q \in Nat /\ NThreads * q <= n + NThreads - 1 /\ n + NThreads - 1 < NThreads * q + NThreads
  BY <1>1, SMTT(30)
<1>3. QED
  BY <1>1, <1>2, SMTT(30) DEF rows_per_thread

\* Two threads never share a row.
LEMMA SharesDisjoint ==
  ASSUME NEW n \in Nat, NEW s \in Threads, NEW t \in Threads, s # t
  PROVE  RowsOf(s, n) \cap RowsOf(t, n) = {}
<1> DEFINE q == rows_per_thread(n)
<1>1. q \in Nat
  BY SharesSuffice
<1>2. s \in Nat /\ t \in Nat
  BY PoolAssumption DEF Threads
<1>3. ASSUME NEW a \in Nat, NEW b \in Nat, a < b PROVE a * q + q <= b * q
  <2>1. a + 1 <= b
    BY <1>3
  <2>2. (a + 1) * q <= b * q
    BY <1>1, <2>1, SMTT(30)
  <2>3. QED
    BY <1>1, <2>2, SMTT(30)
<1>4. CASE s < t
  BY <1>1, <1>2, <1>3, <1>4 DEF RowsOf
<1>5. CASE t < s
  BY <1>1, <1>2, <1>3, <1>5 DEF RowsOf
<1>6. QED
  BY <1>2, <1>4, <1>5

\* Every row is some thread's.
LEMMA SharesCover ==
  ASSUME NEW n \in Nat, NEW r \in 0..(n - 1)
  PROVE  \E t \in Threads : r \in RowsOf(t, n)
<1> DEFINE q == rows_per_thread(n)
<1>1. NThreads \in Nat /\ NThreads > 0 /\ q \in Nat /\ n <= NThreads * q
  BY PoolAssumption, SharesSuffice
<1>2. r \in Nat /\ r < n
  OBVIOUS
<1>3. q > 0
  BY <1>1, <1>2, SMTT(30)
<1> DEFINE t == r \div q
<1>4. t \in Nat /\ t * q <= r /\ r < t * q + q
  BY <1>1, <1>2, <1>3, Quotient
<1>5. t < NThreads
  <2>1. SUFFICES ASSUME t >= NThreads PROVE FALSE
    BY <1>1, <1>4
  <2>2. t * q >= NThreads * q
    BY <2>1, <1>1, <1>4, SMTT(30)
  <2>3. QED
    BY <2>2, <1>1, <1>2, <1>4
<1>6. QED
  BY <1>1, <1>2, <1>4, <1>5 DEF Threads, RowsOf

-----------------------------------------------------------------------------
\* The next generation is another one, whatever the width of the counter.
LEMMA NextGeneration ==
  ASSUME NEW g \in 0..(Generations - 1)
  PROVE  /\ (g + 1) % Generations \in 0..(Generations - 1)
         /\ (g + 1) % Generations # g
<1>1. CASE g + 1 < Generations
  BY <1>1, PoolAssumption
<1>2. CASE g + 1 = Generations
  BY <1>2, PoolAssumption
<1>3. QED
  BY <1>1, <1>2, PoolAssumption

\* Zero is a value of every counter.
LEMMA Zero == 0 \in 0..(Generations - 1) /\ 0 \in 0..n_workers /\ 0 \in 0..MaxCalls /\ 0 \in 0..MaxRows
BY PoolAssumption DEF n_workers

\* Counting workers.
LEMMA CountingWorkers ==
  /\ IsFiniteSet(Workers)
  /\ Cardinality(Workers) = n_workers
  /\ \A S \in SUBSET Workers :
        /\ IsFiniteSet(S)
        /\ Cardinality(S) \in 0..n_workers
        /\ Cardinality(S) >= n_workers => S = Workers
<1>1. IsFiniteSet(Workers) /\ Cardinality(Workers) = n_workers
  BY PoolAssumption, FS_Interval DEF Workers, n_workers
<1>2. ASSUME NEW S \in SUBSET Workers
      PROVE  /\ IsFiniteSet(S)
             /\ Cardinality(S) \in 0..n_workers
             /\ Cardinality(S) >= n_workers => S = Workers
  <2>1. /\ IsFiniteSet(S) /\ Cardinality(S) <= Cardinality(Workers)
        /\ Cardinality(S) = Cardinality(Workers) => S = Workers
    BY <1>1, FS_Subset
  <2>2. Cardinality(S) \in Nat
    BY <2>1, FS_CardinalityType
  <2>3. n_workers \in Nat
    BY PoolAssumption DEF n_workers
  <2>4. QED
    BY <1>1, <2>1, <2>2, <2>3
<1>3. QED
  BY <1>1, <1>2

\* What the kernel leaves in the ledger.
LEMMA KernelEffect ==
  ASSUME TypeOK, NEW c \in Calls, NEW R, Kernel(c, R)
  PROVE  /\ ran' \in [Calls -> [Rows -> Nat]]
         /\ \A r \in Rows : ran'[c][r] = IF r \in R THEN ran[c][r] + 1 ELSE ran[c][r]
         /\ \A d \in Calls : d # c => ran'[d] = ran[d]
<1>1. ran \in [Calls -> [Rows -> Nat]]
  BY DEF TypeOK
<1> DEFINE row == [r \in Rows |-> IF r \in R THEN ran[c][r] + 1 ELSE ran[c][r]]
<1>2. row \in [Rows -> Nat]
  BY <1>1
<1>3. ran' = [ran EXCEPT ![c] = row]
  BY DEF Kernel
<1> HIDE DEF row
<1>4. ran' \in [Calls -> [Rows -> Nat]] /\ ran'[c] = row /\ \A d \in Calls : d # c => ran'[d] = ran[d]
  BY <1>1, <1>2, <1>3
<1>5. QED
  BY <1>4 DEF row

\* A thread's share lies within the job, and the job within the row indexes.
LEMMA ShareRows ==
  ASSUME NEW t, NEW n \in 0..MaxRows
  PROVE  RowsOf(t, n) \subseteq 0..(n - 1) /\ 0..(n - 1) \subseteq Rows
BY PoolAssumption DEF RowsOf, Rows

\* Workers are threads other than the caller.
LEMMA WorkerThreads ==
  /\ \A w \in Workers : w \in Threads /\ w # 0
  /\ \A t \in Threads : t = 0 \/ t \in Workers
  /\ 0 \in Threads
BY PoolAssumption DEF Workers, Threads

-----------------------------------------------------------------------------
LEMMA Initially == Init => IInv
<1> SUFFICES ASSUME Init PROVE IInv
  OBVIOUS
<1> USE PoolAssumption DEF Init
<1>1. TypeOK
  BY Zero DEF TypeOK
<1>2. KernelsOutliveNoCall /\ NobodyLags /\ Phases /\ Stations /\ DoneCounts
  BY DEF KernelsOutliveNoCall, NobodyLags, Phases, InCall, InPool, Stations, DoneCounts
<1>3. Ledger
  BY DEF Ledger, InPool
<1>4. QED
  BY <1>1, <1>2, <1>3 DEF IInv

LEMMA Inductive == IInv /\ [Next]_vars => IInv'
<1> SUFFICES ASSUME IInv, [Next]_vars PROVE IInv'
  OBVIOUS
<1> USE PoolAssumption DEF IInv
<1>1. ASSUME ds4_threads_init PROVE IInv'
  <2>1. TypeOK'
    BY <1>1, Zero DEF ds4_threads_init, TypeOK
  <2>2. KernelsOutliveNoCall'
    BY <1>1 DEF ds4_threads_init, pool, threads, TypeOK, KernelsOutliveNoCall
  <2>3. NobodyLags'
    BY <1>1 DEF ds4_threads_init, pool, threads, TypeOK, NobodyLags, Stations, Finished
  <2>4. Phases'
    BY <1>1 DEF ds4_threads_init, pool, threads, TypeOK, Phases, InCall, InPool
  <2>5. Stations'
    BY <1>1 DEF ds4_threads_init, pool, threads, TypeOK, Stations, Finished, Phases, InPool
  <2>6. DoneCounts'
    BY <1>1 DEF ds4_threads_init, pool, threads, TypeOK, DoneCounts, InPool, Finished
  <2>7. Ledger'
    BY <1>1 DEF ds4_threads_init, pool, threads, TypeOK, Ledger, InPool, Executed
  <2>8. QED
    BY <2>1, <2>2, <2>3, <2>4, <2>5, <2>6, <2>7
<1>2. ASSUME NEW n \in 0..MaxRows, NEW min \in MinRows, CallSerial(n, min) PROVE IInv'
  <2>1. TypeOK'
    BY <1>2 DEF CallSerial, pool, threads, TypeOK, Calls
  <2>2. KernelsOutliveNoCall'
    BY <1>2 DEF CallSerial, pool, threads, TypeOK, KernelsOutliveNoCall
  <2>3. NobodyLags'
    BY <1>2 DEF CallSerial, pool, threads, TypeOK, NobodyLags, Stations, Finished
  <2>4. Phases'
    BY <1>2 DEF CallSerial, pool, threads, TypeOK, Phases, InCall, InPool
  <2>5. Stations'
    BY <1>2 DEF CallSerial, pool, threads, TypeOK, Stations, Finished, Phases, InPool
  <2>6. DoneCounts'
    BY <1>2 DEF CallSerial, pool, threads, TypeOK, DoneCounts, InPool, Finished
  <2>7. Ledger'
    BY <1>2, ShareRows DEF CallSerial, pool, threads, TypeOK, Ledger, InPool, Calls, Rows
  <2>8. QED
    BY <2>1, <2>2, <2>3, <2>4, <2>5, <2>6, <2>7
<1>3. ASSUME NEW n \in 0..MaxRows, NEW min \in MinRows, Publish(n, min) PROVE IInv'
  <2>1. TypeOK'
    <3>1. generation' \in 0..(Generations - 1)
      BY <1>3, NextGeneration DEF Publish, TypeOK
    <3>2. call + 1 \in 0..MaxCalls
      BY <1>3 DEF Publish, Calls
    <3>3. QED
      BY <3>1, <3>2, <1>3, Zero DEF Publish, Broadcast, TypeOK
  <2>2. KernelsOutliveNoCall'
    BY <1>3 DEF Publish, pool, threads, Broadcast, TypeOK, KernelsOutliveNoCall
  <2>3. NobodyLags'
    BY <1>3 DEF Publish, pool, threads, Broadcast, TypeOK, NobodyLags, Stations, Finished
  <2>4. Phases'
    BY <1>3 DEF Publish, pool, threads, Broadcast, TypeOK, Phases, InCall, InPool
  <2>5. Stations'
    BY <1>3 DEF Publish, pool, threads, Broadcast, TypeOK, Stations, Finished, Phases, InPool
  <2>6. DoneCounts'
    <3>1. {v \in Workers : Finished(v)}' = {}
      BY <1>3, NextGeneration DEF Publish, Broadcast, TypeOK, Stations, Finished
    <3>2. QED
      BY <3>1, <1>3, FS_EmptySet DEF Publish, DoneCounts
  <2>7. Ledger'
    <3>1. ASSUME NEW t \in Threads PROVE ~Executed(t)'
      BY <3>1, <1>3, NextGeneration, WorkerThreads DEF Publish, Broadcast, TypeOK, Stations, Finished, Executed
    <3>2. \A r \in Rows : ran[call'][r] = 0
      BY <1>3 DEF Publish, Ledger, TypeOK, Calls
    <3>3. ASSUME NEW t \in Threads, NEW r \in RowsOf(t, n) PROVE ran'[call'][r] = 0
      BY <3>2, <3>3, ShareRows, <1>3 DEF Publish
    <3>4. \A c \in Calls : c > call' => \A r \in Rows : ran'[c][r] = 0
      BY <1>3 DEF Publish, Ledger, TypeOK, Calls
    <3>5. QED
      BY <3>1, <3>3, <3>4, <1>3 DEF Publish, Ledger
  <2>8. QED
    BY <2>1, <2>2, <2>3, <2>4, <2>5, <2>6, <2>7
<1>4. ASSUME RunSerial PROVE IInv'
  <2>1. TypeOK'
    <3>1. call \in Calls
      BY <1>4 DEF RunSerial, Phases, InCall
    <3>2. QED
      BY <3>1, <1>4, KernelEffect DEF RunSerial, pool, threads, TypeOK
  <2>2. KernelsOutliveNoCall'
    BY <1>4 DEF RunSerial, pool, threads, TypeOK, KernelsOutliveNoCall
  <2>3. NobodyLags'
    BY <1>4 DEF RunSerial, pool, threads, TypeOK, NobodyLags, Stations, Finished
  <2>4. Phases'
    BY <1>4 DEF RunSerial, pool, threads, TypeOK, Phases, InCall, InPool
  <2>5. Stations'
    BY <1>4 DEF RunSerial, pool, threads, TypeOK, Stations, Finished, Phases, InPool
  <2>6. DoneCounts'
    BY <1>4 DEF RunSerial, pool, threads, TypeOK, DoneCounts, InPool, Finished
  <2>7. Ledger'
    <3> DEFINE R == 0..(rows - 1)
    <3>1. call \in Calls /\ Kernel(call, R) /\ host = "serial"
      BY <1>4 DEF RunSerial, Phases, InCall
    <3>2. R \subseteq Rows
      BY ShareRows DEF TypeOK
    <3> HIDE DEF R
    <3>3. \A r \in Rows : ran'[call][r] = IF r \in R THEN ran[call][r] + 1 ELSE ran[call][r]
      BY <3>1, KernelEffect
    <3>4. \A d \in Calls : d # call => ran'[d] = ran[d]
      BY <3>1, KernelEffect
    <3>5. \A r \in R : ran'[call][r] = 1
      BY <3>1, <3>2, <3>3 DEF Ledger
    <3>6. \A c \in Calls : c > call => \A r \in Rows : ran'[c][r] = 0
      BY <3>1, <3>4 DEF Ledger, TypeOK, Calls
    <3>7. QED
      BY <3>5, <3>6, <1>4 DEF RunSerial, Ledger, InPool, R
  <2>8. QED
    BY <2>1, <2>2, <2>3, <2>4, <2>5, <2>6, <2>7
<1>5. ASSUME ReturnSerial PROVE IInv'
  <2>1. TypeOK'
    BY <1>5 DEF ReturnSerial, pool, threads, TypeOK
  <2>2. KernelsOutliveNoCall'
    BY <1>5 DEF ReturnSerial, pool, threads, TypeOK, KernelsOutliveNoCall
  <2>3. NobodyLags'
    BY <1>5 DEF ReturnSerial, pool, threads, TypeOK, NobodyLags, Stations, Finished
  <2>4. Phases'
    BY <1>5 DEF ReturnSerial, pool, threads, TypeOK, Phases, InCall, InPool
  <2>5. Stations'
    BY <1>5 DEF ReturnSerial, pool, threads, TypeOK, Stations, Finished, Phases, InPool
  <2>6. DoneCounts'
    BY <1>5 DEF ReturnSerial, pool, threads, TypeOK, DoneCounts, InPool, Finished
  <2>7. Ledger'
    BY <1>5 DEF ReturnSerial, pool, threads, TypeOK, Ledger, InPool, Executed
  <2>8. QED
    BY <2>1, <2>2, <2>3, <2>4, <2>5, <2>6, <2>7
<1>6. ASSUME RunMain PROVE IInv'
  <2>1. TypeOK'
    <3>1. call \in Calls
      BY <1>6 DEF RunMain, Phases, InCall
    <3>2. QED
      BY <3>1, <1>6, KernelEffect DEF RunMain, pool, threads, TypeOK
  <2>2. KernelsOutliveNoCall'
    BY <1>6 DEF RunMain, pool, threads, TypeOK, KernelsOutliveNoCall
  <2>3. NobodyLags'
    BY <1>6 DEF RunMain, pool, threads, TypeOK, NobodyLags, Stations, Finished
  <2>4. Phases'
    BY <1>6 DEF RunMain, pool, threads, TypeOK, Phases, InCall, InPool
  <2>5. Stations'
    BY <1>6 DEF RunMain, pool, threads, TypeOK, Stations, Finished, Phases, InPool
  <2>6. DoneCounts'
    BY <1>6 DEF RunMain, pool, threads, TypeOK, DoneCounts, InPool, Finished
  <2>7. Ledger'
    <3>1. call \in Calls /\ rows \in 0..MaxRows /\ rows \in Nat /\ InPool
      BY <1>6 DEF RunMain, Phases, InCall, InPool, TypeOK, KernelsOutliveNoCall
    <3>2. 0 \in Threads /\ ~Executed(0) /\ Executed(0)'
      BY <1>6, WorkerThreads DEF RunMain, Executed, TypeOK, Stations, Phases, InPool, pool, KernelsOutliveNoCall
    <3>3. \A t \in Threads : t # 0 => (Executed(t)' <=> Executed(t))
      BY <1>6, WorkerThreads DEF RunMain, Executed, pool, threads, TypeOK
    <3>4. Kernel(call, RowsOf(0, rows))
      BY <1>6 DEF RunMain, KernelsOutliveNoCall
    <3>5. /\ \A r \in Rows : ran'[call][r] = IF r \in RowsOf(0, rows) THEN ran[call][r] + 1 ELSE ran[call][r]
          /\ \A d \in Calls : d # call => ran'[d] = ran[d]
      BY <3>1, <3>4, KernelEffect
    <3>6. ASSUME NEW t \in Threads, NEW r \in RowsOf(t, rows)
          PROVE  ran'[call][r] = IF Executed(t)' THEN 1 ELSE 0
      <4>1. r \in Rows /\ ran[call][r] = IF Executed(t) THEN 1 ELSE 0
        BY <3>1, <3>6, ShareRows DEF Ledger
      <4>2. CASE t = 0
        BY <4>1, <4>2, <3>2, <3>5, <3>6
      <4>3. CASE t # 0
        <5>1. r \notin RowsOf(0, rows)
          BY <4>3, <3>1, <3>2, <3>6, SharesDisjoint
        <5>2. QED
          BY <5>1, <4>1, <4>3, <3>3, <3>5
      <4>4. QED
        BY <4>2, <4>3
    <3>7. \A d \in Calls : d > call => \A r \in Rows : ran'[d][r] = 0
      BY <3>1, <3>5 DEF Ledger, TypeOK, Calls
    <3>8. QED
      BY <3>1, <3>6, <3>7, <1>6 DEF RunMain, Ledger, InPool
  <2>8. QED
    BY <2>1, <2>2, <2>3, <2>4, <2>5, <2>6, <2>7
<1>7. ASSUME AwaitDone PROVE IInv'
  <2>1. TypeOK'
    BY <1>7 DEF AwaitDone, pool, threads, TypeOK
  <2>2. KernelsOutliveNoCall'
    <3>1. CASE done < n_workers
      BY <3>1, <1>7 DEF AwaitDone, pool, threads, KernelsOutliveNoCall
    <3>2. CASE ~(done < n_workers)
      <4>1. {v \in Workers : Finished(v)} = Workers
        BY <3>2, <1>7, CountingWorkers DEF AwaitDone, DoneCounts, InPool, TypeOK, n_workers
      <4>2. \A v \in Workers : Finished(v)
        BY <4>1
      <4>3. QED
        BY <4>2, <3>2, <1>7 DEF AwaitDone, Finished, pool, threads, KernelsOutliveNoCall
    <3>3. QED
      BY <3>1, <3>2
  <2>3. NobodyLags'
    <3>1. CASE done < n_workers
      BY <3>1, <1>7 DEF AwaitDone, pool, threads, NobodyLags
    <3>2. CASE ~(done < n_workers)
      <4>1. {v \in Workers : Finished(v)} = Workers
        BY <3>2, <1>7, CountingWorkers DEF AwaitDone, DoneCounts, InPool, TypeOK, n_workers
      <4>2. \A v \in Workers : Finished(v)
        BY <4>1
      <4>3. QED
        BY <4>2, <3>2, <1>7 DEF AwaitDone, Finished, pool, threads, NobodyLags
    <3>3. QED
      BY <3>1, <3>2
  <2>4. Phases'
    BY <1>7 DEF AwaitDone, pool, threads, TypeOK, Phases, InCall, InPool
  <2>5. Stations'
    <3>1. CASE done < n_workers
      BY <3>1, <1>7 DEF AwaitDone, pool, threads, Stations, Finished
    <3>2. CASE ~(done < n_workers)
      <4>1. {v \in Workers : Finished(v)} = Workers
        BY <3>2, <1>7, CountingWorkers DEF AwaitDone, DoneCounts, InPool, TypeOK, n_workers
      <4>2. \A v \in Workers : Finished(v)
        BY <4>1
      <4>3. QED
        BY <4>2, <3>2, <1>7 DEF AwaitDone, Finished, pool, threads, Stations, Phases
    <3>3. QED
      BY <3>1, <3>2
  <2>6. DoneCounts'
    BY <1>7 DEF AwaitDone, pool, threads, TypeOK, DoneCounts, InPool, Finished
  <2>7. Ledger'
    BY <1>7 DEF AwaitDone, pool, threads, TypeOK, Ledger, InPool, Executed
  <2>8. QED
    BY <2>1, <2>2, <2>3, <2>4, <2>5, <2>6, <2>7
<1>8. ASSUME Stop PROVE IInv'
  <2>1. TypeOK'
    BY <1>8, NextGeneration DEF Stop, Broadcast, TypeOK
  <2>2. KernelsOutliveNoCall'
    BY <1>8 DEF Stop, pool, threads, Broadcast, TypeOK, KernelsOutliveNoCall
  <2>3. NobodyLags'
    BY <1>8 DEF Stop, pool, threads, Broadcast, TypeOK, NobodyLags, Stations, Finished
  <2>4. Phases'
    BY <1>8 DEF Stop, pool, threads, Broadcast, TypeOK, Phases, InCall, InPool
  <2>5. Stations'
    BY <1>8 DEF Stop, pool, threads, Broadcast, TypeOK, Stations, Finished, Phases, InPool
  <2>6. DoneCounts'
    BY <1>8 DEF Stop, pool, threads, Broadcast, TypeOK, DoneCounts, InPool, Finished
  <2>7. Ledger'
    BY <1>8 DEF Stop, pool, threads, Broadcast, TypeOK, Ledger, InPool, Executed
  <2>8. QED
    BY <2>1, <2>2, <2>3, <2>4, <2>5, <2>6, <2>7
<1>9. ASSUME Join PROVE IInv'
  <2>1. TypeOK'
    BY <1>9, Zero DEF Join, threads, TypeOK
  <2>2. KernelsOutliveNoCall'
    BY <1>9 DEF Join, pool, threads, TypeOK, KernelsOutliveNoCall
  <2>3. NobodyLags'
    BY <1>9 DEF Join, pool, threads, TypeOK, NobodyLags, Stations, Finished
  <2>4. Phases'
    BY <1>9 DEF Join, pool, threads, TypeOK, Phases, InCall, InPool
  <2>5. Stations'
    BY <1>9 DEF Join, pool, threads, TypeOK, Stations, Finished, Phases, InPool
  <2>6. DoneCounts'
    BY <1>9 DEF Join, pool, threads, TypeOK, DoneCounts, InPool, Finished
  <2>7. Ledger'
    BY <1>9 DEF Join, pool, threads, TypeOK, Ledger, InPool, Executed
  <2>8. QED
    BY <2>1, <2>2, <2>3, <2>4, <2>5, <2>6, <2>7
<1>10. ASSUME NEW w \in Workers, Sleep(w) PROVE IInv'
  <2>1. TypeOK'
    BY <1>10 DEF Sleep, pool, threads, TypeOK
  <2>2. KernelsOutliveNoCall'
    BY <1>10 DEF Sleep, pool, threads, TypeOK, KernelsOutliveNoCall
  <2>3. NobodyLags'
    BY <1>10 DEF Sleep, pool, threads, TypeOK, NobodyLags, Stations, Finished
  <2>4. Phases'
    BY <1>10 DEF Sleep, pool, threads, TypeOK, Phases, InCall, InPool
  <2>5. Stations'
    BY <1>10 DEF Sleep, pool, threads, TypeOK, Stations, Finished, Phases, InPool
  <2>6. DoneCounts'
    BY <1>10 DEF Sleep, pool, threads, TypeOK, DoneCounts, InPool, Finished
  <2>7. Ledger'
    BY <1>10 DEF Sleep, pool, threads, TypeOK, Ledger, InPool, Executed
  <2>8. QED
    BY <2>1, <2>2, <2>3, <2>4, <2>5, <2>6, <2>7
<1>11. ASSUME NEW w \in Workers, Quit(w) PROVE IInv'
  <2>1. TypeOK'
    BY <1>11 DEF Quit, pool, threads, TypeOK
  <2>2. KernelsOutliveNoCall'
    BY <1>11 DEF Quit, pool, threads, TypeOK, KernelsOutliveNoCall
  <2>3. NobodyLags'
    BY <1>11 DEF Quit, pool, threads, TypeOK, NobodyLags, Stations, Finished
  <2>4. Phases'
    BY <1>11 DEF Quit, pool, threads, TypeOK, Phases, InCall, InPool
  <2>5. Stations'
    BY <1>11 DEF Quit, pool, threads, TypeOK, Stations, Finished, Phases, InPool
  <2>6. DoneCounts'
    BY <1>11 DEF Quit, Phases, DoneCounts, InPool
  <2>7. Ledger'
    BY <1>11 DEF Quit, Phases, Ledger, InPool
  <2>8. QED
    BY <2>1, <2>2, <2>3, <2>4, <2>5, <2>6, <2>7
<1>12. ASSUME NEW w \in Workers, Take(w) PROVE IInv'
  <2>1. TypeOK'
    BY <1>12 DEF Take, pool, threads, TypeOK
  <2>2. KernelsOutliveNoCall'
    BY <1>12 DEF Take, pool, TypeOK, KernelsOutliveNoCall, NobodyLags, Stations, Phases, InPool
  <2>3. NobodyLags'
    BY <1>12 DEF Take, pool, threads, TypeOK, NobodyLags, Stations, Finished
  <2>4. Phases'
    BY <1>12 DEF Take, pool, threads, TypeOK, Phases, InCall, InPool
  <2>5. Stations'
    BY <1>12 DEF Take, pool, threads, TypeOK, Stations, Finished, Phases, InPool
  <2>6. DoneCounts'
    BY <1>12 DEF Take, pool, threads, TypeOK, DoneCounts, InPool, Finished
  <2>7. Ledger'
    <3>1. \A t \in Threads : Executed(t)' <=> Executed(t)
      BY <1>12, WorkerThreads DEF Take, pool, TypeOK, Stations, Phases, Executed
    <3>2. QED
      BY <3>1, <1>12 DEF Take, pool, Ledger, InPool
  <2>8. QED
    BY <2>1, <2>2, <2>3, <2>4, <2>5, <2>6, <2>7
<1>13. ASSUME NEW w \in Workers, Run(w) PROVE IInv'
  <2>1. TypeOK'
    <3>1. mine[w].call \in Calls
      BY <1>13 DEF Run, KernelsOutliveNoCall, Phases, InCall
    <3>2. QED
      BY <3>1, <1>13, KernelEffect DEF Run, pool, TypeOK
  <2>2. KernelsOutliveNoCall'
    BY <1>13 DEF Run, pool, threads, TypeOK, KernelsOutliveNoCall
  <2>3. NobodyLags'
    BY <1>13 DEF Run, pool, threads, TypeOK, NobodyLags, Stations, Finished
  <2>4. Phases'
    BY <1>13 DEF Run, pool, threads, TypeOK, Phases, InCall, InPool
  <2>5. Stations'
    BY <1>13 DEF Run, pool, threads, TypeOK, Stations, Finished, Phases, InPool
  <2>6. DoneCounts'
    BY <1>13 DEF Run, pool, threads, TypeOK, DoneCounts, InPool, Finished
  <2>7. Ledger'
    <3>1. call \in Calls /\ rows \in 0..MaxRows /\ rows \in Nat /\ InPool
      BY <1>13 DEF Run, Phases, InCall, InPool, TypeOK, KernelsOutliveNoCall
    <3>2. w \in Threads /\ ~Executed(w) /\ Executed(w)'
      BY <1>13, WorkerThreads DEF Run, Executed, TypeOK, Stations, Phases, InPool, pool, KernelsOutliveNoCall
    <3>3. \A t \in Threads : t # w => (Executed(t)' <=> Executed(t))
      BY <1>13, WorkerThreads DEF Run, Executed, pool, threads, TypeOK
    <3>4. Kernel(call, RowsOf(w, rows))
      BY <1>13 DEF Run, KernelsOutliveNoCall
    <3>5. /\ \A r \in Rows : ran'[call][r] = IF r \in RowsOf(w, rows) THEN ran[call][r] + 1 ELSE ran[call][r]
          /\ \A d \in Calls : d # call => ran'[d] = ran[d]
      BY <3>1, <3>4, KernelEffect
    <3>6. ASSUME NEW t \in Threads, NEW r \in RowsOf(t, rows)
          PROVE  ran'[call][r] = IF Executed(t)' THEN 1 ELSE 0
      <4>1. r \in Rows /\ ran[call][r] = IF Executed(t) THEN 1 ELSE 0
        BY <3>1, <3>6, ShareRows DEF Ledger
      <4>2. CASE t = w
        BY <4>1, <4>2, <3>2, <3>5, <3>6
      <4>3. CASE t # w
        <5>1. r \notin RowsOf(w, rows)
          BY <4>3, <3>1, <3>2, <3>6, SharesDisjoint
        <5>2. QED
          BY <5>1, <4>1, <4>3, <3>3, <3>5
      <4>4. QED
        BY <4>2, <4>3
    <3>7. \A d \in Calls : d > call => \A r \in Rows : ran'[d][r] = 0
      BY <3>1, <3>5 DEF Ledger, TypeOK, Calls
    <3>8. QED
      BY <3>1, <3>6, <3>7, <1>13 DEF Run, Ledger, InPool
  <2>8. QED
    BY <2>1, <2>2, <2>3, <2>4, <2>5, <2>6, <2>7
<1>14. ASSUME NEW w \in Workers, Report(w) PROVE IInv'
  <2>1. TypeOK'
    <3>1. done + 1 \in 0..n_workers
      <4>1. {v \in Workers : Finished(v)} # Workers
        BY <1>14 DEF Report, Finished
      <4>2. done # n_workers
        BY <1>14, <4>1, CountingWorkers DEF Report, KernelsOutliveNoCall, DoneCounts, InPool
      <4>3. QED
        BY <4>2 DEF TypeOK, n_workers
    <3>2. QED
      BY <3>1, <1>14 DEF Report, TypeOK
  <2>2. KernelsOutliveNoCall'
    BY <1>14 DEF Report, pool, threads, TypeOK, KernelsOutliveNoCall
  <2>3. NobodyLags'
    BY <1>14 DEF Report, pool, threads, TypeOK, NobodyLags, Stations, Finished
  <2>4. Phases'
    BY <1>14 DEF Report, pool, threads, TypeOK, Phases, InCall, InPool
  <2>5. Stations'
    BY <1>14 DEF Report, pool, threads, TypeOK, Stations, Finished, Phases, InPool
  <2>6. DoneCounts'
    <3> DEFINE S == {v \in Workers : Finished(v)}
    <3>1. {v \in Workers : Finished(v)}' = S \cup {w}
      BY <1>14 DEF Report, TypeOK, Stations, Phases, KernelsOutliveNoCall, Finished
    <3>2. w \notin S /\ IsFiniteSet(S)
      BY <1>14, CountingWorkers DEF Report, Finished
    <3>3. Cardinality(S \cup {w}) = Cardinality(S) + 1
      BY <3>2, FS_AddElement
    <3>4. done = Cardinality(S)
      BY <1>14 DEF Report, KernelsOutliveNoCall, DoneCounts, InPool
    <3>5. QED
      BY <3>1, <3>3, <3>4, <1>14 DEF Report, DoneCounts
  <2>7. Ledger'
    <3>1. \A t \in Threads : Executed(t)' <=> Executed(t)
      BY <1>14, WorkerThreads DEF Report, TypeOK, Executed
    <3>2. InPool /\ InPool'
      BY <1>14 DEF Report, KernelsOutliveNoCall, InPool
    <3>3. QED
      BY <3>1, <3>2, <1>14 DEF Report, Ledger, InPool
  <2>8. QED
    BY <2>1, <2>2, <2>3, <2>4, <2>5, <2>6, <2>7
<1>15. ASSUME SpuriousWakeup PROVE IInv'
  <2>1. TypeOK'
    BY <1>15 DEF SpuriousWakeup, pool, threads, TypeOK
  <2>2. KernelsOutliveNoCall'
    BY <1>15 DEF SpuriousWakeup, pool, threads, TypeOK, KernelsOutliveNoCall
  <2>3. NobodyLags'
    BY <1>15 DEF SpuriousWakeup, pool, threads, TypeOK, NobodyLags, Stations, Finished
  <2>4. Phases'
    BY <1>15 DEF SpuriousWakeup, pool, threads, Phases, InCall, InPool
  <2>5. Stations'
    BY <1>15 DEF SpuriousWakeup, pool, threads, TypeOK, Stations, Finished, Phases, InPool
  <2>6. DoneCounts'
    <3>1. {v \in Workers : Finished(v)}' = {v \in Workers : Finished(v)}
      BY <1>15 DEF SpuriousWakeup, pool, threads, Finished, TypeOK
    <3>2. QED
      BY <3>1, <1>15 DEF SpuriousWakeup, pool, threads, DoneCounts, InPool
  <2>7. Ledger'
    <3>1. \A t \in Threads : Executed(t)' <=> Executed(t)
      BY <1>15, WorkerThreads DEF SpuriousWakeup, pool, threads, TypeOK, Executed
    <3>2. QED
      BY <3>1, <1>15 DEF SpuriousWakeup, pool, threads, Ledger, InPool
  <2>8. QED
    BY <2>1, <2>2, <2>3, <2>4, <2>5, <2>6, <2>7
<1>16. ASSUME UNCHANGED vars PROVE IInv'
  <2>1. TypeOK'
    BY <1>16 DEF vars, pool, threads, TypeOK
  <2>2. KernelsOutliveNoCall'
    BY <1>16 DEF vars, pool, threads, TypeOK, KernelsOutliveNoCall
  <2>3. NobodyLags'
    BY <1>16 DEF vars, pool, threads, TypeOK, NobodyLags, Stations, Finished
  <2>4. Phases'
    BY <1>16 DEF vars, pool, threads, TypeOK, Phases, InCall, InPool
  <2>5. Stations'
    BY <1>16 DEF vars, pool, threads, TypeOK, Stations, Finished, Phases, InPool
  <2>6. DoneCounts'
    BY <1>16 DEF vars, pool, threads, TypeOK, DoneCounts, InPool, Finished
  <2>7. Ledger'
    BY <1>16 DEF vars, pool, threads, TypeOK, Ledger, InPool, Executed
  <2>8. QED
    BY <2>1, <2>2, <2>3, <2>4, <2>5, <2>6, <2>7
<1>17. QED
  BY <1>1, <1>2, <1>3, <1>4, <1>5, <1>6, <1>7, <1>8, <1>9, <1>10, <1>11, <1>12, <1>13, <1>14, <1>15, <1>16 DEF Next, ds4_parallel_for_min_rows, ds4_worker_main

-----------------------------------------------------------------------------
\* The pool's state is well formed, no worker is inside the kernel of a call
\* that has returned, and no worker is more than one generation behind, for
\* every number of threads and every width of the counter (ds4.c:638-765).
THEOREM PoolInvariant == Spec => [](TypeOK /\ KernelsOutliveNoCall /\ NobodyLags)
<1>1. IInv => TypeOK /\ KernelsOutliveNoCall /\ NobodyLags
  BY DEF IInv
<1>2. QED
  BY Initially, Inductive, <1>1, PTL DEF Spec

-----------------------------------------------------------------------------
\* A step that runs the rows R of the current call, none of which has been
\* run, is a step of the promise.
LEMMA ExecuteStep ==
  ASSUME TypeOK, InCall, InCall', call \in Calls, NEW R,
         R \subseteq 0..(rows - 1), \A r \in R : ran[call][r] = 0,
         Kernel(call, R), UNCHANGED <<call, rows>>
  PROVE  Promise!Execute
<1>1. R \subseteq Rows
  BY ShareRows DEF TypeOK
<1>2. R \in SUBSET Promise!Pending
  BY <1>1 DEF Promise!Pending, Promise!Rows, Rows, TypeOK
<1>3. ran' = [ran EXCEPT ![call] = [r \in Rows |-> IF r \in R THEN 1 ELSE ran[call][r]]]
  <2>1. [r \in Rows |-> IF r \in R THEN ran[call][r] + 1 ELSE ran[call][r]]
          = [r \in Rows |-> IF r \in R THEN 1 ELSE ran[call][r]]
    OBVIOUS
  <2>2. ran' = [ran EXCEPT ![call] = [r \in Rows |-> IF r \in R THEN ran[call][r] + 1 ELSE ran[call][r]]]
    BY DEF Kernel
  <2>3. QED
    BY <2>1, <2>2
<1>4. QED
  BY <1>2, <1>3 DEF Promise!Execute, Promise!Rows, Rows

\* A caller that returns leaves no row behind.
LEMMA NothingPending ==
  ASSUME TypeOK, \A r \in 0..(rows - 1) : ran[call][r] = 1
  PROVE  Promise!Pending = {}
BY DEF Promise!Pending, Promise!Rows, TypeOK

\* Every step of the pool is a step of the promise or changes nothing of it.
LEMMA Simulation == IInv /\ IInv' /\ [Next]_vars => [Promise!Next]_(Promise!vars)
<1> SUFFICES ASSUME IInv, IInv', [Next]_vars PROVE [Promise!Next]_(Promise!vars)
  OBVIOUS
<1> USE PoolAssumption DEF IInv
<1>1. ASSUME NEW n \in 0..MaxRows, NEW min \in MinRows, CallSerial(n, min) \/ Publish(n, min) PROVE Promise!Begin
  BY <1>1 DEF CallSerial, Publish, InCall, Promise!Begin, Promise!Calls, Calls
<1>2. ASSUME RunSerial PROVE Promise!Execute
  <2>1. InCall /\ InCall' /\ call \in Calls /\ UNCHANGED <<call, rows>> /\ Kernel(call, 0..(rows - 1))
    BY <1>2 DEF RunSerial, InCall, Phases
  <2>2. \A r \in 0..(rows - 1) : ran[call][r] = 0
    BY <1>2, ShareRows DEF RunSerial, Ledger, TypeOK
  <2>3. QED
    BY <2>1, <2>2, ExecuteStep
<1>3. ASSUME ReturnSerial PROVE Promise!Return
  <2>1. Promise!Pending = {}
    BY <1>3, NothingPending DEF ReturnSerial, Ledger
  <2>2. QED
    BY <1>3, <2>1 DEF ReturnSerial, InCall, Promise!Return
<1>4. ASSUME RunMain PROVE Promise!Execute
  <2>1. InCall /\ InCall' /\ call \in Calls /\ UNCHANGED <<call, rows>> /\ Kernel(call, RowsOf(0, rows))
    BY <1>4 DEF RunMain, InCall, Phases
  <2>2. \A r \in RowsOf(0, rows) : ran[call][r] = 0
    BY <1>4, WorkerThreads DEF RunMain, InPool, Ledger, Executed
  <2>3. RowsOf(0, rows) \subseteq 0..(rows - 1)
    BY ShareRows DEF TypeOK
  <2>4. QED
    BY <2>1, <2>2, <2>3, ExecuteStep
<1>5. ASSUME AwaitDone PROVE Promise!Return \/ UNCHANGED Promise!vars
  <2>1. CASE done < n_workers
    BY <1>5, <2>1 DEF AwaitDone, InCall, Promise!vars
  <2>2. CASE ~(done < n_workers)
    <3>1. \A w \in Workers : Finished(w)
      BY <1>5, <2>2 DEF AwaitDone, Stations, Phases, Finished, pool, threads
    <3>2. \A t \in Threads : Executed(t)
      BY <1>5, <3>1, WorkerThreads DEF AwaitDone, Finished, Executed
    <3>3. \A r \in 0..(rows - 1) : ran[call][r] = 1
      <4>1. SUFFICES ASSUME NEW r \in 0..(rows - 1) PROVE ran[call][r] = 1
        OBVIOUS
      <4>2. rows \in Nat
        BY DEF TypeOK
      <4>3. PICK t \in Threads : r \in RowsOf(t, rows)
        BY <4>2, SharesCover
      <4>4. QED
        BY <1>5, <3>2, <4>3 DEF AwaitDone, Ledger, InPool
    <3>4. Promise!Pending = {}
      BY <3>3, NothingPending
    <3>5. QED
      BY <1>5, <2>2, <3>4 DEF AwaitDone, InCall, Promise!Return
  <2>3. QED
    BY <2>1, <2>2
<1>6. ASSUME NEW w \in Workers, Run(w) PROVE Promise!Execute
  <2>1. InPool /\ mine[w].call = call /\ mine[w].rows = rows
    BY <1>6 DEF Run, KernelsOutliveNoCall, InPool
  <2>2. InCall /\ InCall' /\ call \in Calls /\ UNCHANGED <<call, rows>> /\ Kernel(call, RowsOf(w, rows))
    BY <1>6, <2>1 DEF Run, InCall, InPool, Phases
  <2>3. w \in Threads /\ ~Executed(w)
    BY <1>6, WorkerThreads DEF Run, Executed
  <2>4. \A r \in RowsOf(w, rows) : ran[call][r] = 0
    BY <2>1, <2>3 DEF Ledger
  <2>5. RowsOf(w, rows) \subseteq 0..(rows - 1)
    BY ShareRows DEF TypeOK
  <2>6. QED
    BY <2>2, <2>4, <2>5, ExecuteStep
<1>7. ASSUME NEW w \in Workers, Sleep(w) \/ Quit(w) \/ Take(w) PROVE UNCHANGED Promise!vars
  BY <1>7 DEF Sleep, Quit, Take, InCall, Promise!vars
<1>8. ASSUME NEW w \in Workers, Report(w) PROVE UNCHANGED Promise!vars
  BY <1>8 DEF Report, InCall, Promise!vars
<1>9. ASSUME ds4_threads_init \/ Stop \/ Join \/ SpuriousWakeup \/ UNCHANGED vars PROVE UNCHANGED Promise!vars
  BY <1>9 DEF ds4_threads_init, Stop, Join, SpuriousWakeup, vars, InCall, Promise!vars
<1>10. QED
  BY <1>1, <1>2, <1>3, <1>4, <1>5, <1>6, <1>7, <1>8, <1>9
  DEF Next, ds4_parallel_for_min_rows, ds4_worker_main, Promise!Next

\* The worker pool implements ParallelFor: whatever the interleaving of the
\* caller and the workers, each row of a job is given to the kernel exactly
\* once and all of them before ds4_parallel_for returns (ds4.c:638-765).
THEOREM PoolImplementsParallelFor == Spec => ImplementsParallelFor
<1>1. Init => Promise!Init
  BY DEF Init, InCall, Promise!Init, Promise!Calls, Promise!Rows, Calls, Rows
<1>2. QED
  BY <1>1, Initially, Inductive, Simulation, PTL DEF Spec, ImplementsParallelFor, Promise!Spec
=============================================================================

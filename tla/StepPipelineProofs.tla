------------------------- MODULE StepPipelineProofs -------------------------
(***************************************************************************)
(* The per-step pipeline implements StagePass in each of its three ways of *)
(* taking slots, for every number of stages, layers, slots and failures    *)
(* and every chunk size, and its wavefront always finds a slot to work on. *)
(***************************************************************************)
EXTENDS StepPipeline, FiniteSetTheorems, TLAPS

Own(k)  == First(k)..Final(k)
Busy    == {"pick", "wait", "asleep", "collect", "work", "mark"}
Places  == Busy \cup {"none", "fail", "gone"}
Waiting == {"wait", "asleep"}

(***************************************************************************)
(* The inductive invariant.  How often a stage has run its layers for a    *)
(* slot is told by the stage's own account (the slots before its span, or  *)
(* next_layer), until it fails; what is left then is that each slot has    *)
(* come through the layers in order.  A span is run only when the stage    *)
(* before has run its last layer for each of its slots.                    *)
(***************************************************************************)
Types ==
    /\ n_slots \in 0..MaxSlots /\ failed \in BOOLEAN
    /\ pc \in [Stages -> Places]
    /\ slot \in [Stages -> Nat] /\ chunk \in [Stages -> Nat]
    /\ rel \in [Stages -> Nat] /\ layer \in [Stages -> Nat]
    /\ started \in [Stages -> SUBSET Slots] /\ complete \in [Stages -> SUBSET Slots]
    /\ next_layer \in [Stages -> [Slots -> Nat]]
    /\ created \in 0..NStages
    /\ passes \in [Layers -> [Slots -> Nat]]

Ordered ==
    \A s \in Slots : \A m \in Layers :
        /\ passes[m][s] \in {0, 1}
        /\ passes[m][s] = 1 => \A l \in Layers : l < m => passes[l][s] = 1

Threads ==
    /\ ~InFeed => \A k \in Stages : pc[k] = "none"
    /\ InFeed => \A k \in Stages : k >= created <=> pc[k] = "none"
    /\ host = "create" => created < NStages
    /\ host = "join" => failed \/ created = NStages

Idle(k) ==
    /\ slot[k] = 0 /\ chunk[k] = 0
    /\ started[k] = {} /\ complete[k] = {} /\ \A s \in Slots : next_layer[k][s] = 0
    /\ \A l \in Own(k), s \in Slots : passes[l][s] = 0

\* The stage before k has run its last layer for slot s.
Ready(k, s) == k = 0 \/ passes[Final(k - 1)][s] = 1

InSpan(k) == chunk[k] > 0 /\ slot[k] + chunk[k] <= n_slots

SpanProgress(k) ==
    /\ slot[k] <= n_slots
    /\ \A l \in Own(k), s \in Slots :
          passes[l][s] = IF s < slot[k] \/ (pc[k] = "mark" /\ s < slot[k] + chunk[k]) THEN 1 ELSE 0

WaveProgress(k) ==
    /\ \A s \in complete[k] : s < n_slots
    /\ \A s \in Slots :
          /\ s \in started[k] =>
                /\ First(k) <= next_layer[k][s] /\ next_layer[k][s] <= Final(k) + 1
                /\ s \in complete[k] <=> next_layer[k][s] = Final(k) + 1
          /\ s \notin started[k] => s \notin complete[k] /\ next_layer[k][s] = 0
          /\ \A l \in Own(k) : passes[l][s] = IF l < next_layer[k][s] THEN 1 ELSE 0
    /\ pc[k] \in Waiting => layer[k] = First(k)
    /\ pc[k] \in Waiting \cup {"work"} =>
          /\ layer[k] \in Own(k)
          /\ \A s \in Span(k) : s \in started[k] /\ next_layer[k][s] = layer[k]
    /\ pc[k] = "mark" => \A s \in Span(k) : s \in complete[k]
    /\ pc[k] # "collect"

StageInv(k) ==
    /\ pc[k] = "none" /\ InFeed => Idle(k)
    /\ pc[k] \in Busy => IF mode = "wavefront" THEN WaveProgress(k) ELSE SpanProgress(k)
    /\ pc[k] \in Busy \ {"pick"} => InSpan(k)
    /\ pc[k] \in Waiting \cup {"mark"} => rel[k] < chunk[k]
    /\ pc[k] \in Waiting =>
          \A s \in Slots : slot[k] <= s /\ s < slot[k] + rel[k] => Ready(k, s)
    /\ pc[k] = "collect" \/ (pc[k] = "work" /\ (mode = "wavefront" => layer[k] = First(k)))
          => \A s \in Span(k) : Ready(k, s)
    /\ pc[k] = "gone" => failed \/ \A s \in Slots : s < n_slots => passes[Final(k)][s] = 1
    /\ \A s \in Slots : <<k, s>> \in done => passes[Final(k)][s] = 1

IInv == Types /\ Ordered /\ Threads /\ \A k \in Stages : StageInv(k)

-----------------------------------------------------------------------------
\* A nonempty set of small numbers has a least element.
LEMMA Least ==
    ASSUME NEW n \in Nat, NEW T, T \subseteq 0..n, T # {}
    PROVE  \E x \in T : \A y \in T : x <= y
<1> DEFINE F == {0..x : x \in T}
           R == StrictSubsetOrdering(0..n)
<1>1. IsWellFoundedOn(R, SUBSET (0..n))
  <2>1. IsFiniteSet(0..n)
    BY FS_Interval
  <2> QED
    BY <2>1, FS_StrictSubsetOrderingWellFounded, FS_FiniteSubsetsOfFinite
<1>2. F \subseteq SUBSET (0..n) /\ F # {}
  <2>1. PICK t \in T : TRUE
    OBVIOUS
  <2>2. 0..t \in F
    OBVIOUS
  <2>3. \A x \in T : 0..x \in SUBSET (0..n)
    OBVIOUS
  <2> QED
    BY <2>2, <2>3
<1>3. \E A \in F : \A B \in F : <<B, A>> \notin R
  BY <1>1, <1>2, WFMin
<1>4. PICK x \in T : \A y \in T : <<0..y, 0..x>> \notin R
  BY <1>3
<1>5. \A y \in T : y < x => <<0..y, 0..x>> \in R
  BY DEF StrictSubsetOrdering
<1>6. \A y \in T : ~(y < x)
  <2> HIDE DEF R
  <2> QED
    BY <1>4, <1>5
<1>7. T \subseteq Int
  OBVIOUS
<1> QED
  BY <1>6, <1>7

\* And a greatest one.
LEMMA Greatest ==
    ASSUME NEW n \in Nat, NEW T, T \subseteq 0..n, T # {}
    PROVE  \E x \in T : \A y \in T : x >= y
<1> DEFINE U == {u \in 0..n : n - u \in T}
<1>1. U \subseteq 0..n /\ U # {}
  <2>1. PICK t \in T : TRUE
    OBVIOUS
  <2>2. n - t \in U
    OBVIOUS
  <2> QED
    BY <2>2
<1>2. PICK x \in U : \A y \in U : x <= y
  <2> HIDE DEF U
  <2> QED
    BY <1>1, Least
<1>3. n - x \in T /\ \A y \in T : n - x >= y
  <2>1. \A y \in T : n - y \in U
    OBVIOUS
  <2> QED
    BY <1>2, <2>1
<1> QED
  BY <1>3

\* A set of n numbers below n is all of them.
LEMMA AllCounted ==
    ASSUME NEW n \in Nat, NEW C, \A x \in C : x \in Nat /\ x < n, Cardinality(C) >= n
    PROVE  \A x \in Nat : x < n => x \in C
<1>1. C \in SUBSET (0..(n - 1))
  OBVIOUS
<1>2. IsFiniteSet(0..(n - 1))
  BY FS_Interval
<1>3. Cardinality(0..(n - 1)) = n
  BY FS_Interval
<1>4. /\ IsFiniteSet(C) /\ Cardinality(C) <= n
      /\ Cardinality(C) = n => C = 0..(n - 1)
  BY <1>1, <1>2, <1>3, FS_Subset
<1>5. Cardinality(C) \in Nat
  BY <1>4, FS_CardinalityType
<1> QED
  BY <1>4, <1>5

LEMMA Numbers ==
    /\ NStages \in Nat \ {0} /\ LayersPerStage \in Nat \ {0} /\ MaxSlots \in Nat \ {0, 1}
    /\ SlotChunk \in Nat \ {0} /\ ReadyChunk \in Nat \ {0} /\ Stage0Chunk \in Nat \ {0}
    /\ WaveChunk \in Nat \ {0}
BY StepPipelineAssumption

\* The layers of the stages follow one another.
LEMMA LayersFollow ==
    /\ \A k \in Stages : /\ k \in Nat /\ First(k) \in Nat /\ Final(k) \in Nat /\ First(k) <= Final(k)
                         /\ Own(k) \subseteq Layers
                         /\ First(k) \in Own(k) /\ Final(k) \in Own(k)
                         /\ k # 0 => k - 1 \in Stages /\ Final(k - 1) = First(k) - 1
    /\ \A j, k \in Stages : j # k => Own(j) \cap Own(k) = {}
    /\ NStages - 1 \in Stages /\ Final(NStages - 1) = NLayers - 1
    /\ First(0) = 0 /\ NLayers \in Nat
<1> DEFINE L == LayersPerStage
<1>0. L \in Nat /\ L > 0 /\ NStages \in Nat /\ NStages > 0
  BY Numbers
<1>1. ASSUME NEW a \in Nat, NEW b \in Nat, a < b PROVE a * L + L <= b * L
  <2>1. (a + 1) * L <= b * L
    BY <1>0, <1>1, SMTT(30)
  <2> QED
    BY <1>0, <2>1, SMTT(30)
<1>2. ASSUME NEW k \in Stages
      PROVE  /\ k \in Nat /\ First(k) = k * L /\ First(k) \in Nat
             /\ Final(k) = k * L + L - 1 /\ Final(k) \in Nat
             /\ First(k) <= Final(k) /\ Final(k) <= NLayers - 1
  <2>1. k \in Nat /\ k < NStages
    BY <1>0, <1>2 DEF Stages
  <2>2. k * L \in Nat /\ k * L + L <= NStages * L
    BY <1>0, <1>1, <2>1, SMTT(30)
  <2> QED
    BY <1>0, <2>1, <2>2 DEF First, Final, NLayers
<1>3. NLayers \in Nat
  BY <1>0, SMTT(30) DEF NLayers
<1>4. ASSUME NEW k \in Stages
      PROVE  Own(k) \subseteq Layers /\ First(k) \in Own(k) /\ Final(k) \in Own(k)
  BY <1>2, <1>3, <1>4 DEF Own, Layers
<1>5. ASSUME NEW k \in Stages, k # 0 PROVE k - 1 \in Stages /\ Final(k - 1) = First(k) - 1
  <2>1. k - 1 \in Stages
    BY <1>0, <1>5 DEF Stages
  <2>2. (k - 1) * L = k * L - L
    BY <1>0, <1>2, SMTT(30)
  <2> QED
    BY <1>0, <1>2, <2>1, <2>2
<1>6. ASSUME NEW j \in Stages, NEW k \in Stages, j # k PROVE Own(j) \cap Own(k) = {}
  <2>1. CASE j < k
    BY <1>0, <1>1, <1>2, <2>1 DEF Own
  <2>2. CASE k < j
    BY <1>0, <1>1, <1>2, <2>2 DEF Own
  <2> QED
    BY <1>2, <1>6, <2>1, <2>2
<1>7. NStages - 1 \in Stages /\ Final(NStages - 1) = NLayers - 1
  <2>1. (NStages - 1) * L + L = NStages * L
    BY <1>0, SMTT(30)
  <2>2. NStages - 1 \in Stages
    BY <1>0 DEF Stages
  <2> QED
    BY <1>0, <1>2, <2>1, <2>2, SMTT(30) DEF NLayers
<1>8. First(0) = 0
  BY <1>0, SMTT(30) DEF First
<1> QED
  BY <1>2, <1>3, <1>4, <1>5, <1>6, <1>7, <1>8

LEMMA SmallerOf ==
    ASSUME NEW a \in Int, NEW b \in Int
    PROVE  Smaller(a, b) \in {a, b} /\ Smaller(a, b) <= a /\ Smaller(a, b) <= b
BY DEF Smaller

\* The slots of a batch are slots.
LEMMA Bounds ==
    ASSUME Types
    PROVE  /\ n_slots \in Nat /\ n_slots <= MaxSlots /\ MaxSlots \in Nat
           /\ \A s \in Slots : s \in Nat
           /\ \A x \in Nat : x < n_slots => x \in Slots
BY Numbers DEF Types, Slots

LEMMA SpanInBatch ==
    ASSUME Types, NEW k \in Stages, InSpan(k)
    PROVE  /\ Span(k) \subseteq {s \in Slots : s < n_slots}
           /\ slot[k] \in Span(k)
           /\ \A s \in Slots : s \in Span(k) <=> slot[k] <= s /\ s < slot[k] + chunk[k]
<1>1. slot[k] \in Nat /\ chunk[k] \in Nat
  BY DEF Types
<1> QED
  BY <1>1, Bounds DEF Span, InSpan

\* No batch has been fed.
LEMMA Initially == Init => IInv
<1> SUFFICES ASSUME Init PROVE IInv
  OBVIOUS
<1>1. passes \in [Layers -> [Slots -> Nat]] /\ \A l \in Layers, s \in Slots : passes[l][s] = 0
  BY DEF Init, Untouched
<1>2. Types
  <2>1. pc \in [Stages -> Places]
    BY DEF Init, PerStage, Places
  <2>2. slot \in [Stages -> Nat] /\ chunk \in [Stages -> Nat] /\ rel \in [Stages -> Nat] /\ layer \in [Stages -> Nat]
    BY DEF Init, PerStage
  <2>3. started \in [Stages -> SUBSET Slots] /\ complete \in [Stages -> SUBSET Slots]
    BY DEF Init, PerStage
  <2>4. next_layer \in [Stages -> [Slots -> Nat]]
    BY DEF Init, PerStage
  <2>5. n_slots \in 0..MaxSlots /\ created \in 0..NStages
    BY Numbers DEF Init
  <2>6. failed \in BOOLEAN
    BY DEF Init
  <2> QED
    BY <1>1, <2>1, <2>2, <2>3, <2>4, <2>5, <2>6 DEF Types
<1>3. Ordered
  BY <1>1 DEF Ordered
<1>4. Threads
  BY DEF Init, Threads, InFeed, PerStage
<1>5. \A k \in Stages : StageInv(k)
  <2> SUFFICES ASSUME NEW k \in Stages PROVE StageInv(k)
    OBVIOUS
  <2>1. pc[k] = "none" /\ done = {} /\ ~InFeed
    BY DEF Init, PerStage, InFeed
  <2> QED
    BY <2>1 DEF StageInv, Busy, Waiting
<1> QED
  BY <1>2, <1>3, <1>4, <1>5 DEF IInv

\* A stage is not disturbed by the steps of others: they may wake it, add
\* passes of their own layers and fail, but keep its span and its account.
LEMMA Undisturbed ==
    ASSUME Types, NEW j \in Stages, StageInv(j),
           mode' = mode, n_slots' = n_slots, InFeed' => InFeed,
           slot'[j] = slot[j], chunk'[j] = chunk[j], rel'[j] = rel[j], layer'[j] = layer[j],
           started'[j] = started[j], complete'[j] = complete[j], next_layer'[j] = next_layer[j],
           pc'[j] = pc[j] \/ (pc[j] = "asleep" /\ pc'[j] = "wait"),
           failed => failed',
           \A l \in Own(j), s \in Slots : passes'[l][s] = passes[l][s],
           \A l \in Layers, s \in Slots : passes[l][s] = 1 => passes'[l][s] = 1,
           \A s \in Slots : <<j, s>> \in done' => <<j, s>> \in done
    PROVE  StageInv(j)'
<1>1. /\ pc'[j] \in Busy <=> pc[j] \in Busy
      /\ pc'[j] \in Waiting <=> pc[j] \in Waiting
      /\ pc'[j] \in Busy \ {"pick"} <=> pc[j] \in Busy \ {"pick"}
      /\ \A p \in {"none", "collect", "work", "mark", "gone"} : pc'[j] = p <=> pc[j] = p
  BY DEF Busy, Waiting
<1>2. Span(j)' = Span(j) /\ (InSpan(j) <=> InSpan(j)')
  BY DEF Span, InSpan
<1>3. ASSUME NEW s \in Slots, Ready(j, s) PROVE Ready(j, s)'
  <2>1. j = 0 \/ Final(j - 1) \in Layers
    BY LayersFollow
  <2> QED
    BY <1>3, <2>1 DEF Ready
<1>4. Final(j) \in Own(j)
  BY LayersFollow
<1>5. pc[j] = "none" /\ InFeed => Idle(j) /\ Idle(j)'
  BY DEF StageInv, Idle
<1>6. SpanProgress(j) => SpanProgress(j)'
  BY <1>1 DEF SpanProgress
<1>7. WaveProgress(j) => WaveProgress(j)'
  BY <1>1, <1>2 DEF WaveProgress
<1>8. pc[j] \in Busy \ {"pick"} => Span(j) \subseteq Slots
  BY SpanInBatch DEF StageInv
<1>9. pc'[j] = "collect" \/ (pc'[j] = "work" /\ (mode' = "wavefront" => layer'[j] = First(j)))
          => \A s \in Span(j)' : Ready(j, s)'
  BY <1>1, <1>2, <1>3, <1>8 DEF StageInv, Busy
<1>10. pc'[j] \in Waiting =>
          \A s \in Slots : slot'[j] <= s /\ s < slot'[j] + rel'[j] => Ready(j, s)'
  BY <1>1, <1>3 DEF StageInv
<1>11. pc'[j] = "gone" => failed' \/ \A s \in Slots : s < n_slots' => passes'[Final(j)][s] = 1
  BY <1>1, <1>4 DEF StageInv
<1>12. \A s \in Slots : <<j, s>> \in done' => passes'[Final(j)][s] = 1
  BY <1>4 DEF StageInv
<1>13. pc'[j] \in Busy => IF mode' = "wavefront" THEN WaveProgress(j)' ELSE SpanProgress(j)'
  BY <1>1, <1>6, <1>7 DEF StageInv
<1>14. /\ pc'[j] \in Busy \ {"pick"} => InSpan(j)'
       /\ pc'[j] \in Waiting \cup {"mark"} => rel'[j] < chunk'[j]
       /\ pc'[j] = "none" /\ InFeed' => Idle(j)'
  BY <1>1, <1>2, <1>5 DEF StageInv
<1> QED
  BY <1>9, <1>10, <1>11, <1>12, <1>13, <1>14 DEF StageInv

\* A step of stage k: what is left to show is its own part of the invariant.
LEMMA StepOf ==
    ASSUME IInv, NEW k \in Stages, Types', Ordered', StageInv(k)',
           pc[k] # "none", pc'[k] # "none",
           mode' = mode, n_slots' = n_slots, host' = host, created' = created,
           failed => failed',
           \A j \in Stages \ {k} :
              /\ pc'[j] = pc[j] \/ (pc[j] = "asleep" /\ pc'[j] = "wait")
              /\ slot'[j] = slot[j] /\ chunk'[j] = chunk[j] /\ rel'[j] = rel[j]
              /\ layer'[j] = layer[j] /\ started'[j] = started[j]
              /\ complete'[j] = complete[j] /\ next_layer'[j] = next_layer[j],
           \A l \in Layers \ Own(k), s \in Slots : passes'[l][s] = passes[l][s],
           \A l \in Layers, s \in Slots : passes[l][s] = 1 => passes'[l][s] = 1,
           \A j \in Stages \ {k}, s \in Slots : <<j, s>> \in done' => <<j, s>> \in done
    PROVE  IInv'
<1>1. Threads'
  <2>1. \A j \in Stages : pc'[j] = "none" <=> pc[j] = "none"
    OBVIOUS
  <2> QED
    BY <2>1 DEF IInv, Threads, InFeed
<1>2. ASSUME NEW j \in Stages \ {k} PROVE StageInv(j)'
  <2>1. \A l \in Own(j), s \in Slots : passes'[l][s] = passes[l][s]
    BY LayersFollow
  <2> QED
    BY <2>1, Undisturbed DEF IInv, InFeed
<1> QED
  BY <1>1, <1>2 DEF IInv

-----------------------------------------------------------------------------
\* The layers a stage is about to run.
From(k) == IF mode = "wavefront" THEN layer[k] ELSE First(k)
To(k)   == IF mode = "wavefront" THEN layer[k] ELSE Final(k)

\* A span is run for slots that have been through all layers before, and none
\* of those it is run for.
LEMMA WorkSafe ==
    ASSUME IInv, NEW k \in Stages, pc[k] = "work"
    PROVE  /\ From(k) \in Own(k) /\ To(k) \in Own(k) /\ From(k) <= To(k)
           /\ LayersOf(k) = From(k)..To(k)
           /\ \A s \in Span(k), l \in Layers : passes[l][s] = IF l < From(k) THEN 1 ELSE 0
           /\ Ran(k) = [l \in Layers |-> [s \in Slots |->
                 IF s \in Span(k) /\ From(k) <= l /\ l <= To(k) THEN 1 ELSE passes[l][s]]]
<1>0. Types /\ Ordered /\ StageInv(k) /\ pc[k] \in Busy \ {"pick"} /\ pc[k] \in Busy
  BY DEF IInv, Busy
<1>1. Span(k) \subseteq {s \in Slots : s < n_slots}
  BY <1>0, SpanInBatch DEF StageInv
<1>2. /\ First(k) \in Nat /\ Final(k) \in Nat /\ First(k) <= Final(k)
      /\ First(k) \in Own(k) /\ Final(k) \in Own(k) /\ Own(k) \subseteq Layers
  BY LayersFollow
<1>3. /\ From(k) \in Own(k) /\ To(k) \in Own(k) /\ From(k) <= To(k)
      /\ LayersOf(k) = From(k)..To(k)
  <2>1. CASE mode = "wavefront"
    <3>1. layer[k] \in Own(k)
      BY <1>0, <2>1 DEF StageInv, WaveProgress
    <3>2. layer[k] \in Int /\ {layer[k]} = layer[k]..layer[k]
      BY <3>1 DEF Own
    <3> QED
      BY <2>1, <3>1, <3>2 DEF From, To, LayersOf
  <2>2. CASE mode # "wavefront"
    BY <1>2, <2>2 DEF From, To, LayersOf
  <2> QED
    BY <2>1, <2>2
<1>4. From(k) \in Layers /\ From(k) \in Nat /\ To(k) \in Nat /\ Layers \subseteq Nat
  BY <1>2, <1>3, LayersFollow DEF Own, Layers
<1>5. ASSUME NEW s \in Span(k) PROVE passes[From(k)][s] = 0
  <2>0. s \in Slots /\ slot[k] <= s /\ slot[k] \in Nat /\ s \in Nat
    BY <1>0, <1>1, SpanInBatch, Bounds DEF StageInv, Types
  <2>1. CASE mode = "wavefront"
    BY <1>0, <1>3, <2>0, <2>1 DEF StageInv, WaveProgress, From, Own
  <2>2. CASE mode # "wavefront"
    BY <1>0, <1>2, <2>0, <2>2 DEF StageInv, SpanProgress, From
  <2> QED
    BY <2>1, <2>2
<1>6. ASSUME NEW s \in Span(k), From(k) # 0
      PROVE  From(k) - 1 \in Layers /\ passes[From(k) - 1][s] = 1
  <2>0. s \in Slots /\ From(k) - 1 \in Layers
    BY <1>1, <1>4, <1>6, LayersFollow DEF Layers
  <2>1. CASE From(k) = First(k)
    <3>1. k # 0
      BY <1>6, <2>1, LayersFollow
    <3>2. Ready(k, s)
      BY <1>0, <1>6, <2>1 DEF StageInv, From
    <3> QED
      BY <2>0, <2>1, <3>1, <3>2, LayersFollow DEF Ready
  <2>2. CASE From(k) # First(k)
    <3>1. mode = "wavefront" /\ From(k) = layer[k]
      BY <2>2 DEF From
    <3>2. From(k) - 1 \in Own(k)
      BY <1>2, <1>3, <1>4, <2>2 DEF Own
    <3>3. next_layer[k][s] = layer[k]
      BY <1>0, <3>1 DEF StageInv, WaveProgress
    <3> QED
      BY <1>0, <1>4, <2>0, <3>1, <3>2, <3>3 DEF StageInv, WaveProgress
  <2> QED
    BY <2>1, <2>2
<1>7. ASSUME NEW s \in Span(k), NEW l \in Layers
      PROVE  passes[l][s] = IF l < From(k) THEN 1 ELSE 0
  <2>0. s \in Slots /\ l \in Nat
    BY <1>1, <1>4
  <2>1. CASE l < From(k)
    <3>1. From(k) # 0 /\ (l = From(k) - 1 \/ l < From(k) - 1)
      BY <1>4, <2>0, <2>1
    <3> QED
      BY <1>0, <1>6, <2>0, <2>1, <3>1 DEF Ordered
  <2>2. CASE ~(l < From(k))
    <3>1. l = From(k) \/ From(k) < l
      BY <1>4, <2>0, <2>2
    <3>2. passes[l][s] # 1
      BY <1>0, <1>4, <1>5, <2>0, <3>1 DEF Ordered
    <3> QED
      BY <1>0, <2>0, <2>2, <3>2 DEF Ordered
  <2> QED
    BY <2>1, <2>2
<1>8. Ran(k) = [l \in Layers |-> [s \in Slots |->
                 IF s \in Span(k) /\ From(k) <= l /\ l <= To(k) THEN 1 ELSE passes[l][s]]]
  <2>1. ASSUME NEW l \in Layers, NEW s \in Slots
        PROVE  (IF l \in LayersOf(k) /\ s \in Span(k) THEN passes[l][s] + 1 ELSE passes[l][s])
                  = IF s \in Span(k) /\ From(k) <= l /\ l <= To(k) THEN 1 ELSE passes[l][s]
    <3>1. l \in LayersOf(k) <=> From(k) <= l /\ l <= To(k)
      BY <1>3, <1>4
    <3>2. s \in Span(k) /\ From(k) <= l => passes[l][s] = 0
      BY <1>4, <1>7
    <3> QED
      BY <3>1, <3>2
  <2> QED
    BY <2>1 DEF Ran
<1> QED
  BY <1>3, <1>7, <1>8

\* So running it leaves every slot with its layers in order.
LEMMA RanOrdered ==
    ASSUME IInv, NEW k \in Stages, pc[k] = "work", passes' = Ran(k)
    PROVE  /\ passes' \in [Layers -> [Slots -> Nat]] /\ Ordered'
           /\ \A l \in Layers \ Own(k), s \in Slots : passes'[l][s] = passes[l][s]
           /\ \A l \in Layers, s \in Slots : passes[l][s] = 1 => passes'[l][s] = 1
           /\ \A l \in Layers, s \in Slots : s \notin Span(k) => passes'[l][s] = passes[l][s]
           /\ \A l \in Layers, s \in Slots : s \in Span(k) =>
                 passes'[l][s] = IF l <= To(k) THEN 1 ELSE 0
<1>0. Types /\ Ordered
  BY DEF IInv
<1>1. \A l \in Layers, s \in Slots :
         passes'[l][s] = IF s \in Span(k) /\ From(k) <= l /\ l <= To(k) THEN 1 ELSE passes[l][s]
  BY WorkSafe
<1>2. passes' \in [Layers -> [Slots -> Nat]]
  <2>1. \A l \in Layers, s \in Slots : passes[l][s] \in Nat
    BY <1>0 DEF Types
  <2>2. \A l \in Layers, s \in Slots : Ran(k)[l][s] \in Nat
    BY <1>1, <2>1
  <2> QED
    BY <2>2 DEF Ran
<1>3. From(k) \in Nat /\ To(k) \in Nat /\ Layers \subseteq Nat /\ From(k) <= To(k)
  BY WorkSafe, LayersFollow DEF Own, Layers
<1>4. ASSUME NEW l \in Layers, NEW s \in Slots
      PROVE  s \in Span(k) => passes'[l][s] = IF l <= To(k) THEN 1 ELSE 0
  <2> SUFFICES ASSUME s \in Span(k) PROVE passes'[l][s] = IF l <= To(k) THEN 1 ELSE 0
    OBVIOUS
  <2>1. passes[l][s] = IF l < From(k) THEN 1 ELSE 0
    BY WorkSafe
  <2> QED
    BY <1>1, <1>3, <2>1
<1>5. Ordered'
  <2> SUFFICES ASSUME NEW s \in Slots, NEW m \in Layers
               PROVE  /\ passes'[m][s] \in {0, 1}
                      /\ passes'[m][s] = 1 => \A l \in Layers : l < m => passes'[l][s] = 1
    BY DEF Ordered
  <2>1. CASE s \in Span(k)
    BY <1>3, <1>4, <2>1
  <2>2. CASE s \notin Span(k)
    BY <1>0, <1>1, <2>2 DEF Ordered
  <2> QED
    BY <2>1, <2>2
<1>6. \A l \in Layers \ Own(k), s \in Slots : passes'[l][s] = passes[l][s]
  <2>1. \A l \in Layers : From(k) <= l /\ l <= To(k) => l \in Own(k)
    BY <1>3, WorkSafe, LayersFollow DEF Own
  <2> QED
    BY <1>1, <2>1
<1> QED
  BY <1>1, <1>2, <1>4, <1>5, <1>6

-----------------------------------------------------------------------------
\* Every slot of a span that Cut makes is due.
LEMMA CutIsDue ==
    ASSUME Types, NEW k \in Stages, NEW l \in Nat, NEW max \in Nat \ {0}, NEW g \in Cut(k, l, max)
    PROVE  /\ g.layer = l /\ g.slot \in Slots /\ g.chunk \in Nat \ {0}
           /\ \A b \in g.slot..(g.slot + g.chunk - 1) : Due(k, l, b)
<1> DEFINE from(s) == Min({a \in 0..s : \A b \in a..s : Due(k, l, b)})
           T(s) == {a \in s..(n_slots - 1) : \A b \in s..a : Due(k, l, b)}
           to(s) == Max(T(s))
           G(s) == [layer |-> l, slot |-> s, chunk |-> Smaller(max, to(s) - s + 1)]
<1>1. PICK s \in {t \in Slots : Due(k, l, t) /\ (t - from(t)) % max = 0} : g = G(s)
  BY DEF Cut
<1>2. s \in Slots /\ s \in Nat /\ Due(k, l, s) /\ s < n_slots
  BY <1>1, Bounds DEF Due
<1>3. T(s) \subseteq 0..n_slots /\ s \in T(s)
  BY <1>2, Bounds
<1>4. \E x \in T(s) : \A y \in T(s) : x >= y
  <2> HIDE DEF T
  <2> QED
    BY <1>3, Greatest, Bounds
<1>5. to(s) \in T(s)
  <2> HIDE DEF T
  <2> QED
    BY <1>4 DEF Max
<1>6. to(s) \in Nat /\ s <= to(s) /\ \A b \in s..to(s) : Due(k, l, b)
  <2> HIDE DEF to
  <2> QED
    BY <1>2, <1>5, Bounds
<1> HIDE DEF to, T
<1>7. g.layer = l /\ g.slot = s /\ g.chunk = Smaller(max, to(s) - s + 1)
  BY <1>1
<1>8. g.chunk \in Nat \ {0} /\ g.chunk <= to(s) - s + 1
  BY <1>2, <1>6, <1>7, SmallerOf
<1>9. \A b \in s..(s + g.chunk - 1) : b \in s..to(s)
  BY <1>2, <1>6, <1>8
<1> QED
  BY <1>2, <1>6, <1>7, <1>8, <1>9

\* find_layer_group finds a group when there is one.
LEMMA GroupIsDue ==
    ASSUME Types, NEW k \in Stages, NEW max \in Nat \ {0}, NEW min \in Nat,
           Groups(k, max, min) # {}, NEW g, g = find_layer_group(k, max, min)
    PROVE  /\ g.layer \in Nat /\ First(k) < g.layer /\ g.layer <= Final(k)
           /\ g.slot \in Nat /\ g.chunk \in Nat \ {0}
           /\ \A b \in g.slot..(g.slot + g.chunk - 1) : Due(k, g.layer, b)
<1> DEFINE GG == Groups(k, max, min)
<1>0. First(k) \in Nat /\ Final(k) \in Nat
  BY LayersFollow
<1>1. ASSUME NEW h \in GG
      PROVE  /\ h.layer \in Nat /\ First(k) < h.layer /\ h.layer <= Final(k)
             /\ h.slot \in Slots /\ h.chunk \in Nat \ {0}
             /\ \A b \in h.slot..(h.slot + h.chunk - 1) : Due(k, h.layer, b)
  <2>1. PICK l \in (First(k) + 1)..Final(k) : h \in Cut(k, l, max)
    BY <1>1 DEF Groups
  <2>2. l \in Nat /\ First(k) < l /\ l <= Final(k)
    BY <1>0, <2>1
  <2> QED
    BY <2>1, <2>2, CutIsDue
<1>2. PICK x \in {h.layer : h \in GG} : \A y \in {h.layer : h \in GG} : x <= y
  <2>1. {h.layer : h \in GG} \subseteq 0..Final(k)
    BY <1>0, <1>1
  <2>2. {h.layer : h \in GG} # {}
    OBVIOUS
  <2> HIDE DEF GG
  <2> QED
    BY <1>0, <2>1, <2>2, Least
<1> DEFINE HH == {h \in GG : h.layer = x}
<1>3. PICK u \in {h.slot : h \in HH} : \A v \in {h.slot : h \in HH} : u <= v
  <2>1. {h.slot : h \in HH} \subseteq 0..MaxSlots
    BY <1>1, Bounds DEF Slots
  <2>2. {h.slot : h \in HH} # {}
    BY <1>2
  <2> HIDE DEF HH
  <2> QED
    BY <2>1, <2>2, Least, Bounds
<1>4. PICK f \in HH : f.slot = u
  BY <1>3
<1>5. \A h \in GG : f.layer < h.layer \/ (f.layer = h.layer /\ f.slot <= h.slot)
  <2> SUFFICES ASSUME NEW h \in GG PROVE f.layer < h.layer \/ (f.layer = h.layer /\ f.slot <= h.slot)
    OBVIOUS
  <2>1. f.layer = x /\ x <= h.layer /\ x \in Nat /\ h.layer \in Nat
    BY <1>1, <1>2, <1>4
  <2>2. h.layer = x => u <= h.slot
    BY <1>3
  <2> QED
    BY <1>4, <2>1, <2>2
<1>6. g \in GG
  <2>1. g = CHOOSE e \in GG : \A h \in GG : e.layer < h.layer \/ (e.layer = h.layer /\ e.slot <= h.slot)
    BY DEF find_layer_group
  <2>2. f \in GG
    BY <1>4
  <2> HIDE DEF GG
  <2> QED
    BY <1>5, <2>1, <2>2, Zenon
<1> HIDE DEF GG
<1> QED
  BY <1>1, <1>6, Bounds

-----------------------------------------------------------------------------
\* The steps of a stage that run no layer and mark nothing.
LEMMA QuietStep ==
    ASSUME IInv, NEW k \in Stages, pc[k] # "none",
           NEW p \in Places \ {"none"}, pc' = [pc EXCEPT ![k] = p],
           mode' = mode, n_slots' = n_slots, host' = host, created' = created,
           failed' = failed, done' = done, passes' = passes,
           NEW a \in Nat, slot' = [slot EXCEPT ![k] = a],
           NEW b \in Nat, chunk' = [chunk EXCEPT ![k] = b],
           NEW c \in Nat, rel' = [rel EXCEPT ![k] = c],
           NEW d \in Nat, layer' = [layer EXCEPT ![k] = d],
           started' \in [Stages -> SUBSET Slots], next_layer' \in [Stages -> [Slots -> Nat]],
           complete' = complete,
           \A j \in Stages \ {k} : started'[j] = started[j] /\ next_layer'[j] = next_layer[j],
           StageInv(k)'
    PROVE  IInv'
<1>1. Types'
  BY DEF IInv, Types
<1>2. Ordered'
  BY DEF IInv, Ordered
<1>3. \A j \in Stages \ {k} :
         /\ pc'[j] = pc[j] /\ slot'[j] = slot[j] /\ chunk'[j] = chunk[j]
         /\ rel'[j] = rel[j] /\ layer'[j] = layer[j]
  BY DEF IInv, Types
<1>4. pc'[k] # "none"
  BY DEF IInv, Types
<1> QED
  BY <1>1, <1>2, <1>3, <1>4, StepOf

\* The next span of a "fixed" or "ready" stage begins where the last one ended.
LEMMA PickSpanKeeps ==
    ASSUME IInv, NEW k \in Stages, PickSpan(k) PROVE IInv'
<1>0. /\ Types /\ StageInv(k) /\ pc[k] = "pick" /\ mode # "wavefront"
      /\ UNCHANGED <<mode, n_slots, failed, done, started, complete, next_layer, host, created, passes>>
  BY DEF IInv, PickSpan, batch, wave, caller
<1>1. SpanProgress(k) /\ slot[k] \in Nat /\ n_slots \in Nat
  BY <1>0, Bounds DEF StageInv, Busy, Types
<1>2. Final(k) \in Own(k) /\ First(k) \in Nat
  BY LayersFollow
<1>3. CASE slot[k] >= n_slots /\ pc' = Moved(k, "gone") /\ UNCHANGED span
  <2>1. pc' = [pc EXCEPT ![k] = "gone"] /\ pc'[k] = "gone"
    BY <1>0, <1>3 DEF Moved, Types
  <2>2. /\ slot' = [slot EXCEPT ![k] = slot[k]] /\ chunk' = [chunk EXCEPT ![k] = chunk[k]]
        /\ rel' = [rel EXCEPT ![k] = rel[k]] /\ layer' = [layer EXCEPT ![k] = layer[k]]
        /\ slot[k] \in Nat /\ chunk[k] \in Nat /\ rel[k] \in Nat /\ layer[k] \in Nat
    BY <1>0, <1>3 DEF span, Types
  <2>3. \A s \in Slots : s < n_slots => passes[Final(k)][s] = 1
    BY <1>1, <1>2, <1>3, <1>0, Bounds DEF SpanProgress
  <2>4. StageInv(k)'
    BY <1>0, <2>1, <2>3 DEF StageInv, Busy, Waiting
  <2> QED
    BY <1>0, <2>1, <2>2, <2>4, QuietStep DEF Types, Places
<1>4. CASE /\ slot[k] < n_slots
           /\ Take(k, slot[k], IF mode = "ready" THEN 1 ELSE Smaller(SlotChunk, n_slots - slot[k]),
                   First(k), "wait")
  <2> DEFINE c == IF mode = "ready" THEN 1 ELSE Smaller(SlotChunk, n_slots - slot[k])
  <2>1. c \in Nat /\ c > 0 /\ slot[k] + c <= n_slots
    BY <1>1, <1>4, Numbers, SmallerOf
  <2> HIDE DEF c
  <2>2. /\ slot' = [slot EXCEPT ![k] = slot[k]] /\ chunk' = [chunk EXCEPT ![k] = c]
        /\ rel' = [rel EXCEPT ![k] = 0] /\ layer' = [layer EXCEPT ![k] = First(k)]
        /\ pc' = [pc EXCEPT ![k] = "wait"]
    BY <1>4 DEF Take, Moved, c
  <2>3. pc'[k] = "wait" /\ slot'[k] = slot[k] /\ chunk'[k] = c /\ rel'[k] = 0
    BY <1>0, <2>2 DEF Types
  <2>4. SpanProgress(k)' /\ InSpan(k)'
    BY <1>0, <1>1, <2>1, <2>3 DEF SpanProgress, InSpan
  <2>5. \A s \in Slots : ~(slot'[k] <= s /\ s < slot'[k] + rel'[k])
    BY <1>0, <1>1, <2>3, Bounds
  <2>6. StageInv(k)'
    BY <1>0, <2>1, <2>3, <2>4, <2>5 DEF StageInv, Busy, Waiting
  <2> QED
    BY <1>0, <1>1, <1>2, <2>1, <2>2, <2>6, QuietStep DEF Types, Places, Busy
<1> QED
  BY <1>3, <1>4 DEF PickSpan

\* What the stage before has marked it has run.
LEMMA PrevDoneIsReady ==
    ASSUME IInv, NEW k \in Stages, NEW s \in Slots, PrevDone(k, s) PROVE Ready(k, s)
<1>1. k # 0 => k - 1 \in Stages
  BY LayersFollow
<1> QED
  BY <1>1 DEF PrevDone, Ready, IInv, StageInv

\* A span is run once each of its slots has been seen done.
LEMMA wait_prevKeeps ==
    ASSUME IInv, NEW k \in Stages, wait_prev(k) PROVE IInv'
<1>0. /\ Types /\ StageInv(k) /\ pc[k] = "wait"
      /\ UNCHANGED <<mode, n_slots, failed, done, started, complete, next_layer, host, created, passes, slot, chunk, layer>>
  BY DEF IInv, wait_prev, batch, wave, caller
<1>1. /\ slot[k] \in Nat /\ chunk[k] \in Nat /\ rel[k] \in Nat /\ layer[k] \in Nat
      /\ slot' = [slot EXCEPT ![k] = slot[k]] /\ chunk' = [chunk EXCEPT ![k] = chunk[k]]
      /\ layer' = [layer EXCEPT ![k] = layer[k]]
  BY <1>0 DEF Types
<1>2. /\ InSpan(k) /\ rel[k] < chunk[k]
      /\ IF mode = "wavefront" THEN WaveProgress(k) ELSE SpanProgress(k)
  BY <1>0 DEF StageInv, Busy, Waiting
<1>3. Span(k)' = Span(k) /\ InSpan(k)'
  BY <1>0, <1>2 DEF Span, InSpan
<1>4. CASE failed /\ pc' = Moved(k, "gone") /\ UNCHANGED rel
  <2>1. pc' = [pc EXCEPT ![k] = "gone"] /\ pc'[k] = "gone" /\ rel' = [rel EXCEPT ![k] = rel[k]]
    BY <1>0, <1>4 DEF Moved, Types
  <2>2. StageInv(k)'
    BY <1>0, <1>4, <2>1 DEF StageInv, Busy, Waiting
  <2> QED
    BY <1>0, <1>1, <2>1, <2>2, QuietStep DEF Types, Places
<1>5. CASE pc' = Moved(k, "asleep") /\ UNCHANGED rel
  <2>1. pc' = [pc EXCEPT ![k] = "asleep"] /\ pc'[k] = "asleep" /\ rel' = [rel EXCEPT ![k] = rel[k]]
    BY <1>0, <1>5 DEF Moved, Types
  <2>2. IF mode' = "wavefront" THEN WaveProgress(k)' ELSE SpanProgress(k)'
    BY <1>0, <1>2, <1>3, <2>1 DEF WaveProgress, SpanProgress, Waiting
  <2>3. \A s \in Slots : slot[k] <= s /\ s < slot[k] + rel[k] => Ready(k, s)'
    BY <1>0 DEF StageInv, Waiting, Ready
  <2>4. StageInv(k)'
    BY <1>0, <1>2, <1>3, <1>5, <2>1, <2>2, <2>3 DEF StageInv, Busy, Waiting
  <2> QED
    BY <1>0, <1>1, <2>1, <2>4, QuietStep DEF Types, Places, Busy
<1>6. CASE /\ k = 0 \/ PrevDone(k, slot[k] + rel[k])
           /\ rel' = [rel EXCEPT ![k] = @ + 1]
           /\ pc' = Moved(k, IF rel[k] + 1 < chunk[k] THEN "wait"
                             ELSE IF mode = "ready" THEN "collect" ELSE "work")
  <2> DEFINE p == IF rel[k] + 1 < chunk[k] THEN "wait" ELSE IF mode = "ready" THEN "collect" ELSE "work"
  <2>1. pc' = [pc EXCEPT ![k] = p] /\ pc'[k] = p /\ rel'[k] = rel[k] + 1
    BY <1>0, <1>6 DEF Moved, Types
  <2>2. /\ p \in {"wait", "collect", "work"} /\ (p = "wait" <=> rel[k] + 1 < chunk[k])
        /\ p = "collect" => mode # "wavefront"
    OBVIOUS
  <2> HIDE DEF p
  <2>3. slot[k] + rel[k] \in Slots
    BY <1>1, <1>2, <1>0, Bounds DEF InSpan
  <2>4. Ready(k, slot[k] + rel[k])
    BY <1>6, <2>3, PrevDoneIsReady DEF Ready
  <2>5. \A s \in Slots : slot[k] <= s /\ s < slot[k] + rel[k] + 1 => Ready(k, s)'
    <3> SUFFICES ASSUME NEW s \in Slots, slot[k] <= s, s < slot[k] + rel[k] + 1 PROVE Ready(k, s)'
      OBVIOUS
    <3>1. s = slot[k] + rel[k] \/ s < slot[k] + rel[k]
      BY <1>0, <1>1, Bounds
    <3>2. Ready(k, s)
      BY <1>0, <2>4, <3>1 DEF StageInv, Waiting
    <3> QED
      BY <1>0, <3>2 DEF Ready
  <2>6. p # "wait" => \A s \in Span(k) : Ready(k, s)'
    <3> SUFFICES ASSUME p # "wait", NEW s \in Span(k) PROVE Ready(k, s)'
      OBVIOUS
    <3>1. s \in Slots /\ slot[k] <= s /\ s < slot[k] + chunk[k]
      BY <1>0, <1>2, SpanInBatch
    <3> QED
      BY <1>0, <1>1, <1>2, <2>2, <2>5, <3>1, Bounds
  <2>7. IF mode' = "wavefront" THEN WaveProgress(k)' ELSE SpanProgress(k)'
    <3>1. CASE mode = "wavefront"
      BY <1>0, <1>2, <1>3, <2>1, <2>2, <3>1, LayersFollow DEF WaveProgress, Waiting
    <3>2. CASE mode # "wavefront"
      BY <1>0, <1>2, <2>1, <2>2, <3>2 DEF SpanProgress
    <3> QED
      BY <1>0, <3>1, <3>2
  <2>8. StageInv(k)'
    <3>1. \A s \in Slots : slot'[k] <= s /\ s < slot'[k] + rel'[k] => Ready(k, s)'
      BY <1>0, <1>1, <2>1, <2>5, Bounds
    <3>2. p = "wait" => rel'[k] < chunk'[k]
      BY <1>0, <2>1, <2>2
    <3> QED
      BY <1>0, <1>3, <2>1, <2>2, <2>6, <2>7, <3>1, <3>2 DEF StageInv, Busy, Waiting
  <2>9. p \in Places \ {"none"} /\ rel[k] + 1 \in Nat /\ rel' = [rel EXCEPT ![k] = rel[k] + 1]
    BY <1>1, <1>6, <2>2 DEF Places, Busy
  <2> QED
    BY <1>0, <1>1, <2>1, <2>8, <2>9, QuietStep DEF Types
<1> QED
  BY <1>4, <1>5, <1>6 DEF wait_prev

\* A "ready" stage widens its span by slots it has seen done.
LEMMA CollectKeeps ==
    ASSUME IInv, NEW k \in Stages, collect_ready_chunk(k) PROVE IInv'
<1>0. /\ Types /\ StageInv(k) /\ pc[k] = "collect"
      /\ UNCHANGED <<mode, n_slots, failed, done, started, complete, next_layer, host, created, passes, slot, rel, layer>>
  BY DEF IInv, collect_ready_chunk, batch, wave, caller
<1>1. /\ slot[k] \in Nat /\ chunk[k] \in Nat /\ rel[k] \in Nat /\ layer[k] \in Nat /\ n_slots \in Nat
      /\ slot' = [slot EXCEPT ![k] = slot[k]] /\ rel' = [rel EXCEPT ![k] = rel[k]]
      /\ layer' = [layer EXCEPT ![k] = layer[k]]
  BY <1>0, Bounds DEF Types
<1>2. /\ InSpan(k) /\ mode # "wavefront" /\ SpanProgress(k)
      /\ \A s \in Span(k) : Ready(k, s)
  BY <1>0 DEF StageInv, Busy, WaveProgress
<1>3. slot[k] < n_slots /\ chunk[k] > 0 /\ slot[k] + chunk[k] <= n_slots
  BY <1>1, <1>2 DEF InSpan
<1> DEFINE max == Smaller(ReadyChunk, n_slots - slot[k])
<1>4. max \in Nat /\ max > 0 /\ max <= n_slots - slot[k]
  BY <1>1, <1>3, Numbers, SmallerOf
<1> HIDE DEF max
<1>5. \E c \in Nat, p \in {"collect", "work"} :
         /\ chunk' = [chunk EXCEPT ![k] = c] /\ pc' = [pc EXCEPT ![k] = p]
         /\ c > 0 /\ slot[k] + c <= n_slots
         /\ k = 0 \/ c = chunk[k] \/ (c = chunk[k] + 1 /\ PrevDone(k, slot[k] + chunk[k]))
  <2>1. CASE /\ k = 0
             /\ chunk' = [chunk EXCEPT ![k] = Smaller(Stage0Chunk, max)]
             /\ pc' = Moved(k, "work")
    <3>1. /\ Smaller(Stage0Chunk, max) \in Nat /\ Smaller(Stage0Chunk, max) > 0
          /\ slot[k] + Smaller(Stage0Chunk, max) <= n_slots
      BY <1>1, <1>4, Numbers, SmallerOf
    <3> QED
      BY <2>1, <3>1 DEF Moved
  <2>2. CASE /\ chunk[k] < max /\ PrevDone(k, slot[k] + chunk[k])
             /\ chunk' = [chunk EXCEPT ![k] = @ + 1]
             /\ UNCHANGED pc
    <3>1. pc' = [pc EXCEPT ![k] = "collect"] /\ chunk' = [chunk EXCEPT ![k] = chunk[k] + 1]
      BY <1>0, <2>2 DEF Types
    <3>2. chunk[k] + 1 \in Nat /\ chunk[k] + 1 > 0 /\ slot[k] + (chunk[k] + 1) <= n_slots
      BY <1>1, <1>4, <2>2
    <3> QED
      BY <2>2, <3>1, <3>2
  <2>3. CASE pc' = Moved(k, "work") /\ UNCHANGED chunk
    <3>1. pc' = [pc EXCEPT ![k] = "work"] /\ chunk' = [chunk EXCEPT ![k] = chunk[k]]
      BY <1>0, <2>3 DEF Types, Moved
    <3> QED
      BY <1>1, <1>3, <3>1
  <2> QED
    BY <2>1, <2>2, <2>3 DEF collect_ready_chunk, max
<1>6. PICK c \in Nat, p \in {"collect", "work"} :
         /\ chunk' = [chunk EXCEPT ![k] = c] /\ pc' = [pc EXCEPT ![k] = p]
         /\ c > 0 /\ slot[k] + c <= n_slots
         /\ k = 0 \/ c = chunk[k] \/ (c = chunk[k] + 1 /\ PrevDone(k, slot[k] + chunk[k]))
  BY <1>5
<1>7. chunk'[k] = c /\ pc'[k] = p /\ slot'[k] = slot[k]
  BY <1>0, <1>6 DEF Types
<1>8. \A s \in Span(k)' : Ready(k, s)'
  <2> SUFFICES ASSUME NEW s \in slot[k]..(slot[k] + c - 1) PROVE Ready(k, s)
    BY <1>0, <1>7 DEF Span, Ready
  <2>1. s \in Nat /\ s \in Slots
    BY <1>0, <1>1, <1>6, Bounds
  <2>2. CASE s \in Span(k)
    BY <1>2, <2>2
  <2>3. CASE k = 0
    BY <2>3 DEF Ready
  <2>4. CASE s \notin Span(k) /\ k # 0
    <3>1. s = slot[k] + chunk[k] /\ PrevDone(k, s)
      BY <1>1, <1>6, <2>1, <2>4 DEF Span
    <3> QED
      BY <2>1, <3>1, PrevDoneIsReady
  <2> QED
    BY <2>2, <2>3, <2>4
<1>9. SpanProgress(k)' /\ InSpan(k)'
  BY <1>0, <1>2, <1>6, <1>7 DEF SpanProgress, InSpan
<1>10. StageInv(k)'
  BY <1>0, <1>2, <1>6, <1>7, <1>8, <1>9 DEF StageInv, Busy, Waiting
<1> QED
  BY <1>0, <1>1, <1>6, <1>10, QuietStep DEF Types, Places, Busy

-----------------------------------------------------------------------------
\* The wavefront goes on with a group of slots that are due.
LEMMA ContinueKeeps ==
    ASSUME IInv, NEW k \in Stages, pc[k] = "pick", mode = "wavefront",
           NEW max \in Nat \ {0}, NEW min \in Nat, Groups(k, max, min) # {},
           Continue(k, find_layer_group(k, max, min)),
           UNCHANGED <<mode, batch, caller, passes, faults>>
    PROVE  IInv'
<1> DEFINE g == find_layer_group(k, max, min)
<1>0. /\ Types /\ StageInv(k) /\ WaveProgress(k)
      /\ UNCHANGED <<mode, n_slots, failed, done, started, complete, next_layer, host, created, passes>>
  BY DEF IInv, StageInv, Busy, Continue, batch, caller, wave
<1>1. /\ g.layer \in Nat /\ First(k) < g.layer /\ g.layer <= Final(k)
      /\ g.slot \in Nat /\ g.chunk \in Nat \ {0}
      /\ \A b \in g.slot..(g.slot + g.chunk - 1) : Due(k, g.layer, b)
  BY <1>0, GroupIsDue
<1>2. /\ slot' = [slot EXCEPT ![k] = g.slot] /\ chunk' = [chunk EXCEPT ![k] = g.chunk]
      /\ rel' = [rel EXCEPT ![k] = 0] /\ layer' = [layer EXCEPT ![k] = g.layer]
      /\ pc' = [pc EXCEPT ![k] = "work"]
  BY DEF Continue, Take, Moved
<1> HIDE DEF g
<1>3. pc'[k] = "work" /\ slot'[k] = g.slot /\ chunk'[k] = g.chunk /\ layer'[k] = g.layer
  BY <1>0, <1>2 DEF Types
<1>4. Span(k)' = g.slot..(g.slot + g.chunk - 1)
  BY <1>3 DEF Span
<1>5. \A s \in Span(k)' : s < n_slots /\ s \in Slots /\ next_layer[k][s] = g.layer /\ s \in started[k]
  <2> SUFFICES ASSUME NEW s \in g.slot..(g.slot + g.chunk - 1)
               PROVE  s < n_slots /\ s \in Slots /\ next_layer[k][s] = g.layer /\ s \in started[k]
    BY <1>4
  <2>1. s \in Nat /\ s < n_slots /\ next_layer[k][s] = g.layer
    BY <1>1 DEF Due
  <2>2. s \in Slots /\ g.layer # 0
    BY <1>0, <1>1, <2>1, Bounds, LayersFollow
  <2> QED
    BY <1>0, <2>1, <2>2 DEF WaveProgress
<1>6. InSpan(k)'
  <2>1. g.slot + g.chunk - 1 \in g.slot..(g.slot + g.chunk - 1)
    BY <1>1
  <2>2. g.slot + g.chunk - 1 < n_slots
    BY <1>4, <1>5, <2>1
  <2> QED
    BY <1>0, <1>1, <1>3, <2>2, Bounds DEF InSpan
<1>7. g.layer \in Own(k) /\ g.layer # First(k)
  BY <1>1, LayersFollow DEF Own
<1>8. WaveProgress(k)'
  BY <1>0, <1>3, <1>5, <1>7 DEF WaveProgress, Waiting
<1>9. StageInv(k)'
  BY <1>0, <1>3, <1>6, <1>7, <1>8 DEF StageInv, Busy, Waiting
<1> QED
  BY <1>0, <1>1, <1>2, <1>9, QuietStep DEF Types, Places, Busy

\* The wavefront starts a slot, which is ready unless it will be awaited.
LEMMA BeginKeeps ==
    ASSUME IInv, NEW k \in Stages, pc[k] = "pick", mode = "wavefront",
           NEW s \in Unstarted(k), NEW p \in {"work", "wait"},
           p = "work" => k = 0 \/ PrevDone(k, s),
           Take(k, s, 1, First(k), p), Begun(k, s),
           UNCHANGED <<mode, batch, caller, passes, faults>>
    PROVE  IInv'
<1>0. /\ Types /\ StageInv(k) /\ WaveProgress(k)
      /\ UNCHANGED <<mode, n_slots, failed, done, complete, host, created, passes>>
  BY DEF IInv, StageInv, Busy, Begun, batch, caller
<1>1. s \in Slots /\ s < n_slots /\ s \notin started[k] /\ s \notin complete[k] /\ s \in Nat /\ First(k) \in Nat
  BY <1>0, Bounds, LayersFollow DEF Unstarted
<1>2. /\ slot' = [slot EXCEPT ![k] = s] /\ chunk' = [chunk EXCEPT ![k] = 1]
      /\ rel' = [rel EXCEPT ![k] = 0] /\ layer' = [layer EXCEPT ![k] = First(k)]
      /\ pc' = [pc EXCEPT ![k] = p]
  BY DEF Take, Moved
<1>3. pc'[k] = p /\ slot'[k] = s /\ chunk'[k] = 1 /\ layer'[k] = First(k) /\ rel'[k] = 0
  BY <1>0, <1>2 DEF Types
<1>4. /\ started' \in [Stages -> SUBSET Slots] /\ next_layer' \in [Stages -> [Slots -> Nat]]
      /\ \A j \in Stages \ {k} : started'[j] = started[j] /\ next_layer'[j] = next_layer[j]
      /\ started'[k] = started[k] \cup {s}
      /\ next_layer'[k] = [next_layer[k] EXCEPT ![s] = First(k)]
  BY <1>0, <1>1 DEF Types, Begun
<1>5. /\ next_layer'[k][s] = First(k)
      /\ \A t \in Slots : t # s => next_layer'[k][t] = next_layer[k][t]
  BY <1>0, <1>1, <1>4 DEF Types
<1>6. Span(k)' = {s}
  BY <1>1, <1>3 DEF Span
<1>7. InSpan(k)'
  BY <1>0, <1>1, <1>3, Bounds DEF InSpan
<1>8. /\ First(k) \in Own(k) /\ First(k) <= Final(k) /\ Final(k) \in Nat
      /\ \A l \in Own(k) : l \in Int /\ First(k) <= l
  BY LayersFollow DEF Own
<1>9. \A l \in Own(k) : passes[l][s] = 0
  BY <1>0, <1>1, <1>8 DEF WaveProgress
<1>10. WaveProgress(k)'
  <2>1. ASSUME NEW t \in Slots
        PROVE  /\ t \in started'[k] =>
                     /\ First(k) <= next_layer'[k][t] /\ next_layer'[k][t] <= Final(k) + 1
                     /\ t \in complete'[k] <=> next_layer'[k][t] = Final(k) + 1
               /\ t \notin started'[k] => t \notin complete'[k] /\ next_layer'[k][t] = 0
               /\ \A l \in Own(k) : passes'[l][t] = IF l < next_layer'[k][t] THEN 1 ELSE 0
    <3>1. CASE t = s
      BY <1>0, <1>1, <1>4, <1>5, <1>8, <1>9, <3>1
    <3>2. CASE t # s
      BY <1>0, <1>4, <1>5, <3>2 DEF WaveProgress
    <3> QED
      BY <3>1, <3>2
  <2>2. \A t \in complete'[k] : t < n_slots'
    BY <1>0 DEF WaveProgress
  <2>3. \A t \in Span(k)' : t \in started'[k] /\ next_layer'[k][t] = layer'[k]
    BY <1>3, <1>4, <1>5, <1>6
  <2> QED
    BY <1>3, <1>8, <2>1, <2>2, <2>3 DEF WaveProgress, Waiting
<1>11. p = "work" => \A t \in Span(k)' : Ready(k, t)'
  BY <1>0, <1>1, <1>6, PrevDoneIsReady DEF Ready
<1>12. StageInv(k)'
  <2>0. Slots \subseteq Nat
    BY <1>0, Bounds
  <2>1. \A t \in Slots : ~(slot'[k] <= t /\ t < slot'[k] + rel'[k])
    <3> SUFFICES ASSUME NEW t \in Slots, slot'[k] <= t, t < slot'[k] + rel'[k] PROVE FALSE
      OBVIOUS
    <3>1. slot'[k] + rel'[k] = s /\ slot'[k] = s /\ s \in Nat /\ t \in Nat
      BY <1>1, <1>3, <2>0
    <3> QED
      BY <3>1
  <2> QED
    BY <1>0, <1>3, <1>7, <1>10, <1>11, <2>1 DEF StageInv, Busy, Waiting
<1> QED
  BY <1>0, <1>1, <1>2, <1>4, <1>12, QuietStep DEF Places, Busy

\* One turn of the wavefront's loop.
LEMMA PickWaveKeeps ==
    ASSUME IInv, NEW k \in Stages, PickWave(k) PROVE IInv'
<1>0. /\ Types /\ StageInv(k) /\ pc[k] = "pick" /\ mode = "wavefront"
      /\ UNCHANGED <<mode, batch, caller, passes, faults>>
      /\ UNCHANGED <<mode, n_slots, failed, done, host, created, passes>>
  BY DEF IInv, PickWave, batch, caller
<1>n. WaveChunk \in Nat \ {0} /\ 1 \in Nat \ {0} /\ WaveChunk \in Nat /\ 2 \in Nat /\ 1 \in Nat
  BY Numbers
<1>1. CASE WaveDone(k) /\ pc' = Moved(k, "gone") /\ UNCHANGED <<span, wave>>
  <2>1. pc' = [pc EXCEPT ![k] = "gone"] /\ pc'[k] = "gone"
    BY <1>0, <1>1 DEF Moved, Types
  <2>2. /\ slot' = [slot EXCEPT ![k] = slot[k]] /\ chunk' = [chunk EXCEPT ![k] = chunk[k]]
        /\ rel' = [rel EXCEPT ![k] = rel[k]] /\ layer' = [layer EXCEPT ![k] = layer[k]]
        /\ slot[k] \in Nat /\ chunk[k] \in Nat /\ rel[k] \in Nat /\ layer[k] \in Nat
        /\ UNCHANGED <<started, complete, next_layer>>
    BY <1>0, <1>1 DEF span, wave, Types
  <2>3. failed \/ \A s \in Slots : s < n_slots => passes[Final(k)][s] = 1
    <3> SUFFICES ASSUME Cardinality(complete[k]) >= n_slots, NEW s \in Slots, s < n_slots
                 PROVE  passes[Final(k)][s] = 1
      BY <1>1 DEF WaveDone
    <3>0. WaveProgress(k)
      BY <1>0 DEF StageInv, Busy
    <3>1. n_slots \in Nat /\ Slots \subseteq Nat
      BY <1>0, Bounds
    <3>2. \A t \in complete[k] : t \in Slots /\ t < n_slots
      BY <1>0, <3>0 DEF WaveProgress, Types
    <3>3. s \in complete[k]
      BY <3>1, <3>2, AllCounted
    <3>4. Final(k) \in Own(k) /\ Final(k) \in Nat
      BY LayersFollow
    <3> QED
      BY <3>0, <3>3, <3>4 DEF WaveProgress
  <2>4. StageInv(k)'
    BY <1>0, <2>1, <2>3 DEF StageInv, Busy, Waiting
  <2> QED
    BY <1>0, <2>1, <2>2, <2>4, QuietStep DEF Types, Places
<1>2. ASSUME NEW max \in Nat \ {0}, NEW min \in Nat, Groups(k, max, min) # {},
             Continue(k, find_layer_group(k, max, min))
      PROVE  IInv'
  BY <1>0, <1>2, ContinueKeeps
<1>3. ASSUME NEW s \in Unstarted(k), IF k = 0 THEN \A t \in Unstarted(k) : s <= t ELSE PrevDone(k, s),
             Take(k, s, 1, First(k), "work"), Begun(k, s)
      PROVE  IInv'
  BY <1>0, <1>3, BeginKeeps
<1>4. ASSUME Unstarted(k) # {}, Take(k, Min(Unstarted(k)), 1, First(k), "wait"), Begun(k, Min(Unstarted(k)))
      PROVE  IInv'
  <2>1. Unstarted(k) \subseteq 0..MaxSlots /\ MaxSlots \in Nat
    BY <1>0, Bounds DEF Unstarted, Slots
  <2>2. \E x \in Unstarted(k) : \A y \in Unstarted(k) : x <= y
    BY <1>4, <2>1, Least
  <2>3. Min(Unstarted(k)) \in Unstarted(k)
    BY <2>2 DEF Min
  <2> QED
    BY <1>0, <1>4, <2>3, BeginKeeps
<1> QED
  BY <1>n, <1>1, <1>2, <1>3, <1>4 DEF PickWave

-----------------------------------------------------------------------------
\* A stage runs its span.
LEMMA WorkKeeps ==
    ASSUME IInv, NEW k \in Stages, Work(k) PROVE IInv'
<1>0. /\ Types /\ Ordered /\ StageInv(k) /\ pc[k] = "work" /\ passes' = Ran(k)
      /\ rel' = [rel EXCEPT ![k] = 0]
      /\ UNCHANGED <<mode, n_slots, failed, done, slot, chunk, layer, started, host, created>>
  BY DEF IInv, Work, batch, caller
<1>1. /\ InSpan(k) /\ InSpan(k)' /\ Span(k)' = Span(k)
      /\ IF mode = "wavefront" THEN WaveProgress(k) ELSE SpanProgress(k)
  BY <1>0 DEF StageInv, Busy, InSpan, Span
<1>2. /\ passes' \in [Layers -> [Slots -> Nat]] /\ Ordered'
      /\ \A l \in Layers \ Own(k), s \in Slots : passes'[l][s] = passes[l][s]
      /\ \A l \in Layers, s \in Slots : passes[l][s] = 1 => passes'[l][s] = 1
      /\ \A l \in Layers, s \in Slots : s \notin Span(k) => passes'[l][s] = passes[l][s]
      /\ \A l \in Layers, s \in Slots : s \in Span(k) =>
            passes'[l][s] = IF l <= To(k) THEN 1 ELSE 0
  BY <1>0, RanOrdered
<1>3. /\ Span(k) \subseteq {s \in Slots : s < n_slots}
      /\ \A s \in Slots : s \in Span(k) <=> slot[k] <= s /\ s < slot[k] + chunk[k]
  BY <1>0, <1>1, SpanInBatch
<1>4. slot[k] \in Nat /\ chunk[k] \in Nat /\ n_slots \in Nat /\ Slots \subseteq Nat /\ layer[k] \in Nat
  BY <1>0, Bounds DEF Types
<1>5. rel'[k] = 0 /\ rel'[k] < chunk[k] /\ \A j \in Stages \ {k} : rel'[j] = rel[j]
  BY <1>0, <1>1, <1>4 DEF InSpan, Types
<1>6. /\ First(k) \in Nat /\ Final(k) \in Nat /\ First(k) <= Final(k) /\ Own(k) \subseteq Layers
      /\ Final(k) \in Own(k) /\ \A l \in Own(k) : l \in Nat /\ First(k) <= l /\ l <= Final(k)
  BY LayersFollow DEF Own
<1>7. \A s \in Slots : <<k, s>> \in done' => passes'[Final(k)][s] = 1
  BY <1>0, <1>2, <1>6 DEF StageInv
<1>8. CASE mode # "wavefront"
  <2>1. /\ UNCHANGED <<next_layer, complete>>
        /\ \E p \in IF failed THEN {"mark", "gone"} ELSE {"mark"} : pc' = Moved(k, p)
    BY <1>8 DEF Work
  <2>2. PICK p \in {"mark", "gone"} : pc' = [pc EXCEPT ![k] = p] /\ (p = "gone" => failed)
    BY <2>1 DEF Moved
  <2>3. pc'[k] = p /\ \A j \in Stages \ {k} : pc'[j] = pc[j]
    BY <1>0, <2>2 DEF Types
  <2>4. Types'
    BY <1>0, <1>2, <2>1, <2>2 DEF Types, Places, Busy
  <2>5. p = "mark" => SpanProgress(k)'
    <3> SUFFICES ASSUME p = "mark", NEW l \in Own(k), NEW s \in Slots
                 PROVE  passes'[l][s] = IF s < slot[k] \/ s < slot[k] + chunk[k] THEN 1 ELSE 0
      BY <1>0, <1>1, <1>8, <2>3 DEF SpanProgress
    <3>1. l \in Layers /\ l <= To(k)
      BY <1>6, <1>8 DEF To
    <3>2. passes[l][s] = IF s < slot[k] THEN 1 ELSE 0
      BY <1>0, <1>1, <1>8 DEF SpanProgress
    <3> QED
      BY <1>2, <1>3, <1>4, <3>1, <3>2
  <2>6. StageInv(k)'
    BY <1>0, <1>1, <1>5, <1>7, <1>8, <2>2, <2>3, <2>5 DEF StageInv, Busy, Waiting
  <2> QED
    BY <1>0, <1>2, <1>5, <2>1, <2>2, <2>3, <2>4, <2>6, StepOf
<1>9. CASE mode = "wavefront"
  <2> DEFINE p == IF layer[k] = Final(k) THEN "mark" ELSE "pick"
             C == IF layer[k] = Final(k) THEN complete[k] \cup Span(k) ELSE complete[k]
             N == [s \in Slots |-> IF s \in Span(k) THEN layer[k] + 1 ELSE next_layer[k][s]]
  <2>1. /\ next_layer' = [next_layer EXCEPT ![k] = N]
        /\ complete' = [complete EXCEPT ![k] = C]
        /\ pc' = [pc EXCEPT ![k] = p]
    BY <1>0, <1>9 DEF Work, Moved, Types
  <2>2. /\ C \in SUBSET Slots /\ N \in [Slots -> Nat]
        /\ p \in {"mark", "pick"} /\ (p = "mark" <=> layer[k] = Final(k))
        /\ \A s \in Slots : N[s] = IF s \in Span(k) THEN layer[k] + 1 ELSE next_layer[k][s]
        /\ \A s \in Slots : s \in C <=> s \in complete[k] \/ (s \in Span(k) /\ layer[k] = Final(k))
    <3>1. complete[k] \in SUBSET Slots /\ next_layer[k] \in [Slots -> Nat]
      BY <1>0 DEF Types
    <3> QED
      BY <1>3, <1>4, <3>1
  <2> HIDE DEF p, C, N
  <2>3. /\ pc'[k] = p /\ complete'[k] = C /\ next_layer'[k] = N
        /\ \A j \in Stages \ {k} : pc'[j] = pc[j] /\ complete'[j] = complete[j] /\ next_layer'[j] = next_layer[j]
    BY <1>0, <2>1 DEF Types
  <2>4. Types'
    BY <1>0, <1>2, <2>1, <2>2 DEF Types, Places, Busy
  <2>5. WaveProgress(k) /\ layer[k] \in Own(k) /\ To(k) = layer[k]
        /\ \A s \in Span(k) : s \in started[k] /\ next_layer[k][s] = layer[k]
    BY <1>0, <1>1, <1>9 DEF WaveProgress, To
  <2>6. ASSUME NEW s \in Slots
        PROVE  /\ s \in started[k] =>
                     /\ First(k) <= N[s] /\ N[s] <= Final(k) + 1
                     /\ s \in C <=> N[s] = Final(k) + 1
               /\ s \notin started[k] => s \notin C /\ N[s] = 0
               /\ \A l \in Own(k) : passes'[l][s] = IF l < N[s] THEN 1 ELSE 0
    <3>1. CASE s \in Span(k)
      <4>1. s \in started[k] /\ next_layer[k][s] = layer[k] /\ N[s] = layer[k] + 1
        BY <2>2, <2>5, <3>1
      <4>2. layer[k] <= Final(k) /\ First(k) <= layer[k]
        BY <1>6, <2>5
      <4>3. s \notin complete[k]
        BY <1>6, <2>5, <4>1, <4>2 DEF WaveProgress
      <4>4. \A l \in Own(k) : passes'[l][s] = IF l <= layer[k] THEN 1 ELSE 0
        BY <1>2, <1>6, <2>5, <3>1
      <4>5. \A l \in Own(k) : passes'[l][s] = IF l < N[s] THEN 1 ELSE 0
        BY <1>4, <1>6, <4>1, <4>4
      <4> QED
        BY <1>4, <1>6, <2>2, <3>1, <4>1, <4>2, <4>3, <4>5
    <3>2. CASE s \notin Span(k)
      <4>1. N[s] = next_layer[k][s] /\ (s \in C <=> s \in complete[k])
        BY <2>2, <3>2
      <4>2. \A l \in Own(k) : passes'[l][s] = passes[l][s]
        BY <1>2, <1>6, <3>2
      <4> QED
        BY <2>5, <4>1, <4>2 DEF WaveProgress
    <3> QED
      BY <3>1, <3>2
  <2>7. \A s \in C : s < n_slots
    BY <1>3, <2>2, <2>5 DEF WaveProgress
  <2>8. p = "mark" => \A s \in Span(k) : s \in C
    BY <1>3, <2>2
  <2>9. WaveProgress(k)'
    BY <1>0, <1>1, <2>2, <2>3, <2>6, <2>7, <2>8 DEF WaveProgress, Waiting
  <2>10. StageInv(k)'
    BY <1>0, <1>1, <1>5, <1>7, <1>9, <2>2, <2>3, <2>9 DEF StageInv, Busy, Waiting
  <2> QED
    BY <1>0, <1>2, <1>5, <2>2, <2>3, <2>4, <2>10, StepOf
<1> QED
  BY <1>8, <1>9

\* A span that fails has been run or not.
LEMMA WorkFailsKeeps ==
    ASSUME IInv, NEW k \in Stages, WorkFails(k) PROVE IInv'
<1>0. /\ Types /\ Ordered /\ StageInv(k) /\ pc[k] = "work" /\ passes' \in {passes, Ran(k)}
      /\ pc' = [pc EXCEPT ![k] = "fail"]
      /\ UNCHANGED <<mode, n_slots, failed, done, slot, chunk, rel, layer, started, complete, next_layer, host, created>>
  BY DEF IInv, WorkFails, Moved, batch, span, wave, caller
<1>1. pc'[k] = "fail" /\ \A j \in Stages \ {k} : pc'[j] = pc[j]
  BY <1>0 DEF Types
<1>2. /\ passes' \in [Layers -> [Slots -> Nat]] /\ Ordered'
      /\ \A l \in Layers \ Own(k), s \in Slots : passes'[l][s] = passes[l][s]
      /\ \A l \in Layers, s \in Slots : passes[l][s] = 1 => passes'[l][s] = 1
  <2>1. CASE passes' = passes
    BY <1>0, <2>1 DEF Types, Ordered
  <2>2. CASE passes' = Ran(k)
    BY <1>0, <2>2, RanOrdered
  <2> QED
    BY <1>0, <2>1, <2>2
<1>3. Types'
  BY <1>0, <1>2 DEF Types, Places
<1>4. StageInv(k)'
  <2>1. Final(k) \in Layers
    BY LayersFollow
  <2> QED
    BY <1>0, <1>1, <1>2, <2>1 DEF StageInv, Busy, Waiting
<1> QED
  BY <1>0, <1>1, <1>2, <1>3, <1>4, StepOf

\* A slot that is marked has been run.
LEMMA mark_doneKeeps ==
    ASSUME IInv, NEW k \in Stages, mark_done(k) PROVE IInv'
<1> DEFINE last == ~(rel[k] + 1 < chunk[k])
           p == IF last THEN "pick" ELSE "mark"
           a == IF last /\ mode # "wavefront" THEN slot[k] + chunk[k] ELSE slot[k]
<1>0. /\ Types /\ Ordered /\ StageInv(k) /\ pc[k] = "mark"
      /\ done' = done \cup {<<k, slot[k] + rel[k]>>}
      /\ rel' = [rel EXCEPT ![k] = @ + 1]
      /\ UNCHANGED <<mode, n_slots, failed, chunk, layer, started, complete, next_layer, host, created, passes>>
  BY DEF IInv, mark_done, wave, caller
<1>1. /\ slot[k] \in Nat /\ chunk[k] \in Nat /\ rel[k] \in Nat
      /\ n_slots \in Nat /\ Slots \subseteq Nat
  BY <1>0, Bounds DEF Types
<1>2. /\ InSpan(k) /\ rel[k] < chunk[k]
      /\ IF mode = "wavefront" THEN WaveProgress(k) ELSE SpanProgress(k)
  BY <1>0 DEF StageInv, Busy, Waiting
<1>3. pc' = Broadcast(k, p) /\ slot' = [slot EXCEPT ![k] = a]
  BY <1>0 DEF mark_done, Types
<1>4. p \in {"pick", "mark"} /\ (p = "pick" <=> last) /\ a \in Nat
  BY <1>1
<1>5. /\ pc'[k] = p /\ slot'[k] = a /\ rel'[k] = rel[k] + 1 /\ chunk'[k] = chunk[k]
      /\ \A j \in Stages \ {k} :
            /\ pc'[j] = pc[j] \/ (pc[j] = "asleep" /\ pc'[j] = "wait")
            /\ slot'[j] = slot[j] /\ rel'[j] = rel[j]
  <2> HIDE DEF p, a
  <2> QED
    BY <1>0, <1>3 DEF Broadcast, Types
<1>6. Types' /\ Ordered'
  <2>1. pc' \in [Stages -> Places]
    <3> HIDE DEF p
    <3> QED
      BY <1>0, <1>3, <1>4 DEF Broadcast, Types, Places, Busy
  <2>2. slot' \in [Stages -> Nat] /\ rel' \in [Stages -> Nat]
    <3> HIDE DEF a
    <3> QED
      BY <1>0, <1>1, <1>3, <1>4 DEF Types
  <2> QED
    BY <1>0, <2>1, <2>2 DEF Types, Ordered
<1>7. Final(k) \in Own(k) /\ Final(k) \in Nat
  BY LayersFollow
<1>8. slot[k] + rel[k] \in Slots /\ slot[k] + rel[k] \in Span(k)
  BY <1>0, <1>1, <1>2, Bounds DEF InSpan, Span
<1>9. passes[Final(k)][slot[k] + rel[k]] = 1
  <2>1. CASE mode = "wavefront"
    BY <1>0, <1>2, <1>7, <1>8, <2>1 DEF WaveProgress
  <2>2. CASE mode # "wavefront"
    BY <1>0, <1>1, <1>2, <1>7, <1>8, <2>2 DEF SpanProgress
  <2> QED
    BY <2>1, <2>2
<1>10. \A s \in Slots : <<k, s>> \in done' => passes'[Final(k)][s] = 1
  BY <1>0, <1>9 DEF StageInv
<1>11. IF mode' = "wavefront" THEN WaveProgress(k)' ELSE SpanProgress(k)'
  <2>1. CASE mode = "wavefront"
    <3>1. slot'[k] = slot[k]
      BY <1>5, <2>1
    <3>2. Span(k)' = Span(k)
      BY <1>0, <3>1 DEF Span
    <3> HIDE DEF p
    <3> QED
      BY <1>0, <1>2, <1>4, <1>5, <2>1, <3>2 DEF WaveProgress, Waiting
  <2>2. CASE mode # "wavefront"
    <3>1. slot'[k] <= n_slots
      BY <1>1, <1>2, <1>5 DEF InSpan
    <3>2. SpanProgress(k)
      BY <1>2, <2>2
    <3>3. ASSUME NEW s \in Slots
          PROVE  (s < slot[k] \/ s < slot[k] + chunk[k])
                    <=> (s < slot'[k] \/ (pc'[k] = "mark" /\ s < slot'[k] + chunk'[k]))
      <4>1. s \in Nat
        BY <1>1
      <4>2. CASE last
        <5>1. pc'[k] = "pick" /\ slot'[k] = slot[k] + chunk[k]
          BY <1>5, <2>2, <4>2
        <5> QED
          BY <1>1, <4>1, <5>1
      <4>3. CASE ~last
        <5>1. pc'[k] = "mark" /\ slot'[k] = slot[k]
          BY <1>5, <2>2, <4>3
        <5> QED
          BY <1>1, <1>5, <4>1, <5>1
      <4> QED
        BY <4>2, <4>3
    <3> QED
      BY <1>0, <2>2, <3>1, <3>2, <3>3 DEF SpanProgress
  <2> QED
    BY <1>0, <2>1, <2>2
<1>12. p = "mark" => InSpan(k)' /\ rel'[k] < chunk'[k]
  BY <1>0, <1>1, <1>2, <1>5 DEF InSpan
<1> HIDE DEF p, a, last
<1>13. StageInv(k)'
  BY <1>0, <1>4, <1>5, <1>10, <1>11, <1>12 DEF StageInv, Busy, Waiting
<1>14. \A j \in Stages \ {k}, s \in Slots : <<j, s>> \in done' => <<j, s>> \in done
  BY <1>0
<1> QED
  BY <1>0, <1>4, <1>5, <1>6, <1>13, <1>14, StepOf

LEMMA failKeeps ==
    ASSUME IInv, NEW k \in Stages, fail(k) PROVE IInv'
<1>0. /\ Types /\ Ordered /\ StageInv(k) /\ pc[k] = "fail" /\ failed' = TRUE /\ pc' = Broadcast(k, "gone")
      /\ UNCHANGED <<mode, n_slots, done, slot, chunk, rel, layer, started, complete, next_layer, host, created, passes>>
  BY DEF IInv, fail, span, wave, caller
<1>1. pc'[k] = "gone" /\ \A j \in Stages \ {k} : pc'[j] = pc[j] \/ (pc[j] = "asleep" /\ pc'[j] = "wait")
  BY <1>0 DEF Broadcast
<1>2. Types' /\ Ordered'
  <2>1. pc' \in [Stages -> Places]
    BY <1>0 DEF Broadcast, Types, Places, Busy
  <2>2. failed' \in BOOLEAN
    BY <1>0
  <2> QED
    BY <1>0, <2>1, <2>2 DEF Types, Ordered
<1>3. StageInv(k)'
  BY <1>0, <1>1 DEF StageInv, Busy, Waiting
<1> QED
  BY <1>0, <1>1, <1>2, <1>3, StepOf

-----------------------------------------------------------------------------
\* A new batch finds no thread and nothing done.
LEMMA FeedKeeps ==
    ASSUME IInv, NEW n \in 2..MaxSlots, feed_token_batch(n) PROVE IInv'
<1>0. /\ Types /\ Threads /\ host = "idle" /\ n_slots' = n /\ failed' = FALSE /\ done' = {}
      /\ slot' = PerStage(0) /\ chunk' = PerStage(0) /\ rel' = PerStage(0) /\ layer' = PerStage(0)
      /\ started' = PerStage({}) /\ complete' = PerStage({})
      /\ next_layer' = PerStage([s \in Slots |-> 0])
      /\ host' = "create" /\ created' = 0 /\ passes' = Untouched /\ pc' = pc
  BY DEF IInv, feed_token_batch
<1>1. passes' \in [Layers -> [Slots -> Nat]] /\ \A l \in Layers, s \in Slots : passes'[l][s] = 0
  BY <1>0 DEF Untouched
<1>2. Types'
  <2>1. slot' \in [Stages -> Nat] /\ chunk' \in [Stages -> Nat] /\ rel' \in [Stages -> Nat] /\ layer' \in [Stages -> Nat]
    BY <1>0 DEF PerStage
  <2>2. started' \in [Stages -> SUBSET Slots] /\ complete' \in [Stages -> SUBSET Slots]
    BY <1>0 DEF PerStage
  <2>3. next_layer' \in [Stages -> [Slots -> Nat]]
    BY <1>0 DEF PerStage
  <2>4. n_slots' \in 0..MaxSlots /\ created' \in 0..NStages
    BY <1>0, Numbers
  <2>5. failed' \in BOOLEAN /\ pc' \in [Stages -> Places]
    BY <1>0 DEF Types
  <2> QED
    BY <1>1, <2>1, <2>2, <2>3, <2>4, <2>5 DEF Types
<1>3. Ordered'
  BY <1>1 DEF Ordered
<1>4. \A k \in Stages : pc'[k] = "none" /\ k >= 0
  BY <1>0, LayersFollow DEF Threads, InFeed
<1>5. Threads'
  BY <1>0, <1>4, Numbers DEF Threads, InFeed
<1>6. ASSUME NEW k \in Stages PROVE StageInv(k)'
  <2>1. /\ slot'[k] = 0 /\ chunk'[k] = 0 /\ started'[k] = {} /\ complete'[k] = {}
        /\ \A s \in Slots : next_layer'[k][s] = 0
    BY <1>0 DEF PerStage
  <2>2. Idle(k)'
    BY <1>1, <2>1, LayersFollow DEF Idle
  <2> QED
    BY <1>0, <1>4, <2>2 DEF StageInv, Busy, Waiting
<1> QED
  BY <1>2, <1>3, <1>5, <1>6 DEF IInv

\* A thread begins with nothing done by its stage.
LEMMA CreateKeeps ==
    ASSUME IInv, CreateThread PROVE IInv'
<1>0. /\ Types /\ Ordered /\ Threads /\ host = "create"
      /\ pc' = [pc EXCEPT ![created] = "pick"] /\ created' = created + 1
      /\ host' = IF created + 1 = NStages THEN "join" ELSE "create"
      /\ UNCHANGED <<mode, n_slots, failed, done, slot, chunk, rel, layer, started, complete, next_layer, passes>>
  BY DEF IInv, CreateThread, Moved, batch, span, wave
<1>k. PICK k \in Stages : k = created
  BY <1>0, Numbers DEF Types, Threads, Stages
<1>1. k \in Nat /\ NStages \in Nat /\ k < NStages /\ k = created
  BY <1>0, <1>k, Numbers DEF Threads, Stages
<1>2. pc[k] = "none" /\ InFeed /\ InFeed' /\ pc'[k] = "pick" /\ \A j \in Stages \ {k} : pc'[j] = pc[j]
  BY <1>0, <1>1 DEF Threads, InFeed, Types
<1>3. Types' /\ Ordered'
  <2>1. created' \in 0..NStages
    BY <1>0, <1>1
  <2> QED
    BY <1>0, <2>1 DEF Types, Ordered, Places, Busy
<1>4. Threads'
  <2>1. ASSUME NEW j \in Stages PROVE j >= created' <=> pc'[j] = "none"
    <3>1. j \in Nat /\ (j >= k <=> pc[j] = "none")
      BY <1>0, <1>2, LayersFollow DEF Threads
    <3> QED
      BY <1>0, <1>1, <1>2, <3>1
  <2>2. (host' = "create" => created' < NStages) /\ (host' = "join" => created' = NStages)
    BY <1>0, <1>1
  <2> QED
    BY <1>2, <2>1, <2>2 DEF Threads
<1>5. ASSUME NEW j \in Stages, j # k PROVE StageInv(j)'
  <2>1. StageInv(j) /\ pc'[j] = pc[j]
    BY <1>2, <1>5 DEF IInv
  <2> QED
    BY <1>0, <1>2, <2>1, Undisturbed
<1>6. StageInv(k)'
  <2>1. StageInv(k) /\ Idle(k)
    BY <1>1, <1>2 DEF IInv, StageInv
  <2>2. \A l \in Own(k) : l \in Nat
    BY <1>1, LayersFollow DEF Own
  <2>3. n_slots \in Nat
    BY <1>0, Bounds
  <2>4. mode # "wavefront" => SpanProgress(k)'
    BY <1>0, <1>2, <2>1, <2>3, Bounds DEF SpanProgress, Idle
  <2>5. mode = "wavefront" => WaveProgress(k)'
    BY <1>0, <1>2, <2>1, <2>2 DEF WaveProgress, Idle, Waiting
  <2> QED
    BY <1>0, <1>2, <2>1, <2>4, <2>5 DEF StageInv, Busy, Waiting
<1> QED
  BY <1>3, <1>4, <1>5, <1>6 DEF IInv

\* The steps that leave the batch alone: a failed create and wakeups.
LEMMA WakeKeeps ==
    ASSUME IInv,
           \A k \in Stages : pc'[k] = pc[k] \/ (pc[k] = "asleep" /\ pc'[k] = "wait"),
           pc' \in [Stages -> Places], failed' \in BOOLEAN, failed => failed',
           host' = host \/ (host = "create" /\ host' = "join" /\ failed'),
           UNCHANGED <<mode, n_slots, done, slot, chunk, rel, layer, started, complete, next_layer, created, passes>>
    PROVE  IInv'
<1>1. Types' /\ Ordered'
  BY DEF IInv, Types, Ordered
<1>2. Threads'
  <2>1. \A k \in Stages : pc'[k] = "none" <=> pc[k] = "none"
    OBVIOUS
  <2> QED
    BY <2>1 DEF IInv, Threads, InFeed
<1>3. ASSUME NEW j \in Stages PROVE StageInv(j)'
  <2>1. InFeed' => InFeed
    BY DEF InFeed
  <2> QED
    BY <2>1, Undisturbed DEF IInv
<1> QED
  BY <1>1, <1>2, <1>3 DEF IInv

LEMMA JoinKeeps ==
    ASSUME IInv, JoinThreads PROVE IInv'
<1>0. /\ pc' = PerStage("none") /\ host' = "idle"
      /\ UNCHANGED <<mode, n_slots, failed, done, slot, chunk, rel, layer, started, complete, next_layer, created, passes>>
  BY DEF JoinThreads, batch, span, wave
<1>1. Types' /\ Ordered'
  <2>1. pc' \in [Stages -> Places]
    BY <1>0 DEF PerStage, Places
  <2> QED
    BY <1>0, <2>1 DEF IInv, Types, Ordered
<1>2. \A k \in Stages : pc'[k] = "none"
  BY <1>0 DEF PerStage
<1>3. Threads'
  BY <1>0, <1>2 DEF Threads, InFeed
<1>4. \A k \in Stages : StageInv(k)'
  BY <1>0, <1>2 DEF IInv, StageInv, InFeed, Busy, Waiting
<1> QED
  BY <1>1, <1>3, <1>4 DEF IInv

\* The invariant is inductive.
LEMMA Inductive == IInv /\ [Next]_vars => IInv'
<1> SUFFICES ASSUME IInv, [Next]_vars PROVE IInv'
  OBVIOUS
<1>1. ASSUME CreateFails PROVE IInv'
  <2>1. pc' \in [Stages -> Places] /\ \A k \in Stages : pc'[k] = pc[k] \/ (pc[k] = "asleep" /\ pc'[k] = "wait")
    BY <1>1 DEF CreateFails, IInv, Types, Places, Busy
  <2>2. failed' \in BOOLEAN /\ failed' /\ host' = "join" /\ host = "create"
    BY <1>1 DEF CreateFails
  <2>3. UNCHANGED <<mode, n_slots, done, slot, chunk, rel, layer, started, complete, next_layer, created, passes>>
    BY <1>1 DEF CreateFails, span, wave
  <2> QED
    BY <2>1, <2>2, <2>3, WakeKeeps
<1>2. ASSUME SpuriousWakeup PROVE IInv'
  <2>1. PICK k \in Stages : pc[k] = "asleep" /\ pc' = [pc EXCEPT ![k] = "wait"]
    BY <1>2 DEF SpuriousWakeup, Moved
  <2>2. pc' \in [Stages -> Places] /\ \A j \in Stages : pc'[j] = pc[j] \/ (pc[j] = "asleep" /\ pc'[j] = "wait")
    BY <2>1 DEF IInv, Types, Places, Busy
  <2>3. UNCHANGED <<mode, n_slots, failed, done, slot, chunk, rel, layer, started, complete, next_layer, host, created, passes>>
    BY <1>2 DEF SpuriousWakeup, batch, span, wave, caller
  <2> QED
    BY <2>2, <2>3, WakeKeeps DEF IInv, Types
<1>3. ASSUME UNCHANGED vars PROVE IInv'
  <2>1. UNCHANGED <<mode, n_slots, failed, done, pc, slot, chunk, rel, layer, started, complete, next_layer, host, created, passes>>
    BY <1>3 DEF vars, batch, span, wave, caller
  <2> QED
    BY <2>1, WakeKeeps DEF IInv, Types
<1>4. ASSUME NEW k \in Stages, worker_main(k) PROVE IInv'
  BY <1>4, PickSpanKeeps, wait_prevKeeps, CollectKeeps, PickWaveKeeps, WorkKeeps, WorkFailsKeeps,
     mark_doneKeeps, failKeeps DEF worker_main
<1> QED
  BY <1>1, <1>2, <1>3, <1>4, FeedKeeps, CreateKeeps, JoinKeeps DEF Next

-----------------------------------------------------------------------------
\* A stage that runs a span takes its slots through the next layers.
LEMMA RanIsWork ==
    ASSUME IInv, NEW k \in Stages, pc[k] = "work", passes' = Ran(k), UNCHANGED <<n_slots, host, result>>
    PROVE  Pass!Work
<1>0. Types /\ StageInv(k) /\ Threads
  BY DEF IInv
<1>1. Span(k) \in SUBSET {s \in Slots : s < n_slots} /\ Span(k) # {}
  BY <1>0, SpanInBatch DEF StageInv, Busy
<1>2. /\ From(k) \in Layers /\ To(k) \in Layers /\ From(k) <= To(k)
      /\ \A s \in Span(k), l \in Layers : passes[l][s] = IF l < From(k) THEN 1 ELSE 0
      /\ passes' = [l \in Layers |-> [s \in Slots |->
            IF s \in Span(k) /\ From(k) <= l /\ l <= To(k) THEN 1 ELSE passes[l][s]]]
  BY WorkSafe, LayersFollow
<1>3. InFeed /\ InFeed'
  BY <1>0 DEF Threads, InFeed
<1>4. \E S \in SUBSET {s \in Slots : s < n_slots}, a, b \in Layers :
          /\ S # {} /\ a <= b
          /\ \A s \in S, l \in Layers : passes[l][s] = IF l < a THEN 1 ELSE 0
          /\ passes' = [l \in Layers |-> [s \in Slots |->
                           IF s \in S /\ a <= l /\ l <= b THEN 1 ELSE passes[l][s]]]
  BY <1>1, <1>2
<1>5. Pass!Layers = Layers /\ Pass!Slots = Slots
  BY DEF Pass!Layers, Pass!Slots, Layers, Slots
<1> QED
  BY <1>3, <1>4, <1>5 DEF Pass!Work

\* A call succeeds when all stages have gone without a failure.
LEMMA JoinIsReturn ==
    ASSUME IInv, JoinThreads PROVE Pass!Return
<1>1. InFeed /\ ~InFeed' /\ UNCHANGED <<n_slots, passes>> /\ (\A k \in Joined : pc[k] = "gone")
  BY DEF JoinThreads, InFeed, batch
<1>2. result' = "failed" \/ (result' = "ok" /\ ~failed)
  BY DEF JoinThreads
<1>3. ASSUME ~failed, NEW l \in Layers, NEW s \in Slots, s < n_slots PROVE passes[l][s] = 1
  <2>1. created = NStages
    BY <1>3 DEF JoinThreads, IInv, Threads
  <2>2. NStages - 1 \in Joined /\ NStages - 1 \in Stages /\ Final(NStages - 1) = NLayers - 1
    BY <2>1, Numbers, LayersFollow DEF Joined
  <2>3. passes[NLayers - 1][s] = 1
    BY <1>1, <1>3, <2>2 DEF IInv, StageInv
  <2>4. NLayers \in Nat /\ l \in Nat /\ (l = NLayers - 1 \/ l < NLayers - 1) /\ NLayers - 1 \in Layers
    BY LayersFollow DEF Layers
  <2> QED
    BY <2>3, <2>4 DEF IInv, Ordered
<1>4. Pass!Layers = Layers /\ Pass!Slots = Slots
  BY DEF Pass!Layers, Pass!Slots, Layers, Slots
<1> QED
  BY <1>1, <1>2, <1>3, <1>4 DEF Pass!Return

\* Every step is a step of the promise or changes nothing of it.
LEMMA Simulation == IInv /\ [Next]_vars => [Pass!Next]_(Pass!vars)
<1> SUFFICES ASSUME IInv, [Next]_vars PROVE [Pass!Next]_(Pass!vars)
  OBVIOUS
<1>1. ASSUME NEW n \in 2..MaxSlots, feed_token_batch(n) PROVE Pass!Begin
  <2>1. n \in 1..MaxSlots
    BY Numbers
  <2>2. Untouched = Pass!Untouched
    BY DEF Untouched, Pass!Untouched, Pass!Layers, Pass!Slots, Layers, Slots
  <2> QED
    BY <1>1, <2>1, <2>2 DEF feed_token_batch, InFeed, Pass!Begin
<1>2. ASSUME CreateThread \/ CreateFails PROVE UNCHANGED Pass!vars
  BY <1>2 DEF CreateThread, CreateFails, InFeed, batch, Pass!vars
<1>3. ASSUME SpuriousWakeup \/ UNCHANGED vars PROVE UNCHANGED Pass!vars
  BY <1>3 DEF SpuriousWakeup, vars, batch, caller, InFeed, Pass!vars
<1>4. ASSUME NEW k \in Stages, worker_main(k) PROVE [Pass!Next]_(Pass!vars)
  <2>1. CASE Work(k) \/ WorkFails(k)
    <3>1. pc[k] = "work" /\ UNCHANGED <<n_slots, host, result>> /\ passes' \in {passes, Ran(k)}
      BY <2>1 DEF Work, WorkFails, batch, caller
    <3>2. CASE passes' = Ran(k)
      BY <3>1, <3>2, RanIsWork DEF Pass!Next
    <3>3. CASE passes' = passes
      BY <3>1, <3>3 DEF InFeed, Pass!vars
    <3> QED
      BY <3>1, <3>2, <3>3
  <2>2. CASE PickSpan(k) \/ wait_prev(k) \/ collect_ready_chunk(k) \/ PickWave(k) \/ mark_done(k) \/ fail(k)
    <3>1. UNCHANGED <<n_slots, passes, host, result>>
      BY <2>2 DEF PickSpan, wait_prev, collect_ready_chunk, PickWave, mark_done, fail, batch, caller
    <3> QED
      BY <3>1 DEF InFeed, Pass!vars
  <2> QED
    BY <1>4, <2>1, <2>2 DEF worker_main
<1> QED
  BY <1>1, <1>2, <1>3, <1>4, JoinIsReturn DEF Next, Pass!Next

\* The per-step pipeline keeps the promise of StagePass: however its stages
\* group their slots, whatever the order in which they run, wake and fail and
\* however many threads could be created, each slot passes the layers in order
\* and once, success means that all of them did, and nothing is run for a call
\* that has returned (replay_step_pipeline_worker_main and its wavefront).
THEOREM StepPipelineKeepsPromise == Spec => FeedKeepsPromise
<1>1. Init => Pass!Init
  BY DEF Init, InFeed, Untouched, Pass!Init, Pass!Untouched, Pass!Layers, Pass!Slots, Layers, Slots
<1> QED
  BY <1>1, Initially, Inductive, Simulation, PTL DEF Spec, FeedKeepsPromise, Pass!Spec

-----------------------------------------------------------------------------
(***************************************************************************)
(* The wavefront always finds something to do.  Between two turns of its   *)
(* loop every slot it has started is past the first layer of the stage     *)
(* (only the span in hand may still stand there), so a slot that is not    *)
(* complete is either unstarted or due for a layer that find_layer_group   *)
(* looks at.  Limits and Within give the types that IInv leaves open.      *)
(***************************************************************************)
Limits ==
    /\ mode \in Modes /\ done \subseteq Stages \X Slots
    /\ host \in {"idle", "create", "join"} /\ result \in {"none", "ok", "failed"}
    /\ faults \in 0..MaxFaults

Within(k) ==
    /\ slot[k] <= MaxSlots /\ chunk[k] <= MaxSlots /\ rel[k] <= MaxSlots
    /\ layer[k] \in Layers /\ \A s \in Slots : next_layer[k][s] <= NLayers

PastFirst(k) ==
    mode = "wavefront" =>
        /\ pc[k] \in {"pick", "mark"} => \A s \in started[k] : next_layer[k][s] > First(k)
        /\ pc[k] \in {"wait", "asleep", "work"} =>
              \A s \in started[k] : s \notin Span(k) => next_layer[k][s] > First(k)

FrontInv == Limits /\ \A k \in Stages : Within(k) /\ PastFirst(k)

LEMMA FrontInitially == Init => FrontInv
<1> SUFFICES ASSUME Init PROVE FrontInv
  OBVIOUS
<1>1. MaxFaults \in Nat /\ MaxSlots \in Nat
  BY StepPipelineAssumption
<1>2. Limits
  BY <1>1 DEF Init, Limits
<1>3. 0 \in Layers /\ NLayers \in Nat
  BY LayersFollow, Numbers DEF Layers
<1>4. ASSUME NEW k \in Stages PROVE Within(k) /\ PastFirst(k)
  BY <1>1, <1>3 DEF Init, PerStage, Within, PastFirst
<1> QED
  BY <1>2, <1>4 DEF FrontInv

\* A step of stage k leaves the account of the others alone.
LEMMA FrontStepOf ==
    ASSUME FrontInv, Limits', NEW k \in Stages, Within(k)', PastFirst(k)', mode' = mode,
           \A j \in Stages \ {k} :
              /\ pc'[j] = pc[j] \/ (pc[j] = "asleep" /\ pc'[j] = "wait")
              /\ slot'[j] = slot[j] /\ chunk'[j] = chunk[j] /\ rel'[j] = rel[j]
              /\ layer'[j] = layer[j] /\ started'[j] = started[j] /\ next_layer'[j] = next_layer[j]
    PROVE  FrontInv'
<1>1. ASSUME NEW j \in Stages \ {k} PROVE Within(j)' /\ PastFirst(j)'
  <2>1. Within(j) /\ PastFirst(j)
    BY DEF FrontInv
  <2>2. Within(j)'
    BY <1>1, <2>1 DEF Within
  <2>3. Span(j)' = Span(j)
    BY <1>1 DEF Span
  <2>4. PastFirst(j)'
    BY <1>1, <2>1, <2>3 DEF PastFirst
  <2> QED
    BY <2>2, <2>4
<1> QED
  BY <1>1 DEF FrontInv

\* Steps in which the stage keeps its wavefront account.
LEMMA FrontSpanSteps ==
    ASSUME IInv, FrontInv, IInv', NEW k \in Stages, PickSpan(k) \/ wait_prev(k) \/ collect_ready_chunk(k)
    PROVE  FrontInv'
<1>0. /\ Types /\ Types' /\ Within(k) /\ PastFirst(k) /\ Limits /\ StageInv(k)
      /\ UNCHANGED <<mode, done, host, result, faults, started, next_layer, n_slots>>
  BY DEF IInv, FrontInv, PickSpan, wait_prev, collect_ready_chunk, batch, wave, caller
<1>1. Limits'
  BY <1>0 DEF Limits
<1>2. \A j \in Stages \ {k} :
              /\ pc'[j] = pc[j]
              /\ slot'[j] = slot[j] /\ chunk'[j] = chunk[j] /\ rel'[j] = rel[j]
              /\ layer'[j] = layer[j] /\ started'[j] = started[j] /\ next_layer'[j] = next_layer[j]
  BY <1>0 DEF PickSpan, wait_prev, collect_ready_chunk, Take, Moved, span, Types
<1>3. /\ slot[k] \in Nat /\ chunk[k] \in Nat /\ rel[k] \in Nat
      /\ slot'[k] \in Nat /\ chunk'[k] \in Nat /\ rel'[k] \in Nat
      /\ First(k) \in Layers /\ n_slots \in Nat /\ MaxSlots \in Nat
  BY <1>0, LayersFollow, Bounds DEF Types
<1>4. CASE PickSpan(k)
  <2>1. mode # "wavefront" /\ mode' # "wavefront"
    BY <1>0, <1>4 DEF PickSpan
  <2>2. CASE UNCHANGED span
    BY <1>0, <1>1, <1>2, <2>1, <2>2, FrontStepOf DEF span, Within, PastFirst
  <2>3. CASE pc' = Moved(k, "wait")
    <3>1. pc'[k] = "wait" /\ pc'[k] \in Busy \ {"pick"}
      BY <1>0, <2>3 DEF Moved, Types, Busy
    <3>2. slot'[k] <= MaxSlots /\ chunk'[k] <= MaxSlots
      <4>1. InSpan(k)'
        BY <3>1 DEF IInv, StageInv
      <4>2. slot'[k] + chunk'[k] <= n_slots /\ n_slots <= MaxSlots
        BY <1>0, <4>1, Bounds DEF InSpan
      <4> QED
        BY <1>3, <4>2
    <3>3. pc[k] = "pick"
      BY <1>4 DEF PickSpan
    <3>4. rel'[k] = 0 /\ layer'[k] = First(k)
      <4>1. pc' # Moved(k, "gone")
        BY <1>0, <3>1 DEF Moved, Types
      <4> QED
        BY <1>0, <1>4, <4>1 DEF PickSpan, Take, Types
    <3>5. Within(k)'
      BY <1>0, <1>3, <3>2, <3>4 DEF Within
    <3>6. PastFirst(k)'
      BY <2>1 DEF PastFirst
    <3> QED
      BY <1>0, <1>1, <1>2, <3>5, <3>6, FrontStepOf
  <2> QED
    BY <1>4, <2>2, <2>3 DEF PickSpan, Take
<1>5. CASE wait_prev(k)
  <2>1. pc[k] = "wait" /\ slot' = slot /\ chunk' = chunk /\ layer' = layer
    BY <1>5 DEF wait_prev
  <2>2. rel[k] < chunk[k]
    BY <1>0, <2>1 DEF StageInv, Waiting
  <2>3. rel'[k] = rel[k] \/ rel'[k] = rel[k] + 1
    BY <1>0, <1>5 DEF wait_prev, Types
  <2>4. Within(k)'
    BY <1>0, <1>3, <2>1, <2>2, <2>3 DEF Within
  <2>5. mode = "wavefront" => pc'[k] \in {"gone", "asleep", "wait", "work"}
    BY <1>0, <1>5 DEF wait_prev, Moved, Types
  <2>6. Span(k)' = Span(k)
    BY <2>1 DEF Span
  <2>7. PastFirst(k)'
    BY <1>0, <2>1, <2>5, <2>6 DEF PastFirst
  <2> QED
    BY <1>0, <1>1, <1>2, <2>4, <2>7, FrontStepOf
<1>6. CASE collect_ready_chunk(k)
  <2>1. pc[k] = "collect" /\ slot' = slot /\ rel' = rel /\ layer' = layer
    BY <1>6 DEF collect_ready_chunk
  <2>2. mode # "wavefront"
    BY <1>0, <2>1 DEF StageInv, WaveProgress, Busy
  <2>3. pc'[k] \in Busy \ {"pick"}
    BY <1>0, <1>6, <2>1 DEF collect_ready_chunk, Moved, Types, Busy
  <2>4. chunk'[k] <= MaxSlots
    <3>1. InSpan(k)'
      BY <2>3 DEF IInv, StageInv
    <3>2. slot'[k] + chunk'[k] <= n_slots /\ n_slots <= MaxSlots
      BY <1>0, <3>1, Bounds DEF InSpan
    <3> QED
      BY <1>3, <3>2
  <2>5. Within(k)'
    BY <1>0, <2>1, <2>4 DEF Within
  <2>6. PastFirst(k)'
    BY <1>0, <2>2 DEF PastFirst
  <2> QED
    BY <1>0, <1>1, <1>2, <2>5, <2>6, FrontStepOf
<1> QED
  BY <1>4, <1>5, <1>6

\* A turn of the loop takes a group, starts one slot or ends.
LEMMA FrontPickWave ==
    ASSUME IInv, FrontInv, IInv', NEW k \in Stages, PickWave(k)
    PROVE  FrontInv'
<1>0. /\ Types /\ Types' /\ Within(k) /\ PastFirst(k) /\ Limits /\ StageInv(k) /\ StageInv(k)'
      /\ pc[k] = "pick" /\ mode = "wavefront"
      /\ UNCHANGED <<mode, done, host, result, faults, n_slots, complete>>
  BY DEF IInv, FrontInv, PickWave, Continue, Begun, batch, wave, caller
<1>1. Limits'
  BY <1>0 DEF Limits
<1>2. \A s \in started[k] : next_layer[k][s] > First(k)
  BY <1>0 DEF PastFirst
<1>3. /\ slot'[k] \in Nat /\ chunk'[k] \in Nat /\ n_slots \in Nat /\ MaxSlots \in Nat
      /\ n_slots <= MaxSlots /\ First(k) \in Layers /\ First(k) \in Nat /\ Own(k) \subseteq Layers
      /\ First(k) <= NLayers
  <2>1. First(k) \in Layers /\ Own(k) \subseteq Layers /\ NLayers \in Nat /\ First(k) \in Nat
    BY LayersFollow
  <2>2. First(k) <= NLayers
    BY <2>1 DEF Layers
  <2>3. slot'[k] \in Nat /\ chunk'[k] \in Nat
    BY <1>0 DEF Types
  <2> QED
    BY <1>0, <2>1, <2>2, <2>3, Bounds
<1>4. CASE pc' = Moved(k, "gone") /\ UNCHANGED <<span, wave>>
  <2>1. pc'[k] = "gone" /\ \A j \in Stages \ {k} : pc'[j] = pc[j]
    BY <1>0, <1>4 DEF Moved, Types
  <2>2. UNCHANGED <<slot, chunk, rel, layer, started, next_layer>>
    BY <1>4 DEF span, wave
  <2>3. Within(k)' /\ PastFirst(k)'
    BY <1>0, <2>1, <2>2 DEF Within, PastFirst
  <2> QED
    BY <1>0, <1>1, <2>1, <2>2, <2>3, FrontStepOf
<1>5. ASSUME NEW a, NEW b, NEW c, NEW p \in {"work", "wait"}, Take(k, a, b, c, p)
      PROVE  /\ slot'[k] <= MaxSlots /\ chunk'[k] <= MaxSlots /\ rel'[k] <= MaxSlots /\ layer'[k] \in Layers
             /\ pc'[k] = p
             /\ \A j \in Stages \ {k} :
                  /\ pc'[j] = pc[j] /\ slot'[j] = slot[j] /\ chunk'[j] = chunk[j]
                  /\ rel'[j] = rel[j] /\ layer'[j] = layer[j]
  <2>1. /\ pc'[k] = p /\ rel'[k] = 0
        /\ \A j \in Stages \ {k} :
                  /\ pc'[j] = pc[j] /\ slot'[j] = slot[j] /\ chunk'[j] = chunk[j]
                  /\ rel'[j] = rel[j] /\ layer'[j] = layer[j]
    BY <1>0, <1>5 DEF Take, Moved, Types
  <2>2. InSpan(k)' /\ WaveProgress(k)'
    BY <1>0, <2>1 DEF StageInv, Busy
  <2>3. layer'[k] \in Own(k)
    BY <2>1, <2>2 DEF WaveProgress, Waiting
  <2>4. slot'[k] + chunk'[k] <= n_slots
    BY <1>0, <2>2 DEF InSpan
  <2> QED
    BY <1>3, <2>1, <2>3, <2>4
<1>6. ASSUME NEW g, Continue(k, g) PROVE FrontInv'
  <2>1. Take(k, g.slot, g.chunk, g.layer, "work") /\ UNCHANGED <<started, next_layer>>
    BY <1>6 DEF Continue, wave
  <2>2. Within(k)'
    BY <1>0, <1>5, <2>1 DEF Within
  <2>3. PastFirst(k)'
    BY <1>2, <1>5, <2>1 DEF PastFirst
  <2> QED
    BY <1>0, <1>1, <1>5, <2>1, <2>2, <2>3, FrontStepOf
<1>7. ASSUME NEW s \in Slots, NEW p \in {"work", "wait"}, Take(k, s, 1, First(k), p), Begun(k, s) PROVE FrontInv'
  <2>1. /\ started'[k] = started[k] \cup {s} /\ next_layer'[k][s] = First(k)
        /\ \A t \in Slots : t # s => next_layer'[k][t] = next_layer[k][t]
        /\ \A j \in Stages \ {k} : started'[j] = started[j] /\ next_layer'[j] = next_layer[j]
    BY <1>0, <1>7 DEF Begun, Types
  <2>2. Within(k)'
    BY <1>0, <1>3, <1>5, <1>7, <2>1 DEF Within
  <2>3. s \in Span(k)'
    <3>1. slot'[k] = s /\ chunk'[k] = 1 /\ s \in Nat
      BY <1>0, <1>7, Bounds DEF Take, Types
    <3> QED
      BY <3>1 DEF Span
  <2>4. started[k] \subseteq Slots
    BY <1>0 DEF Types
  <2>5. PastFirst(k)'
    BY <1>2, <1>5, <1>7, <2>1, <2>3, <2>4 DEF PastFirst
  <2> QED
    BY <1>0, <1>1, <1>5, <1>7, <2>1, <2>2, <2>5, FrontStepOf
<1>8. ASSUME Unstarted(k) # {} PROVE Min(Unstarted(k)) \in Slots
  <2>1. Unstarted(k) \subseteq 0..MaxSlots /\ Unstarted(k) \subseteq Slots
    BY <1>3 DEF Unstarted, Slots
  <2>2. \E x \in Unstarted(k) : \A y \in Unstarted(k) : x <= y
    BY <1>3, <1>8, <2>1, Least
  <2>3. Min(Unstarted(k)) \in Unstarted(k)
    BY <2>2 DEF Min
  <2> QED
    BY <2>1, <2>3
<1>9. \A s \in Unstarted(k) : s \in Slots
  BY DEF Unstarted
<1> QED
  BY <1>4, <1>6, <1>7, <1>8, <1>9 DEF PickWave

\* Running a span takes its slots past the first layer.
LEMMA FrontWork ==
    ASSUME IInv, FrontInv, IInv', NEW k \in Stages, Work(k) \/ WorkFails(k)
    PROVE  FrontInv'
<1>0. /\ Types /\ Types' /\ Within(k) /\ PastFirst(k) /\ Limits /\ StageInv(k)
      /\ pc[k] = "work"
      /\ UNCHANGED <<mode, done, host, result, n_slots, started, slot, chunk, layer>>
  BY DEF IInv, FrontInv, Work, WorkFails, batch, wave, caller, span
<1>1. faults \in 0..MaxFaults /\ MaxFaults \in Nat
  BY <1>0, StepPipelineAssumption DEF Limits
<1>2. CASE WorkFails(k)
  <2>1. faults' \in 0..MaxFaults
    BY <1>1, <1>2 DEF WorkFails
  <2>2. Limits'
    BY <1>0, <2>1 DEF Limits
  <2>3. pc'[k] = "fail" /\ \A j \in Stages \ {k} : pc'[j] = pc[j]
    BY <1>0, <1>2 DEF WorkFails, Moved, Types
  <2>4. UNCHANGED <<rel, next_layer>>
    BY <1>2 DEF WorkFails, span, wave
  <2>5. Within(k)' /\ PastFirst(k)'
    BY <1>0, <2>3, <2>4 DEF Within, PastFirst
  <2> QED
    BY <1>0, <2>2, <2>3, <2>4, <2>5, FrontStepOf
<1>3. CASE Work(k)
  <2>1. Limits'
    BY <1>0, <1>3 DEF Work, Limits
  <2>2. /\ rel'[k] = 0 /\ \A j \in Stages \ {k} : pc'[j] = pc[j] /\ rel'[j] = rel[j]
    BY <1>0, <1>3 DEF Work, Moved, Types
  <2>3. CASE mode # "wavefront"
    <3>1. next_layer' = next_layer
      BY <1>3, <2>3 DEF Work
    <3>2. Within(k)' /\ PastFirst(k)'
      BY <1>0, <2>2, <2>3, <3>1, Bounds DEF Within, PastFirst
    <3> QED
      BY <1>0, <2>1, <2>2, <3>1, <3>2, FrontStepOf
  <2>4. CASE mode = "wavefront"
    <3>1. /\ layer[k] \in Own(k) /\ layer[k] \in Nat /\ First(k) \in Nat
          /\ First(k) < layer[k] + 1 /\ layer[k] + 1 <= NLayers
      <4>1. layer[k] \in Own(k)
        BY <1>0, <2>4 DEF StageInv, WaveProgress, Busy
      <4>2. Own(k) \subseteq Layers /\ NLayers \in Nat /\ First(k) \in Nat /\ Final(k) \in Nat
        BY LayersFollow
      <4> QED
        BY <4>1, <4>2 DEF Own, Layers
    <3>2. /\ \A s \in Slots : next_layer'[k][s] = IF s \in Span(k) THEN layer[k] + 1 ELSE next_layer[k][s]
          /\ \A j \in Stages \ {k} : next_layer'[j] = next_layer[j]
      BY <1>0, <1>3, <2>4 DEF Work, Types
    <3>3. Within(k)'
      BY <1>0, <2>2, <3>1, <3>2, Bounds DEF Within
    <3>4. started[k] \subseteq Slots
      BY <1>0 DEF Types
    <3>5. \A s \in started[k] : next_layer'[k][s] > First(k)
      <4> SUFFICES ASSUME NEW s \in started[k] PROVE next_layer'[k][s] > First(k)
        OBVIOUS
      <4>1. CASE s \in Span(k)
        BY <3>1, <3>2, <3>4, <4>1
      <4>2. CASE s \notin Span(k)
        BY <1>0, <2>4, <3>2, <3>4, <4>2 DEF PastFirst
      <4> QED
        BY <4>1, <4>2
    <3>6. PastFirst(k)'
      BY <1>0, <3>5 DEF PastFirst
    <3> QED
      BY <1>0, <2>1, <2>2, <3>2, <3>3, <3>6, FrontStepOf
  <2> QED
    BY <2>3, <2>4
<1> QED
  BY <1>2, <1>3

\* Marking a span and failing leave the account alone.
LEMMA FrontMark ==
    ASSUME IInv, FrontInv, NEW k \in Stages, mark_done(k) \/ fail(k)
    PROVE  FrontInv'
<1>0. /\ Types /\ Within(k) /\ PastFirst(k) /\ Limits /\ StageInv(k)
      /\ UNCHANGED <<mode, host, result, n_slots, started, chunk, layer, next_layer, faults>>
  BY DEF IInv, FrontInv, mark_done, fail, wave, caller, span
<1>1. /\ slot[k] \in Nat /\ chunk[k] \in Nat /\ rel[k] \in Nat /\ n_slots \in Nat /\ MaxSlots \in Nat
      /\ n_slots <= MaxSlots
  BY <1>0, Bounds DEF Types
<1>2. CASE fail(k)
  <2>1. Limits'
    BY <1>0, <1>2 DEF Limits, fail
  <2>2. /\ pc'[k] = "gone"
        /\ \A j \in Stages \ {k} : pc'[j] = pc[j] \/ (pc[j] = "asleep" /\ pc'[j] = "wait")
    BY <1>0, <1>2 DEF fail, Broadcast, Types
  <2>3. UNCHANGED <<slot, rel>>
    BY <1>2 DEF fail, span
  <2>4. Within(k)' /\ PastFirst(k)'
    BY <1>0, <2>2, <2>3 DEF Within, PastFirst
  <2> QED
    BY <1>0, <2>1, <2>2, <2>3, <2>4, FrontStepOf
<1>3. CASE mark_done(k)
  <2>1. pc[k] = "mark" /\ InSpan(k) /\ rel[k] < chunk[k]
    BY <1>0, <1>3 DEF mark_done, StageInv, Busy
  <2>2. slot[k] + chunk[k] <= MaxSlots /\ rel[k] + 1 <= MaxSlots /\ slot[k] + rel[k] \in Slots
    BY <1>0, <1>1, <2>1, Bounds DEF InSpan
  <2>3. done' = done \cup {<<k, slot[k] + rel[k]>>}
    BY <1>3 DEF mark_done
  <2>4. Limits'
    BY <1>0, <2>2, <2>3 DEF Limits
  <2>5. /\ pc'[k] \in {"mark", "pick"} /\ rel'[k] = rel[k] + 1
        /\ \A j \in Stages \ {k} : rel'[j] = rel[j] /\ (pc'[j] = pc[j] \/ (pc[j] = "asleep" /\ pc'[j] = "wait"))
    BY <1>0, <1>3 DEF mark_done, Broadcast, Types
  <2>6. /\ slot'[k] = slot[k] \/ slot'[k] = slot[k] + chunk[k]
        /\ \A j \in Stages \ {k} : slot'[j] = slot[j]
    BY <1>0, <1>3 DEF mark_done, Types
  <2>7. Within(k)'
    BY <1>0, <2>2, <2>5, <2>6 DEF Within
  <2>8. PastFirst(k)'
    BY <1>0, <2>1, <2>5 DEF PastFirst
  <2> QED
    BY <1>0, <2>4, <2>5, <2>6, <2>7, <2>8, FrontStepOf
<1> QED
  BY <1>2, <1>3

\* The steps of the calling thread, and wakeups.
LEMMA FrontHost ==
    ASSUME IInv, FrontInv, NEW n,
           feed_token_batch(n) \/ CreateThread \/ CreateFails \/ JoinThreads \/ SpuriousWakeup \/ UNCHANGED vars
    PROVE  FrontInv'
<1>0. Types /\ Limits /\ MaxFaults \in Nat /\ \A k \in Stages : Within(k) /\ PastFirst(k)
  BY StepPipelineAssumption DEF IInv, FrontInv
<1>1. CASE feed_token_batch(n)
  <2>1. Limits'
    BY <1>0, <1>1 DEF feed_token_batch, Limits
  <2>2. 0 \in Layers /\ NLayers \in Nat /\ MaxSlots \in Nat
    BY LayersFollow, Numbers DEF Layers
  <2>3. ASSUME NEW k \in Stages PROVE Within(k)' /\ PastFirst(k)'
    BY <1>1, <2>2 DEF feed_token_batch, PerStage, Within, PastFirst
  <2> QED
    BY <2>1, <2>3 DEF FrontInv
<1>2. CASE CreateThread
  <2>1. /\ Limits' /\ created \in Stages /\ pc[created] = "none" /\ InFeed
        /\ UNCHANGED <<mode, slot, chunk, rel, layer, started, next_layer>>
    <3>1. host = "create" /\ UNCHANGED <<mode, done, result, faults, slot, chunk, rel, layer, started, next_layer>>
      BY <1>2 DEF CreateThread, batch, span, wave
    <3>2. host' \in {"create", "join"} /\ InFeed
      BY <1>2 DEF CreateThread, InFeed
    <3>3. created \in Stages
      BY <3>1, Numbers DEF IInv, Threads, Types, Stages
    <3>4. created \in Nat /\ pc[created] = "none"
      BY <3>2, <3>3, LayersFollow DEF IInv, Threads
    <3> QED
      BY <1>0, <3>1, <3>2, <3>3, <3>4 DEF Limits
  <2>2. PICK k \in Stages : k = created
    BY <2>1
  <2>3. started[k] = {}
    BY <2>1, <2>2 DEF IInv, StageInv, Idle
  <2>4. /\ \A j \in Stages \ {k} : pc'[j] = pc[j]
        /\ pc'[k] = "pick"
    BY <1>0, <1>2, <2>2 DEF CreateThread, Moved, Types
  <2>5. Within(k)' /\ PastFirst(k)'
    BY <1>0, <2>1, <2>3, <2>4 DEF Within, PastFirst
  <2> QED
    BY <2>1, <2>4, <2>5, FrontStepOf
<1>3. ASSUME \A k \in Stages : pc'[k] = pc[k] \/ pc'[k] = "none" \/ (pc[k] = "asleep" /\ pc'[k] = "wait"),
             UNCHANGED <<mode, slot, chunk, rel, layer, started, next_layer>>, Limits'
      PROVE  FrontInv'
  <2>1. ASSUME NEW k \in Stages PROVE Within(k)' /\ PastFirst(k)'
    <3>1. Span(k)' = Span(k)
      BY <1>3 DEF Span
    <3> QED
      BY <1>0, <1>3, <2>1, <3>1 DEF Within, PastFirst
  <2> QED
    BY <1>3, <2>1 DEF FrontInv
<1>4. CASE CreateFails
  <2>1. faults' \in 0..MaxFaults
    BY <1>0, <1>4 DEF CreateFails, Limits
  <2>2. Limits'
    BY <1>0, <1>4, <2>1 DEF CreateFails, Limits
  <2>3. \A k \in Stages : pc'[k] = pc[k] \/ (pc[k] = "asleep" /\ pc'[k] = "wait")
    BY <1>4 DEF CreateFails
  <2>4. UNCHANGED <<mode, slot, chunk, rel, layer, started, next_layer>>
    BY <1>4 DEF CreateFails, span, wave
  <2> QED
    BY <1>3, <2>2, <2>3, <2>4
<1>5. CASE JoinThreads
  <2>1. faults' \in 0..MaxFaults
    BY <1>0, <1>5 DEF JoinThreads, Limits
  <2>2. Limits'
    BY <1>0, <1>5, <2>1 DEF JoinThreads, Limits, batch
  <2>3. \A k \in Stages : pc'[k] = "none"
    BY <1>5 DEF JoinThreads, PerStage
  <2>4. UNCHANGED <<mode, slot, chunk, rel, layer, started, next_layer>>
    BY <1>5 DEF JoinThreads, span, wave
  <2> QED
    BY <1>3, <2>2, <2>3, <2>4
<1>6. CASE SpuriousWakeup
  <2>1. \A k \in Stages : pc'[k] = pc[k] \/ (pc[k] = "asleep" /\ pc'[k] = "wait")
    BY <1>0, <1>6 DEF SpuriousWakeup, Moved, Types
  <2>2. UNCHANGED <<mode, done, host, result, faults, slot, chunk, rel, layer, started, next_layer>>
    BY <1>6 DEF SpuriousWakeup, batch, span, wave, caller
  <2>3. Limits'
    BY <1>0, <2>2 DEF Limits
  <2> QED
    BY <1>3, <2>1, <2>2, <2>3
<1>7. CASE UNCHANGED vars
  <2>1. UNCHANGED <<mode, done, host, result, faults, pc, slot, chunk, rel, layer, started, next_layer>>
    BY <1>7 DEF vars, batch, span, wave, caller
  <2>2. Limits'
    BY <1>0, <2>1 DEF Limits
  <2> QED
    BY <1>3, <2>1, <2>2
<1> QED
  BY <1>1, <1>2, <1>4, <1>5, <1>6, <1>7

LEMMA FrontInductive == IInv /\ FrontInv /\ [Next]_vars => FrontInv'
<1> SUFFICES ASSUME IInv, FrontInv, [Next]_vars PROVE FrontInv'
  OBVIOUS
<1>1. IInv'
  BY Inductive
<1>2. ASSUME NEW k \in Stages, worker_main(k) PROVE FrontInv'
  BY <1>1, <1>2, FrontSpanSteps, FrontPickWave, FrontWork, FrontMark DEF worker_main
<1> QED
  BY <1>2, FrontHost DEF Next

-----------------------------------------------------------------------------
\* A slot that is due for a layer past the first is in a group of one.
LEMMA DueIsFound ==
    ASSUME Types, NEW k \in Stages, NEW l \in (First(k) + 1)..Final(k), NEW s \in Slots, Due(k, l, s)
    PROVE  Groups(k, 1, 1) # {}
<1> DEFINE F == {a \in 0..s : \A b \in a..s : Due(k, l, b)}
           to == Max({a \in s..(n_slots - 1) : \A b \in s..a : Due(k, l, b)})
           g == [layer |-> l, slot |-> s, chunk |-> Smaller(1, to - s + 1)]
<1>0. s \in Nat /\ l \in Nat
  BY Bounds, LayersFollow
<1>1. Min(F) \in Int
  <2>1. F \subseteq 0..s /\ s \in F
    BY <1>0
  <2> HIDE DEF F
  <2>2. \E x \in F : \A y \in F : x <= y
    BY <1>0, <2>1, Least
  <2>3. Min(F) \in F
    BY <2>2 DEF Min
  <2>4. F \subseteq Int
    BY <1>0, <2>1
  <2> QED
    BY <2>3, <2>4
<1>2. (s - Min(F)) % 1 = 0
  <2> HIDE DEF F
  <2> QED
    BY <1>0, <1>1
<1>3. g \in Cut(k, l, 1)
  BY <1>2 DEF Cut
<1>4. g.chunk \in Nat \ {0}
  <2> HIDE DEF g
  <2> QED
    BY <1>0, <1>3, CutIsDue
<1>5. g.chunk >= 1
  <2> HIDE DEF g
  <2> QED
    BY <1>4
<1>6. g \in Groups(k, 1, 1)
  <2> HIDE DEF g
  <2> QED
    BY <1>3, <1>5 DEF Groups
<1> QED
  BY <1>6

LEMMA FrontImplies == IInv /\ FrontInv => WavefrontMakesProgress
<1> SUFFICES ASSUME IInv, FrontInv PROVE WavefrontMakesProgress
  OBVIOUS
<1>0. Types /\ Limits /\ \A k \in Stages : Within(k) /\ PastFirst(k) /\ StageInv(k)
  BY DEF IInv, FrontInv
<1>1. TypeOK
  <2>1. /\ slot \in [Stages -> 0..MaxSlots] /\ chunk \in [Stages -> 0..MaxSlots]
        /\ rel \in [Stages -> 0..MaxSlots] /\ layer \in [Stages -> Layers]
    BY <1>0, Numbers DEF Types, Within
  <2>2. next_layer \in [Stages -> [Slots -> 0..NLayers]]
    BY <1>0, LayersFollow DEF Types, Within
  <2>3. pc \in [Stages -> {"none", "pick", "wait", "asleep", "collect", "work", "mark", "fail", "gone"}]
    BY <1>0 DEF Types, Places, Busy
  <2> QED
    BY <1>0, <2>1, <2>2, <2>3 DEF TypeOK, Types, Limits
<1>2. ASSUME NEW k \in Stages, mode = "wavefront", pc[k] = "pick", ~WaveDone(k), Unstarted(k) = {}
      PROVE  Groups(k, 1, 1) # {}
  <2>1. WaveProgress(k) /\ complete[k] \subseteq Slots /\ n_slots \in Nat /\ Slots \subseteq Nat
    BY <1>0, <1>2, Bounds DEF StageInv, Busy, Types
  <2>2. PICK s \in Slots : s < n_slots /\ s \notin complete[k]
    <3> SUFFICES ASSUME \A s \in Slots : s < n_slots => s \in complete[k] PROVE FALSE
      OBVIOUS
    <3>1. complete[k] = 0..(n_slots - 1)
      <4>1. \A t \in complete[k] : t \in Nat /\ t < n_slots
        BY <2>1 DEF WaveProgress
      <4>2. \A t \in Nat : t < n_slots => t \in complete[k]
        BY <1>0, Bounds
      <4>3. \A t \in complete[k] : t \in 0..(n_slots - 1)
        BY <2>1, <4>1
      <4>4. \A t \in 0..(n_slots - 1) : t \in complete[k]
        BY <2>1, <4>2
      <4> QED
        BY <4>3, <4>4, Zenon
    <3>2. Cardinality(0..(n_slots - 1)) = n_slots
      BY <2>1, FS_Interval
    <3> QED
      BY <1>2, <2>1, <3>1, <3>2 DEF WaveDone
  <2>3. s \in started[k]
    BY <1>2, <2>2 DEF Unstarted
  <2>4. First(k) < next_layer[k][s] /\ next_layer[k][s] # Final(k) + 1 /\ next_layer[k][s] <= Final(k) + 1
    BY <1>0, <1>2, <2>1, <2>2, <2>3 DEF PastFirst, WaveProgress
  <2>5. next_layer[k][s] \in (First(k) + 1)..Final(k)
    <3>1. next_layer[k][s] \in Nat /\ First(k) \in Nat /\ Final(k) \in Nat
      BY <1>0, LayersFollow DEF Types
    <3> QED
      BY <2>4, <3>1
  <2>6. Due(k, next_layer[k][s], s)
    BY <2>2 DEF Due
  <2> QED
    BY <1>0, <2>5, <2>6, DueIsFound
<1> QED
  BY <1>1, <1>2 DEF WavefrontMakesProgress

\* The wavefront is never left without something to do, whatever the chunk
\* size and the order in which the stages run: the branch of
\* replay_step_pipeline_worker_main_layer_wavefront that reports
\* "layer-wavefront made no progress" is not reached.
THEOREM WavefrontProgresses == Spec => []WavefrontMakesProgress
BY Initially, Inductive, FrontInitially, FrontInductive, FrontImplies, PTL DEF Spec
=============================================================================

------------------------ MODULE ApplianceServerProofs ------------------------
(***************************************************************************)
(* For every number of slots, clients, sessions, prompts and request       *)
(* shapes, ApplianceServer keeps its types and gives every member of a     *)
(* batch a slot of its own, and keeps its promises to a request: the       *)
(* cursor of a committed slot is the length of its token timeline; a batch *)
(* of fresh requests runs at the position they were admitted at and within *)
(* the context window; every request is held in one place until it is      *)
(* answered, and nobody waits when the loop ends.                          *)
(***************************************************************************)
EXTENDS ApplianceServer, SequenceTheorems, FiniteSetTheorems, WellFoundedInduction, TLAPS

(***************************************************************************)
(* What the operators of SessionTable return and preserve, for every set K *)
(* of cache keys.                                                          *)
(***************************************************************************)
Table(K) == [Slots -> SlotType(K)]

\* A loop over a non-empty set of slot ids has a first element.
LEMMA LeastExists ==
    ASSUME NEW S, S \subseteq Nat, S # {}
    PROVE  Least(S) \in S /\ \A n \in S : Least(S) <= n
<1>1. PICK m \in S : \A n \in S : ~ (<<n, m>> \in OpToRel(<, Nat))
  BY NatLessThanWellFounded, WFMin
<1>2. ASSUME NEW n \in S PROVE m <= n
  <2>1. ~ (<<n, m>> \in {ss \in Nat \X Nat : ss[1] < ss[2]})
    BY <1>1 DEF OpToRel
  <2>2. <<n, m>> \in Nat \X Nat /\ <<n, m>>[1] = n /\ <<n, m>>[2] = m
    OBVIOUS
  <2>3. ~ (n < m)
    BY <2>1, <2>2
  <2> QED
    BY <2>3
<1> QED
  BY <1>2 DEF Least

\* find returns the slot that holds the key, or none if no slot does.
LEMMA FindResult ==
    ASSUME NEW K, NEW t \in Table(K), NEW key
    PROVE  /\ find(t, key) \in Slots \cup {NoSlot}
           /\ find(t, key) # NoSlot => HoldsKey(t, find(t, key), key)
           /\ find(t, key) = NoSlot => \A s \in Slots : ~ HoldsKey(t, s, key)
<1> DEFINE owners == {s \in Slots : HoldsKey(t, s, key)}
<1>1. owners \subseteq Nat
  BY SlotsAssumption DEF Slots
<1>2. owners # {} => Least(owners) \in owners
  BY <1>1, LeastExists
<1>3. NoSlot \notin Slots
  BY SlotsAssumption DEF Slots, NoSlot
<1> QED
  BY <1>2, <1>3 DEF find

\* Among the slots outside prot there is a least recently used one.
LEMMA VictimExists ==
    ASSUME NEW K, NEW t \in Table(K), NEW prot, Slots \ prot # {}
    PROVE  LeastRecentlyUsed(t, prot) # {}
<1> DEFINE ages == {t[s].last_used : s \in Slots \ prot}
<1>1. \A s \in Slots : t[s].last_used \in Nat
  BY DEF Table, SlotType
<1>2. ages \subseteq Nat /\ ages # {}
  BY <1>1
<1>3. Least(ages) \in ages /\ \A n \in ages : Least(ages) <= n
  BY <1>2, LeastExists
<1>4. PICK s \in Slots \ prot : t[s].last_used = Least(ages)
  BY <1>3
<1>5. \A r \in Slots \ prot : t[s].last_used <= t[r].last_used
  BY <1>3, <1>4
<1> QED
  BY <1>4, <1>5 DEF LeastRecentlyUsed

\* assign picks the slot that holds the key; otherwise a slot that is free or
\* outside prot; and it finds one whenever prot leaves a slot.
LEMMA TargetResult ==
    ASSUME NEW K, NEW t \in Table(K), NEW key, NEW prot
    PROVE  /\ TargetSlot(t, key, prot) \in Slots \cup {NoSlot}
           /\ find(t, key) # NoSlot => TargetSlot(t, key, prot) = find(t, key)
           /\ find(t, key) = NoSlot /\ TargetSlot(t, key, prot) # NoSlot =>
                \/ ~ t[TargetSlot(t, key, prot)].occupied
                \/ TargetSlot(t, key, prot) \notin prot
           /\ Slots \ prot # {} => TargetSlot(t, key, prot) # NoSlot
<1>1. /\ find(t, key) \in Slots \cup {NoSlot}
  BY FindResult
<1>2. NoSlot \notin Slots
  BY SlotsAssumption DEF Slots, NoSlot
<1>3. Unoccupied(t) \subseteq Nat /\ LeastRecentlyUsed(t, prot) \subseteq Nat
  BY SlotsAssumption DEF Slots, Unoccupied, LeastRecentlyUsed
<1>4. Unoccupied(t) # {} => Least(Unoccupied(t)) \in Unoccupied(t)
  BY <1>3, LeastExists
<1>5. Slots \ prot # {} => Least(LeastRecentlyUsed(t, prot)) \in LeastRecentlyUsed(t, prot)
  BY <1>3, LeastExists, VictimExists
<1>6. /\ \A s \in Unoccupied(t) : s \in Slots /\ ~ t[s].occupied
      /\ \A s \in LeastRecentlyUsed(t, prot) : s \in Slots /\ s \notin prot
  BY DEF Unoccupied, LeastRecentlyUsed
<1> QED
  BY <1>1, <1>2, <1>4, <1>5, <1>6 DEF TargetSlot

\* The table after assign: the chosen slot is occupied by the key, the others
\* are untouched.
LEMMA AssignTableResult ==
    ASSUME NEW K, NEW t \in Table(K), NEW key \in K, NEW prompt \in AnyPrompt,
           NEW prot, NEW now \in Nat, TargetSlot(t, key, prot) # NoSlot
    PROVE  LET s == TargetSlot(t, key, prot)
               u == assign_table(t, key, prompt, prot, now)
           IN  /\ s \in Slots
               /\ u \in Table(K)
               /\ HoldsKey(u, s, key)
               /\ \A r \in Slots : r # s => u[r] = t[r]
<1> DEFINE s == TargetSlot(t, key, prot)
           u == assign_table(t, key, prompt, prot, now)
           v == IF find(t, key) = NoSlot THEN ClaimedSlot(key, prompt, now)
                ELSE IF preview_hit(t, key, prompt)
                     THEN [t[s] EXCEPT !.last_used = now]
                     ELSE RebuiltSlot(t[s], prompt, now)
<1>1. s \in Slots
  BY TargetResult
<1>2. u = [t EXCEPT ![s] = v]
  BY <1>1 DEF assign_table, Table
<1>3. t[s] \in SlotType(K)
  BY <1>1 DEF Table
<1>4. ClaimedSlot(key, prompt, now) \in SlotType(K)
  BY PositionAssumption DEF ClaimedSlot, SlotType, AnyPrompt
<1>5. RebuiltSlot(t[s], prompt, now) \in SlotType(K)
  BY <1>3, PositionAssumption DEF RebuiltSlot, SlotType, AnyPrompt
<1>6. [t[s] EXCEPT !.last_used = now] \in SlotType(K)
  BY <1>3 DEF SlotType
<1>7. v \in SlotType(K)
  BY <1>4, <1>5, <1>6
<1>8. u \in Table(K) /\ u[s] = v /\ \A r \in Slots : r # s => u[r] = t[r]
  BY <1>1, <1>2, <1>7 DEF Table
<1>9. find(t, key) # NoSlot => t[s].occupied /\ t[s].key = key
  BY FindResult, TargetResult DEF HoldsKey
<1>10. v.occupied /\ v.key = key
  <2>1. CASE find(t, key) = NoSlot
    BY <2>1 DEF ClaimedSlot
  <2>2. CASE find(t, key) # NoSlot
    BY <1>3, <1>9, <2>2 DEF RebuiltSlot, SlotType
  <2> QED
    BY <2>1, <2>2
<1> QED
  BY <1>1, <1>8, <1>10 DEF HoldsKey

\* k members with distinct slots, k < NSlots, leave a slot unprotected.
LEMMA RoomForOneMore ==
    ASSUME NEW k \in Nat, k < NSlots, NEW f \in [1 .. k -> Slots]
    PROVE  Slots \ {f[i] : i \in 1 .. k} # {}
<1> SUFFICES ASSUME Slots \subseteq {f[i] : i \in 1 .. k} PROVE FALSE
  OBVIOUS
<1>1. f \in Surjection(1 .. k, Slots)
  BY DEF Surjection
<1>2. IsFiniteSet(1 .. k) /\ Cardinality(1 .. k) = k
  BY FS_Interval
<1>3. Cardinality(Slots) = NSlots
  BY FS_Interval, SlotsAssumption DEF Slots
<1>4. Cardinality(Slots) <= Cardinality(1 .. k)
  BY <1>1, <1>2, FS_Surjection
<1> QED
  BY <1>2, <1>3, <1>4, SlotsAssumption

-----------------------------------------------------------------------------

(***************************************************************************)
(* What each phase of the loop may rely on.                                *)
(***************************************************************************)
PhaseInv ==
    /\ pc \in {"top", "read", "exit"} <=> batch = <<>>
    /\ pc \notin {"assign", "run", "commit"} => asg = <<>>
    /\ pc \in {"run", "commit"} => Len(asg) = Len(batch)
    /\ pc \in {"read", "read_extra"} => cur \in Clients \X Shapes
    /\ pc = "read_extra" => Len(batch) < NSlots
    /\ pc \in {"drain", "commit"} => step >= 1

\* The duplicate-session checks of the drain and of the coalescing window.
DistinctKeys ==
    \A i, j \in 1 .. Len(batch) : batch[i].key = batch[j].key => i = j

IInv ==
    /\ TypeOK
    /\ PhaseInv
    /\ DistinctKeys
    /\ OneSlotPerSession
    /\ BatchOwnsItsSlots
    /\ NoBatchRefused

-----------------------------------------------------------------------------
LEMMA TableIsTable == Table(CacheKey) = [Slots -> SlotType(CacheKey)]
BY DEF Table

LEMMA PrefillType ==
    ASSUME NEW prompt \in AnyPrompt
    PROVE  PrefillSteps(prompt) \in Nat
BY PromptAssumption DEF PrefillSteps, AnyPrompt

LEMMA PreviewType ==
    ASSUME TypeOK, NEW key, NEW prompt
    PROVE  preview_position(slots, key, prompt) \in Nat
<1>1. slots \in Table(CacheKey)
  BY TableIsTable DEF TypeOK
<1>2. find(slots, key) \in Slots \cup {NoSlot}
  BY <1>1, FindResult
<1>3. \A s \in Slots : slots[s].pos \in Nat
  BY <1>1 DEF Table, SlotType
<1> QED
  BY <1>2, <1>3, PositionAssumption DEF preview_position, preview_hit

\* assign's result for a member that got a slot.
LEMMA AssignResultType ==
    ASSUME TypeOK, NEW key, NEW prompt, NEW prot, TargetSlot(slots, key, prot) \in Slots
    PROVE  assign_result(slots, key, prompt, prot) \in AsgType
<1>1. slots \in Table(CacheKey)
  BY TableIsTable DEF TypeOK
<1>2. preview_position(slots, key, prompt) \in Nat
  BY PreviewType
<1>3. preview_hit(slots, key, prompt) \in BOOLEAN
  <2>1. find(slots, key) # NoSlot => slots[find(slots, key)].valid \in BOOLEAN
    BY <1>1, FindResult DEF Table, SlotType
  <2> QED
    BY <2>1 DEF preview_hit, slot_prompt_matches
<1> QED
  BY <1>2, <1>3 DEF assign_result, AsgType

\* A request taken up from the wire or from pending is well formed.
LEMMA RequestType ==
    ASSUME TypeOK, NEW c \in Clients, NEW shape \in Shape, NEW fallback \in Nat,
           NEW serial \in Nat
    PROVE  Request(c, shape, fallback, serial, FALSE) \in ReqType
<1>1. /\ shape.session \in Sessions \cup {NoSession}
      /\ shape.prompt \in AnyPrompt
      /\ shape.max \in Nat
  BY DEF Shape
<1>2. request_cache_key(shape, serial) \in CacheKey
  BY <1>1 DEF request_cache_key, CacheKey, AnyPrompt
<1>3. requested_tokens(shape, fallback) \in Nat
  BY <1>1 DEF requested_tokens
<1>4. preview_position(slots, request_cache_key(shape, serial), shape.prompt) \in Nat
  BY PreviewType
<1> QED
  BY <1>1, <1>2, <1>3, <1>4 DEF Request, ReqType

\* Every assignment made names a slot of the table.
LEMMA AssignedSlots ==
    ASSUME TypeOK
    PROVE  \A i \in 1 .. Len(asg) : asg[i].slot \in Slots /\ asg[i].pos_in \in Nat
<1>1. \A i \in 1 .. Len(asg) : asg[i] \in AsgType
  BY DEF TypeOK
<1> QED
  BY <1>1 DEF AsgType

LEMMA RemoveIndexType ==
    ASSUME NEW R, NEW s \in Seq(R), NEW i \in 1 .. Len(s)
    PROVE  RemoveIndex(s, i) \in Seq(R)
<1>1. SubSeq(s, 1, i - 1) \in Seq(R)
  BY SubSeqProperties
<1>2. SubSeq(s, i + 1, Len(s)) \in Seq(R)
  BY SubSeqProperties
<1> QED
  BY <1>1, <1>2, ConcatProperties DEF RemoveIndex

-----------------------------------------------------------------------------
(***************************************************************************)
(* Opening a batch, from the wire or from pending.                         *)
(***************************************************************************)
LEMMA OpenBatchStep ==
    ASSUME TypeOK, PhaseInv, pc \in {"read", "top"},
           NEW c \in Clients, NEW shape \in Shape, NEW rest \in Seq(ReqType),
           OpenBatch(c, shape, rest)
    PROVE  /\ TypeOK'
           /\ PhaseInv'
           /\ Len(batch') <= 1
           /\ asg' = <<>>
           /\ slots' = slots
           /\ \A d \in Clients : reply'[d] \in {reply[d], 400}
<1> DEFINE req == Request(c, shape, DecodeSteps, served + Len(rest), FALSE)
<1>1. served + Len(rest) \in Nat
  BY DEF TypeOK
<1>2. req \in ReqType
  BY <1>1, RequestType, LimitAssumption
<1> HIDE DEF req
<1>3. batch = <<>> /\ asg = <<>>
  BY DEF PhaseInv
<1>4. CASE req.prompt \notin BadPrompts /\ Admitted(req)
  <2>1. /\ pending' = rest /\ cur' = <<>> /\ batch' = <<req>> /\ step' = 1
        /\ pc' = "drain" /\ conn' = [conn EXCEPT ![c] = "open"]
        /\ UNCHANGED <<reply, served, asg, slots, clock>>
    BY <1>4 DEF OpenBatch, req, tableVars
  <2>2. batch' \in Seq(ReqType) /\ Len(batch') = 1 /\ batch' # <<>>
    BY <1>2, <2>1
  <2>3. TypeOK'
    BY <1>3, <2>1, <2>2, SlotsAssumption DEF TypeOK, Phases, ConnStates
  <2>4. PhaseInv'
    BY <1>3, <2>1, <2>2 DEF PhaseInv
  <2> QED
    BY <1>3, <2>1, <2>2, <2>3, <2>4
<1>5. CASE ~ (req.prompt \notin BadPrompts /\ Admitted(req))
  <2>1. /\ pending' = rest /\ cur' = <<>> /\ pc' = "top"
        /\ conn' = [conn EXCEPT ![c] = "closed"]
        /\ reply' = [reply EXCEPT ![c] = 400]
        /\ UNCHANGED <<batch, step, served, asg, slots, clock>>
    BY <1>5 DEF OpenBatch, req, tableVars, AnswerAndClose
  <2>2. TypeOK'
    BY <1>3, <2>1, SlotsAssumption DEF TypeOK, Phases, ConnStates
  <2>3. PhaseInv'
    BY <1>3, <2>1 DEF PhaseInv
  <2> QED
    BY <1>3, <2>1, <2>2, <2>3 DEF TypeOK
<1> QED
  BY <1>4, <1>5

\* Answering a whole batch with an error.
LEMMA FailBatchStep ==
    ASSUME TypeOK, PhaseInv, pc \in {"assign", "run"}, NEW status \in {500, 503},
           FailBatch(status), slots' \in [Slots -> SlotType(CacheKey)], clock' \in Nat
    PROVE  TypeOK' /\ PhaseInv' /\ batch' = <<>> /\ asg' = <<>>
           /\ \A d \in Clients : reply'[d] \in {reply[d], status}
<1>1. TypeOK'
  BY SlotsAssumption DEF TypeOK, FailBatch, Phases, ConnStates
<1>2. PhaseInv'
  BY DEF FailBatch, PhaseInv
<1> QED
  BY <1>1, <1>2 DEF FailBatch, TypeOK

(***************************************************************************)
(* The heart of the matter: the next member of a batch always gets a slot, *)
(* no other member has it, and no other slot holds the member's key.       *)
(***************************************************************************)
LEMMA AssignStep ==
    ASSUME IInv, AssignMember
    PROVE  IInv'
<1> DEFINE k == Len(asg)
           key == NextMember.key
           prompt == NextMember.prompt
           s == TargetSlot(slots, key, Protected)
           a == assign_result(slots, key, prompt, Protected)
<1> USE DEF IInv
<1>1. /\ pc = "assign" /\ k \in Nat /\ k < Len(batch) /\ k < NSlots
      /\ batch \in Seq(ReqType) /\ asg \in Seq(AsgType)
      /\ NextMember \in ReqType
  <2>1. /\ batch \in Seq(ReqType) /\ asg \in Seq(AsgType) /\ Len(batch) <= NSlots
        /\ pc = "assign" /\ k < Len(batch)
    BY DEF AssignMember, TypeOK
  <2>2. k \in Nat /\ Len(batch) \in Nat
    BY <2>1
  <2>3. k + 1 \in 1 .. Len(batch)
    BY <2>1, <2>2
  <2>4. NextMember \in ReqType
    BY <2>1, <2>3 DEF NextMember
  <2> QED
    BY <2>1, <2>2, <2>4, SlotsAssumption
<1>2. key \in CacheKey /\ prompt \in AnyPrompt
  BY <1>1 DEF ReqType
<1>3. slots \in Table(CacheKey) /\ clock + 1 \in Nat
  BY TableIsTable DEF TypeOK
<1>4. \A i \in 1 .. k : asg[i].slot \in Slots
  BY AssignedSlots
<1>5. Slots \ Protected # {}
  <2> DEFINE f == [i \in 1 .. k |-> asg[i].slot]
  <2>1. f \in [1 .. k -> Slots]
    BY <1>4
  <2>2. Slots \ {f[i] : i \in 1 .. k} # {}
    BY <1>1, <2>1, RoomForOneMore
  <2>3. {f[i] : i \in 1 .. k} = Protected
    BY DEF Protected
  <2> QED
    BY <2>2, <2>3
<1>6. s # NoSlot
  BY <1>3, <1>5, TargetResult
<1>7. /\ asg' = Append(asg, a)
      /\ slots' = assign_table(slots, key, prompt, Protected, clock + 1)
      /\ clock' = clock + 1
      /\ UNCHANGED <<pc, conn, reply, served, cur, pending, batch, step>>
  BY <1>6 DEF AssignMember, assign_result, connVars
<1>8. /\ s \in Slots
      /\ slots' \in Table(CacheKey)
      /\ HoldsKey(slots', s, key)
      /\ \A r \in Slots : r # s => slots'[r] = slots[r]
  BY <1>2, <1>3, <1>6, <1>7, AssignTableResult
<1>9. a \in AsgType
  BY <1>8, AssignResultType
<1>10. /\ asg' \in Seq(AsgType) /\ Len(asg') = k + 1
       /\ asg'[k + 1] = a
       /\ \A i \in 1 .. k : asg'[i] = asg[i]
  BY <1>1, <1>7, <1>9
<1>11. a.slot = s
  BY DEF assign_result
<1>12. \A i \in 1 .. k : batch[i].key # key
  BY <1>1 DEF DistinctKeys, NextMember
<1>13. \A i \in 1 .. k : asg[i].slot # s
  <2>1. \A i \in 1 .. k : HoldsKey(slots, asg[i].slot, batch[i].key)
    BY DEF BatchOwnsItsSlots
  <2>2. CASE find(slots, key) # NoSlot
    <3>1. HoldsKey(slots, s, key)
      BY <1>3, <2>2, FindResult, TargetResult
    <3> QED
      BY <1>12, <2>1, <3>1 DEF HoldsKey
  <2>3. CASE find(slots, key) = NoSlot
    <3>1. ~ slots[s].occupied \/ s \notin Protected
      BY <1>3, <1>6, <2>3, TargetResult
    <3> QED
      BY <2>1, <3>1 DEF HoldsKey, Protected
  <2> QED
    BY <2>2, <2>3
<1>14. \A r \in Slots : HoldsKey(slots, r, key) => r = s
  <2>1. CASE find(slots, key) # NoSlot
    <3>1. HoldsKey(slots, s, key)
      BY <1>3, <2>1, FindResult, TargetResult
    <3> QED
      BY <1>8, <3>1 DEF HoldsKey, OneSlotPerSession
  <2>2. CASE find(slots, key) = NoSlot
    BY <1>3, <2>2, FindResult
  <2> QED
    BY <2>1, <2>2
<1>15. TypeOK'
  BY <1>1, <1>3, <1>7, <1>8, <1>10, TableIsTable DEF TypeOK
<1>16. PhaseInv'
  BY <1>1, <1>7 DEF PhaseInv
<1>17. DistinctKeys'
  BY <1>7 DEF DistinctKeys
<1>18. OneSlotPerSession'
  BY <1>8, <1>14 DEF OneSlotPerSession, HoldsKey
<1>19. BatchOwnsItsSlots'
  <2>1. \A i \in 1 .. k : HoldsKey(slots, asg[i].slot, batch[i].key)
    BY DEF BatchOwnsItsSlots
  <2>2. \A i \in 1 .. k : HoldsKey(slots', asg'[i].slot, batch'[i].key)
    BY <1>4, <1>7, <1>8, <1>10, <1>13, <2>1 DEF HoldsKey
  <2>3. HoldsKey(slots', asg'[k + 1].slot, batch'[k + 1].key)
    BY <1>7, <1>8, <1>10, <1>11 DEF NextMember
  <2>4. \A i, j \in 1 .. k : asg[i].slot = asg[j].slot => i = j
    BY DEF BatchOwnsItsSlots
  <2>5. \A i, j \in 1 .. k + 1 : asg'[i].slot = asg'[j].slot => i = j
    BY <1>1, <1>10, <1>11, <1>13, <2>4
  <2>6. \A i \in 1 .. k + 1 : i \in 1 .. k \/ i = k + 1
    BY <1>1
  <2> QED
    BY <1>10, <2>2, <2>3, <2>5, <2>6 DEF BatchOwnsItsSlots
<1>20. NoBatchRefused'
  BY <1>7 DEF NoBatchRefused
<1> QED
  BY <1>15, <1>16, <1>17, <1>18, <1>19, <1>20

\* Committing a member changes its slot, but no owner and no other slot.
LEMMA CommitStep ==
    ASSUME IInv, CommitMember
    PROVE  IInv'
<1> USE DEF IInv
<1>1. /\ pc = "commit" /\ step \in 1 .. Len(batch) /\ Len(asg) = Len(batch)
      /\ batch \in Seq(ReqType) /\ asg \in Seq(AsgType)
  BY DEF CommitMember, TypeOK, PhaseInv
<1>2. /\ asg[step] \in AsgType /\ batch[step] \in ReqType /\ batch[1] \in ReqType
  BY <1>1
<1>3. /\ asg[step].slot \in Slots /\ asg[step].pos_in \in Nat
      /\ batch[1].tokens \in Nat /\ batch[step].prompt \in AnyPrompt
      /\ batch[step].c \in Clients
  BY <1>2 DEF AsgType, ReqType
<1>4. OwnPrefill(step) \in Nat
  BY <1>3, PrefillType DEF OwnPrefill
<1>5. CommittedPromptTokens(step) \in Nat
  BY <1>3, PromptAssumption DEF CommittedPromptTokens, AnyPrompt
<1>6. OwnPrefill(step) + batch[1].tokens \in Nat /\ clock + 1 \in Nat
  BY <1>3, <1>4 DEF TypeOK
<1>7. slots \in Table(CacheKey)
  BY TableIsTable DEF TypeOK
<1>8. /\ slots' = commit_table(slots, asg[step], CommittedPromptTokens(step),
             batch[1].tokens, OwnPrefill(step) + batch[1].tokens, clock + 1)
      /\ clock' = clock + 1 /\ step' = step + 1
      /\ conn' = [conn EXCEPT ![batch[step].c] = "closed"]
      /\ reply' = [reply EXCEPT ![batch[step].c] = 200]
      /\ UNCHANGED <<pc, served, cur, pending, batch, asg>>
  BY DEF CommitMember, AnswerAndClose
<1>9. /\ slots' \in Table(CacheKey)
      /\ \A r \in Slots : /\ slots'[r].occupied = slots[r].occupied
                           /\ slots'[r].key = slots[r].key
  <2> DEFINE old == slots[asg[step].slot]
             new == CommittedSlot(old, asg[step].pos_in + (OwnPrefill(step) + batch[1].tokens),
                                  CommittedPromptTokens(step), batch[1].tokens, clock + 1)
  <2>1. old \in SlotType(CacheKey)
    BY <1>3, <1>7 DEF Table
  <2>2. old.prompt_tokens \in Nat /\ old.generated_tokens \in Nat
    BY <2>1 DEF SlotType
  <2>3. /\ old.prompt_tokens + CommittedPromptTokens(step) \in Nat
        /\ old.generated_tokens + batch[1].tokens \in Nat
        /\ asg[step].pos_in + (OwnPrefill(step) + batch[1].tokens) \in Nat
    BY <1>3, <1>4, <1>5, <2>2
  <2>4. new \in SlotType(CacheKey) /\ new.occupied = old.occupied /\ new.key = old.key
    BY <1>6, <2>1, <2>3 DEF SlotType, CommittedSlot
  <2>5. slots' = [slots EXCEPT ![asg[step].slot] = new]
    BY <1>8 DEF commit_table
  <2> QED
    BY <1>3, <1>7, <2>4, <2>5 DEF Table
<1>10. TypeOK'
  BY <1>1, <1>3, <1>6, <1>8, <1>9, TableIsTable DEF TypeOK, ConnStates
<1>11. PhaseInv'
  BY <1>1, <1>8 DEF PhaseInv
<1>12. DistinctKeys' /\ NoBatchRefused'
  BY <1>3, <1>8 DEF DistinctKeys, NoBatchRefused, TypeOK
<1>13. OneSlotPerSession'
  BY <1>9 DEF OneSlotPerSession
<1>14. \A i \in 1 .. Len(asg) : asg[i].slot \in Slots
  BY AssignedSlots
<1>15. BatchOwnsItsSlots'
  BY <1>8, <1>9, <1>14 DEF BatchOwnsItsSlots, HoldsKey
<1> QED
  BY <1>10, <1>11, <1>12, <1>13, <1>15

\* Appending a request that passed the duplicate check keeps the keys
\* distinct, and the batch within the slots.
LEMMA JoinStep ==
    ASSUME TypeOK, DistinctKeys, batch # <<>>, NEW req \in ReqType,
           NEW r2 \in ReqType, r2.key = req.key, JoinsBatch(req),
           Len(batch) < NSlots, batch' = Append(batch, r2)
    PROVE  /\ batch' \in Seq(ReqType) /\ Len(batch') = Len(batch) + 1
           /\ Len(batch') <= NSlots /\ batch' # <<>>
           /\ DistinctKeys'
<1>1. batch \in Seq(ReqType) /\ Len(batch) \in Nat /\ NSlots \in Nat
  BY SlotsAssumption DEF TypeOK
<1>2. /\ batch' \in Seq(ReqType) /\ Len(batch') = Len(batch) + 1
      /\ batch'[Len(batch) + 1] = r2
      /\ \A i \in 1 .. Len(batch) : batch'[i] = batch[i]
  BY <1>1
<1>3. \A i \in 1 .. Len(batch) : batch[i].key # r2.key
  BY DEF JoinsBatch, DuplicateKey
<1>4. \A i \in 1 .. Len(batch') : i \in 1 .. Len(batch) \/ i = Len(batch) + 1
  BY <1>1, <1>2
<1>5. DistinctKeys'
  BY <1>2, <1>3, <1>4 DEF DistinctKeys
<1>6. Len(batch') # 0 /\ Len(batch') <= NSlots
  BY <1>1, <1>2
<1> QED
  BY <1>2, <1>5, <1>6

\* The session properties only look at the table and the assignments.
LEMMA NoAssignments ==
    ASSUME OneSlotPerSession, slots' = slots, asg' = <<>>
    PROVE  OneSlotPerSession' /\ BatchOwnsItsSlots'
BY DEF OneSlotPerSession, BatchOwnsItsSlots

LEMMA DrainStep ==
    ASSUME IInv, DrainNext
    PROVE  IInv'
<1> USE DEF IInv
<1>1. /\ pc = "drain" /\ asg = <<>> /\ batch # <<>>
      /\ step \in 1 .. Len(pending) /\ pending \in Seq(ReqType)
  BY DEF DrainNext, TypeOK, PhaseInv
<1>2. /\ UNCHANGED <<pc, conn, reply, served, cur, asg, slots, clock>>
      /\ Len(batch) < NSlots
  BY DEF DrainNext, connVars, tableVars
<1>3. OneSlotPerSession' /\ BatchOwnsItsSlots' /\ NoBatchRefused'
  BY <1>1, <1>2, NoAssignments DEF NoBatchRefused
<1>4. CASE JoinsBatch(pending[step])
  <2> DEFINE r2 == [pending[step] EXCEPT !.drained = TRUE]
  <2>1. pending[step] \in ReqType
    BY <1>1
  <2>2. r2 \in ReqType /\ r2.key = pending[step].key
    BY <2>1 DEF ReqType
  <2>3. batch' = Append(batch, r2) /\ pending' = RemoveIndex(pending, step) /\ step' = step
    BY <1>4 DEF DrainNext
  <2>4. /\ batch' \in Seq(ReqType) /\ Len(batch') <= NSlots /\ batch' # <<>>
        /\ Len(batch') = Len(batch) + 1 /\ DistinctKeys'
    BY <1>1, <1>2, <1>4, <2>1, <2>2, <2>3, JoinStep
  <2>5. pending' \in Seq(ReqType)
    BY <1>1, <2>3, RemoveIndexType
  <2>6. TypeOK'
    BY <1>1, <1>2, <2>3, <2>4, <2>5 DEF TypeOK
  <2>7. PhaseInv'
    BY <1>1, <1>2, <2>3, <2>4 DEF PhaseInv
  <2> QED
    BY <1>3, <2>4, <2>6, <2>7
<1>5. CASE ~ JoinsBatch(pending[step])
  <2>1. step' = step + 1 /\ batch' = batch /\ pending' = pending
    BY <1>5 DEF DrainNext
  <2>2. TypeOK'
    BY <1>2, <2>1 DEF TypeOK
  <2>3. PhaseInv' /\ DistinctKeys'
    BY <1>1, <1>2, <2>1 DEF PhaseInv, DistinctKeys
  <2> QED
    BY <1>3, <2>2, <2>3
<1> QED
  BY <1>4, <1>5

LEMMA ExtraStep ==
    ASSUME IInv, GenerateExtra
    PROVE  IInv'
<1> USE DEF IInv
<1> DEFINE req == Request(cur[1], cur[2], batch[1].tokens, served + Len(pending), FALSE)
           ok == req.prompt \notin BadPrompts /\ Admitted(req)
<1>1. /\ pc = "read_extra" /\ asg = <<>> /\ batch # <<>> /\ Len(batch) < NSlots
      /\ cur \in Clients \X Shapes /\ pending \in Seq(ReqType) /\ batch \in Seq(ReqType)
  BY DEF GenerateExtra, TypeOK, PhaseInv
<1>2. req \in ReqType
  <2>1. batch[1] \in ReqType
    BY <1>1
  <2>2. batch[1].tokens \in Nat /\ served + Len(pending) \in Nat
    BY <1>1, <2>1 DEF ReqType, TypeOK
  <2>3. cur[1] \in Clients /\ cur[2] \in Shape
    BY <1>1, ShapeAssumption
  <2> QED
    BY <2>2, <2>3, RequestType
<1>3. /\ req.c \in Clients
      /\ pc' = "coalesce" /\ cur' = <<>>
      /\ IF ok THEN conn' = [conn EXCEPT ![req.c] = "open"] /\ reply' = reply
               ELSE conn' = [conn EXCEPT ![req.c] = "closed"]
                    /\ reply' = [reply EXCEPT ![req.c] = 400]
      /\ batch' = IF ok /\ JoinsBatch(req) THEN Append(batch, req) ELSE batch
      /\ pending' = IF ok /\ ~ JoinsBatch(req) THEN Append(pending, req) ELSE pending
      /\ UNCHANGED <<served, asg, step, slots, clock>>
  BY <1>2 DEF GenerateExtra, AnswerAndClose, tableVars, ReqType
<1> HIDE DEF req, ok
<1>4. pending' \in Seq(ReqType)
  BY <1>1, <1>2, <1>3
<1>5. /\ batch' \in Seq(ReqType) /\ Len(batch') <= NSlots /\ batch' # <<>>
      /\ DistinctKeys'
  <2>1. CASE ok /\ JoinsBatch(req)
    BY <1>1, <1>2, <1>3, <2>1, JoinStep
  <2>2. CASE ~ (ok /\ JoinsBatch(req))
    BY <1>1, <1>3, <2>2 DEF TypeOK, DistinctKeys
  <2> QED
    BY <2>1, <2>2
<1>6. TypeOK'
  <2>1. conn' \in [Clients -> ConnStates]
    <3>1. \/ conn' = [conn EXCEPT ![req.c] = "open"]
          \/ conn' = [conn EXCEPT ![req.c] = "closed"]
      BY <1>3
    <3>2. conn \in [Clients -> ConnStates] /\ {"open", "closed"} \subseteq ConnStates
      BY DEF TypeOK, ConnStates
    <3> QED
      BY <3>1, <3>2
  <2>2. reply' \in [Clients -> {0, 200, 400, 404, 500, 503}]
    <3>1. reply' = reply \/ reply' = [reply EXCEPT ![req.c] = 400]
      BY <1>3
    <3> QED
      BY <3>1 DEF TypeOK
  <2>3. asg' \in Seq(AsgType) /\ Len(asg') <= Len(batch')
    BY <1>1, <1>3, <1>5 DEF TypeOK
  <2>4. pc' \in Phases
    BY <1>3 DEF Phases
  <2> QED
    BY <1>3, <1>4, <1>5, <2>1, <2>2, <2>3, <2>4 DEF TypeOK
<1>7. PhaseInv'
  BY <1>1, <1>3, <1>5 DEF PhaseInv
<1>8. NoBatchRefused'
  BY <1>3 DEF NoBatchRefused, TypeOK
<1> QED
  BY <1>1, <1>3, <1>5, <1>6, <1>7, <1>8, NoAssignments

\* The steps that neither touch the table nor the batch's keys.
LEMMA QuietStep ==
    ASSUME IInv, TypeOK', PhaseInv', slots' = slots, asg' = asg \/ asg' = <<>>,
           batch' = batch \/ batch' = <<>>, asg' # <<>> => batch' = batch,
           \A c \in Clients : reply'[c] = reply[c] \/ reply'[c] # 503
    PROVE  IInv'
<1>1. DistinctKeys'
  BY DEF IInv, DistinctKeys
<1>2. OneSlotPerSession'
  BY DEF IInv, OneSlotPerSession
<1>3. BatchOwnsItsSlots'
  <2>1. CASE asg' = <<>>
    BY <2>1 DEF BatchOwnsItsSlots
  <2>2. CASE asg' # <<>>
    BY <2>2 DEF IInv, BatchOwnsItsSlots
  <2> QED
    BY <2>1, <2>2
<1>4. NoBatchRefused'
  BY DEF IInv, NoBatchRefused
<1> QED
  BY <1>1, <1>2, <1>3, <1>4 DEF IInv

\* Answering one client.
LEMMA AnswerStep ==
    ASSUME TypeOK, NEW c \in Clients, NEW st \in {"closed", "leaked"}, NEW n \in {200, 404},
           conn' = [conn EXCEPT ![c] = st], reply' = [reply EXCEPT ![c] = n]
    PROVE  /\ conn' \in [Clients -> ConnStates]
           /\ reply' \in [Clients -> {0, 200, 400, 404, 500, 503}]
           /\ \A d \in Clients : reply'[d] = reply[d] \/ reply'[d] # 503
<1>1. conn' \in [Clients -> ConnStates]
  BY DEF TypeOK, ConnStates
<1>2. reply' \in [Clients -> {0, 200, 400, 404, 500, 503}]
  BY DEF TypeOK
<1>3. \A d \in Clients : reply'[d] = reply[d] \/ reply'[d] # 503
  BY DEF TypeOK
<1> QED
  BY <1>1, <1>2, <1>3

LEMMA InitIInv == Init => IInv
<1> SUFFICES ASSUME Init PROVE IInv
  OBVIOUS
<1>1. FreeSlot \in SlotType(CacheKey)
  BY DEF FreeSlot, SlotType, AnyPrompt
<1>2. slots \in [Slots -> SlotType(CacheKey)]
  BY <1>1 DEF Init, EmptyTable
<1>3. \A s \in Slots : ~ slots[s].occupied
  BY DEF Init, EmptyTable, FreeSlot
<1>4. TypeOK
  BY <1>2, SlotsAssumption DEF Init, TypeOK, Phases, ConnStates
<1>5. PhaseInv /\ DistinctKeys /\ NoBatchRefused
  BY DEF Init, PhaseInv, DistinctKeys, NoBatchRefused
<1>6. OneSlotPerSession /\ BatchOwnsItsSlots
  BY <1>3 DEF Init, OneSlotPerSession, BatchOwnsItsSlots
<1> QED
  BY <1>4, <1>5, <1>6 DEF IInv

LEMMA NextIInv == IInv /\ [Next]_vars => IInv'
<1> SUFFICES ASSUME IInv, [Next]_vars PROVE IInv'
  OBVIOUS
<1> USE DEF connVars, batchVars, tableVars
<1>t. TypeOK /\ PhaseInv
  BY DEF IInv
<1>1. CASE Exit \/ AcceptFails
  <2>1. /\ pc = "top" /\ pc' = "exit"
        /\ UNCHANGED <<conn, reply, served, cur, pending, batch, asg, step, slots, clock>>
    BY <1>1 DEF Exit, AcceptFails
  <2>2. TypeOK'
    BY <1>t, <2>1 DEF TypeOK, Phases
  <2>3. PhaseInv'
    BY <1>t, <2>1 DEF PhaseInv
  <2> QED
    BY <2>1, <2>2, <2>3, QuietStep
<1>2. ASSUME NEW c \in Clients, NEW shape \in Shapes, Accept(c, shape) \/ CoalesceAccept(c, shape)
      PROVE  IInv'
  <2>1. /\ \/ pc = "top" /\ pc' = "read"
           \/ pc = "coalesce" /\ pc' = "read_extra" /\ Len(batch) < NSlots
        /\ conn' = [conn EXCEPT ![c] = "reading"]
        /\ served' = served + 1
        /\ cur' = <<c, shape>>
        /\ UNCHANGED <<reply, pending, batch, asg, step, slots, clock>>
    BY <1>2 DEF Accept, CoalesceAccept, AcceptConnection
  <2>2. TypeOK'
    BY <1>t, <2>1 DEF TypeOK, Phases, ConnStates
  <2>3. PhaseInv'
    BY <1>t, <2>1 DEF PhaseInv
  <2> QED
    BY <2>1, <2>2, <2>3, QuietStep
<1>3. CASE ReadFails \/ ExtraReadFails
  <2>1. /\ \/ pc = "read" /\ pc' = "top"
           \/ pc = "read_extra" /\ pc' = "coalesce"
        /\ conn' = [conn EXCEPT ![cur[1]] = "closed"] /\ cur' = <<>>
        /\ UNCHANGED <<reply, served, pending, batch, asg, step, slots, clock>>
    BY <1>3 DEF ReadFails, ExtraReadFails
  <2>2. TypeOK'
    BY <1>t, <2>1 DEF TypeOK, Phases, ConnStates
  <2>3. PhaseInv'
    BY <1>t, <2>1 DEF PhaseInv
  <2> QED
    BY <2>1, <2>2, <2>3, QuietStep
<1>13. CASE ServeStatus \/ NotFound \/ ExtraNotGeneration
  <2>1. /\ \/ pc = "read" /\ pc' = "top"
           \/ pc = "read_extra" /\ pc' = "coalesce"
        /\ cur' = <<>>
        /\ UNCHANGED <<served, pending, batch, asg, step, slots, clock>>
    BY <1>13 DEF ServeStatus, NotFound, ExtraNotGeneration
  <2>2. PICK c \in Clients : c = cur[1]
    BY <1>t, <2>1 DEF PhaseInv
  <2>3. /\ conn' \in [Clients -> ConnStates]
        /\ reply' \in [Clients -> {0, 200, 400, 404, 500, 503}]
        /\ \A d \in Clients : reply'[d] = reply[d] \/ reply'[d] # 503
    <3>1. CASE ServeStatus
      <4>1. conn' = [conn EXCEPT ![c] = "leaked"] /\ reply' = [reply EXCEPT ![c] = 200]
        BY <2>2, <3>1 DEF ServeStatus
      <4> QED
        BY <1>t, <4>1, AnswerStep
    <3>2. CASE NotFound \/ ExtraNotGeneration
      <4>1. conn' = [conn EXCEPT ![c] = "closed"] /\ reply' = [reply EXCEPT ![c] = 404]
        BY <2>2, <3>2 DEF NotFound, ExtraNotGeneration, AnswerAndClose
      <4> QED
        BY <1>t, <4>1, AnswerStep
    <3> QED
      BY <1>13, <3>1, <3>2
  <2>4. TypeOK'
    BY <1>t, <2>1, <2>3 DEF TypeOK, Phases
  <2>5. PhaseInv'
    BY <1>t, <2>1 DEF PhaseInv
  <2> QED
    BY <2>1, <2>3, <2>4, <2>5, QuietStep
<1>4. CASE GenerateFirst \/ PopPending
  <2>1. PICK c \in Clients, shape \in Shape, rest \in Seq(ReqType) :
            OpenBatch(c, shape, rest) /\ pc \in {"read", "top"}
    <3>1. CASE GenerateFirst
      <4>1. cur[1] \in Clients /\ cur[2] \in Shape /\ pending \in Seq(ReqType)
        BY <1>t, <3>1, ShapeAssumption DEF GenerateFirst, PhaseInv, TypeOK
      <4> QED
        BY <3>1, <4>1 DEF GenerateFirst
    <3>2. CASE PopPending
      <4>1. pending \in Seq(ReqType) /\ pending # <<>>
        BY <1>t, <3>2 DEF PopPending, TypeOK
      <4>2. Head(pending) \in ReqType /\ Tail(pending) \in Seq(ReqType)
        BY <4>1
      <4>3. Head(pending).c \in Clients /\ Head(pending).shape \in Shape
        BY <4>2 DEF ReqType
      <4> QED
        BY <3>2, <4>2, <4>3 DEF PopPending
    <3> QED
      BY <1>4, <3>1, <3>2
  <2>2. /\ TypeOK' /\ PhaseInv' /\ Len(batch') <= 1 /\ asg' = <<>> /\ slots' = slots
        /\ \A d \in Clients : reply'[d] \in {reply[d], 400}
    BY <1>t, <2>1, OpenBatchStep
  <2>3. DistinctKeys'
    BY <2>2 DEF DistinctKeys, TypeOK
  <2>4. NoBatchRefused'
    BY <2>2 DEF NoBatchRefused, IInv
  <2> QED
    BY <2>2, <2>3, <2>4, NoAssignments DEF IInv
<1>5. CASE DrainNext
  BY <1>5, DrainStep
<1>6. CASE DrainDone \/ CoalesceDone \/ AssignDone \/ EngineStep \/ RunDone
  <2>1. /\ \/ pc = "drain" /\ pc' = "coalesce"
           \/ pc = "coalesce" /\ pc' = "assign"
           \/ pc = "assign" /\ pc' = "run" /\ Len(asg) = Len(batch)
           \/ pc = "run" /\ pc' = "run"
           \/ pc = "run" /\ pc' = "commit" /\ step' = 1
        /\ step' \in {0, 1, step, step + 1}
        /\ UNCHANGED <<conn, reply, served, cur, pending, batch, asg, slots, clock>>
    BY <1>6 DEF DrainDone, CoalesceDone, AssignDone, EngineStep, RunDone
  <2>2. TypeOK'
    BY <1>t, <2>1 DEF TypeOK, Phases
  <2>3. PhaseInv'
    BY <1>t, <2>1 DEF PhaseInv
  <2> QED
    BY <2>1, <2>2, <2>3, QuietStep
<1>7. CASE GenerateExtra
  BY <1>7, ExtraStep
<1>8. CASE AssignMember
  BY <1>8, AssignStep
<1>9. CASE EngineFails
  <2>1. pc = "run" /\ FailBatch(500) /\ slots' = slots /\ clock' = clock
    BY <1>9 DEF EngineFails
  <2>2. /\ TypeOK' /\ PhaseInv' /\ batch' = <<>> /\ asg' = <<>>
        /\ \A d \in Clients : reply'[d] \in {reply[d], 500}
    <3>1. slots' \in [Slots -> SlotType(CacheKey)] /\ clock' \in Nat
      BY <1>t, <2>1 DEF TypeOK
    <3> QED
      BY <1>t, <2>1, <3>1, FailBatchStep
  <2> QED
    BY <2>1, <2>2, QuietStep
<1>10. CASE CommitMember
  BY <1>10, CommitStep
<1>11. CASE CommitDone
  <2>1. /\ pc = "commit" /\ pc' = "top" /\ batch' = <<>> /\ asg' = <<>> /\ step' = 0
        /\ UNCHANGED <<conn, reply, served, cur, pending, slots, clock>>
    BY <1>11 DEF CommitDone
  <2>2. TypeOK'
    BY <1>t, <2>1, SlotsAssumption DEF TypeOK, Phases
  <2>3. PhaseInv'
    BY <1>t, <2>1 DEF PhaseInv
  <2> QED
    BY <2>1, <2>2, <2>3, QuietStep
<1>12. CASE UNCHANGED vars
  <2>1. TypeOK' /\ PhaseInv'
    BY <1>t, <1>12 DEF vars, TypeOK, PhaseInv
  <2> QED
    BY <1>12, <2>1, QuietStep DEF vars
<1> QED
  BY <1>1, <1>2, <1>3, <1>4, <1>5, <1>6, <1>7, <1>8, <1>9, <1>10, <1>11, <1>12, <1>13
     DEF Next, Serve, Arrive

-----------------------------------------------------------------------------
LEMMA IInvAlways == Spec => []IInv
BY InitIInv, NextIInv, PTL DEF Spec

\* The request loop keeps its types: in particular no batch outgrows the
\* slots and no assignment names a slot outside the table.
THEOREM TypeCorrect == Spec => []TypeOK
BY IInvAlways, PTL DEF IInv

\* A session is resident in one slot at most (request_scheduler.cu, assign).
THEOREM SessionHasOneSlot == Spec => []OneSlotPerSession
BY IInvAlways, PTL DEF IInv

\* From assignment to commit the members of a batch own distinct slots that
\* nobody evicts (http_server.cu, the assignment loop).
THEOREM BatchKeepsItsSlots == Spec => []BatchOwnsItsSlots
BY IInvAlways, PTL DEF IInv

\* The 503 no_cache_slot_available branch is unreachable.
THEOREM NeverRefusesABatch == Spec => []NoBatchRefused
BY IInvAlways, PTL DEF IInv

-----------------------------------------------------------------------------
(***************************************************************************)
(* The cursor property needs what a member can rely on until it is         *)
(* committed: a hit still finds the slot valid at the position it was      *)
(* assigned at, a miss finds it emptied.  Ownership (BatchOwnsItsSlots)    *)
(* keeps the assignments and commits of the other members away from it.    *)
(***************************************************************************)
Uncommitted(i) == pc = "commit" => i >= step

AsAssigned(t, a) ==
    IF a.hit
    THEN t[a.slot].valid /\ a.pos_in = t[a.slot].pos
    ELSE /\ ~ t[a.slot].valid /\ a.pos_in = BasePos
         /\ t[a.slot].prompt_tokens = 0 /\ t[a.slot].generated_tokens = 0

CursorInv ==
    /\ CursorMatchesTimeline
    /\ \A i \in 1 .. Len(asg) : Uncommitted(i) => AsAssigned(slots, asg[i])

\* A slot whose cursor is right.
InStep(slot) ==
    slot.valid => slot.pos = BasePos + (slot.prompt_tokens - 1) + slot.generated_tokens

\* assign leaves the chosen slot as its result says, with the cursor right.
LEMMA AssignedAsPromised ==
    ASSUME NEW K, NEW t \in Table(K), NEW key \in K, NEW prompt \in AnyPrompt,
           NEW prot, NEW now \in Nat, TargetSlot(t, key, prot) # NoSlot,
           InStep(t[TargetSlot(t, key, prot)])
    PROVE  LET u == assign_table(t, key, prompt, prot, now)
           IN  /\ AsAssigned(u, assign_result(t, key, prompt, prot))
               /\ InStep(u[TargetSlot(t, key, prot)])
<1> DEFINE s == TargetSlot(t, key, prot)
           u == assign_table(t, key, prompt, prot, now)
           a == assign_result(t, key, prompt, prot)
           v == IF find(t, key) = NoSlot THEN ClaimedSlot(key, prompt, now)
                ELSE IF preview_hit(t, key, prompt)
                     THEN [t[s] EXCEPT !.last_used = now]
                     ELSE RebuiltSlot(t[s], prompt, now)
<1>1. s \in Slots
  BY TargetResult
<1>2. u[s] = v
  BY <1>1 DEF assign_table, Table
<1>3. t[s] \in SlotType(K)
  BY <1>1 DEF Table
<1>4. a.slot = s
  BY DEF assign_result
<1>5. find(t, key) # NoSlot => s = find(t, key)
  BY DEF TargetSlot
<1>6. CASE preview_hit(t, key, prompt)
  <2>1. find(t, key) # NoSlot /\ t[s].valid /\ a.hit /\ a.pos_in = t[s].pos
    BY <1>5, <1>6 DEF preview_hit, assign_result, preview_position
  <2>2. /\ v.valid = t[s].valid /\ v.pos = t[s].pos /\ v.prompt_tokens = t[s].prompt_tokens
        /\ v.generated_tokens = t[s].generated_tokens
    BY <1>3, <1>6, <2>1 DEF SlotType
  <2> QED
    BY <1>2, <1>4, <2>1, <2>2 DEF AsAssigned, InStep
<1>7. CASE ~ preview_hit(t, key, prompt)
  <2>1. ~ a.hit /\ a.pos_in = BasePos
    BY <1>7 DEF assign_result, preview_position
  <2>2. ~ v.valid /\ v.prompt_tokens = 0 /\ v.generated_tokens = 0
    BY <1>3, <1>7 DEF ClaimedSlot, RebuiltSlot, SlotType
  <2> QED
    BY <1>2, <1>4, <2>1, <2>2 DEF AsAssigned, InStep
<1> QED
  BY <1>6, <1>7

\* The loop starts with an empty table.
LEMMA CursorInit == Init => CursorInv
BY DEF Init, CursorInv, CursorMatchesTimeline, EmptyTable, FreeSlot

\* Assigning the next member disturbs neither the cursors nor the members before.
LEMMA CursorAssign ==
    ASSUME IInv, CursorInv, AssignMember, IInv'
    PROVE  CursorInv'
<1> DEFINE k == Len(asg)
           key == NextMember.key
           prompt == NextMember.prompt
           s == TargetSlot(slots, key, Protected)
           a == assign_result(slots, key, prompt, Protected)
<1>1. /\ slots \in Table(CacheKey) /\ clock + 1 \in Nat /\ k \in Nat
      /\ asg \in Seq(AsgType)
  BY TableIsTable DEF IInv, TypeOK
<1>2. /\ pc = "assign" /\ slots' = assign_table(slots, key, prompt, Protected, clock + 1)
      /\ k < Len(batch)
  BY DEF AssignMember
<1>3. a.slot = s
  BY DEF assign_result
<1>4. CASE s = NoSlot
  <2>1. asg' = <<>> /\ slots' = slots
    BY <1>2, <1>3, <1>4 DEF AssignMember, FailBatch, assign_table
  <2> QED
    BY <2>1 DEF CursorInv, CursorMatchesTimeline
<1>5. CASE s # NoSlot
  <2>1. asg' = Append(asg, a) /\ pc' = pc /\ batch' = batch
    BY <1>3, <1>5 DEF AssignMember
  <2>2. key \in CacheKey /\ prompt \in AnyPrompt
    <3>1. batch \in Seq(ReqType) /\ k + 1 \in 1 .. Len(batch)
      BY <1>1, <1>2 DEF IInv, TypeOK
    <3>2. NextMember \in ReqType
      BY <3>1 DEF NextMember
    <3> QED
      BY <3>2 DEF ReqType
  <2>3. s \in Slots /\ \A r \in Slots : r # s => slots'[r] = slots[r]
    BY <1>1, <1>2, <1>5, <2>2, AssignTableResult
  <2>4. \A r \in Slots : InStep(slots[r])
    BY DEF CursorInv, CursorMatchesTimeline, InStep
  <2>5. AsAssigned(slots', a) /\ InStep(slots'[s])
    BY <1>1, <1>2, <1>5, <2>2, <2>3, <2>4, AssignedAsPromised
  <2>6. CursorMatchesTimeline'
    BY <2>3, <2>4, <2>5 DEF CursorMatchesTimeline, InStep
  <2>7. Len(asg') = k + 1 /\ asg'[k + 1] = a /\ \A i \in 1 .. k : asg'[i] = asg[i]
    <3>1. a \in AsgType
      BY <2>3, AssignResultType DEF IInv
    <3> QED
      BY <1>1, <2>1, <3>1, AppendProperties
  <2>8. \A i \in 1 .. k : asg[i].slot # s /\ asg[i].slot \in Slots
    <3>1. \A i \in 1 .. k : asg'[i].slot # asg'[k + 1].slot
      BY <1>1, <2>7 DEF IInv, BatchOwnsItsSlots
    <3>2. \A i \in 1 .. k : asg[i].slot \in Slots
      BY AssignedSlots DEF IInv
    <3> QED
      BY <1>3, <2>7, <3>1, <3>2
  <2>9. \A i \in 1 .. k : AsAssigned(slots, asg[i])
    BY <1>2 DEF CursorInv, Uncommitted
  <2>10. \A i \in 1 .. k : AsAssigned(slots', asg'[i])
    BY <2>3, <2>7, <2>8, <2>9 DEF AsAssigned
  <2>11. \A i \in 1 .. Len(asg') : AsAssigned(slots', asg'[i])
    <3>1. \A i \in 1 .. Len(asg') : i \in 1 .. k \/ i = k + 1
      BY <1>1, <2>7
    <3> QED
      BY <2>5, <2>7, <2>10, <3>1
  <2> QED
    BY <2>6, <2>11 DEF CursorInv
<1> QED
  BY <1>4, <1>5

\* Committing a member advances its cursor by what it adds to the timeline: a
\* hit by the generated tokens, a miss also by the prompt.
LEMMA CursorCommit ==
    ASSUME IInv, CursorInv, CommitMember
    PROVE  CursorInv'
<1> DEFINE a == asg[step]
           old == slots[a.slot]
           new == CommittedSlot(old, a.pos_in + (OwnPrefill(step) + batch[1].tokens),
                                CommittedPromptTokens(step), batch[1].tokens, clock + 1)
<1>1. /\ pc = "commit" /\ step \in 1 .. Len(batch) /\ Len(asg) = Len(batch)
      /\ batch \in Seq(ReqType) /\ asg \in Seq(AsgType)
  BY DEF CommitMember, IInv, TypeOK, PhaseInv
<1>2. a \in AsgType /\ batch[step] \in ReqType /\ batch[1] \in ReqType
  BY <1>1
<1>3. /\ a.slot \in Slots /\ a.pos_in \in Nat /\ a.hit \in BOOLEAN
      /\ batch[1].tokens \in Nat /\ batch[step].prompt \in AnyPrompt
  BY <1>2 DEF AsgType, ReqType
<1>4. old \in SlotType(CacheKey)
  BY <1>3 DEF IInv, TypeOK
<1>5. old.pos \in Nat /\ old.prompt_tokens \in Nat /\ old.generated_tokens \in Nat
  BY <1>4 DEF SlotType
<1>6. /\ slots' = [slots EXCEPT ![a.slot] = new]
      /\ step' = step + 1 /\ UNCHANGED <<pc, batch, asg>>
  BY DEF CommitMember, commit_table
<1>7. slots'[a.slot] = new /\ \A r \in Slots : r # a.slot => slots'[r] = slots[r]
  BY <1>3, <1>6 DEF IInv, TypeOK
<1>8. /\ new.pos = a.pos_in + (OwnPrefill(step) + batch[1].tokens)
      /\ new.prompt_tokens = old.prompt_tokens + CommittedPromptTokens(step)
      /\ new.generated_tokens = old.generated_tokens + batch[1].tokens
  BY <1>4 DEF CommittedSlot, SlotType
<1>9. AsAssigned(slots, a) /\ InStep(old)
  BY <1>1, <1>3 DEF CursorInv, CursorMatchesTimeline, Uncommitted, InStep
<1>10. new.pos = BasePos + (new.prompt_tokens - 1) + new.generated_tokens
  <2>1. CASE a.hit
    <3>1. OwnPrefill(step) = 0 /\ CommittedPromptTokens(step) = 0
      BY <2>1 DEF OwnPrefill, CommittedPromptTokens
    <3>2. a.pos_in = BasePos + (old.prompt_tokens - 1) + old.generated_tokens
      BY <1>9, <2>1 DEF AsAssigned, InStep
    <3> HIDE DEF new, old, a
    <3> QED
      BY <1>3, <1>5, <1>8, <3>1, <3>2, PositionAssumption
  <2>2. CASE ~ a.hit
    <3>1. CommittedPromptTokens(step) \in Nat /\ OwnPrefill(step) = CommittedPromptTokens(step) - 1
      BY <1>3, <2>2, PromptAssumption DEF OwnPrefill, CommittedPromptTokens, PrefillSteps, AnyPrompt
    <3>2. a.pos_in = BasePos /\ old.prompt_tokens = 0 /\ old.generated_tokens = 0
      BY <1>9, <2>2 DEF AsAssigned
    <3> HIDE DEF new, old, a
    <3> QED
      BY <1>3, <1>8, <3>1, <3>2, PositionAssumption
  <2> QED
    BY <2>1, <2>2
<1>11. CursorMatchesTimeline'
  <2> HIDE DEF new
  <2> QED
    BY <1>3, <1>7, <1>10 DEF CursorInv, CursorMatchesTimeline
<1>12. ASSUME NEW i \in 1 .. Len(asg'), Uncommitted(i)'
       PROVE  AsAssigned(slots', asg'[i])
  <2>1. i \in 1 .. Len(asg) /\ i > step
    BY <1>1, <1>6, <1>12 DEF Uncommitted
  <2>2. asg[i].slot \in Slots /\ asg[i].slot # a.slot
    BY <1>1, <2>1, AssignedSlots DEF IInv, BatchOwnsItsSlots
  <2>3. AsAssigned(slots, asg[i])
    BY <1>1, <2>1 DEF CursorInv, Uncommitted
  <2> QED
    BY <1>6, <1>7, <2>2, <2>3 DEF AsAssigned
<1> QED
  BY <1>11, <1>12 DEF CursorInv

\* The other steps leave the table and the open assignments alone.
LEMMA CursorQuiet ==
    ASSUME CursorInv, slots' = slots,
           asg' = <<>> \/ (asg' = asg /\ pc # "commit") \/ (asg' = asg /\ pc' = pc /\ step' = step)
    PROVE  CursorInv'
<1>1. CursorMatchesTimeline'
  BY DEF CursorInv, CursorMatchesTimeline
<1>2. ASSUME NEW i \in 1 .. Len(asg'), Uncommitted(i)'
      PROVE  AsAssigned(slots', asg'[i])
  BY <1>2 DEF CursorInv, Uncommitted
<1> QED
  BY <1>1, <1>2 DEF CursorInv

LEMMA CursorNext == IInv /\ IInv' /\ CursorInv /\ [Next]_vars => CursorInv'
<1> SUFFICES ASSUME IInv, IInv', CursorInv, [Next]_vars PROVE CursorInv'
  OBVIOUS
<1> USE DEF connVars, batchVars, tableVars
<1>1. CASE AssignMember
  BY <1>1, CursorAssign
<1>2. CASE CommitMember
  BY <1>2, CursorCommit
<1>3. CASE UNCHANGED vars
  BY <1>3, CursorQuiet DEF vars
<1>4. CASE Exit \/ AcceptFails \/ ReadFails \/ ExtraReadFails \/ ServeStatus \/ NotFound \/ ExtraNotGeneration
  BY <1>4, CursorQuiet DEF Exit, AcceptFails, ReadFails, ExtraReadFails, ServeStatus, NotFound,
     ExtraNotGeneration
<1>5. CASE \E c \in Clients, shape \in Shapes : Accept(c, shape) \/ CoalesceAccept(c, shape)
  BY <1>5, CursorQuiet DEF Accept, CoalesceAccept, AcceptConnection
<1>6. CASE GenerateFirst \/ PopPending \/ DrainNext \/ GenerateExtra
  BY <1>6, CursorQuiet DEF GenerateFirst, PopPending, OpenBatch, DrainNext, GenerateExtra
<1>7. CASE DrainDone \/ CoalesceDone \/ AssignDone \/ EngineStep \/ RunDone
  BY <1>7, CursorQuiet DEF DrainDone, CoalesceDone, AssignDone, EngineStep, RunDone
<1>8. CASE EngineFails \/ CommitDone
  BY <1>8, CursorQuiet DEF EngineFails, FailBatch, CommitDone
<1> QED
  BY <1>1, <1>2, <1>3, <1>4, <1>5, <1>6, <1>7, <1>8 DEF Next, Serve, Arrive

-----------------------------------------------------------------------------
LEMMA CursorAlways == Spec => []CursorInv
BY CursorInit, CursorNext, IInvAlways, PTL DEF Spec

\* The position a committed slot continues at is the number of tokens of its
\* timeline (request_scheduler.cu, commit), through hits, rebuilds, evictions
\* and failed batches.
THEOREM CursorIsTimelineLength == Spec => []CursorMatchesTimeline
<1>1. CursorInv => CursorMatchesTimeline
  BY DEF CursorInv
<1> QED
  BY <1>1, CursorAlways, PTL

-----------------------------------------------------------------------------
(***************************************************************************)
(* A member of a fresh batch that waits for its slot would still be        *)
(* admitted at the position of the batch; one that has its slot was        *)
(* assigned at that position, with room for its own prefill.  An eviction  *)
(* can only hit a waiting member when the evicting one missed, and then    *)
(* the batch runs at BasePos, where a waiting member's preview was a miss  *)
(* too: valid slots lie beyond BasePos, as every request generates.        *)
(***************************************************************************)
Fits(t, i) ==
    /\ preview_position(t, batch[i].key, batch[i].prompt) = batch[1].pos
    /\ context_admission(t, batch[i].key, batch[i].prompt, batch[1].tokens)

Granted(i) ==
    /\ asg[i].pos_in = batch[1].pos
    /\ batch[1].pos + OwnPrefill(i) + batch[1].tokens <= Ctx

FreshFits ==
    /\ \A i \in 1 .. Len(asg) : Granted(i)
    /\ \A i \in Len(asg) + 1 .. Len(batch) : Fits(slots, i)
    /\ pc = "run" => step <= MaxPrefill + batch[1].tokens

PreviewInv ==
    /\ \A s \in Slots : slots[s].valid => slots[s].pos > BasePos
    /\ batch # <<>> => batch[1].tokens > 0
    /\ FreshBatch => FreshFits

\* What is admitted lies at the previewed position.
LEMMA AdmissionMeans ==
    ASSUME NEW t, NEW key, NEW prompt, NEW n
    PROVE  context_admission(t, key, prompt, n) <=>
             preview_position(t, key, prompt)
               + (IF preview_hit(t, key, prompt) THEN 0 ELSE PrefillSteps(prompt)) + n <= Ctx
BY DEF context_admission, preview_position

\* The preview of a key looks at the slots that hold it.
LEMMA PreviewLocal ==
    ASSUME NEW t, NEW u, NEW key, NEW prompt, NEW n,
           \A r \in Slots : HoldsKey(u, r, key) <=> HoldsKey(t, r, key),
           find(t, key) # NoSlot => u[find(t, key)] = t[find(t, key)]
    PROVE  /\ preview_position(u, key, prompt) = preview_position(t, key, prompt)
           /\ context_admission(u, key, prompt, n) <=> context_admission(t, key, prompt, n)
<1>1. {r \in Slots : HoldsKey(u, r, key)} = {r \in Slots : HoldsKey(t, r, key)}
  OBVIOUS
<1>2. find(u, key) = find(t, key)
  BY <1>1 DEF find
<1>3. preview_hit(u, key, prompt) <=> preview_hit(t, key, prompt)
  BY <1>2 DEF preview_hit
<1>4. preview_hit(t, key, prompt) => u[find(u, key)].pos = t[find(t, key)].pos
  BY <1>2 DEF preview_hit
<1>5. preview_position(u, key, prompt) = preview_position(t, key, prompt)
  BY <1>3, <1>4 DEF preview_position
<1> QED
  BY <1>3, <1>5, AdmissionMeans

LEMMA RequestedPositive ==
    ASSUME NEW shape \in Shape, NEW fallback \in Nat
    PROVE  requested_tokens(shape, fallback) > 0
<1>1. shape.max \in Nat
  BY DEF Shape
<1> QED
  BY <1>1 DEF requested_tokens

LEMMA PrefillOfMembers ==
    ASSUME TypeOK, NEW i \in 1 .. Len(batch)
    PROVE  OwnPrefill(i) \in Nat
<1>1. batch[i] \in ReqType
  BY DEF TypeOK
<1>2. PrefillSteps(batch[i].prompt) \in Nat
  BY <1>1, PrefillType DEF ReqType
<1> QED
  BY <1>2 DEF OwnPrefill

\* The prefill steps of a batch are those of one of its members.
LEMMA MaxPrefillOfOne ==
    ASSUME TypeOK, batch # <<>>, \A i \in 1 .. Len(batch) : OwnPrefill(i) <= Ctx
    PROVE  \E i \in 1 .. Len(batch) : MaxPrefill = OwnPrefill(i)
<1> DEFINE S == {OwnPrefill(i) : i \in 1 .. Len(batch)}
           T == {Ctx - m : m \in S}
<1>1. Len(batch) \in Nat \ {0} /\ Ctx \in Nat
  BY PositionAssumption DEF TypeOK
<1>2. \A i \in 1 .. Len(batch) : OwnPrefill(i) \in Nat
  BY PrefillOfMembers
<1>3. S \subseteq 0 .. Ctx
  BY <1>1, <1>2
<1>4. 1 \in 1 .. Len(batch)
  BY <1>1
<1>5. OwnPrefill(1) \in S
  BY <1>4
<1> HIDE DEF S
<1>6. T \subseteq Nat /\ T # {}
  <2>1. \A m \in S : Ctx - m \in Nat
    BY <1>1, <1>3
  <2> QED
    BY <1>5, <2>1
<1>7. Least(T) \in T /\ \A n \in T : Least(T) <= n
  BY <1>6, LeastExists
<1>8. PICK m \in S : Least(T) = Ctx - m
  BY <1>7
<1>9. \A x \in S : x <= m
  <2> SUFFICES ASSUME NEW x \in S PROVE x <= m
    OBVIOUS
  <2>1. Ctx - m <= Ctx - x
    BY <1>7, <1>8
  <2>2. x \in Int /\ m \in Int /\ Ctx \in Int
    BY <1>1, <1>3
  <2> QED
    BY <2>1, <2>2
<1>10. \E y \in S : \A i \in 1 .. Len(batch) : OwnPrefill(i) <= y
  BY <1>9 DEF S
<1>11. MaxPrefill \in S
  BY <1>10 DEF MaxPrefill, S
<1> QED
  BY <1>11 DEF S

\* So the engine stays within the window.
LEMMA WindowBound ==
    ASSUME TypeOK, PhaseInv, FreshFits, batch # <<>>, Len(asg) = Len(batch)
    PROVE  MaxPrefill \in Nat /\ batch[1].pos + MaxPrefill + batch[1].tokens <= Ctx
<1>1. Len(batch) \in Nat \ {0} /\ batch[1] \in ReqType /\ Ctx \in Nat
  BY PositionAssumption DEF TypeOK
<1>2. batch[1].pos \in Nat /\ batch[1].tokens \in Nat
  BY <1>1 DEF ReqType
<1>3. \A i \in 1 .. Len(batch) : /\ OwnPrefill(i) \in Nat
                                  /\ batch[1].pos + OwnPrefill(i) + batch[1].tokens <= Ctx
  BY PrefillOfMembers DEF FreshFits, Granted
<1>4. \A i \in 1 .. Len(batch) : OwnPrefill(i) <= Ctx
  BY <1>1, <1>2, <1>3
<1>5. PICK i \in 1 .. Len(batch) : MaxPrefill = OwnPrefill(i)
  BY <1>4, MaxPrefillOfOne
<1> QED
  BY <1>3, <1>5

LEMMA PreviewInit == Init => PreviewInv
<1> SUFFICES ASSUME Init PROVE PreviewInv
  OBVIOUS
<1>1. \A s \in Slots : ~ slots[s].valid
  BY DEF Init, EmptyTable, FreeSlot
<1>2. batch = <<>> /\ asg = <<>> /\ pc = "top"
  BY DEF Init
<1>3. FreshFits
  BY <1>2 DEF FreshFits
<1> QED
  BY <1>1, <1>2, <1>3 DEF PreviewInv

\* A step after which the batch is empty.
LEMMA PreviewDrop ==
    ASSUME PreviewInv, slots' = slots, batch' = <<>>, asg' = <<>>, pc' # "run"
    PROVE  PreviewInv'
BY DEF PreviewInv, FreshFits

\* A step that keeps table, batch and assignments.
LEMMA PreviewQuiet ==
    ASSUME PreviewInv, UNCHANGED <<slots, batch, asg>>,
           FreshBatch /\ pc' = "run" => step' <= MaxPrefill + batch[1].tokens
    PROVE  PreviewInv'
BY DEF PreviewInv, FreshFits, FreshBatch, Granted, Fits, OwnPrefill, MaxPrefill

LEMMA PreviewOpenBatch ==
    ASSUME TypeOK, PhaseInv, PreviewInv, pc \in {"read", "top"},
           NEW c \in Clients, NEW shape \in Shape, NEW rest \in Seq(ReqType),
           OpenBatch(c, shape, rest)
    PROVE  PreviewInv'
<1> DEFINE req == Request(c, shape, DecodeSteps, served + Len(rest), FALSE)
<1>1. /\ req.pos = preview_position(slots, req.key, req.prompt)
      /\ req.tokens = requested_tokens(shape, DecodeSteps)
      /\ Admitted(req) <=> context_admission(slots, req.key, req.prompt, req.tokens)
  BY DEF Request, Admitted
<1>2. req.tokens > 0
  BY <1>1, RequestedPositive, LimitAssumption
<1>3. batch = <<>> /\ asg = <<>> /\ slots' = slots /\ asg' = asg
  BY DEF PhaseInv, OpenBatch, tableVars
<1>4. CASE req.prompt \notin BadPrompts /\ Admitted(req)
  <2>1. batch' = <<req>> /\ pc' = "drain"
    BY <1>4 DEF OpenBatch
  <2> HIDE DEF req
  <2>2. Len(batch') = 1 /\ batch'[1] = req /\ Len(asg') = 0
    BY <1>3, <2>1
  <2>3. Fits(slots, 1)'
    BY <1>1, <1>3, <1>4, <2>2 DEF Fits
  <2>4. FreshFits'
    <3>1. \A i \in Len(asg') + 1 .. Len(batch') : i = 1
      BY <2>2
    <3> QED
      BY <2>1, <2>2, <2>3, <3>1 DEF FreshFits
  <2> QED
    BY <1>2, <1>3, <2>2, <2>4 DEF PreviewInv
<1>5. CASE ~ (req.prompt \notin BadPrompts /\ Admitted(req))
  <2>1. batch' = batch /\ pc' = "top"
    BY <1>5 DEF OpenBatch
  <2> QED
    BY <1>3, <2>1, PreviewDrop
<1> QED
  BY <1>4, <1>5

LEMMA PreviewDrain ==
    ASSUME TypeOK, PhaseInv, PreviewInv, DrainNext
    PROVE  PreviewInv'
<1>1. /\ pc = "drain" /\ pc' = pc /\ slots' = slots /\ asg' = asg
      /\ batch \in Seq(ReqType) /\ batch # <<>> /\ pending \in Seq(ReqType)
      /\ step \in 1 .. Len(pending)
  BY DEF DrainNext, tableVars, TypeOK, PhaseInv
<1>2. CASE ~ JoinsBatch(pending[step])
  BY <1>1, <1>2, PreviewQuiet DEF DrainNext
<1>3. CASE JoinsBatch(pending[step])
  <2> DEFINE r == [pending[step] EXCEPT !.drained = TRUE]
  <2>1. batch' = Append(batch, r)
    BY <1>3 DEF DrainNext
  <2>2. pending[step] \in ReqType
    BY <1>1
  <2>3. r.drained = TRUE
    BY <2>2 DEF ReqType
  <2> HIDE DEF r
  <2>4. /\ Len(batch') = Len(batch) + 1 /\ batch'[Len(batch) + 1] = r
        /\ batch'[1] = batch[1] /\ Len(batch) \in Nat \ {0}
    BY <1>1, <2>1
  <2>5. ~ FreshBatch'
    BY <2>3, <2>4 DEF FreshBatch
  <2> QED
    BY <1>1, <2>4, <2>5 DEF PreviewInv
<1> QED
  BY <1>2, <1>3

LEMMA PreviewExtra ==
    ASSUME TypeOK, PhaseInv, PreviewInv, GenerateExtra
    PROVE  PreviewInv'
<1> DEFINE req == Request(cur[1], cur[2], batch[1].tokens, served + Len(pending), FALSE)
           ok == req.prompt \notin BadPrompts /\ Admitted(req)
<1>1. /\ pc = "read_extra" /\ pc' = "coalesce" /\ slots' = slots /\ asg' = asg /\ asg = <<>>
      /\ batch \in Seq(ReqType) /\ batch # <<>>
      /\ batch' = IF ok /\ JoinsBatch(req) THEN Append(batch, req) ELSE batch
  BY DEF GenerateExtra, tableVars, TypeOK, PhaseInv
<1>2. /\ req.pos = preview_position(slots, req.key, req.prompt)
      /\ Admitted(req) <=> context_admission(slots, req.key, req.prompt, req.tokens)
  BY DEF Request, Admitted
<1> HIDE DEF req
<1>3. CASE ~ (ok /\ JoinsBatch(req))
  BY <1>1, <1>3, PreviewQuiet
<1>4. CASE ok /\ JoinsBatch(req)
  <2>1. req.tokens = batch[1].tokens /\ req.pos = batch[1].pos /\ Admitted(req)
    BY <1>4 DEF JoinsBatch
  <2>2. /\ Len(batch') = Len(batch) + 1 /\ batch'[Len(batch) + 1] = req
        /\ batch'[1] = batch[1] /\ Len(batch) \in Nat \ {0}
        /\ \A i \in 1 .. Len(batch) : batch'[i] = batch[i]
    BY <1>1, <1>4
  <2>n. PICK n \in Nat : n = Len(batch) + 1
    BY <2>2
  <2>3. Fits(slots, n)'
    BY <1>1, <1>2, <2>1, <2>2, <2>n DEF Fits
  <2>4. FreshBatch' => FreshBatch
    BY <2>2 DEF FreshBatch
  <2>5. FreshBatch => \A i \in 1 .. Len(batch) : Fits(slots, i)
    BY <1>1 DEF PreviewInv, FreshFits
  <2>6. FreshBatch => \A i \in 1 .. Len(batch) : Fits(slots, i)'
    BY <1>1, <2>2, <2>5 DEF Fits
  <2>7. \A i \in 1 .. Len(batch') : i \in 1 .. Len(batch) \/ i = n
    BY <2>2, <2>n
  <2>8. FreshBatch' => \A i \in 1 .. Len(batch') : Fits(slots, i)'
    BY <2>3, <2>4, <2>6, <2>7
  <2>9. FreshBatch' => FreshFits'
    BY <1>1, <2>8 DEF FreshFits
  <2> QED
    BY <1>1, <2>2, <2>9 DEF PreviewInv
<1> QED
  BY <1>3, <1>4

LEMMA PreviewAssign ==
    ASSUME IInv, PreviewInv, AssignMember
    PROVE  PreviewInv'
<1> DEFINE a == assign_result(slots, NextMember.key, NextMember.prompt, Protected)
<1>1. /\ pc = "assign" /\ Len(asg) < Len(batch) /\ batch # <<>>
      /\ batch \in Seq(ReqType) /\ asg \in Seq(AsgType)
      /\ slots \in Table(CacheKey) /\ clock + 1 \in Nat
  BY TableIsTable DEF AssignMember, IInv, TypeOK, PhaseInv
<1>2. PICK k \in Nat, key \in CacheKey, prompt \in AnyPrompt :
         k = Len(asg) + 1 /\ key = batch[k].key /\ prompt = batch[k].prompt
  <2>1. Len(asg) + 1 \in Nat /\ batch[Len(asg) + 1] \in ReqType
    BY <1>1
  <2> QED
    BY <2>1 DEF ReqType
<1>3. /\ NextMember = batch[k] /\ k \in 1 .. Len(batch)
      /\ slots' = assign_table(slots, key, prompt, Protected, clock + 1)
  BY <1>1, <1>2 DEF AssignMember, NextMember
<1>4. CASE a.slot = NoSlot
  <2>1. slots' = slots
    BY <1>2, <1>3, <1>4 DEF assign_result, assign_table
  <2> QED
    BY <1>4, <2>1, PreviewDrop DEF AssignMember, FailBatch
<1>5. CASE a.slot # NoSlot
  <2>1. PICK s : s = TargetSlot(slots, key, Protected)
    OBVIOUS
  <2>2. s # NoSlot
    BY <1>2, <1>3, <1>5, <2>1 DEF assign_result
  <2>3. /\ s \in Slots /\ HoldsKey(slots', s, key)
        /\ \A r \in Slots : r # s => slots'[r] = slots[r]
    BY <1>1, <1>3, <2>1, <2>2, AssignTableResult
  <2>4. /\ asg' = Append(asg, a) /\ UNCHANGED <<pc, batch, step>>
        /\ a \in AsgType
    <3>1. a \in AsgType
      BY <1>2, <1>3, <2>1, <2>3, AssignResultType DEF IInv
    <3> QED
      BY <1>5, <3>1 DEF AssignMember
  <2>5. /\ Len(asg') = k /\ asg'[k] = a
        /\ \A i \in 1 .. Len(asg) : asg'[i] = asg[i]
    BY <1>1, <1>2, <2>4
  <2>6. /\ a.hit = preview_hit(slots, key, prompt)
        /\ a.pos_in = preview_position(slots, key, prompt)
    BY <1>2, <1>3 DEF assign_result
  <2> HIDE DEF a
  <2>7. \A r \in Slots : slots'[r].valid => slots'[r].pos > BasePos
    <3>1. slots'[s].valid => slots[s].valid /\ slots'[s].pos = slots[s].pos
      <4>1. slots[s] \in SlotType(CacheKey)
        BY <1>1, <2>3 DEF Table
      <4> DEFINE v == IF find(slots, key) = NoSlot THEN ClaimedSlot(key, prompt, clock + 1)
                      ELSE IF preview_hit(slots, key, prompt)
                           THEN [slots[s] EXCEPT !.last_used = clock + 1]
                           ELSE RebuiltSlot(slots[s], prompt, clock + 1)
      <4>2. slots'[s] = v
        BY <1>1, <1>3, <2>1, <2>2, <2>3 DEF assign_table, Table
      <4>3. v.valid => slots[s].valid /\ v.pos = slots[s].pos
        BY <4>1 DEF ClaimedSlot, RebuiltSlot, SlotType
      <4> QED
        BY <4>2, <4>3
    <3> QED
      BY <2>3, <3>1 DEF PreviewInv
  <2>8. ASSUME FreshBatch PROVE FreshFits'
    <3>1. FreshFits
      BY <2>8 DEF PreviewInv
    <3>2. Fits(slots, k)
      BY <1>1, <1>2, <1>3, <3>1 DEF FreshFits
    <3>3. /\ preview_position(slots, key, prompt) = batch[1].pos
          /\ context_admission(slots, key, prompt, batch[1].tokens)
      BY <1>2, <3>2 DEF Fits
    <3>4. Granted(k)'
      <4>1. OwnPrefill(k)' = IF preview_hit(slots, key, prompt) THEN 0 ELSE PrefillSteps(prompt)
        BY <1>2, <2>4, <2>5, <2>6 DEF OwnPrefill
      <4>2. batch[1].pos + OwnPrefill(k)' + batch[1].tokens <= Ctx
        BY <3>3, <4>1, AdmissionMeans
      <4> QED
        BY <2>4, <2>5, <2>6, <3>3, <4>2 DEF Granted
    <3>5. \A i \in 1 .. Len(asg) : Granted(i)'
      BY <2>4, <2>5, <3>1 DEF FreshFits, Granted, OwnPrefill
    <3>6. \A i \in 1 .. Len(asg') : Granted(i)'
      <4>1. \A i \in 1 .. Len(asg') : i \in 1 .. Len(asg) \/ i = k
        BY <1>1, <1>2, <2>5
      <4> QED
        BY <3>4, <3>5, <4>1
    <3>7. ASSUME NEW i \in Len(asg') + 1 .. Len(batch')
          PROVE  Fits(slots, i)'
      <4>1. i \in 1 .. Len(batch) /\ i \in Len(asg) + 1 .. Len(batch) /\ i # k
        BY <1>1, <1>2, <2>4, <2>5
      <4>2. PICK other \in CacheKey : other = batch[i].key
        <5>1. batch[i] \in ReqType
          BY <1>1, <4>1
        <5> QED
          BY <5>1 DEF ReqType
      <4>3. other # key
        BY <1>2, <1>3, <4>1, <4>2 DEF IInv, DistinctKeys
      <4>4. Fits(slots, i)
        BY <3>1, <4>1 DEF FreshFits
      <4>5. ~ HoldsKey(slots', s, other)
        BY <2>3, <4>3 DEF HoldsKey
      <4>6. \A r \in Slots : r # s => (HoldsKey(slots', r, other) <=> HoldsKey(slots, r, other))
        BY <2>3 DEF HoldsKey
      <4>7. find(slots, other) # NoSlot => /\ find(slots, other) \in Slots
                                            /\ HoldsKey(slots, find(slots, other), other)
        BY <1>1, FindResult
      <4>8. CASE ~ HoldsKey(slots, s, other)
        <5>1. \A r \in Slots : HoldsKey(slots', r, other) <=> HoldsKey(slots, r, other)
          BY <4>5, <4>6, <4>8
        <5>2. find(slots, other) # NoSlot => slots'[find(slots, other)] = slots[find(slots, other)]
          BY <2>3, <4>7, <4>8
        <5>3. /\ preview_position(slots', other, batch[i].prompt) = preview_position(slots, other, batch[i].prompt)
              /\ context_admission(slots', other, batch[i].prompt, batch[1].tokens)
                   <=> context_admission(slots, other, batch[i].prompt, batch[1].tokens)
          BY <5>1, <5>2, PreviewLocal
        <5> QED
          BY <2>4, <4>2, <4>4, <5>3 DEF Fits
      <4>9. CASE HoldsKey(slots, s, other)
        <5>1. find(slots, key) = NoSlot
          <6> SUFFICES ASSUME find(slots, key) # NoSlot PROVE FALSE
            OBVIOUS
          <6>1. s = find(slots, key) /\ HoldsKey(slots, s, key)
            BY <1>1, <2>1, FindResult, TargetResult
          <6> QED
            BY <4>3, <4>9, <6>1 DEF HoldsKey
        <5>2. batch[1].pos = BasePos
          BY <3>3, <5>1 DEF preview_position, preview_hit
        <5>3. \A r \in Slots : HoldsKey(slots, r, other) => r = s
          BY <2>3, <4>9 DEF IInv, OneSlotPerSession, HoldsKey
        <5>4. \A r \in Slots : ~ HoldsKey(slots', r, other)
          BY <4>5, <4>6, <5>3
        <5>5. find(slots', other) = NoSlot
          BY <5>4 DEF find
        <5>6. ~ preview_hit(slots, other, batch[i].prompt)
          <6> SUFFICES ASSUME preview_hit(slots, other, batch[i].prompt) PROVE FALSE
            OBVIOUS
          <6>1. find(slots, other) \in Slots /\ slots[find(slots, other)].valid
            BY <4>7 DEF preview_hit
          <6>2. slots[find(slots, other)].pos = BasePos
            BY <4>2, <4>4, <5>2 DEF Fits, preview_position
          <6>3. slots[find(slots, other)].pos > BasePos
            BY <6>1 DEF PreviewInv
          <6> QED
            BY <6>2, <6>3, PositionAssumption
        <5>7. ~ preview_hit(slots', other, batch[i].prompt)
          BY <5>5 DEF preview_hit
        <5>8. preview_position(slots', other, batch[i].prompt) = BasePos
          BY <5>7 DEF preview_position
        <5>9. preview_position(slots, other, batch[i].prompt) = BasePos
          BY <5>6 DEF preview_position
        <5>10. context_admission(slots', other, batch[i].prompt, batch[1].tokens)
          BY <4>2, <4>4, <5>6, <5>7, <5>8, <5>9, AdmissionMeans DEF Fits
        <5> QED
          BY <2>4, <4>2, <5>2, <5>8, <5>10 DEF Fits
      <4> QED
        BY <4>8, <4>9
    <3> QED
      BY <1>1, <2>4, <3>6, <3>7 DEF FreshFits
  <2>9. FreshBatch' => FreshBatch
    BY <2>4 DEF FreshBatch
  <2> QED
    BY <2>4, <2>7, <2>8, <2>9 DEF PreviewInv
<1> QED
  BY <1>4, <1>5

\* A committed slot lies beyond the base position.
LEMMA PreviewCommit ==
    ASSUME IInv, CursorInv, PreviewInv, CommitMember
    PROVE  PreviewInv'
<1>1. /\ pc = "commit" /\ step \in 1 .. Len(batch) /\ Len(asg) = Len(batch) /\ batch # <<>>
      /\ batch \in Seq(ReqType) /\ asg \in Seq(AsgType) /\ UNCHANGED <<pc, batch, asg>>
  BY DEF CommitMember, IInv, TypeOK, PhaseInv
<1>2. asg[step] \in AsgType /\ batch[1] \in ReqType
  BY <1>1
<1>3. PICK s \in Slots, p \in Nat, n \in Nat, m \in Nat :
         s = asg[step].slot /\ p = asg[step].pos_in /\ n = batch[1].tokens /\ m = OwnPrefill(step)
  BY <1>1, <1>2, PrefillOfMembers DEF AsgType, ReqType, IInv
<1>4. n > 0
  BY <1>1, <1>3 DEF PreviewInv
<1>5. p >= BasePos
  <2>1. AsAssigned(slots, asg[step])
    BY <1>1 DEF CursorInv, Uncommitted
  <2> QED
    BY <1>3, <2>1, PositionAssumption DEF AsAssigned, PreviewInv
<1>6. slots[s] \in SlotType(CacheKey)
  BY DEF IInv, TypeOK
<1>7. /\ slots'[s].pos = p + (m + n)
      /\ \A r \in Slots : r # s => slots'[r] = slots[r]
  <2>1. slots' = [slots EXCEPT ![s] = CommittedSlot(slots[s], p + (m + n),
                     CommittedPromptTokens(step), n, clock + 1)]
    BY <1>3 DEF CommitMember, commit_table
  <2>2. CommittedSlot(slots[s], p + (m + n), CommittedPromptTokens(step), n, clock + 1).pos = p + (m + n)
    BY <1>6 DEF CommittedSlot, SlotType
  <2> QED
    BY <2>1, <2>2 DEF IInv, TypeOK
<1>8. p + (m + n) > BasePos
  BY <1>4, <1>5, PositionAssumption
<1>9. \A r \in Slots : slots'[r].valid => slots'[r].pos > BasePos
  BY <1>7, <1>8 DEF PreviewInv
<1>10. FreshBatch' => FreshFits'
  <2>1. FreshBatch' => \A i \in 1 .. Len(asg) : Granted(i)
    BY <1>1 DEF PreviewInv, FreshFits, FreshBatch
  <2>2. FreshBatch' => \A i \in 1 .. Len(asg') : Granted(i)'
    BY <1>1, <2>1 DEF Granted, OwnPrefill
  <2>3. Len(asg') + 1 .. Len(batch') = {}
    BY <1>1
  <2> QED
    BY <1>1, <2>2, <2>3 DEF FreshFits
<1> QED
  BY <1>1, <1>9, <1>10 DEF PreviewInv

LEMMA PreviewNext == IInv /\ CursorInv /\ PreviewInv /\ [Next]_vars => PreviewInv'
<1> SUFFICES ASSUME IInv, CursorInv, PreviewInv, [Next]_vars PROVE PreviewInv'
  OBVIOUS
<1> USE DEF connVars, batchVars, tableVars
<1>t. TypeOK /\ PhaseInv
  BY DEF IInv
<1>1. CASE AssignMember
  BY <1>1, PreviewAssign
<1>2. CASE CommitMember
  BY <1>2, PreviewCommit
<1>3. CASE UNCHANGED vars
  BY <1>3 DEF vars, PreviewInv, FreshFits, FreshBatch, Granted, Fits, OwnPrefill, MaxPrefill
<1>4. CASE Exit \/ AcceptFails \/ ReadFails \/ ExtraReadFails \/ ServeStatus \/ NotFound
           \/ ExtraNotGeneration \/ DrainDone \/ CoalesceDone \/ RunDone
  <2>1. UNCHANGED <<slots, batch, asg>> /\ pc' # "run"
    BY <1>4 DEF Exit, AcceptFails, ReadFails, ExtraReadFails, ServeStatus, NotFound,
       ExtraNotGeneration, DrainDone, CoalesceDone, RunDone
  <2> QED
    BY <2>1, PreviewQuiet
<1>5. CASE \E c \in Clients, shape \in Shapes : Accept(c, shape) \/ CoalesceAccept(c, shape)
  <2>1. UNCHANGED <<slots, batch, asg>> /\ pc' # "run"
    BY <1>5 DEF Accept, CoalesceAccept, AcceptConnection
  <2> QED
    BY <2>1, PreviewQuiet
<1>6. CASE GenerateFirst
  <2>1. /\ pc = "read" /\ OpenBatch(cur[1], cur[2], pending) /\ pending \in Seq(ReqType)
        /\ cur[1] \in Clients /\ cur[2] \in Shape
    BY <1>t, <1>6, ShapeAssumption DEF GenerateFirst, TypeOK, PhaseInv
  <2> QED
    BY <1>t, <2>1, PreviewOpenBatch
<1>7. CASE PopPending
  <2>1. /\ pc = "top" /\ pending # <<>> /\ pending \in Seq(ReqType)
        /\ OpenBatch(Head(pending).c, Head(pending).shape, Tail(pending))
    BY <1>t, <1>7 DEF PopPending, TypeOK
  <2>2. Head(pending) \in ReqType /\ Tail(pending) \in Seq(ReqType)
    BY <2>1
  <2>3. Head(pending).c \in Clients /\ Head(pending).shape \in Shape
    BY <2>2 DEF ReqType
  <2> QED
    BY <1>t, <2>1, <2>2, <2>3, PreviewOpenBatch
<1>8. CASE DrainNext
  BY <1>t, <1>8, PreviewDrain
<1>9. CASE GenerateExtra
  BY <1>t, <1>9, PreviewExtra
<1>10. CASE AssignDone \/ EngineStep
  <2>1. /\ \/ pc = "assign" /\ step' = 0 /\ Len(asg) = Len(batch)
           \/ pc = "run" /\ step < MaxPrefill + batch[1].tokens /\ step' = step + 1
        /\ UNCHANGED <<slots, batch, asg>>
    BY <1>10 DEF AssignDone, EngineStep
  <2>2. batch # <<>> /\ Len(asg) = Len(batch)
    BY <1>t, <2>1 DEF PhaseInv
  <2>3. batch[1].tokens \in Nat /\ step \in Nat
    <3>1. batch[1] \in ReqType
      BY <1>t, <2>2 DEF TypeOK
    <3> QED
      BY <1>t, <3>1 DEF ReqType, TypeOK
  <2>4. FreshBatch => MaxPrefill \in Nat
    BY <1>t, <2>2, WindowBound DEF PreviewInv
  <2>5. FreshBatch => step' <= MaxPrefill + batch[1].tokens
    BY <2>1, <2>3, <2>4
  <2> QED
    BY <2>1, <2>5, PreviewQuiet
<1>11. CASE EngineFails \/ CommitDone
  BY <1>11, PreviewDrop DEF EngineFails, FailBatch, CommitDone
<1> QED
  BY <1>1, <1>2, <1>3, <1>4, <1>5, <1>6, <1>7, <1>8, <1>9, <1>10, <1>11 DEF Next, Serve, Arrive

\* What was previewed at admission is what a fresh batch runs at, and it runs
\* within the context window (http_server.cu, context_admission and the
\* assignment loop).
THEOREM FreshBatchesFitTheWindow == Spec => []FreshPreviewHolds
<1>1. IInv /\ PreviewInv => FreshPreviewHolds
  <2> SUFFICES ASSUME IInv, PreviewInv, FreshBatch
               PROVE  /\ \A i \in 1 .. Len(asg) : asg[i].pos_in = batch[1].pos
                      /\ pc = "run" => EnginePosition <= Ctx
    BY DEF FreshPreviewHolds
  <2>1. FreshFits
    BY DEF PreviewInv
  <2>2. ASSUME pc = "run" PROVE EnginePosition <= Ctx
    <3>1. batch # <<>> /\ Len(asg) = Len(batch) /\ TypeOK /\ PhaseInv
      BY <2>2 DEF IInv, PhaseInv
    <3>2. MaxPrefill \in Nat /\ batch[1].pos + MaxPrefill + batch[1].tokens <= Ctx
      BY <2>1, <3>1, WindowBound
    <3>3. step <= MaxPrefill + batch[1].tokens /\ step \in Nat
      BY <2>1, <2>2, <3>1 DEF FreshFits, TypeOK
    <3>4. batch[1] \in ReqType
      BY <3>1 DEF TypeOK
    <3>5. batch[1].pos \in Nat /\ batch[1].tokens \in Nat
      BY <3>4 DEF ReqType
    <3> QED
      BY <3>2, <3>3, <3>5, PositionAssumption DEF EnginePosition
  <2> QED
    BY <2>1, <2>2 DEF FreshFits, Granted
<1> QED
  BY <1>1, PreviewInit, PreviewNext, CursorAlways, IInvAlways, PTL DEF Spec

-----------------------------------------------------------------------------
(***************************************************************************)
(* Every request is held once.  Who and Once speak of the requests of a    *)
(* sequence from its a-th on: whose they are, and that no client has two.  *)
(***************************************************************************)
Who(s, a) == {s[i].c : i \in a .. Len(s)}
Once(s, a) == \A i, j \in a .. Len(s) : s[i].c = s[j].c => i = j

\* The first member of the batch that has not been answered.
Turn == IF pc = "commit" THEN step ELSE 1

\* The connections whose request is being read.
Reading == IF pc \in {"read", "read_extra"} THEN {cur[1]} ELSE {}

HoldInv ==
    /\ Once(pending, 1) /\ Once(batch, Turn)
    /\ Who(pending, 1) \cap Who(batch, Turn) = {}
    /\ {c \in Clients : conn[c] = "open"} = Who(pending, 1) \cup Who(batch, Turn)
    /\ {c \in Clients : conn[c] = "reading"} = Reading
    /\ pc = "exit" => pending = <<>>

LEMMA AppendOnce ==
    ASSUME NEW s \in Seq(ReqType), NEW r \in ReqType, Once(s, 1), r.c \notin Who(s, 1)
    PROVE  Once(Append(s, r), 1) /\ Who(Append(s, r), 1) = Who(s, 1) \cup {r.c}
<1> DEFINE t == Append(s, r)
<1>1. /\ Len(t) = Len(s) + 1 /\ t[Len(s) + 1] = r /\ Len(s) \in Nat
      /\ \A i \in 1 .. Len(s) : t[i] = s[i]
  OBVIOUS
<1> HIDE DEF t
<1>2. \A i \in 1 .. Len(t) : i \in 1 .. Len(s) \/ i = Len(s) + 1
  BY <1>1
<1>3. 1 .. Len(s) \subseteq 1 .. Len(t) /\ Len(s) + 1 \in 1 .. Len(t)
  BY <1>1
<1>4. Once(t, 1)
  BY <1>1, <1>2 DEF Once, Who
<1>5. Who(t, 1) = Who(s, 1) \cup {r.c}
  BY <1>1, <1>2, <1>3 DEF Who
<1> QED
  BY <1>4, <1>5 DEF t

LEMMA RemoveIndexElements ==
    ASSUME NEW R, NEW s \in Seq(R), NEW n \in 1 .. Len(s)
    PROVE  /\ Len(RemoveIndex(s, n)) = Len(s) - 1
           /\ \A i \in 1 .. Len(s) - 1 : RemoveIndex(s, n)[i] = IF i < n THEN s[i] ELSE s[i + 1]
<1> DEFINE a == SubSeq(s, 1, n - 1)
           b == SubSeq(s, n + 1, Len(s))
<1>1. a \in Seq(R) /\ Len(a) = n - 1 /\ \A i \in 1 .. n - 1 : a[i] = s[i]
  BY SubSeqProperties
<1>2. b \in Seq(R) /\ Len(b) = Len(s) - n /\ \A i \in 1 .. Len(s) - n : b[i] = s[i + n]
  <2>1. CASE n < Len(s)
    BY <2>1, SubSeqProperties
  <2>2. CASE n = Len(s)
    BY <2>2, SubSeqProperties
  <2> QED
    BY <2>1, <2>2
<1> HIDE DEF a, b
<1>3. /\ Len(a \o b) = Len(a) + Len(b)
      /\ \A i \in 1 .. Len(a) + Len(b) : (a \o b)[i] = IF i <= Len(a) THEN a[i] ELSE b[i - Len(a)]
  BY <1>1, <1>2, ConcatProperties
<1>4. ASSUME NEW i \in 1 .. Len(s) - 1
      PROVE  (a \o b)[i] = IF i < n THEN s[i] ELSE s[i + 1]
  <2>1. i \in 1 .. Len(a) + Len(b)
    BY <1>1, <1>2
  <2>2. CASE i < n
    BY <1>1, <1>3, <2>1, <2>2
  <2>3. CASE ~ (i < n)
    <3>1. (a \o b)[i] = b[i - (n - 1)]
      BY <1>1, <1>3, <2>1, <2>3
    <3>2. i - (n - 1) \in 1 .. Len(s) - n /\ (i - (n - 1)) + n = i + 1
      BY <2>3
    <3> QED
      BY <1>2, <2>3, <3>1, <3>2
  <2> QED
    BY <2>2, <2>3
<1>5. Len(a \o b) = Len(s) - 1
  BY <1>1, <1>2, <1>3
<1> QED
  BY <1>4, <1>5 DEF RemoveIndex, a, b

LEMMA RemoveOnce ==
    ASSUME NEW s \in Seq(ReqType), NEW n \in 1 .. Len(s), Once(s, 1)
    PROVE  LET t == RemoveIndex(s, n)
           IN  Once(t, 1) /\ Who(t, 1) = Who(s, 1) \ {s[n].c}
<1> DEFINE t == RemoveIndex(s, n)
           old(i) == IF i < n THEN i ELSE i + 1
<1>1. Len(t) = Len(s) - 1 /\ \A i \in 1 .. Len(t) : t[i] = s[old(i)]
  BY RemoveIndexElements
<1> HIDE DEF t
<1>2. \A i \in 1 .. Len(t) : old(i) \in 1 .. Len(s) /\ old(i) # n
  BY <1>1
<1>3. \A i, j \in 1 .. Len(t) : old(i) = old(j) => i = j
  BY <1>1
<1>4. \A j \in 1 .. Len(s) : j # n => \E i \in 1 .. Len(t) : old(i) = j
  <2> SUFFICES ASSUME NEW j \in 1 .. Len(s), j # n PROVE \E i \in 1 .. Len(t) : old(i) = j
    OBVIOUS
  <2>1. CASE j < n
    BY <1>1, <2>1
  <2>2. CASE j > n
    <3>1. j - 1 \in 1 .. Len(t) /\ old(j - 1) = j
      BY <1>1, <2>2
    <3> QED
      BY <3>1
  <2> QED
    BY <2>1, <2>2
<1> HIDE DEF old
<1>5. Once(t, 1)
  BY <1>1, <1>2, <1>3 DEF Once
<1>6. Who(t, 1) \subseteq Who(s, 1) \ {s[n].c}
  BY <1>1, <1>2 DEF Who, Once
<1>7. Who(s, 1) \ {s[n].c} \subseteq Who(t, 1)
  <2> SUFFICES ASSUME NEW j \in 1 .. Len(s), j # n PROVE s[j].c \in Who(t, 1)
    BY DEF Who
  <2>1. PICK i \in 1 .. Len(t) : old(i) = j
    BY <1>4
  <2>2. t[i] = s[j]
    BY <1>1, <2>1
  <2> QED
    BY <2>2 DEF Who
<1> QED
  BY <1>5, <1>6, <1>7 DEF t

LEMMA TailOnce ==
    ASSUME NEW s \in Seq(ReqType), s # <<>>, Once(s, 1)
    PROVE  Once(Tail(s), 1) /\ Who(Tail(s), 1) = Who(s, 1) \ {Head(s).c}
           /\ Head(s).c \in Who(s, 1)
<1> DEFINE t == Tail(s)
<1>1. /\ Len(s) \in Nat \ {0} /\ Head(s) = s[1]
      /\ Len(t) = Len(s) - 1 /\ \A i \in 1 .. Len(t) : t[i] = s[i + 1]
  OBVIOUS
<1> HIDE DEF t
<1>2. Once(t, 1)
  BY <1>1 DEF Once
<1>3. \A i \in 1 .. Len(t) : i + 1 \in 1 .. Len(s) /\ i + 1 # 1
  BY <1>1
<1>4. \A i \in 1 .. Len(s) : i = 1 \/ (i - 1 \in 1 .. Len(t) /\ (i - 1) + 1 = i)
  BY <1>1
<1>5. 1 \in 1 .. Len(s)
  BY <1>1
<1>6. Who(t, 1) \subseteq Who(s, 1) \ {s[1].c}
  BY <1>1, <1>3, <1>5 DEF Who, Once
<1>7. Who(s, 1) \ {s[1].c} \subseteq Who(t, 1)
  <2> SUFFICES ASSUME NEW j \in 1 .. Len(s), j # 1 PROVE s[j].c \in Who(t, 1)
    BY DEF Who
  <2>1. j - 1 \in 1 .. Len(t) /\ t[j - 1] = s[j]
    BY <1>1, <1>4
  <2> QED
    BY <2>1 DEF Who
<1> QED
  BY <1>1, <1>2, <1>5, <1>6, <1>7 DEF t, Who

\* Going past the a-th request.
LEMMA PassOnce ==
    ASSUME NEW s \in Seq(ReqType), NEW a \in 1 .. Len(s), Once(s, a)
    PROVE  /\ Once(s, a + 1) /\ Who(s, a + 1) = Who(s, a) \ {s[a].c}
           /\ s[a].c \in Who(s, a)
<1>1. \A i \in a .. Len(s) : i = a \/ i \in a + 1 .. Len(s)
  OBVIOUS
<1>2. \A i \in a + 1 .. Len(s) : i \in a .. Len(s) /\ i # a
  OBVIOUS
<1>3. a \in a .. Len(s)
  OBVIOUS
<1> QED
  BY <1>1, <1>2, <1>3 DEF Once, Who

LEMMA NobodyHeld == Who(<<>>, 1) = {} /\ Once(<<>>, 1)
BY DEF Who, Once

-----------------------------------------------------------------------------
LEMMA HoldInit == Init => HoldInv
BY NobodyHeld DEF Init, HoldInv, Turn, Reading

\* Steps that leave the queues, the connections and the reader alone.
LEMMA HoldQuiet ==
    ASSUME HoldInv, UNCHANGED <<conn, pending, batch>>,
           pc \notin {"read", "read_extra"}, pc' \notin {"read", "read_extra"},
           Turn' = Turn, pc' = "exit" => pending = <<>>
    PROVE  HoldInv'
BY DEF HoldInv, Reading

\* A connection that is not held for an answer changes.
LEMMA HoldConn ==
    ASSUME TypeOK, HoldInv, NEW c \in Clients, NEW st, conn[c] # "open", st # "open",
           conn' = [conn EXCEPT ![c] = st], UNCHANGED <<pending, batch>>, Turn' = Turn,
           Reading' = (IF st = "reading" THEN {c} ELSE {}),
           Reading \subseteq {c}, pc' # "exit"
    PROVE  HoldInv'
<1>1. \A d \in Clients : conn'[d] = IF d = c THEN st ELSE conn[d]
  BY DEF TypeOK
<1>2. {d \in Clients : conn'[d] = "open"} = {d \in Clients : conn[d] = "open"}
  BY <1>1
<1>3. {d \in Clients : conn'[d] = "reading"} = Reading'
  BY <1>1 DEF HoldInv
<1> QED
  BY <1>2, <1>3 DEF HoldInv

LEMMA HoldOpenBatch ==
    ASSUME TypeOK, PhaseInv, HoldInv, pc \in {"read", "top"},
           NEW c \in Clients, NEW shape \in Shape, NEW rest \in Seq(ReqType),
           OpenBatch(c, shape, rest), Reading \subseteq {c},
           Once(rest, 1), Who(rest, 1) = Who(pending, 1) \ {c}
    PROVE  HoldInv'
<1> DEFINE req == Request(c, shape, DecodeSteps, served + Len(rest), FALSE)
<1>1. req.c = c
  BY DEF Request
<1>2. batch = <<>> /\ Turn = 1 /\ Who(batch, Turn) = {}
  BY NobodyHeld DEF PhaseInv, Turn
<1>3. /\ pending' = rest
      /\ \/ batch' = <<req>> /\ pc' = "drain" /\ conn' = [conn EXCEPT ![c] = "open"]
         \/ batch' = batch /\ pc' = "top" /\ conn' = [conn EXCEPT ![c] = "closed"]
  BY DEF OpenBatch, AnswerAndClose
<1> HIDE DEF req
<1>4. Turn' = 1 /\ Reading' = {} /\ pc' # "exit"
  BY <1>3 DEF Turn, Reading
<1>5. {d \in Clients : conn'[d] = "reading"} = {}
  BY <1>3 DEF HoldInv, TypeOK
<1>6. CASE batch' = <<req>> /\ conn' = [conn EXCEPT ![c] = "open"]
  <2>1. Who(batch', 1) = {c} /\ Once(batch', 1)
    BY <1>1, <1>6 DEF Who, Once
  <2>2. {d \in Clients : conn'[d] = "open"} = {d \in Clients : conn[d] = "open"} \cup {c}
    BY <1>6 DEF TypeOK
  <2> QED
    BY <1>2, <1>3, <1>4, <1>5, <2>1, <2>2 DEF HoldInv
<1>7. CASE batch' = batch /\ conn' = [conn EXCEPT ![c] = "closed"]
  <2>1. {d \in Clients : conn'[d] = "open"} = {d \in Clients : conn[d] = "open"} \ {c}
    BY <1>7 DEF TypeOK
  <2> QED
    BY <1>2, <1>3, <1>4, <1>5, <1>7, <2>1, NobodyHeld DEF HoldInv
<1> QED
  BY <1>3, <1>6, <1>7

LEMMA HoldDrain ==
    ASSUME TypeOK, PhaseInv, HoldInv, DrainNext
    PROVE  HoldInv'
<1>1. /\ pc = "drain" /\ pc' = pc /\ conn' = conn /\ step \in 1 .. Len(pending)
      /\ pending \in Seq(ReqType) /\ batch \in Seq(ReqType)
  BY DEF DrainNext, connVars, TypeOK, PhaseInv
<1>2. Turn = 1 /\ Turn' = 1 /\ Reading' = Reading
  BY <1>1 DEF Turn, Reading
<1>3. CASE ~ JoinsBatch(pending[step])
  BY <1>1, <1>2, <1>3 DEF DrainNext, HoldInv
<1>4. CASE JoinsBatch(pending[step])
  <2> DEFINE r == [pending[step] EXCEPT !.drained = TRUE]
  <2>1. batch' = Append(batch, r) /\ pending' = RemoveIndex(pending, step)
    BY <1>4 DEF DrainNext
  <2>2. pending[step] \in ReqType
    BY <1>1
  <2>3. r \in ReqType /\ r.c = pending[step].c
    BY <2>2 DEF ReqType
  <2> HIDE DEF r
  <2>4. r.c \in Who(pending, 1) /\ r.c \notin Who(batch, 1)
    <3>1. r.c \in Who(pending, 1)
      BY <1>1, <2>3 DEF Who
    <3> QED
      BY <1>2, <3>1 DEF HoldInv
  <2>5. Once(pending', 1) /\ Who(pending', 1) = Who(pending, 1) \ {r.c}
    BY <1>1, <2>1, <2>3, RemoveOnce DEF HoldInv
  <2>6. Once(batch', 1) /\ Who(batch', 1) = Who(batch, 1) \cup {r.c}
    <3>1. Once(batch, 1)
      BY <1>2 DEF HoldInv
    <3> QED
      BY <1>1, <2>1, <2>3, <2>4, <3>1, AppendOnce
  <2> QED
    BY <1>1, <1>2, <2>4, <2>5, <2>6 DEF HoldInv
<1> QED
  BY <1>3, <1>4

LEMMA HoldExtra ==
    ASSUME TypeOK, PhaseInv, HoldInv, GenerateExtra
    PROVE  HoldInv'
<1> DEFINE req == Request(cur[1], cur[2], batch[1].tokens, served + Len(pending), FALSE)
           ok == req.prompt \notin BadPrompts /\ Admitted(req)
<1>1. /\ pc = "read_extra" /\ batch # <<>> /\ cur \in Clients \X Shapes
      /\ pending \in Seq(ReqType) /\ batch \in Seq(ReqType)
  BY DEF GenerateExtra, TypeOK, PhaseInv
<1>2. req \in ReqType /\ req.c = cur[1]
  <2>1. batch[1] \in ReqType
    BY <1>1
  <2>2. batch[1].tokens \in Nat /\ served + Len(pending) \in Nat
    BY <1>1, <2>1 DEF ReqType, TypeOK
  <2>3. cur[1] \in Clients /\ cur[2] \in Shape
    BY <1>1, ShapeAssumption
  <2> QED
    BY <2>2, <2>3, RequestType DEF Request
<1>3. /\ pc' = "coalesce"
      /\ conn' = [conn EXCEPT ![req.c] = IF ok THEN "open" ELSE "closed"]
      /\ batch' = IF ok /\ JoinsBatch(req) THEN Append(batch, req) ELSE batch
      /\ pending' = IF ok /\ ~ JoinsBatch(req) THEN Append(pending, req) ELSE pending
  BY DEF GenerateExtra, AnswerAndClose
<1> HIDE DEF req, ok
<1>4. Turn = 1 /\ Turn' = 1 /\ Reading = {req.c} /\ Reading' = {}
  BY <1>1, <1>2, <1>3 DEF Turn, Reading
<1>5. req.c \in Clients /\ conn[req.c] = "reading"
  BY <1>4 DEF HoldInv
<1>6. /\ req.c \notin Who(pending, 1) /\ req.c \notin Who(batch, 1)
      /\ Once(pending, 1) /\ Once(batch, 1)
  BY <1>4, <1>5 DEF HoldInv
<1>7. {d \in Clients : conn'[d] = "reading"} = {}
  <2>1. \A d \in Clients : conn[d] = "reading" => d = req.c
    BY <1>4 DEF HoldInv
  <2> QED
    BY <1>3, <2>1 DEF TypeOK
<1>8. CASE ok
  <2>1. {d \in Clients : conn'[d] = "open"} = {d \in Clients : conn[d] = "open"} \cup {req.c}
    BY <1>3, <1>5, <1>8 DEF TypeOK
  <2>2. CASE JoinsBatch(req)
    <3>1. Once(batch', 1) /\ Who(batch', 1) = Who(batch, 1) \cup {req.c} /\ pending' = pending
      BY <1>1, <1>2, <1>3, <1>6, <1>8, <2>2, AppendOnce
    <3> QED
      BY <1>3, <1>4, <1>6, <1>7, <2>1, <3>1 DEF HoldInv
  <2>3. CASE ~ JoinsBatch(req)
    <3>1. Once(pending', 1) /\ Who(pending', 1) = Who(pending, 1) \cup {req.c} /\ batch' = batch
      BY <1>1, <1>2, <1>3, <1>6, <1>8, <2>3, AppendOnce
    <3> QED
      BY <1>3, <1>4, <1>6, <1>7, <2>1, <3>1 DEF HoldInv
  <2> QED
    BY <2>2, <2>3
<1>9. CASE ~ ok
  <2>1. {d \in Clients : conn'[d] = "open"} = {d \in Clients : conn[d] = "open"}
    BY <1>3, <1>5, <1>9 DEF TypeOK
  <2> QED
    BY <1>3, <1>4, <1>7, <1>9, <2>1 DEF HoldInv
<1> QED
  BY <1>8, <1>9

\* A whole batch is answered with an error.
LEMMA HoldFail ==
    ASSUME TypeOK, HoldInv, pc \in {"assign", "run"}, NEW status, FailBatch(status)
    PROVE  HoldInv'
<1>1. /\ pc' = "top" /\ batch' = <<>> /\ pending' = pending
      /\ conn' = [c \in Clients |-> IF c \in Who(batch, 1) THEN "closed" ELSE conn[c]]
  BY DEF FailBatch, Members, Who
<1>2. Turn = 1 /\ Turn' = 1 /\ Reading = {} /\ Reading' = {}
  BY <1>1 DEF Turn, Reading
<1>3. {c \in Clients : conn'[c] = "open"} = {c \in Clients : conn[c] = "open"} \ Who(batch, 1)
  BY <1>1
<1>4. {c \in Clients : conn'[c] = "reading"} = {}
  BY <1>1, <1>2 DEF HoldInv
<1> QED
  BY <1>1, <1>2, <1>3, <1>4, NobodyHeld DEF HoldInv

LEMMA HoldCommit ==
    ASSUME TypeOK, PhaseInv, HoldInv, CommitMember
    PROVE  HoldInv'
<1>1. /\ pc = "commit" /\ pc' = pc /\ step' = step + 1 /\ step \in 1 .. Len(batch)
      /\ batch \in Seq(ReqType) /\ batch' = batch /\ pending' = pending
      /\ conn' = [conn EXCEPT ![batch[step].c] = "closed"]
  BY DEF CommitMember, AnswerAndClose, TypeOK, PhaseInv
<1>2. batch[step] \in ReqType
  BY <1>1
<1>3. PICK c \in Clients : c = batch[step].c
  BY <1>2 DEF ReqType
<1>4. Turn = step /\ Turn' = step + 1 /\ Reading = {} /\ Reading' = {}
  BY <1>1 DEF Turn, Reading
<1>5. /\ Once(batch, step + 1) /\ Who(batch, step + 1) = Who(batch, step) \ {c}
      /\ c \in Who(batch, step)
  <2>1. Once(batch, step)
    BY <1>4 DEF HoldInv
  <2> QED
    BY <1>1, <1>3, <2>1, PassOnce
<1>6. /\ {d \in Clients : conn'[d] = "open"} = {d \in Clients : conn[d] = "open"} \ {c}
      /\ {d \in Clients : conn'[d] = "reading"} = {d \in Clients : conn[d] = "reading"} \ {c}
  BY <1>1, <1>3 DEF TypeOK
<1>7. c \notin Who(pending, 1)
  BY <1>4, <1>5 DEF HoldInv
<1> QED
  BY <1>1, <1>4, <1>5, <1>6, <1>7 DEF HoldInv

LEMMA HoldNext == IInv /\ HoldInv /\ [Next]_vars => HoldInv'
<1> SUFFICES ASSUME IInv, HoldInv, [Next]_vars PROVE HoldInv'
  OBVIOUS
<1> USE DEF connVars, batchVars, tableVars
<1>t. TypeOK /\ PhaseInv
  BY DEF IInv
<1>1. CASE Exit \/ AcceptFails
  <2>1. pc = "top" /\ pc' = "exit" /\ UNCHANGED <<conn, pending, batch>> /\ pending = <<>>
    BY <1>1 DEF Exit, AcceptFails, MayAccept
  <2> QED
    BY <2>1, HoldQuiet DEF Turn
<1>2. ASSUME NEW c \in Clients, NEW shape \in Shapes, Accept(c, shape) \/ CoalesceAccept(c, shape)
      PROVE  HoldInv'
  <2>1. /\ pc \in {"top", "coalesce"} /\ pc' \in {"read", "read_extra"}
        /\ conn' = [conn EXCEPT ![c] = "reading"] /\ conn[c] = "none"
        /\ cur' = <<c, shape>> /\ UNCHANGED <<pending, batch>>
    BY <1>2 DEF Accept, CoalesceAccept, AcceptConnection
  <2>2. Turn' = Turn /\ Reading = {} /\ Reading' = {c} /\ pc' # "exit"
    BY <2>1 DEF Turn, Reading
  <2> QED
    BY <1>t, <2>1, <2>2, HoldConn
<1>3. CASE ReadFails \/ ExtraReadFails \/ ServeStatus \/ NotFound \/ ExtraNotGeneration
  <2>1. /\ pc \in {"read", "read_extra"} /\ pc' \in {"top", "coalesce"}
        /\ \E st \in {"closed", "leaked"} : conn' = [conn EXCEPT ![cur[1]] = st]
        /\ UNCHANGED <<pending, batch>>
    BY <1>3 DEF ReadFails, ExtraReadFails, ServeStatus, NotFound, ExtraNotGeneration, AnswerAndClose
  <2>2. Turn' = Turn /\ Reading = {cur[1]} /\ Reading' = {} /\ pc' # "exit"
    BY <2>1 DEF Turn, Reading
  <2>3. PICK c \in Clients : c = cur[1]
    BY <1>t, <2>1 DEF PhaseInv
  <2>4. conn[c] = "reading" /\ Reading = {c}
    BY <2>2, <2>3 DEF HoldInv
  <2>5. PICK st \in {"closed", "leaked"} : conn' = [conn EXCEPT ![c] = st]
    BY <2>1, <2>3
  <2> QED
    BY <1>t, <2>1, <2>2, <2>4, <2>5, HoldConn
<1>4. CASE GenerateFirst
  <2>1. /\ pc = "read" /\ OpenBatch(cur[1], cur[2], pending) /\ pending \in Seq(ReqType)
        /\ cur \in Clients \X Shapes
    BY <1>t, <1>4 DEF GenerateFirst, TypeOK, PhaseInv
  <2>2. PICK c \in Clients, shape \in Shape : c = cur[1] /\ shape = cur[2]
    BY <2>1, ShapeAssumption
  <2>3. Reading = {c}
    BY <2>1, <2>2 DEF Reading
  <2>4. c \notin Who(pending, 1) /\ Once(pending, 1)
    BY <2>3 DEF HoldInv
  <2> QED
    BY <1>t, <2>1, <2>2, <2>3, <2>4, HoldOpenBatch
<1>5. CASE PopPending
  <2>1. /\ pc = "top" /\ pending # <<>> /\ pending \in Seq(ReqType)
        /\ OpenBatch(Head(pending).c, Head(pending).shape, Tail(pending))
    BY <1>t, <1>5 DEF PopPending, TypeOK
  <2>2. Head(pending) \in ReqType /\ Tail(pending) \in Seq(ReqType)
    BY <2>1
  <2>3. Head(pending).c \in Clients /\ Head(pending).shape \in Shape
    BY <2>2 DEF ReqType
  <2>4. Once(Tail(pending), 1) /\ Who(Tail(pending), 1) = Who(pending, 1) \ {Head(pending).c}
    BY <2>1, TailOnce DEF HoldInv
  <2>5. Reading = {}
    BY <2>1 DEF Reading
  <2> QED
    BY <1>t, <2>1, <2>2, <2>3, <2>4, <2>5, HoldOpenBatch
<1>6. CASE DrainNext
  BY <1>t, <1>6, HoldDrain
<1>7. CASE GenerateExtra
  BY <1>t, <1>7, HoldExtra
<1>8. CASE DrainDone \/ CoalesceDone \/ AssignDone \/ EngineStep \/ RunDone
  <2>1. /\ pc \in {"drain", "coalesce", "assign", "run"}
        /\ \/ pc' \in {"coalesce", "assign", "run"}
           \/ pc' = "commit" /\ step' = 1
        /\ UNCHANGED <<conn, pending, batch>>
    BY <1>8 DEF DrainDone, CoalesceDone, AssignDone, EngineStep, RunDone
  <2>2. Turn' = Turn
    BY <2>1 DEF Turn
  <2> QED
    BY <2>1, <2>2, HoldQuiet
<1>9. CASE AssignMember
  <2>1. CASE FailBatch(503)
    BY <1>t, <1>9, <2>1, HoldFail DEF AssignMember
  <2>2. CASE ~ FailBatch(503)
    <3>1. pc = "assign" /\ UNCHANGED <<pc, conn, pending, batch>>
      BY <1>9, <2>2 DEF AssignMember
    <3> QED
      BY <3>1, HoldQuiet DEF Turn
  <2> QED
    BY <2>1, <2>2
<1>10. CASE EngineFails
  BY <1>t, <1>10, HoldFail DEF EngineFails
<1>11. CASE CommitMember
  BY <1>t, <1>11, HoldCommit
<1>12. CASE CommitDone
  <2>1. /\ pc = "commit" /\ step > Len(batch) /\ pc' = "top" /\ batch' = <<>>
        /\ UNCHANGED <<conn, pending>>
    BY <1>12 DEF CommitDone
  <2>2. Turn = step /\ Turn' = 1 /\ Reading = {} /\ Reading' = {}
    BY <2>1 DEF Turn, Reading
  <2>3. Who(batch, Turn) = {}
    BY <1>t, <2>1, <2>2 DEF Who, TypeOK
  <2> QED
    BY <2>1, <2>2, <2>3, NobodyHeld DEF HoldInv
<1>13. CASE UNCHANGED vars
  BY <1>13 DEF vars, HoldInv, Turn, Reading
<1> QED
  BY <1>1, <1>2, <1>3, <1>4, <1>5, <1>6, <1>7, <1>8, <1>9, <1>10, <1>11, <1>12, <1>13
     DEF Next, Serve, Arrive

LEMMA HoldAlways == Spec => []HoldInv
BY HoldInit, HoldNext, IInvAlways, PTL DEF Spec

\* The positions at which a client occurs from the a-th on.
LEMMA CountOnce ==
    ASSUME NEW s \in Seq(ReqType), NEW a \in Nat, Once(s, a), NEW c
    PROVE  Cardinality({i \in a .. Len(s) : s[i].c = c}) = IF c \in Who(s, a) THEN 1 ELSE 0
<1>1. CASE c \in Who(s, a)
  <2>1. PICK i \in a .. Len(s) : s[i].c = c
    BY <1>1 DEF Who
  <2>2. {j \in a .. Len(s) : s[j].c = c} = {i}
    BY <2>1 DEF Once
  <2> QED
    BY <1>1, <2>2, FS_Singleton
<1>2. CASE c \notin Who(s, a)
  <2>1. {j \in a .. Len(s) : s[j].c = c} = {}
    BY <1>2 DEF Who
  <2> QED
    BY <1>2, <2>1, FS_EmptySet
<1> QED
  BY <1>1, <1>2

\* A request taken up for generation is in pending_generation or in the
\* batch, once, until its socket is closed (http_server.cu, bucketing,
\* draining and popping).
THEOREM EveryRequestHeldOnce == Spec => []HeldOnce
<1>1. IInv /\ HoldInv => HeldOnce
  <2> SUFFICES ASSUME IInv, HoldInv, NEW c \in Clients
               PROVE  Cardinality({i \in 1 .. Len(pending) : pending[i].c = c}) +
                      Cardinality({i \in Turn .. Len(batch) : batch[i].c = c})
                        = IF conn[c] = "open" THEN 1 ELSE 0
    BY DEF HeldOnce, Turn
  <2>1. pending \in Seq(ReqType) /\ batch \in Seq(ReqType) /\ Turn \in Nat
    BY DEF IInv, TypeOK, Turn
  <2>2. /\ Cardinality({i \in 1 .. Len(pending) : pending[i].c = c})
             = IF c \in Who(pending, 1) THEN 1 ELSE 0
        /\ Cardinality({i \in Turn .. Len(batch) : batch[i].c = c})
             = IF c \in Who(batch, Turn) THEN 1 ELSE 0
    BY <2>1, CountOnce DEF HoldInv
  <2>3. /\ ~ (c \in Who(pending, 1) /\ c \in Who(batch, Turn))
        /\ conn[c] = "open" <=> c \in Who(pending, 1) \/ c \in Who(batch, Turn)
    BY DEF HoldInv
  <2> QED
    BY <2>2, <2>3
<1> QED
  BY <1>1, HoldAlways, IInvAlways, PTL

\* The loop does not end with a connection still waiting, neither at
\* --max-requests nor when accept fails (http_server.cu, the loop head).
THEOREM ExitAnswersEverybody == Spec => []ExitLeavesNobodyWaiting
<1>1. IInv /\ HoldInv => ExitLeavesNobodyWaiting
  <2> SUFFICES ASSUME IInv, HoldInv, pc = "exit", NEW c \in Clients
               PROVE  conn[c] \notin {"reading", "open"}
    BY DEF ExitLeavesNobodyWaiting
  <2>1. batch = <<>> /\ pending = <<>> /\ Turn = 1 /\ Reading = {}
    BY DEF IInv, PhaseInv, HoldInv, Turn, Reading
  <2> QED
    BY <2>1, NobodyHeld DEF HoldInv
<1> QED
  BY <1>1, HoldAlways, IInvAlways, PTL
=============================================================================

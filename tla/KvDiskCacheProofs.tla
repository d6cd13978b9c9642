-------------------------- MODULE KvDiskCacheProofs --------------------------
(***************************************************************************)
(* For every set of ids, blocks, texts and prompts, every limit and budget *)
(* and any number of crashes and faults: the books of the tool memory      *)
(* agree and it stays within its limits, what is replayed was sampled, no  *)
(* incomplete checkpoint or untrue map is left under a final name, and an  *)
(* eviction ends within the budget without deleting what was just stored.  *)
(***************************************************************************)
EXTENDS KvDiskCache, SequenceTheorems, FiniteSetTheorems, WellFoundedInduction, TLAPS

\* A nonempty set of numbers has a least element.
LEMMA LeastElement ==
    ASSUME NEW S, S \subseteq Nat, S # {}
    PROVE  \E m \in S : \A n \in S : m <= n
<1>1. PICK m \in S : \A n \in S : ~ (<<n, m>> \in OpToRel(<, Nat))
  BY NatLessThanWellFounded, WFMin
<1>2. ASSUME NEW n \in S PROVE m <= n
  <2>1. ~ (<<n, m>> \in {ss \in Nat \X Nat : ss[1] < ss[2]})
    BY <1>1 DEF OpToRel
  <2>2. <<n, m>> \in Nat \X Nat /\ <<n, m>>[1] = n /\ <<n, m>>[2] = m
    OBVIOUS
  <2>3. ~ (n < m)
    BY <2>1, <2>2
  <2> QED
    BY <2>3
<1> QED
  BY <1>2

\* Induction over finite sets, as the existence of a smallest counterexample.
LEMMA SmallestSet ==
    ASSUME NEW C, C # {}, \A s \in C : IsFiniteSet(s)
    PROVE  \E s \in C : \A t \in C : Cardinality(s) <= Cardinality(t)
<1> DEFINE N == {Cardinality(s) : s \in C}
<1>1. N \subseteq Nat /\ N # {}
  BY FS_CardinalityType
<1>2. PICK m \in N : \A n \in N : m <= n
  <2> HIDE DEF N
  <2> QED
    BY <1>1, LeastElement
<1> QED
  BY <1>2

-----------------------------------------------------------------------------
(***************************************************************************)
(* Sums over finite sets.  SumFunctionOnSet takes the elements in the      *)
(* order CHOOSE gives them; SumAny says that any order will do.            *)
(***************************************************************************)
First(s) == CHOOSE x \in s : TRUE

\* f sums F over the subsets of S, as SumFunctionOnSet defines it.
Sums(f, F, S) ==
    f = [s \in SUBSET S |-> IF s = {} THEN 0 ELSE F[First(s)] + f[s \ {First(s)}]]

LEMMA SumDef ==
    ASSUME NEW F, NEW S
    PROVE  SumFunctionOnSet(F, S) = (CHOOSE f : Sums(f, F, S))[S]
BY DEF SumFunctionOnSet, FoldFunctionOnSet, MapThenFoldSet, Sums, First

LEMMA SumsAt ==
    ASSUME NEW F, NEW S, NEW f, Sums(f, F, S), NEW s \in SUBSET S
    PROVE  f[s] = IF s = {} THEN 0 ELSE F[First(s)] + f[s \ {First(s)}]
BY DEF Sums

LEMMA OneFewer ==
    ASSUME NEW s, IsFiniteSet(s), NEW x \in s
    PROVE  /\ IsFiniteSet(s \ {x}) /\ s \ {x} \in SUBSET s
           /\ Cardinality(s) \in Nat /\ Cardinality(s \ {x}) \in Nat
           /\ Cardinality(s) = Cardinality(s \ {x}) + 1
<1>1. IsFiniteSet(s \ {x}) /\ Cardinality(s \ {x}) = Cardinality(s) - 1
  BY FS_RemoveElement
<1>2. Cardinality(s) \in Nat /\ Cardinality(s \ {x}) \in Nat
  BY <1>1, FS_CardinalityType
<1> QED
  BY <1>1, <1>2

LEMMA SumsAgree ==
    ASSUME NEW F, NEW S, NEW T, IsFiniteSet(S), NEW f, NEW g, Sums(f, F, S), Sums(g, F, T)
    PROVE  \A s \in (SUBSET S) \cap (SUBSET T) : f[s] = g[s]
<1> DEFINE C == {s \in (SUBSET S) \cap (SUBSET T) : f[s] # g[s]}
<1> SUFFICES ASSUME C # {} PROVE FALSE
  OBVIOUS
<1>1. \A s \in C : IsFiniteSet(s)
  BY FS_Subset
<1>2. PICK s \in C : \A t \in C : Cardinality(s) <= Cardinality(t)
  <2> HIDE DEF C
  <2> QED
    BY <1>1, SmallestSet
<1>3. /\ f[s] = IF s = {} THEN 0 ELSE F[First(s)] + f[s \ {First(s)}]
      /\ g[s] = IF s = {} THEN 0 ELSE F[First(s)] + g[s \ {First(s)}]
  <2>1. s \in SUBSET S /\ s \in SUBSET T
    OBVIOUS
  <2> QED
    BY <2>1, SumsAt
<1>4. s # {}
  BY <1>3
<1>5. First(s) \in s
  BY <1>4 DEF First
<1>6. PICK t : t = s \ {First(s)}
  OBVIOUS
<1>7. t \in SUBSET s /\ Cardinality(s) = Cardinality(t) + 1 /\ Cardinality(t) \in Nat
  BY <1>1, <1>5, <1>6, OneFewer
<1>8. t \notin C
  <2>1. ~(Cardinality(s) <= Cardinality(t))
    BY <1>7
  <2> QED
    BY <1>2, <2>1
<1>9. f[t] = g[t]
  BY <1>7, <1>8
<1> QED
  BY <1>3, <1>4, <1>6, <1>9

LEMMA SumsExist ==
    ASSUME NEW F, NEW S, IsFiniteSet(S)
    PROVE  \E f : Sums(f, F, S)
<1> DEFINE C == {s \in SUBSET S : ~ \E f : Sums(f, F, s)}
<1> SUFFICES ASSUME C # {} PROVE FALSE
  OBVIOUS
<1>1. \A s \in C : IsFiniteSet(s)
  BY FS_Subset
<1>2. PICK u \in C : \A t \in C : Cardinality(u) <= Cardinality(t)
  <2> HIDE DEF C
  <2> QED
    BY <1>1, SmallestSet
<1> DEFINE G(t) == (CHOOSE f : Sums(f, F, t))[t]
<1>3. ASSUME NEW t \in SUBSET u, t # u PROVE IsFiniteSet(t) /\ Sums(CHOOSE f : Sums(f, F, t), F, t)
  <2>1. IsFiniteSet(u) /\ u \in SUBSET S
    BY <1>1
  <2>2. IsFiniteSet(t) /\ Cardinality(t) <= Cardinality(u) /\ Cardinality(t) # Cardinality(u)
    BY <1>3, <2>1, FS_Subset
  <2>3. Cardinality(t) \in Nat /\ Cardinality(u) \in Nat
    BY <2>1, <2>2, FS_CardinalityType
  <2>4. ~(Cardinality(u) <= Cardinality(t))
    BY <2>2, <2>3
  <2>5. t \notin C
    BY <1>2, <2>4
  <2>6. \E f : Sums(f, F, t)
    BY <2>1, <2>5
  <2> QED
    BY <2>2, <2>6
<1>4. ASSUME NEW t \in SUBSET u, t # u
      PROVE  G(t) = IF t = {} THEN 0 ELSE F[First(t)] + G(t \ {First(t)})
  <2>1. PICK g : g = CHOOSE f : Sums(f, F, t)
    OBVIOUS
  <2>2. IsFiniteSet(t) /\ Sums(g, F, t) /\ G(t) = g[t]
    BY <1>3, <1>4, <2>1
  <2>3. g[t] = IF t = {} THEN 0 ELSE F[First(t)] + g[t \ {First(t)}]
    BY <2>2 DEF Sums
  <2>4. ASSUME t # {} PROVE g[t \ {First(t)}] = G(t \ {First(t)})
    <3>1. PICK v : v = t \ {First(t)}
      OBVIOUS
    <3>2. v \in SUBSET t /\ v \in SUBSET u /\ v # u
      BY <1>4, <3>1
    <3>3. PICK h : h = CHOOSE f : Sums(f, F, v)
      OBVIOUS
    <3>4. IsFiniteSet(v) /\ Sums(h, F, v) /\ G(v) = h[v]
      BY <1>3, <3>2, <3>3
    <3>5. h[v] = g[v]
      <4>1. \A s \in (SUBSET v) \cap (SUBSET t) : h[s] = g[s]
        BY <2>2, <3>4, SumsAgree
      <4> QED
        BY <3>2, <4>1
    <3> QED
      BY <3>1, <3>4, <3>5
  <2> QED
    BY <2>2, <2>3, <2>4
<1> DEFINE f == [s \in SUBSET u |-> IF s = {} THEN 0 ELSE F[First(s)] + G(s \ {First(s)})]
<1> HIDE DEF G
<1>5. ASSUME NEW s \in SUBSET u, s # {} PROVE f[s \ {First(s)}] = G(s \ {First(s)})
  <2>1. First(s) \in s
    BY <1>5 DEF First
  <2>2. PICK t : t = s \ {First(s)}
    OBVIOUS
  <2>3. t \in SUBSET u /\ t # u
    BY <2>1, <2>2
  <2>4. f[t] = IF t = {} THEN 0 ELSE F[First(t)] + G(t \ {First(t)})
    BY <2>3
  <2> QED
    BY <1>4, <2>2, <2>3, <2>4
<1>6. Sums(f, F, u)
  <2>1. \A s \in SUBSET u : f[s] = IF s = {} THEN 0 ELSE F[First(s)] + f[s \ {First(s)}]
    BY <1>5
  <2>2. f = [s \in SUBSET u |-> f[s]]
    OBVIOUS
  <2> HIDE DEF f
  <2> QED
    BY <2>1, <2>2 DEF Sums
<1> QED
  BY <1>6

\* The recursion of a sum, for the element the definition chooses.
LEMMA SumFirst ==
    ASSUME NEW F, NEW S, IsFiniteSet(S)
    PROVE  SumFunctionOnSet(F, S) =
              IF S = {} THEN 0 ELSE F[First(S)] + SumFunctionOnSet(F, S \ {First(S)})
<1>1. PICK f : f = CHOOSE h : Sums(h, F, S)
  OBVIOUS
<1>2. Sums(f, F, S) /\ SumFunctionOnSet(F, S) = f[S]
  BY <1>1, SumsExist, SumDef
<1>3. f[S] = IF S = {} THEN 0 ELSE F[First(S)] + f[S \ {First(S)}]
  BY <1>2 DEF Sums
<1>4. PICK v : v = S \ {First(S)}
  OBVIOUS
<1>5. v \in SUBSET S /\ IsFiniteSet(v)
  BY <1>4, FS_Subset
<1>6. PICK g : g = CHOOSE h : Sums(h, F, v)
  OBVIOUS
<1>7. Sums(g, F, v) /\ SumFunctionOnSet(F, v) = g[v]
  BY <1>5, <1>6, SumsExist, SumDef
<1>8. f[v] = g[v]
  <2>1. \A s \in (SUBSET S) \cap (SUBSET v) : f[s] = g[s]
    BY <1>2, <1>7, SumsAgree
  <2> QED
    BY <1>5, <2>1
<1> QED
  BY <1>2, <1>3, <1>4, <1>7, <1>8

\* A sum may be taken in any order.
LEMMA SumAny ==
    ASSUME NEW F, NEW S, IsFiniteSet(S), \A x \in S : F[x] \in Nat
    PROVE  /\ SumFunctionOnSet(F, S) \in Nat
           /\ \A x \in S : SumFunctionOnSet(F, S) = F[x] + SumFunctionOnSet(F, S \ {x})
<1> DEFINE Sm(s) == SumFunctionOnSet(F, s)
           AnyOrder(s) == Sm(s) \in Nat /\ \A x \in s : Sm(s) = F[x] + Sm(s \ {x})
           C == {s \in SUBSET S : ~ AnyOrder(s)}
<1> SUFFICES ASSUME C # {} PROVE FALSE
  OBVIOUS
<1>1. \A s \in SUBSET S : IsFiniteSet(s)
  BY FS_Subset
<1>2. PICK s \in C : \A t \in C : Cardinality(s) <= Cardinality(t)
  <2>1. \A s \in C : IsFiniteSet(s)
    BY <1>1
  <2> HIDE DEF C
  <2> QED
    BY <2>1, SmallestSet
<1>3. IsFiniteSet(s) /\ s \in SUBSET S
  BY <1>1
<1>4. Sm(s) = IF s = {} THEN 0 ELSE F[First(s)] + Sm(s \ {First(s)})
  BY <1>3, SumFirst
<1>5. ASSUME NEW x \in s PROVE AnyOrder(s \ {x}) /\ s \ {x} \in SUBSET S
  <2>1. PICK t : t = s \ {x}
    OBVIOUS
  <2>2. t \in SUBSET s /\ Cardinality(s) = Cardinality(t) + 1 /\ Cardinality(t) \in Nat
    BY <1>3, <2>1, OneFewer
  <2>3. ~(Cardinality(s) <= Cardinality(t))
    BY <2>2
  <2>4. t \in SUBSET S /\ t \notin C
    BY <1>2, <1>3, <2>2, <2>3
  <2>5. AnyOrder(t)
    <3> HIDE DEF AnyOrder
    <3> QED
      BY <2>4
  <2> HIDE DEF AnyOrder
  <2> QED
    BY <2>1, <2>4, <2>5
<1>6. CASE s = {}
  <2>1. AnyOrder(s)
    BY <1>4, <1>6
  <2> QED
    BY <2>1
<1>7. CASE s # {}
  <2>1. PICK c \in s : c = First(s)
    BY <1>7 DEF First
  <2>2. Sm(s) = F[c] + Sm(s \ {c}) /\ F[c] \in Nat
    BY <1>3, <1>4, <1>7, <2>1
  <2>3. Sm(s \ {c}) \in Nat /\ \A x \in s \ {c} : Sm(s \ {c}) = F[x] + Sm((s \ {c}) \ {x})
    BY <1>5
  <2>4. ASSUME NEW x \in s PROVE Sm(s) = F[x] + Sm(s \ {x})
    <3>1. CASE x = c
      BY <2>2, <3>1
    <3>2. CASE x # c
      <4>1. Sm(s \ {c}) = F[x] + Sm((s \ {c}) \ {x})
        BY <2>3, <3>2
      <4>2. Sm(s \ {x}) = F[c] + Sm((s \ {x}) \ {c})
        BY <1>5, <3>2
      <4>3. PICK r : r = (s \ {c}) \ {x}
        OBVIOUS
      <4>4. (s \ {x}) \ {c} = r
        BY <4>3
      <4>5. Sm(r) \in Nat
        <5>1. r \in SUBSET S /\ r \notin C
          <6>1. r = (s \ {c}) \ {x} /\ r \in SUBSET s
            BY <4>3
          <6>2. IsFiniteSet(r) /\ Cardinality(r) <= Cardinality(s \ {c})
            BY <1>1, <1>3, <6>1, FS_Subset
          <6>3. Cardinality(s) = Cardinality(s \ {c}) + 1 /\ Cardinality(s \ {c}) \in Nat
            BY <1>3, OneFewer
          <6>4. Cardinality(r) \in Nat
            BY <6>2, FS_CardinalityType
          <6>5. ~(Cardinality(s) <= Cardinality(r))
            BY <6>2, <6>3, <6>4
          <6> QED
            BY <1>2, <1>3, <6>1, <6>5
        <5> QED
          BY <5>1
      <4>6. F[x] \in Nat /\ F[c] \in Nat
        BY <1>3
      <4>7. PICK a \in Nat, b \in Nat, e \in Nat : a = F[x] /\ b = F[c] /\ e = Sm(r)
        BY <4>5, <4>6
      <4>8. Sm(s) = b + (a + e) /\ Sm(s \ {x}) = b + e
        BY <2>2, <4>1, <4>2, <4>3, <4>4, <4>7
      <4> QED
        BY <4>7, <4>8
    <3> QED
      BY <3>1, <3>2
  <2>5. Sm(s) \in Nat
    BY <2>2, <2>3
  <2>6. AnyOrder(s)
    BY <2>4, <2>5
  <2> QED
    BY <2>6
<1> QED
  BY <1>6, <1>7

LEMMA SumNone ==
    ASSUME NEW F
    PROVE  SumFunctionOnSet(F, {}) = 0
BY FS_EmptySet, SumFirst

\* Lists without repetitions.
LEMMA WithoutOne ==
    ASSUME NEW l \in Seq(Ids), IsInjective(l), NEW i \in ToSet(l)
    PROVE  /\ RemoveFirst(l, i) \in Seq(Ids) /\ IsInjective(RemoveFirst(l, i))
           /\ Len(RemoveFirst(l, i)) = Len(l) - 1
           /\ ToSet(RemoveFirst(l, i)) = ToSet(l) \ {i}
<1>1. Len(l) \in Nat /\ DOMAIN l = 1..Len(l) /\ \A k \in 1..Len(l) : l[k] \in Ids
  OBVIOUS
<1>2. PICK p \in 1..Len(l) : l[p] = i
  BY <1>1 DEF ToSet
<1>3. \A k \in 1..Len(l) : l[k] = i <=> k = p
  BY <1>1, <1>2 DEF IsInjective
<1>4. RemoveFirst(l, i) = RemoveAt(l, p)
  <2>1. {k \in 1..Len(l) : l[k] = i} = {p}
    BY <1>2, <1>3
  <2>2. Min({p}) = p
    BY <1>1, <1>2 DEF Min
  <2>3. SelectInSeq(l, LAMBDA v : v = i) = p
    BY <2>1, <2>2 DEF SelectInSeq
  <2> QED
    BY <1>2, <2>3 DEF RemoveFirst
<1>5. PICK s, t : s = SubSeq(l, 1, p - 1) /\ t = SubSeq(l, p + 1, Len(l))
  OBVIOUS
<1>6. /\ s \in Seq(Ids) /\ Len(s) = p - 1 /\ \A k \in 1..(p - 1) : s[k] = l[k]
      /\ t \in Seq(Ids) /\ Len(t) = Len(l) - p /\ \A k \in 1..(Len(l) - p) : t[k] = l[p + k]
  <2>1. PICK q \in Int, n \in Nat : q = p - 1 /\ n = Len(l) /\ q >= 0 /\ q + 1 <= n /\ p = q + 1
    <3>1. PICK n \in Nat : n = Len(l)
      BY <1>1
    <3>2. p \in Int /\ 1 <= p /\ p <= n
      BY <1>2, <3>1
    <3>3. p - 1 \in Int /\ p - 1 >= 0 /\ (p - 1) + 1 <= n /\ p = (p - 1) + 1
      BY <3>1, <3>2
    <3> QED
      BY <3>1, <3>3
  <2>2. s = SubSeq(l, 1, q) /\ t = SubSeq(l, q + 2, n)
    BY <1>5, <2>1
  <2>3. (\A k \in 1..q : l[k] \in Ids) /\ (\A k \in (q + 2)..n : l[k] \in Ids)
    BY <1>1, <2>1
  <2>4. s \in Seq(Ids) /\ Len(s) = (IF 1 <= q THEN q - 1 + 1 ELSE 0)
        /\ \A k \in 1..(q - 1 + 1) : s[k] = l[1 + k - 1]
    <3>1. PICK u \in Int : u = 1
      OBVIOUS
    <3>2. s = SubSeq(l, u, q) /\ (\A k \in u..q : l[k] \in Ids)
      BY <2>2, <2>3, <3>1
    <3>3. s \in Seq(Ids) /\ Len(s) = (IF u <= q THEN q - u + 1 ELSE 0)
          /\ \A k \in 1..(q - u + 1) : s[k] = l[u + k - 1]
      BY <3>2, SubSeqProperties
    <3> QED
      BY <3>1, <3>3
  <2>5. t \in Seq(Ids) /\ Len(t) = (IF q + 2 <= n THEN n - (q + 2) + 1 ELSE 0)
        /\ \A k \in 1..(n - (q + 2) + 1) : t[k] = l[(q + 2) + k - 1]
    <3>1. PICK u \in Int : u = q + 2
      BY <2>1
    <3>2. t = SubSeq(l, u, n) /\ (\A k \in u..n : l[k] \in Ids)
      BY <2>2, <2>3, <3>1
    <3>3. t \in Seq(Ids) /\ Len(t) = (IF u <= n THEN n - u + 1 ELSE 0)
          /\ \A k \in 1..(n - u + 1) : t[k] = l[u + k - 1]
      BY <3>2, SubSeqProperties
    <3> QED
      BY <3>1, <3>3
  <2>6. Len(s) = p - 1 /\ Len(t) = Len(l) - p
    BY <2>1, <2>4, <2>5
  <2>7. \A k \in 1..(p - 1) : k \in 1..(q - 1 + 1) /\ 1 + k - 1 = k
    BY <2>1
  <2>8. \A k \in 1..(Len(l) - p) : k \in 1..(n - (q + 2) + 1) /\ (q + 2) + k - 1 = p + k
    BY <2>1
  <2> QED
    BY <2>4, <2>5, <2>6, <2>7, <2>8
<1>7. PICK a : a = s \o t
  OBVIOUS
<1>8. /\ a \in Seq(Ids) /\ Len(a) = Len(l) - 1 /\ DOMAIN a = 1..(Len(l) - 1)
      /\ \A k \in 1..(Len(l) - 1) : a[k] = IF k < p THEN l[k] ELSE l[k + 1]
  <2>1. a \in Seq(Ids) /\ Len(a) = Len(s) + Len(t)
        /\ \A k \in 1..Len(s) + Len(t) : a[k] = IF k <= Len(s) THEN s[k] ELSE t[k - Len(s)]
    BY <1>6, <1>7, ConcatProperties
  <2>2. Len(s) + Len(t) = Len(l) - 1 /\ Len(s) = p - 1
    BY <1>1, <1>2, <1>6
  <2>3. ASSUME NEW k \in 1..(Len(l) - 1) PROVE a[k] = IF k < p THEN l[k] ELSE l[k + 1]
    <3>1. a[k] = IF k <= p - 1 THEN s[k] ELSE t[k - (p - 1)]
      BY <2>1, <2>2
    <3>2. CASE k < p
      <4>1. k \in 1..(p - 1) /\ k <= p - 1
        BY <1>1, <1>2, <3>2
      <4> QED
        BY <1>6, <3>1, <3>2, <4>1
    <3>3. CASE ~(k < p)
      <4>1. k - (p - 1) \in 1..(Len(l) - p) /\ ~(k <= p - 1) /\ p + (k - (p - 1)) = k + 1
        BY <1>1, <1>2, <3>3
      <4> QED
        BY <1>6, <3>1, <3>3, <4>1
    <3> QED
      BY <3>2, <3>3
  <2>4. DOMAIN a = 1..Len(a)
    BY <2>1
  <2> QED
    BY <2>1, <2>2, <2>3, <2>4
<1>9. IsInjective(a)
  <2> SUFFICES ASSUME NEW j \in 1..(Len(l) - 1), NEW k \in 1..(Len(l) - 1), a[j] = a[k] PROVE j = k
    BY <1>8 DEF IsInjective
  <2>1. \A x, y \in 1..Len(l) : l[x] = l[y] => x = y
    BY <1>1 DEF IsInjective
  <2> QED
    BY <1>1, <1>2, <1>8, <2>1
<1>10. ToSet(a) = ToSet(l) \ {i}
  <2>1. ASSUME NEW k \in 1..(Len(l) - 1) PROVE a[k] \in ToSet(l) \ {i}
    <3>1. PICK j \in 1..Len(l) : a[k] = l[j] /\ j # p
      BY <1>1, <1>2, <1>8
    <3> QED
      BY <1>1, <1>3, <3>1 DEF ToSet
  <2>2. ASSUME NEW j \in 1..Len(l), j # p PROVE \E k \in 1..(Len(l) - 1) : a[k] = l[j]
    <3>1. CASE j < p
      BY <1>1, <1>2, <1>8, <3>1
    <3>2. CASE j > p
      <4>1. j - 1 \in 1..(Len(l) - 1) /\ ~(j - 1 < p) /\ (j - 1) + 1 = j
        BY <1>1, <1>2, <3>2
      <4> QED
        BY <1>8, <4>1
    <3> QED
      BY <2>2, <3>1, <3>2
  <2>3. \A x \in ToSet(a) : x \in ToSet(l) \ {i}
    BY <1>8, <2>1 DEF ToSet
  <2>4. ASSUME NEW x \in ToSet(l) \ {i} PROVE x \in ToSet(a)
    <3>1. PICK j \in 1..Len(l) : l[j] = x
      BY <1>1 DEF ToSet
    <3>2. j # p
      BY <1>2, <3>1
    <3>3. PICK k \in 1..(Len(l) - 1) : a[k] = l[j]
      BY <2>2, <3>2
    <3> QED
      BY <1>8, <3>1, <3>3 DEF ToSet
  <2> QED
    BY <2>3, <2>4
<1>11. RemoveFirst(l, i) = a
  BY <1>4, <1>5, <1>7 DEF RemoveAt
<1> QED
  BY <1>8, <1>9, <1>10, <1>11

LEMMA WithOne ==
    ASSUME NEW l \in Seq(Ids), IsInjective(l), NEW i \in Ids, i \notin ToSet(l)
    PROVE  /\ <<i>> \o l \in Seq(Ids) /\ IsInjective(<<i>> \o l)
           /\ Len(<<i>> \o l) = Len(l) + 1
           /\ ToSet(<<i>> \o l) = ToSet(l) \cup {i}
<1>1. Len(l) \in Nat /\ DOMAIN l = 1..Len(l) /\ \A k \in 1..Len(l) : l[k] \in Ids
  OBVIOUS
<1>2. PICK s : s = <<i>>
  OBVIOUS
<1>3. s \in Seq(Ids) /\ Len(s) = 1 /\ s[1] = i
  BY <1>2
<1>4. PICK a : a = s \o l
  OBVIOUS
<1>5. /\ a \in Seq(Ids) /\ Len(a) = Len(l) + 1 /\ DOMAIN a = 1..(Len(l) + 1)
      /\ a[1] = i /\ \A k \in 1..Len(l) : a[k + 1] = l[k]
  <2>1. a \in Seq(Ids) /\ Len(a) = Len(s) + Len(l)
        /\ \A k \in 1..Len(s) + Len(l) : a[k] = IF k <= Len(s) THEN s[k] ELSE l[k - Len(s)]
    BY <1>3, <1>4, ConcatProperties
  <2>2. Len(a) = Len(l) + 1 /\ \A k \in 1..(Len(l) + 1) : a[k] = IF k <= 1 THEN s[k] ELSE l[k - 1]
    BY <1>1, <1>3, <2>1
  <2>3. 1 \in 1..(Len(l) + 1) /\ \A k \in 1..Len(l) : k + 1 \in 1..(Len(l) + 1) /\ ~(k + 1 <= 1) /\ (k + 1) - 1 = k
    BY <1>1
  <2>4. a[1] = i
    BY <1>3, <2>2, <2>3
  <2>5. \A k \in 1..Len(l) : a[k + 1] = l[k]
    BY <2>2, <2>3
  <2>6. DOMAIN a = 1..Len(a)
    BY <2>1
  <2> QED
    BY <2>1, <2>2, <2>4, <2>5, <2>6
<1>6. \A k \in 1..Len(l) : l[k] # i
  BY <1>1 DEF ToSet
<1>7. \A k \in 1..(Len(l) + 1) : k = 1 \/ \E j \in 1..Len(l) : k = j + 1
  <2> SUFFICES ASSUME NEW k \in 1..(Len(l) + 1), k # 1 PROVE \E j \in 1..Len(l) : k = j + 1
    OBVIOUS
  <2>1. k - 1 \in 1..Len(l) /\ k = (k - 1) + 1
    BY <1>1
  <2> QED
    BY <2>1
<1>8. IsInjective(a)
  <2> SUFFICES ASSUME NEW j \in 1..(Len(l) + 1), NEW k \in 1..(Len(l) + 1), a[j] = a[k] PROVE j = k
    BY <1>5 DEF IsInjective
  <2>1. \A x, y \in 1..Len(l) : l[x] = l[y] => x = y
    BY <1>1 DEF IsInjective
  <2>2. CASE j = 1 /\ k = 1
    BY <2>2
  <2>3. CASE j = 1 /\ k # 1
    BY <1>5, <1>6, <1>7, <2>3
  <2>4. CASE j # 1 /\ k = 1
    BY <1>5, <1>6, <1>7, <2>4
  <2>5. CASE j # 1 /\ k # 1
    <3>1. PICK x \in 1..Len(l) : j = x + 1
      BY <1>7, <2>5
    <3>2. PICK y \in 1..Len(l) : k = y + 1
      BY <1>7, <2>5
    <3> QED
      BY <1>5, <2>1, <3>1, <3>2
  <2> QED
    BY <2>2, <2>3, <2>4, <2>5
<1>9. ToSet(a) = ToSet(l) \cup {i}
  <2>1. \A x \in ToSet(a) : x \in ToSet(l) \cup {i}
    BY <1>1, <1>5, <1>7 DEF ToSet
  <2>2. 1 \in 1..(Len(l) + 1) /\ \A k \in 1..Len(l) : k + 1 \in 1..(Len(l) + 1)
    BY <1>1
  <2>3. \A x \in ToSet(l) \cup {i} : x \in ToSet(a)
    BY <1>1, <1>5, <2>2 DEF ToSet
  <2> QED
    BY <2>1, <2>3
<1> QED
  BY <1>2, <1>4, <1>5, <1>8, <1>9

LEMMA LastListed ==
    ASSUME NEW l \in Seq(Ids), l # <<>>
    PROVE  Last(l) \in ToSet(l) /\ Len(l) \in Nat \ {0}
<1>1. Len(l) \in Nat \ {0} /\ DOMAIN l = 1..Len(l)
  OBVIOUS
<1> QED
  BY <1>1 DEF Last, ToSet

-----------------------------------------------------------------------------
(***************************************************************************)
(* Good: the tool memory keeps its books.  Each operation on it returns a  *)
(* good memory for a good one.                                             *)
(***************************************************************************)
Used(m) == {d \in Dsml : m.refs[d] > 0}

Linked(m) ==
    /\ m = [by_id |-> m.by_id, lru |-> m.lru, refs |-> m.refs, entries |-> m.entries, bytes |-> m.bytes]
    /\ m.by_id = [i \in DOMAIN m.by_id |-> m.by_id[i]]
    /\ \A i \in DOMAIN m.by_id : i \in Ids /\ m.by_id[i] \in [block : Dsml, source : {"ram", "disk"}]
    /\ m.lru \in Seq(Ids) /\ IsInjective(m.lru) /\ ToSet(m.lru) = DOMAIN m.by_id

Accounted(m) ==
    /\ m.entries = Len(m.lru)
    /\ IsFiniteSet(DOMAIN m.by_id)
    /\ m.refs \in [Dsml -> Nat] /\ \A d \in Dsml : m.refs[d] = Cardinality(EntriesOf(m, d))
    /\ IsFiniteSet(Used(m))
    /\ m.bytes = EntryBytes * m.entries + SumFunctionOnSet(BlockBytes, Used(m))

Good(m) == Linked(m) /\ Accounted(m)

LEMMA MemoryConstants ==
    /\ MaxEntries \in Nat \ {0} /\ MaxBytes \in Nat /\ EntryBytes \in Nat \ {0}
    /\ \A d \in Dsml : BlockBytes[d] \in Nat \ {0}
BY ToolMemoryAssumption

LEMMA Times ==
    ASSUME NEW a \in Nat, NEW n \in Nat
    PROVE  a * n \in Nat /\ a * (n + 1) = a * n + a /\ (n >= 1 => a * n = a * (n - 1) + a /\ a * (n - 1) \in Nat)
OBVIOUS

\* The empty memory.
LEMMA EmptyGood == Good(EmptyMemory) /\ EmptyMemory.entries = 0 /\ EmptyMemory.bytes = 0
<1>1. PICK e : e = EmptyMemory
  OBVIOUS
<1>2. /\ e = [by_id |-> e.by_id, lru |-> e.lru, refs |-> e.refs, entries |-> e.entries, bytes |-> e.bytes]
      /\ DOMAIN e.by_id = {} /\ e.by_id = [i \in DOMAIN e.by_id |-> e.by_id[i]]
      /\ e.lru = <<>> /\ e.refs = [d \in Dsml |-> 0] /\ e.entries = 0 /\ e.bytes = 0
  BY <1>1 DEF EmptyMemory
<1>3. e.lru \in Seq(Ids) /\ IsInjective(e.lru) /\ ToSet(e.lru) = {} /\ Len(e.lru) = 0
  BY <1>2 DEF IsInjective, ToSet
<1>4. Linked(e)
  BY <1>2, <1>3 DEF Linked
<1>5. IsFiniteSet({}) /\ Cardinality({}) = 0
  BY FS_EmptySet
<1>6. Used(e) = {} /\ \A d \in Dsml : EntriesOf(e, d) = {}
  BY <1>2 DEF Used, EntriesOf
<1>7. SumFunctionOnSet(BlockBytes, {}) = 0 /\ EntryBytes * 0 = 0
  BY SumNone, MemoryConstants
<1>8. Accounted(e)
  <2>1. e.entries = Len(e.lru) /\ IsFiniteSet(DOMAIN e.by_id) /\ IsFiniteSet(Used(e))
    BY <1>2, <1>3, <1>5, <1>6
  <2>2. e.refs \in [Dsml -> Nat] /\ \A d \in Dsml : e.refs[d] = Cardinality(EntriesOf(e, d))
    <3>1. e.refs \in [Dsml -> Nat] /\ \A d \in Dsml : e.refs[d] = 0
      BY <1>2
    <3>2. \A d \in Dsml : Cardinality(EntriesOf(e, d)) = 0
      BY <1>5, <1>6
    <3> QED
      BY <3>1, <3>2
  <2>3. EntryBytes * e.entries + SumFunctionOnSet(BlockBytes, Used(e)) = 0
    <3>1. EntryBytes * e.entries = 0 /\ SumFunctionOnSet(BlockBytes, Used(e)) = 0
      BY <1>2, <1>6, <1>7
    <3> QED
      BY <3>1
  <2> QED
    BY <1>2, <2>1, <2>2, <2>3 DEF Accounted
<1> QED
  BY <1>1, <1>2, <1>4, <1>8 DEF Good

\* The shape of what tool_memory_remove_entry returns.
LEMMA RemovedParts ==
    ASSUME NEW m, Linked(m), NEW i \in DOMAIN m.by_id, NEW d, d = m.by_id[i].block,
           m.refs \in [Dsml -> Nat], NEW r, r = tool_memory_remove_entry(m, i)
    PROVE  /\ r = [by_id |-> r.by_id, lru |-> r.lru, refs |-> r.refs, entries |-> r.entries, bytes |-> r.bytes]
           /\ r.by_id = [j \in DOMAIN m.by_id \ {i} |-> m.by_id[j]]
           /\ r.lru = RemoveFirst(m.lru, i)
           /\ r.refs = [m.refs EXCEPT ![d] = @ - 1]
           /\ r.entries = (IF m.entries > 0 THEN m.entries - 1 ELSE 0)
           /\ r.bytes = LET rest == IF m.bytes >= EntryBytes THEN m.bytes - EntryBytes ELSE 0
                        IN  IF m.refs[d] > 1 THEN rest
                            ELSE IF rest >= BlockBytes[d] THEN rest - BlockBytes[d] ELSE 0
<1>1. PICK b, l, f, e, y : m = [by_id |-> b, lru |-> l, refs |-> f, entries |-> e, bytes |-> y]
  BY DEF Linked
<1>2. PICK x : x = [by_id |-> [j \in DOMAIN b \ {i} |-> b[j]], lru |-> RemoveFirst(l, i), refs |-> f,
                    entries |-> IF e > 0 THEN e - 1 ELSE 0,
                    bytes |-> IF y >= EntryBytes THEN y - EntryBytes ELSE 0]
  OBVIOUS
<1>3. PICK y1 : y1 = [m EXCEPT !.by_id = [j \in DOMAIN @ \ {i} |-> @[j]],
                !.lru = RemoveFirst(@, i),
                !.bytes = IF @ >= EntryBytes THEN @ - EntryBytes ELSE 0,
                !.entries = IF @ > 0 THEN @ - 1 ELSE 0]
  OBVIOUS
<1>4. y1 = x
  <2>1. /\ y1.by_id = x.by_id /\ y1.lru = x.lru /\ y1.refs = x.refs
    BY <1>1, <1>2, <1>3
  <2>2. /\ y1.entries = x.entries /\ y1.bytes = x.bytes
    BY <1>1, <1>2, <1>3
  <2>3. y1 = [by_id |-> y1.by_id, lru |-> y1.lru, refs |-> y1.refs, entries |-> y1.entries, bytes |-> y1.bytes]
    BY <1>1, <1>3
  <2>4. x = [by_id |-> x.by_id, lru |-> x.lru, refs |-> x.refs, entries |-> x.entries, bytes |-> x.bytes]
    BY <1>2
  <2> QED
    BY <2>1, <2>2, <2>3, <2>4
<1>5. r = tool_memory_release_block(x, d)
  BY <1>3, <1>4 DEF tool_memory_remove_entry
<1>6. PICK z : z = IF x.refs[d] > 1 THEN x.bytes
                   ELSE IF x.bytes >= BlockBytes[d] THEN x.bytes - BlockBytes[d] ELSE 0
  OBVIOUS
<1>7. r = [x EXCEPT !.refs[d] = @ - 1, !.bytes = z]
  BY <1>5, <1>6 DEF tool_memory_release_block
<1>8. /\ r.by_id = x.by_id /\ r.lru = x.lru /\ r.refs = [x.refs EXCEPT ![d] = @ - 1]
      /\ r.entries = x.entries /\ r.bytes = z
  BY <1>2, <1>7
<1>9. r = [by_id |-> r.by_id, lru |-> r.lru, refs |-> r.refs, entries |-> r.entries, bytes |-> r.bytes]
  BY <1>2, <1>7
<1>10. /\ x.by_id = [j \in DOMAIN m.by_id \ {i} |-> m.by_id[j]] /\ x.lru = RemoveFirst(m.lru, i)
       /\ x.refs = m.refs /\ x.entries = (IF m.entries > 0 THEN m.entries - 1 ELSE 0)
       /\ x.bytes = (IF m.bytes >= EntryBytes THEN m.bytes - EntryBytes ELSE 0)
  BY <1>1, <1>2
<1> QED
  BY <1>6, <1>8, <1>9, <1>10

\* What an accounted memory holds, in numbers.
LEMMA Amounts ==
    ASSUME NEW m, Good(m)
    PROVE  /\ Len(m.lru) \in Nat /\ m.entries = Len(m.lru)
           /\ \A d \in Dsml : m.refs[d] \in Nat /\ IsFiniteSet(EntriesOf(m, d))
           /\ SumFunctionOnSet(BlockBytes, Used(m)) \in Nat
           /\ m.bytes \in Nat
<1>1. Len(m.lru) \in Nat /\ m.entries = Len(m.lru)
  BY DEF Good, Linked, Accounted
<1>2. ASSUME NEW d \in Dsml PROVE m.refs[d] \in Nat /\ IsFiniteSet(EntriesOf(m, d))
  <2>1. EntriesOf(m, d) \subseteq DOMAIN m.by_id
    BY DEF EntriesOf
  <2> QED
    BY <2>1, FS_Subset DEF Good, Accounted
<1>3. SumFunctionOnSet(BlockBytes, Used(m)) \in Nat
  <2>1. IsFiniteSet(Used(m)) /\ \A x \in Used(m) : BlockBytes[x] \in Nat
    BY MemoryConstants DEF Good, Accounted, Used
  <2> QED
    BY <2>1, SumAny
<1>4. EntryBytes * m.entries \in Nat
  BY <1>1, MemoryConstants, Times
<1>5. m.bytes \in Nat
  BY <1>3, <1>4 DEF Good, Accounted
<1> QED
  BY <1>1, <1>2, <1>3, <1>5

\* tool_memory_remove_entry keeps the books.
LEMMA RemoveGood ==
    ASSUME NEW m, Good(m), NEW i \in DOMAIN m.by_id, NEW r, r = tool_memory_remove_entry(m, i)
    PROVE  /\ Good(r) /\ Len(r.lru) = Len(m.lru) - 1
           /\ DOMAIN r.by_id = DOMAIN m.by_id \ {i}
           /\ \A j \in DOMAIN r.by_id : r.by_id[j] = m.by_id[j]
<1>1. PICK d \in Dsml : d = m.by_id[i].block
  BY DEF Good, Linked
<1>2. /\ r = [by_id |-> r.by_id, lru |-> r.lru, refs |-> r.refs, entries |-> r.entries, bytes |-> r.bytes]
      /\ r.by_id = [j \in DOMAIN m.by_id \ {i} |-> m.by_id[j]]
      /\ r.lru = RemoveFirst(m.lru, i)
      /\ r.refs = [m.refs EXCEPT ![d] = @ - 1]
      /\ r.entries = (IF m.entries > 0 THEN m.entries - 1 ELSE 0)
      /\ r.bytes = LET rest == IF m.bytes >= EntryBytes THEN m.bytes - EntryBytes ELSE 0
                   IN  IF m.refs[d] > 1 THEN rest
                       ELSE IF rest >= BlockBytes[d] THEN rest - BlockBytes[d] ELSE 0
  <2>1. Linked(m) /\ m.refs \in [Dsml -> Nat]
    BY DEF Good, Accounted
  <2> QED
    BY <1>1, <2>1, RemovedParts
<1>3. i \in ToSet(m.lru) /\ m.lru \in Seq(Ids) /\ IsInjective(m.lru)
  BY DEF Good, Linked
<1>4. /\ r.lru \in Seq(Ids) /\ IsInjective(r.lru) /\ Len(r.lru) = Len(m.lru) - 1
      /\ ToSet(r.lru) = ToSet(m.lru) \ {i}
  BY <1>2, <1>3, WithoutOne
<1>5. /\ DOMAIN r.by_id = DOMAIN m.by_id \ {i}
      /\ \A j \in DOMAIN r.by_id : r.by_id[j] = m.by_id[j]
      /\ r.by_id = [j \in DOMAIN r.by_id |-> r.by_id[j]]
  BY <1>2
<1>6. Linked(r)
  <2>1. \A j \in DOMAIN r.by_id : j \in Ids /\ r.by_id[j] \in [block : Dsml, source : {"ram", "disk"}]
    BY <1>5 DEF Good, Linked
  <2>2. ToSet(r.lru) = DOMAIN r.by_id
    BY <1>4, <1>5 DEF Good, Linked
  <2> QED
    BY <1>2, <1>4, <1>5, <2>1, <2>2 DEF Linked
<1>7. Len(m.lru) \in Nat /\ Len(m.lru) >= 1 /\ Len(r.lru) \in Nat
  <2>1. Len(r.lru) \in Nat
    BY <1>4
  <2> QED
    BY <1>3, <1>4, <2>1
<1>8. r.entries = Len(r.lru)
  BY <1>2, <1>4, <1>7, Amounts
<1>9. IsFiniteSet(DOMAIN r.by_id)
  BY <1>5, FS_Subset DEF Good, Accounted
<1>10. /\ EntriesOf(r, d) = EntriesOf(m, d) \ {i} /\ i \in EntriesOf(m, d)
       /\ \A b \in Dsml : b # d => EntriesOf(r, b) = EntriesOf(m, b)
  <2>1. EntriesOf(r, d) = EntriesOf(m, d) \ {i} /\ i \in EntriesOf(m, d)
    BY <1>1, <1>5 DEF EntriesOf
  <2>2. ASSUME NEW b \in Dsml, b # d PROVE EntriesOf(r, b) = EntriesOf(m, b)
    BY <1>1, <1>5, <2>2 DEF EntriesOf
  <2> QED
    BY <2>1, <2>2
<1>11. /\ m.refs[d] \in Nat /\ m.refs[d] >= 1
       /\ m.refs[d] - 1 = Cardinality(EntriesOf(r, d))
  <2>1. IsFiniteSet(EntriesOf(m, d)) /\ m.refs[d] = Cardinality(EntriesOf(m, d))
    BY Amounts DEF Good, Accounted
  <2>2. PICK s : s = EntriesOf(m, d)
    OBVIOUS
  <2>3. /\ Cardinality(s) \in Nat /\ Cardinality(s \ {i}) \in Nat
        /\ Cardinality(s) = Cardinality(s \ {i}) + 1
    BY <1>10, <2>1, <2>2, OneFewer
  <2> QED
    BY <1>10, <2>1, <2>2, <2>3
<1>12. /\ m.refs \in [Dsml -> Nat] /\ r.refs[d] = m.refs[d] - 1
       /\ \A b \in Dsml : b # d => r.refs[b] = m.refs[b]
       /\ DOMAIN r.refs = Dsml /\ r.refs = [b \in Dsml |-> r.refs[b]]
  BY <1>2 DEF Good, Accounted
<1>13. r.refs \in [Dsml -> Nat] /\ \A b \in Dsml : r.refs[b] = Cardinality(EntriesOf(r, b))
  <2>1. ASSUME NEW b \in Dsml PROVE r.refs[b] \in Nat /\ r.refs[b] = Cardinality(EntriesOf(r, b))
    <3>1. CASE b = d
      BY <1>11, <1>12, <3>1
    <3>2. CASE b # d
      BY <1>10, <1>12, <3>2 DEF Good, Accounted
    <3> QED
      BY <3>1, <3>2
  <2> QED
    BY <1>12, <2>1
<1>14. PICK n \in Nat : n = Len(r.lru) /\ m.entries = n + 1
  BY <1>4, <1>7, Amounts
<1>15. EntryBytes * n \in Nat /\ EntryBytes * (n + 1) = EntryBytes * n + EntryBytes
  BY MemoryConstants, Times
<1>16. PICK w \in Nat : w = SumFunctionOnSet(BlockBytes, Used(m))
  BY Amounts
<1>17. m.bytes = EntryBytes * n + EntryBytes + w
  BY <1>14, <1>15, <1>16 DEF Good, Accounted
<1>18. (IF m.bytes >= EntryBytes THEN m.bytes - EntryBytes ELSE 0) = EntryBytes * n + w
  BY <1>15, <1>17, MemoryConstants
<1>19. IsFiniteSet(Used(m)) /\ d \in Used(m) /\ \A x \in Used(m) : BlockBytes[x] \in Nat
  BY <1>11, MemoryConstants DEF Good, Accounted, Used
<1>20. CASE m.refs[d] > 1
  <2>1. Used(r) = Used(m)
    <3>1. \A b \in Dsml : m.refs[b] > 0 <=> r.refs[b] > 0
      BY <1>11, <1>12, <1>20
    <3> QED
      BY <3>1 DEF Used
  <2>2. r.bytes = EntryBytes * n + w
    BY <1>2, <1>18, <1>20
  <2>3. Accounted(r)
    BY <1>8, <1>9, <1>13, <1>14, <1>16, <1>19, <2>1, <2>2 DEF Accounted
  <2> QED
    BY <1>4, <1>5, <1>6, <2>3 DEF Good
<1>21. CASE ~(m.refs[d] > 1)
  <2>1. Used(r) = Used(m) \ {d}
    <3>1. \A b \in Dsml : (m.refs[b] > 0 /\ b # d) <=> r.refs[b] > 0
      BY <1>11, <1>12, <1>21
    <3> QED
      BY <3>1 DEF Used
  <2>2. PICK v \in Nat : v = SumFunctionOnSet(BlockBytes, Used(m) \ {d})
    <3>1. IsFiniteSet(Used(m) \ {d}) /\ \A x \in Used(m) \ {d} : BlockBytes[x] \in Nat
      BY <1>19, FS_RemoveElement
    <3> QED
      BY <3>1, SumAny
  <2>3. w = BlockBytes[d] + v
    BY <1>16, <1>19, <2>2, SumAny
  <2>4. r.bytes = EntryBytes * n + v
    <3>1. PICK u \in Nat : u = EntryBytes * n
      BY <1>15
    <3>2. PICK x \in Nat : x = BlockBytes[d]
      BY <1>19
    <3>3. r.bytes = LET rest == u + w IN IF rest >= x THEN rest - x ELSE 0
      BY <1>2, <1>18, <1>21, <3>1, <3>2
    <3>4. r.bytes = u + v
      BY <2>3, <3>2, <3>3
    <3> QED
      BY <3>1, <3>4
  <2>5. IsFiniteSet(Used(r))
    BY <1>19, <2>1, FS_RemoveElement
  <2>6. Accounted(r)
    BY <1>8, <1>9, <1>13, <1>14, <2>1, <2>2, <2>4, <2>5 DEF Accounted
  <2> QED
    BY <1>4, <1>5, <1>6, <2>6 DEF Good
<1> QED
  BY <1>20, <1>21

\* An entry moved to the head, or taken for one of this process.
LEMMA SameEntries ==
    ASSUME NEW m, Good(m), NEW r,
           r = [by_id |-> r.by_id, lru |-> r.lru, refs |-> m.refs, entries |-> m.entries, bytes |-> m.bytes],
           r.by_id = [j \in DOMAIN r.by_id |-> r.by_id[j]],
           DOMAIN r.by_id = DOMAIN m.by_id,
           \A j \in DOMAIN r.by_id : /\ r.by_id[j] \in [block : Dsml, source : {"ram", "disk"}]
                                     /\ r.by_id[j].block = m.by_id[j].block,
           r.lru \in Seq(Ids), IsInjective(r.lru), ToSet(r.lru) = ToSet(m.lru), Len(r.lru) = Len(m.lru)
    PROVE  Good(r)
<1>1. r.refs = m.refs /\ r.entries = m.entries /\ r.bytes = m.bytes
  <2>1. PICK b, l, f, e, y : r = [by_id |-> b, lru |-> l, refs |-> f, entries |-> e, bytes |-> y]
                             /\ f = m.refs /\ e = m.entries /\ y = m.bytes
    OBVIOUS
  <2> QED
    BY <2>1
<1>2. Linked(r)
  <2>1. \A i \in DOMAIN r.by_id : i \in Ids
    BY DEF Good, Linked
  <2>2. ToSet(r.lru) = DOMAIN r.by_id
    BY DEF Good, Linked
  <2> QED
    BY <1>1, <2>1, <2>2 DEF Linked
<1>3. \A d \in Dsml : EntriesOf(r, d) = EntriesOf(m, d)
  BY DEF EntriesOf
<1>4. Used(r) = Used(m)
  BY <1>1 DEF Used
<1>5. Accounted(r)
  BY <1>1, <1>3, <1>4 DEF Good, Accounted
<1> QED
  BY <1>2, <1>5 DEF Good

LEMMA TouchGood ==
    ASSUME NEW m, Good(m), NEW i \in DOMAIN m.by_id, NEW r, r = tool_memory_touch(m, i)
    PROVE  Good(r) /\ r.by_id = m.by_id /\ r.entries = m.entries /\ r.bytes = m.bytes
<1>1. PICK l : l = AtHead(m.lru, i)
  OBVIOUS
<1>2. i \in ToSet(m.lru) /\ i \in Ids /\ m.lru \in Seq(Ids) /\ IsInjective(m.lru)
  BY DEF Good, Linked
<1>3. PICK k : k = RemoveFirst(m.lru, i)
  OBVIOUS
<1>4. k \in Seq(Ids) /\ IsInjective(k) /\ Len(k) = Len(m.lru) - 1 /\ ToSet(k) = ToSet(m.lru) \ {i}
  BY <1>2, <1>3, WithoutOne
<1>5. l = <<i>> \o k
  BY <1>1, <1>3 DEF AtHead
<1>6. l \in Seq(Ids) /\ IsInjective(l) /\ Len(l) = Len(k) + 1 /\ ToSet(l) = ToSet(k) \cup {i}
  BY <1>2, <1>4, <1>5, WithOne
<1>7. ToSet(l) = ToSet(m.lru) /\ Len(l) = Len(m.lru)
  <2>1. ToSet(l) = ToSet(m.lru)
    BY <1>2, <1>4, <1>6
  <2>2. Len(m.lru) \in Nat
    BY <1>2
  <2> QED
    BY <1>4, <1>6, <2>1, <2>2
<1>8. PICK b, l0, f, e, y : m = [by_id |-> b, lru |-> l0, refs |-> f, entries |-> e, bytes |-> y]
  BY DEF Good, Linked
<1>9. r = [m EXCEPT !.lru = l]
  BY <1>1 DEF tool_memory_touch
<1>10. r = [by_id |-> b, lru |-> l, refs |-> f, entries |-> e, bytes |-> y]
  BY <1>8, <1>9
<1>11. r.by_id = b /\ r.lru = l /\ r.entries = e /\ r.bytes = y /\ m.by_id = b /\ m.refs = f
       /\ m.entries = e /\ m.bytes = y
  BY <1>8, <1>10
<1>12. /\ r.by_id = [j \in DOMAIN r.by_id |-> r.by_id[j]]
       /\ \A j \in DOMAIN r.by_id : r.by_id[j] \in [block : Dsml, source : {"ram", "disk"}]
  BY <1>11 DEF Good, Linked
<1>13. Good(r)
  BY <1>6, <1>7, <1>10, <1>11, <1>12, SameEntries
<1> QED
  BY <1>11, <1>13

LEMMA SourceGood ==
    ASSUME NEW m, Good(m), NEW i \in DOMAIN m.by_id, NEW r, r = [m EXCEPT !.by_id[i].source = "ram"]
    PROVE  /\ Good(r) /\ DOMAIN r.by_id = DOMAIN m.by_id
           /\ \A j \in DOMAIN r.by_id : r.by_id[j].block = m.by_id[j].block
           /\ r.entries = m.entries /\ r.bytes = m.bytes
<1>1. PICK b, l, f, e, y : m = [by_id |-> b, lru |-> l, refs |-> f, entries |-> e, bytes |-> y]
  BY DEF Good, Linked
<1>2. m.by_id = b /\ m.lru = l /\ m.refs = f /\ m.entries = e /\ m.bytes = y
  BY <1>1
<1>3. /\ b = [j \in DOMAIN b |-> b[j]]
      /\ \A j \in DOMAIN b : b[j] \in [block : Dsml, source : {"ram", "disk"}]
  BY <1>2 DEF Good, Linked
<1>4. PICK c : c = [b EXCEPT ![i].source = "ram"]
  OBVIOUS
<1>5. DOMAIN c = DOMAIN b /\ c = [j \in DOMAIN c |-> c[j]] /\ i \in DOMAIN b
      /\ c[i] = [b[i] EXCEPT !.source = "ram"] /\ \A j \in DOMAIN b : j # i => c[j] = b[j]
  BY <1>2, <1>3, <1>4
<1>6. ASSUME NEW j \in DOMAIN b
      PROVE  c[j] \in [block : Dsml, source : {"ram", "disk"}] /\ c[j].block = b[j].block
  BY <1>3, <1>5
<1>7. r = [by_id |-> c, lru |-> l, refs |-> f, entries |-> e, bytes |-> y]
  BY <1>1, <1>4
<1>8. r.by_id = c /\ r.lru = l /\ r.entries = e /\ r.bytes = y
  BY <1>7
<1>9. Good(r)
  <2>1. PICK q : q = r
    OBVIOUS
  <2>2. q.lru \in Seq(Ids) /\ IsInjective(q.lru) /\ ToSet(q.lru) = ToSet(m.lru) /\ Len(q.lru) = Len(m.lru)
    BY <1>2, <1>8, <2>1 DEF Good, Linked
  <2>3. q = [by_id |-> q.by_id, lru |-> q.lru, refs |-> m.refs, entries |-> m.entries, bytes |-> m.bytes]
    BY <1>2, <1>7, <1>8, <2>1
  <2>4. DOMAIN q.by_id = DOMAIN m.by_id /\ q.by_id = [j \in DOMAIN q.by_id |-> q.by_id[j]]
    BY <1>2, <1>5, <1>8, <2>1
  <2>5. \A j \in DOMAIN q.by_id : /\ q.by_id[j] \in [block : Dsml, source : {"ram", "disk"}]
                                  /\ q.by_id[j].block = m.by_id[j].block
    BY <1>2, <1>5, <1>6, <1>8, <2>1
  <2>6. Good(q)
    BY <2>2, <2>3, <2>4, <2>5, SameEntries
  <2> QED
    BY <2>1, <2>6
<1> QED
  BY <1>2, <1>5, <1>6, <1>8, <1>9

LEMMA InsertGood ==
    ASSUME NEW m, Good(m), NEW i \in Ids, i \notin DOMAIN m.by_id, NEW d \in Dsml,
           NEW source \in {"ram", "disk"}, NEW r, r = Inserted(m, i, d, source)
    PROVE  /\ Good(r) /\ DOMAIN r.by_id = DOMAIN m.by_id \cup {i} /\ r.by_id[i].block = d
           /\ \A j \in DOMAIN m.by_id : r.by_id[j] = m.by_id[j]
<1>1. PICK b, l, f, e, y : m = [by_id |-> b, lru |-> l, refs |-> f, entries |-> e, bytes |-> y]
  BY DEF Good, Linked
<1>2. m.by_id = b /\ m.lru = l /\ m.refs = f /\ m.entries = e /\ m.bytes = y
  BY <1>1
<1>3. PICK c : c = [j \in DOMAIN b \cup {i} |-> IF j = i THEN [block |-> d, source |-> source] ELSE b[j]]
  OBVIOUS
<1>4. PICK z : z = y + EntryBytes + IF f[d] = 0 THEN BlockBytes[d] ELSE 0
  OBVIOUS
<1>5. r = [m EXCEPT !.by_id = c, !.lru = <<i>> \o l, !.refs[d] = @ + 1, !.entries = e + 1, !.bytes = z]
  BY <1>2, <1>3, <1>4 DEF Inserted
<1>6. r = [by_id |-> c, lru |-> <<i>> \o l, refs |-> [f EXCEPT ![d] = @ + 1], entries |-> e + 1, bytes |-> z]
  BY <1>1, <1>5
<1>7. r.by_id = c /\ r.lru = <<i>> \o l /\ r.refs = [f EXCEPT ![d] = @ + 1] /\ r.entries = e + 1 /\ r.bytes = z
  BY <1>6
<1>8. /\ DOMAIN c = DOMAIN b \cup {i} /\ c = [j \in DOMAIN c |-> c[j]] /\ i \notin DOMAIN b
      /\ c[i] = [block |-> d, source |-> source] /\ \A j \in DOMAIN b : c[j] = b[j]
  BY <1>2, <1>3
<1>9. l \in Seq(Ids) /\ IsInjective(l) /\ ToSet(l) = DOMAIN b
  BY <1>2 DEF Good, Linked
<1>10. /\ r.lru \in Seq(Ids) /\ IsInjective(r.lru) /\ Len(r.lru) = Len(l) + 1
       /\ ToSet(r.lru) = ToSet(l) \cup {i}
  BY <1>7, <1>8, <1>9, WithOne
<1>11. Linked(r)
  <2>1. \A j \in DOMAIN c : j \in Ids /\ c[j] \in [block : Dsml, source : {"ram", "disk"}]
    <3>1. \A j \in DOMAIN b : j \in Ids /\ b[j] \in [block : Dsml, source : {"ram", "disk"}]
      BY <1>2 DEF Good, Linked
    <3> QED
      BY <1>8, <3>1
  <2>2. ToSet(r.lru) = DOMAIN c
    BY <1>8, <1>9, <1>10
  <2>3. r = [by_id |-> r.by_id, lru |-> r.lru, refs |-> r.refs, entries |-> r.entries, bytes |-> r.bytes]
    BY <1>6
  <2> QED
    BY <1>7, <1>8, <1>10, <2>1, <2>2, <2>3 DEF Linked
<1>12. PICK n \in Nat : n = Len(l) /\ e = n /\ r.entries = n + 1 /\ Len(r.lru) = n + 1
  BY <1>2, <1>7, <1>10, Amounts
<1>13. IsFiniteSet(DOMAIN c)
  <2>1. IsFiniteSet(DOMAIN b)
    BY <1>2 DEF Good, Accounted
  <2> QED
    BY <1>8, <2>1, FS_AddElement
<1>14. /\ EntriesOf(r, d) = EntriesOf(m, d) \cup {i} /\ i \notin EntriesOf(m, d)
       /\ \A x \in Dsml : x # d => EntriesOf(r, x) = EntriesOf(m, x)
  <2>1. c[i].block = d
    BY <1>8
  <2>2. EntriesOf(r, d) = EntriesOf(m, d) \cup {i} /\ i \notin EntriesOf(m, d)
    BY <1>2, <1>7, <1>8, <2>1 DEF EntriesOf
  <2>3. ASSUME NEW x \in Dsml, x # d PROVE EntriesOf(r, x) = EntriesOf(m, x)
    BY <1>2, <1>7, <1>8, <2>1, <2>3 DEF EntriesOf
  <2> QED
    BY <2>2, <2>3
<1>15. f[d] \in Nat /\ f[d] + 1 = Cardinality(EntriesOf(r, d))
  <2>1. IsFiniteSet(EntriesOf(m, d)) /\ f[d] = Cardinality(EntriesOf(m, d)) /\ f[d] \in Nat
    BY <1>2, Amounts DEF Good, Accounted
  <2>2. Cardinality(EntriesOf(m, d) \cup {i}) = Cardinality(EntriesOf(m, d)) + 1
    BY <1>14, <2>1, FS_AddElement
  <2> QED
    BY <1>14, <2>1, <2>2
<1>16. /\ f \in [Dsml -> Nat] /\ r.refs[d] = f[d] + 1 /\ \A x \in Dsml : x # d => r.refs[x] = f[x]
       /\ r.refs = [x \in Dsml |-> r.refs[x]]
  <2>1. f \in [Dsml -> Nat]
    BY <1>2 DEF Good, Accounted
  <2> QED
    BY <1>7, <2>1
<1>17. r.refs \in [Dsml -> Nat] /\ \A x \in Dsml : r.refs[x] = Cardinality(EntriesOf(r, x))
  <2>1. ASSUME NEW x \in Dsml PROVE r.refs[x] \in Nat /\ r.refs[x] = Cardinality(EntriesOf(r, x))
    <3>1. CASE x = d
      BY <1>15, <1>16, <3>1
    <3>2. CASE x # d
      BY <1>2, <1>14, <1>16, <3>2 DEF Good, Accounted
    <3> QED
      BY <3>1, <3>2
  <2> QED
    BY <1>16, <2>1
<1>18. EntryBytes * n \in Nat /\ EntryBytes * (n + 1) = EntryBytes * n + EntryBytes
  BY MemoryConstants, Times
<1>19. PICK w \in Nat : w = SumFunctionOnSet(BlockBytes, Used(m))
  BY Amounts
<1>20. y = EntryBytes * n + w
  BY <1>2, <1>12, <1>19 DEF Good, Accounted
<1>21. IsFiniteSet(Used(m)) /\ \A x \in Dsml : BlockBytes[x] \in Nat
  BY MemoryConstants DEF Good, Accounted
<1>22. CASE f[d] # 0
  <2>1. Used(r) = Used(m)
    <3>1. \A x \in Dsml : f[x] > 0 <=> r.refs[x] > 0
      BY <1>15, <1>16, <1>22
    <3> QED
      BY <1>2, <3>1 DEF Used
  <2>2. r.bytes = EntryBytes * (n + 1) + w
    <3>1. r.bytes = EntryBytes * n + w + EntryBytes + 0
      BY <1>4, <1>7, <1>20, <1>22
    <3> QED
      BY <1>18, <3>1, MemoryConstants
  <2>3. Accounted(r)
    BY <1>7, <1>12, <1>13, <1>17, <1>19, <1>21, <2>1, <2>2 DEF Accounted
  <2> QED
    BY <1>2, <1>7, <1>8, <1>11, <2>3 DEF Good
<1>23. CASE f[d] = 0
  <2>1. Used(r) = Used(m) \cup {d} /\ d \notin Used(m)
    <3>1. \A x \in Dsml : (f[x] > 0 \/ x = d) <=> r.refs[x] > 0
      BY <1>15, <1>16, <1>23
    <3>2. ~(f[d] > 0)
      BY <1>23
    <3> QED
      BY <1>2, <3>1, <3>2 DEF Used
  <2>2. IsFiniteSet(Used(r)) /\ Used(r) \subseteq Dsml
    BY <1>21, <2>1, FS_AddElement DEF Used
  <2>3. SumFunctionOnSet(BlockBytes, Used(r)) = BlockBytes[d] + w
    <3>1. Used(r) \ {d} = Used(m) /\ d \in Used(r)
      BY <2>1
    <3>2. \A x \in Used(r) : BlockBytes[x] \in Nat
      BY <1>21, <2>2
    <3>3. SumFunctionOnSet(BlockBytes, Used(r)) = BlockBytes[d] + SumFunctionOnSet(BlockBytes, Used(r) \ {d})
      BY <2>2, <3>1, <3>2, SumAny
    <3> QED
      BY <1>19, <3>1, <3>3
  <2>4. r.bytes = EntryBytes * (n + 1) + (BlockBytes[d] + w)
    <3>1. r.bytes = EntryBytes * n + w + EntryBytes + BlockBytes[d]
      BY <1>4, <1>7, <1>20, <1>23
    <3>2. PICK x \in Nat : x = BlockBytes[d]
      BY <1>21
    <3>3. PICK u \in Nat : u = EntryBytes * n
      BY <1>18
    <3>4. r.bytes = u + w + EntryBytes + x /\ EntryBytes * (n + 1) = u + EntryBytes
      BY <1>18, <3>1, <3>2, <3>3
    <3> QED
      BY <3>2, <3>4, MemoryConstants
  <2>5. Accounted(r)
    BY <1>7, <1>12, <1>13, <1>17, <2>2, <2>3, <2>4 DEF Accounted
  <2> QED
    BY <1>2, <1>7, <1>8, <1>11, <2>5 DEF Good
<1> QED
  BY <1>22, <1>23

(***************************************************************************)
(* The loops of the memory are recursive functions.  StepOf is one turn of *)
(* each, of a kind: dropping the tail, putting the n-th call of a turn, or *)
(* touching it.                                                            *)
(***************************************************************************)
StepOf(kind, ids, d, m, n) ==
    CASE kind = "prune" -> tool_memory_remove_entry(m, Last(m.lru))
      [] kind = "remember" -> tool_memory_put(m, ids[n], d, "ram")
      [] kind = "attach" -> IF Knows(m, ids[n]) THEN tool_memory_touch(m, ids[n]) ELSE m

\* f is a run of such a loop of N turns, from m.
Runs(f, kind, ids, d, m, N) ==
    f = [n \in 0..N |-> IF n = 0 THEN m ELSE StepOf(kind, ids, d, f[n - 1], n)]

LEMMA RunsExist ==
    ASSUME NEW kind, NEW ids, NEW d, NEW m, NEW N \in Nat
    PROVE  \E f : Runs(f, kind, ids, d, m, N)
<1> DEFINE C == {k \in Nat : ~ \E f : Runs(f, kind, ids, d, m, k)}
<1> SUFFICES ASSUME C # {} PROVE FALSE
  OBVIOUS
<1>1. PICK k \in C : \A j \in C : k <= j
  <2>1. C \subseteq Nat
    OBVIOUS
  <2> HIDE DEF C
  <2> QED
    BY <2>1, LeastElement
<1>2. k \in Nat /\ ~ \E f : Runs(f, kind, ids, d, m, k)
  OBVIOUS
<1>3. k # 0
  <2>1. PICK f : f = [n \in 0..0 |-> m]
    OBVIOUS
  <2>2. f = [n \in 0..0 |-> IF n = 0 THEN m ELSE StepOf(kind, ids, d, f[n - 1], n)]
    BY <2>1
  <2>3. Runs(f, kind, ids, d, m, 0)
    BY <2>2 DEF Runs
  <2> QED
    BY <1>2, <2>3
<1>4. PICK j \in Nat : k = j + 1
  <2>1. k - 1 \in Nat /\ k = (k - 1) + 1
    BY <1>2, <1>3
  <2> QED
    BY <2>1
<1>5. j \notin C
  BY <1>1, <1>4
<1>6. PICK g : Runs(g, kind, ids, d, m, j)
  BY <1>5
<1>7. /\ \A n \in 0..j : g[n] = IF n = 0 THEN m ELSE StepOf(kind, ids, d, g[n - 1], n)
  BY <1>6 DEF Runs
<1>8. PICK f : f = [n \in 0..k |-> IF n \in 0..j THEN g[n] ELSE StepOf(kind, ids, d, g[j], n)]
  OBVIOUS
<1>9. ASSUME NEW n \in 0..k
      PROVE  f[n] = IF n = 0 THEN m ELSE StepOf(kind, ids, d, f[n - 1], n)
  <2>1. CASE n = 0
    <3>1. 0 \in 0..j
      BY <1>4
    <3>2. f[n] = g[0] /\ g[0] = m
      BY <1>7, <1>8, <2>1, <3>1
    <3> QED
      BY <2>1, <3>2
  <2>2. CASE n # 0 /\ n \in 0..j
    <3>1. n - 1 \in 0..j /\ n - 1 \in 0..k
      BY <1>4, <2>2
    <3>2. f[n] = g[n] /\ f[n - 1] = g[n - 1]
      BY <1>8, <2>2, <3>1
    <3> QED
      BY <1>7, <2>2, <3>2
  <2>3. CASE n \notin 0..j
    <3>1. n = k /\ n - 1 = j /\ j \in 0..j /\ j \in 0..k /\ n # 0
      BY <1>4, <2>3
    <3>2. f[n] = StepOf(kind, ids, d, g[j], n) /\ f[j] = g[j]
      BY <1>8, <2>3, <3>1
    <3> QED
      BY <3>1, <3>2
  <2> QED
    BY <2>1, <2>2, <2>3
<1>10. f = [n \in 0..k |-> f[n]]
  BY <1>8
<1>11. Runs(f, kind, ids, d, m, k)
  BY <1>9, <1>10 DEF Runs
<1> QED
  BY <1>2, <1>11

LEMMA RunAt ==
    ASSUME NEW kind, NEW ids, NEW d, NEW m, NEW N \in Nat, NEW f, Runs(f, kind, ids, d, m, N)
    PROVE  /\ f[0] = m
           /\ \A n \in 0..N : n + 1 \in 0..N => f[n + 1] = StepOf(kind, ids, d, f[n], n + 1)
<1>1. \A n \in 0..N : f[n] = IF n = 0 THEN m ELSE StepOf(kind, ids, d, f[n - 1], n)
  BY DEF Runs
<1>2. 0 \in 0..N
  OBVIOUS
<1>3. ASSUME NEW n \in 0..N, n + 1 \in 0..N PROVE f[n + 1] = StepOf(kind, ids, d, f[n], n + 1)
  <2>1. n + 1 # 0 /\ (n + 1) - 1 = n
    OBVIOUS
  <2> QED
    BY <1>1, <1>3, <2>1
<1> QED
  BY <1>1, <1>2, <1>3

\* Every entry of r is one of m, or <<i, d>> for an i of a set I.
Entries(m, i, d) == i \in DOMAIN m.by_id /\ m.by_id[i].block = d

From(r, m, I, d) ==
    \A i \in DOMAIN r.by_id : Entries(m, i, r.by_id[i].block) \/ (i \in I /\ r.by_id[i].block = d)

Limited(m) == m.entries <= MaxEntries /\ m.bytes <= MaxBytes

\* tool_memory_prune_locked ends within the limits, at the latest when the
\* memory is empty, and only drops entries.
LEMMA PruneGood ==
    ASSUME NEW m, Good(m), NEW r, r = tool_memory_prune(m)
    PROVE  /\ Good(r) /\ Limited(r)
           /\ \A i \in DOMAIN r.by_id : Entries(m, i, r.by_id[i].block)
<1>1. PICK N \in Nat : N = Len(m.lru)
  BY Amounts
<1>2. PICK f : f = CHOOSE g : Runs(g, "prune", <<>>, <<>>, m, N)
  OBVIOUS
<1>3. Runs(f, "prune", <<>>, <<>>, m, N)
  BY <1>2, RunsExist
<1>4. r = f[Min({n \in 0..N : ~ OverLimit(f[n])})]
  BY <1>1, <1>2 DEF tool_memory_prune, Runs, StepOf
<1>5. f[0] = m /\ \A n \in 0..N : n + 1 \in 0..N => f[n + 1] = tool_memory_remove_entry(f[n], Last(f[n].lru))
  <2>1. \A x, n : StepOf("prune", <<>>, <<>>, x, n) = tool_memory_remove_entry(x, Last(x.lru))
    BY DEF StepOf
  <2>2. f[0] = m /\ \A n \in 0..N : n + 1 \in 0..N => f[n + 1] = StepOf("prune", <<>>, <<>>, f[n], n + 1)
    <3>1. PICK z : z = <<>>
      OBVIOUS
    <3>2. Runs(f, "prune", z, z, m, N)
      BY <1>3, <3>1
    <3>3. f[0] = m /\ \A n \in 0..N : n + 1 \in 0..N => f[n + 1] = StepOf("prune", z, z, f[n], n + 1)
      BY <3>2, RunAt
    <3> QED
      BY <3>1, <3>3
  <2> QED
    BY <2>1, <2>2
<1> DEFINE Fine(n) == /\ Good(f[n]) /\ Len(f[n].lru) = N - n
                      /\ \A i \in DOMAIN f[n].by_id : Entries(m, i, f[n].by_id[i].block)
           C == {n \in 0..N : ~ Fine(n)}
<1> HIDE DEF Fine
<1>6. ASSUME NEW n \in 0..N, Fine(n), n + 1 \in 0..N PROVE Fine(n + 1)
  <2>1. PICK x, y : x = f[n] /\ y = f[n + 1]
    OBVIOUS
  <2>2. Good(x) /\ Len(x.lru) = N - n /\ \A i \in DOMAIN x.by_id : Entries(m, i, x.by_id[i].block)
    BY <1>6, <2>1 DEF Fine
  <2>3. x.lru \in Seq(Ids) /\ ToSet(x.lru) = DOMAIN x.by_id
    BY <2>2 DEF Good, Linked
  <2>4. x.lru # <<>>
    <3>1. N - n # 0
      BY <1>6
    <3>2. Len(<<>>) = 0
      OBVIOUS
    <3> QED
      BY <2>2, <3>1, <3>2
  <2>5. PICK i \in DOMAIN x.by_id : i = Last(x.lru)
    BY <2>3, <2>4, LastListed
  <2>6. y = tool_memory_remove_entry(x, i)
    BY <1>5, <1>6, <2>1, <2>5
  <2>7. /\ Good(y) /\ Len(y.lru) = Len(x.lru) - 1
        /\ DOMAIN y.by_id = DOMAIN x.by_id \ {i} /\ \A j \in DOMAIN y.by_id : y.by_id[j] = x.by_id[j]
    <3>1. Good(x)
      BY <2>2
    <3> QED
      BY <2>6, <3>1, RemoveGood
  <2>8. \A j \in DOMAIN y.by_id : Entries(m, j, y.by_id[j].block)
    BY <2>2, <2>7
  <2>9. Len(y.lru) = N - (n + 1)
    BY <2>2, <2>7
  <2> QED
    BY <2>1, <2>7, <2>8, <2>9 DEF Fine
<1>7. Fine(0)
  <2>1. N - 0 = N /\ \A i \in DOMAIN m.by_id : Entries(m, i, m.by_id[i].block)
    BY DEF Entries
  <2> QED
    BY <1>1, <1>5, <2>1 DEF Fine
<1>8. \A n \in 0..N : Fine(n)
  <2> SUFFICES ASSUME C # {} PROVE FALSE
    OBVIOUS
  <2>1. C \subseteq Nat
    OBVIOUS
  <2>2. PICK k \in C : \A j \in C : k <= j
    <3> HIDE DEF C
    <3> QED
      BY <2>1, LeastElement
  <2>3. k \in 0..N /\ ~ Fine(k) /\ k # 0
    BY <1>7
  <2>4. k - 1 \in 0..N /\ (k - 1) + 1 = k /\ ~(k <= k - 1)
    BY <2>3
  <2>5. Fine(k - 1)
    BY <2>2, <2>4
  <2> QED
    BY <1>6, <2>3, <2>4, <2>5
<1> DEFINE E == {n \in 0..N : ~ OverLimit(f[n])}
<1>9. N \in E
  <2>1. Good(f[N]) /\ Len(f[N].lru) = 0
    BY <1>8 DEF Fine
  <2>2. f[N].lru = <<>>
    BY <2>1 DEF Good, Linked
  <2> QED
    BY <2>2 DEF OverLimit
<1>10. Min(E) \in E
  <2>1. E \subseteq Nat
    OBVIOUS
  <2>2. \E x \in E : \A y \in E : x <= y
    <3> HIDE DEF E
    <3> QED
      BY <1>9, <2>1, LeastElement
  <2> HIDE DEF E
  <2> QED
    BY <2>2 DEF Min
<1>11. PICK n \in 0..N : r = f[n] /\ ~ OverLimit(f[n])
  BY <1>4, <1>10
<1>12. Good(r) /\ \A i \in DOMAIN r.by_id : Entries(m, i, r.by_id[i].block)
  BY <1>8, <1>11 DEF Fine
<1>13. Limited(r)
  <2>1. r.entries \in Nat /\ r.bytes \in Nat
    BY <1>12, Amounts
  <2>2. CASE r.lru # <<>>
    BY <1>11, <2>1, <2>2, MemoryConstants DEF OverLimit, Limited
  <2>3. CASE r.lru = <<>>
    <3>1. r.entries = 0 /\ DOMAIN r.by_id = {}
      BY <1>12, <2>3 DEF Good, Linked, Accounted, ToSet
    <3>2. Used(r) = {}
      <4>1. \A d \in Dsml : EntriesOf(r, d) = {}
        BY <3>1 DEF EntriesOf
      <4>2. \A d \in Dsml : r.refs[d] = Cardinality({})
        BY <1>12, <4>1 DEF Good, Accounted
      <4>3. Cardinality({}) = 0
        BY FS_EmptySet
      <4> QED
        BY <4>2, <4>3 DEF Used
    <3>3. r.bytes = EntryBytes * 0 + SumFunctionOnSet(BlockBytes, {})
      BY <1>12, <3>1, <3>2 DEF Good, Accounted
    <3>4. r.bytes = 0
      BY <3>3, SumNone, MemoryConstants
    <3> QED
      BY <3>1, <3>4, MemoryConstants DEF Limited
  <2> QED
    BY <2>2, <2>3
<1> QED
  BY <1>12, <1>13

\* Induction up to N, over a set.
LEMMA UpTo ==
    ASSUME NEW N \in Nat, NEW S, 0 \in S, \A n \in S \cap 0..N : n + 1 \in 0..N => n + 1 \in S
    PROVE  0..N \subseteq S
<1> DEFINE C == {n \in 0..N : n \notin S}
<1> SUFFICES ASSUME C # {} PROVE FALSE
  OBVIOUS
<1>1. C \subseteq Nat
  OBVIOUS
<1>2. PICK k \in C : \A j \in C : k <= j
  <2> HIDE DEF C
  <2> QED
    BY <1>1, LeastElement
<1>3. k \in 0..N /\ k \notin S /\ k # 0
  OBVIOUS
<1>4. k - 1 \in 0..N /\ (k - 1) + 1 = k /\ ~(k <= k - 1)
  BY <1>3
<1>5. k - 1 \in S
  BY <1>2, <1>4
<1> QED
  BY <1>3, <1>4, <1>5

\* tool_memory_put_locked keeps the books and the limits; its entries are the
\* old ones and the one put.
LEMMA PutGood ==
    ASSUME NEW m, Good(m), NEW i \in Ids, NEW d \in Dsml, NEW source \in {"ram", "disk"},
           NEW r, r = tool_memory_put(m, i, d, source)
    PROVE  Good(r) /\ Limited(r) /\ From(r, m, {i}, d)
<1>1. ASSUME NEW y, Good(y), From(y, m, {i}, d), r = tool_memory_prune(y)
      PROVE  Good(r) /\ Limited(r) /\ From(r, m, {i}, d)
  <2>1. /\ Good(r) /\ Limited(r) /\ \A j \in DOMAIN r.by_id : Entries(y, j, r.by_id[j].block)
    BY <1>1, PruneGood
  <2>2. From(r, m, {i}, d)
    BY <1>1, <2>1 DEF From, Entries
  <2> QED
    BY <2>1, <2>2
<1>2. CASE Knows(m, i) /\ m.by_id[i].block = d
  <2>1. PICK x : x = IF source = "ram" THEN [m EXCEPT !.by_id[i].source = "ram"] ELSE m
    OBVIOUS
  <2>2. i \in DOMAIN m.by_id
    BY <1>2 DEF Knows
  <2>3. /\ Good(x) /\ DOMAIN x.by_id = DOMAIN m.by_id
        /\ \A j \in DOMAIN x.by_id : x.by_id[j].block = m.by_id[j].block
    <3>1. CASE source = "ram"
      <4>1. x = [m EXCEPT !.by_id[i].source = "ram"]
        BY <2>1, <3>1
      <4> QED
        BY <2>2, <4>1, SourceGood
    <3>2. CASE source # "ram"
      BY <2>1, <3>2
    <3> QED
      BY <3>1, <3>2
  <2>4. PICK y : y = tool_memory_touch(x, i)
    OBVIOUS
  <2>5. Good(y) /\ y.by_id = x.by_id
    <3>1. i \in DOMAIN x.by_id /\ Good(x)
      BY <2>2, <2>3
    <3> QED
      BY <2>4, <3>1, TouchGood
  <2>6. From(y, m, {i}, d)
    BY <2>3, <2>5 DEF From, Entries
  <2>7. r = tool_memory_prune(y)
    BY <1>2, <2>1, <2>4 DEF tool_memory_put
  <2> QED
    BY <1>1, <2>5, <2>6, <2>7
<1>3. CASE ~(Knows(m, i) /\ m.by_id[i].block = d)
  <2>1. PICK x : x = IF Knows(m, i) THEN tool_memory_remove_entry(m, i) ELSE m
    OBVIOUS
  <2>2. /\ Good(x) /\ i \notin DOMAIN x.by_id
        /\ \A j \in DOMAIN x.by_id : j \in DOMAIN m.by_id /\ x.by_id[j] = m.by_id[j]
    <3>1. CASE Knows(m, i)
      <4>1. x = tool_memory_remove_entry(m, i) /\ i \in DOMAIN m.by_id
        BY <2>1, <3>1 DEF Knows
      <4>2. /\ Good(x) /\ DOMAIN x.by_id = DOMAIN m.by_id \ {i}
            /\ \A j \in DOMAIN x.by_id : x.by_id[j] = m.by_id[j]
        BY <4>1, RemoveGood
      <4> QED
        BY <4>2
    <3>2. CASE ~Knows(m, i)
      BY <2>1, <3>2 DEF Knows
    <3> QED
      BY <3>1, <3>2
  <2>3. PICK y : y = Inserted(x, i, d, source)
    OBVIOUS
  <2>4. /\ Good(y) /\ DOMAIN y.by_id = DOMAIN x.by_id \cup {i} /\ y.by_id[i].block = d
        /\ \A j \in DOMAIN x.by_id : y.by_id[j] = x.by_id[j]
    <3>1. Good(x) /\ i \notin DOMAIN x.by_id
      BY <2>2
    <3> QED
      BY <2>3, <3>1, InsertGood
  <2>5. From(y, m, {i}, d)
    BY <2>2, <2>4 DEF From, Entries
  <2>6. r = tool_memory_prune(y)
    <3>1. r = tool_memory_prune(Inserted(IF Knows(m, i) THEN tool_memory_remove_entry(m, i) ELSE m, i, d, source))
      BY <1>3 DEF tool_memory_put
    <3> QED
      BY <2>1, <2>3, <3>1
  <2> QED
    BY <1>1, <2>4, <2>5, <2>6
<1> QED
  BY <1>2, <1>3

LEMMA RememberGood ==
    ASSUME NEW m, Good(m), Limited(m), NEW ids \in Seq(Ids), NEW d \in Dsml,
           NEW r, r = tool_memory_remember(m, ids, d)
    PROVE  Good(r) /\ Limited(r) /\ From(r, m, ToSet(ids), d)
<1>1. PICK N \in Nat : N = Len(ids) /\ \A n \in 1..N : ids[n] \in Ids /\ ids[n] \in ToSet(ids)
  <2>1. Len(ids) \in Nat /\ DOMAIN ids = 1..Len(ids) /\ \A n \in 1..Len(ids) : ids[n] \in Ids
    OBVIOUS
  <2> QED
    BY <2>1 DEF ToSet
<1>2. PICK f : f = CHOOSE g : Runs(g, "remember", ids, d, m, N)
  OBVIOUS
<1>3. Runs(f, "remember", ids, d, m, N)
  BY <1>2, RunsExist
<1>4. r = f[N]
  BY <1>1, <1>2 DEF tool_memory_remember, Runs, StepOf
<1>5. f[0] = m /\ \A n \in 0..N : n + 1 \in 0..N => f[n + 1] = tool_memory_put(f[n], ids[n + 1], d, "ram")
  <2>1. \A x, n : StepOf("remember", ids, d, x, n) = tool_memory_put(x, ids[n], d, "ram")
    BY DEF StepOf
  <2>2. f[0] = m /\ \A n \in 0..N : n + 1 \in 0..N => f[n + 1] = StepOf("remember", ids, d, f[n], n + 1)
    BY <1>3, RunAt
  <2> QED
    BY <2>1, <2>2
<1> DEFINE Fine(n) == Good(f[n]) /\ Limited(f[n]) /\ From(f[n], m, ToSet(ids), d)
           S == {n \in 0..N : Fine(n)}
<1>6. ASSUME NEW n \in 0..N, Fine(n), n + 1 \in 0..N PROVE Fine(n + 1)
  <2>1. PICK x, y, i : x = f[n] /\ y = f[n + 1] /\ i = ids[n + 1]
    OBVIOUS
  <2>2. Good(x) /\ From(x, m, ToSet(ids), d)
    BY <1>6, <2>1
  <2>3. i \in Ids /\ i \in ToSet(ids)
    <3>1. n + 1 \in 1..N
      BY <1>6
    <3> QED
      BY <1>1, <2>1, <3>1
  <2>4. y = tool_memory_put(x, i, d, "ram")
    BY <1>5, <1>6, <2>1
  <2> HIDE DEF Fine
  <2>5. Good(y) /\ Limited(y) /\ From(y, x, {i}, d)
    <3>1. Good(x) /\ "ram" \in {"ram", "disk"}
      BY <2>2
    <3> QED
      BY <2>3, <2>4, <3>1, PutGood
  <2>6. From(y, m, ToSet(ids), d)
    BY <2>2, <2>3, <2>5 DEF From, Entries
  <2> QED
    BY <2>1, <2>5, <2>6 DEF Fine
<1>7. Fine(0)
  BY <1>5 DEF From, Entries
<1> HIDE DEF Fine
<1>8. 0..N \subseteq S
  <2>1. 0 \in S /\ \A n \in S \cap 0..N : n + 1 \in 0..N => n + 1 \in S
    BY <1>6, <1>7
  <2> HIDE DEF S
  <2> QED
    BY <2>1, UpTo
<1>9. Fine(N)
  <2>1. N \in 0..N
    OBVIOUS
  <2> QED
    BY <1>8, <2>1
<1> QED
  BY <1>4, <1>9 DEF Fine

LEMMA AttachGood ==
    ASSUME NEW m, Good(m), Limited(m), NEW ids \in Seq(Ids), NEW r, r = AttachTouches(m, ids)
    PROVE  Good(r) /\ Limited(r) /\ r.by_id = m.by_id
<1>1. PICK N \in Nat : N = Len(ids)
  OBVIOUS
<1>2. PICK z : z = <<>>
  OBVIOUS
<1>3. PICK f : f = CHOOSE g : Runs(g, "attach", ids, z, m, N)
  OBVIOUS
<1>4. Runs(f, "attach", ids, z, m, N)
  BY <1>3, RunsExist
<1>5. r = f[N]
  BY <1>1, <1>3 DEF AttachTouches, Runs, StepOf
<1>6. f[0] = m /\ \A n \in 0..N : n + 1 \in 0..N =>
         f[n + 1] = IF Knows(f[n], ids[n + 1]) THEN tool_memory_touch(f[n], ids[n + 1]) ELSE f[n]
  <2>1. \A x, n : StepOf("attach", ids, z, x, n) =
                  IF Knows(x, ids[n]) THEN tool_memory_touch(x, ids[n]) ELSE x
    BY DEF StepOf
  <2>2. f[0] = m /\ \A n \in 0..N : n + 1 \in 0..N => f[n + 1] = StepOf("attach", ids, z, f[n], n + 1)
    <3>1. \A n \in 0..N : f[n] = IF n = 0 THEN m ELSE StepOf("attach", ids, z, f[n - 1], n)
      BY <1>4 DEF Runs
    <3>2. f[0] = m
      BY <3>1
    <3>3. ASSUME NEW n \in 0..N, n + 1 \in 0..N PROVE f[n + 1] = StepOf("attach", ids, z, f[n], n + 1)
      <4>1. n + 1 # 0 /\ (n + 1) - 1 = n
        OBVIOUS
      <4> QED
        BY <3>1, <3>3, <4>1
    <3> QED
      BY <3>2, <3>3
  <2> QED
    BY <2>1, <2>2
<1> DEFINE Fine(n) == Good(f[n]) /\ Limited(f[n]) /\ f[n].by_id = m.by_id
           S == {n \in 0..N : Fine(n)}
<1>7. ASSUME NEW n \in 0..N, Fine(n), n + 1 \in 0..N PROVE Fine(n + 1)
  <2>1. PICK x, y, i : x = f[n] /\ y = f[n + 1] /\ i = ids[n + 1]
    OBVIOUS
  <2>2. Good(x) /\ Limited(x) /\ x.by_id = m.by_id
    BY <1>7, <2>1
  <2>3. y = IF Knows(x, i) THEN tool_memory_touch(x, i) ELSE x
    BY <1>6, <1>7, <2>1
  <2> HIDE DEF Fine
  <2>4. CASE Knows(x, i)
    <3>1. y = tool_memory_touch(x, i) /\ i \in DOMAIN x.by_id /\ Good(x)
      BY <2>2, <2>3, <2>4 DEF Knows
    <3>2. Good(y) /\ y.by_id = x.by_id /\ y.entries = x.entries /\ y.bytes = x.bytes
      BY <3>1, TouchGood
    <3> QED
      BY <2>1, <2>2, <3>2 DEF Fine, Limited
  <2>5. CASE ~Knows(x, i)
    BY <2>1, <2>2, <2>3, <2>5 DEF Fine
  <2> QED
    BY <2>4, <2>5
<1>8. Fine(0)
  BY <1>6
<1> HIDE DEF Fine
<1>9. 0..N \subseteq S
  <2>1. 0 \in S /\ \A n \in S \cap 0..N : n + 1 \in 0..N => n + 1 \in S
    BY <1>7, <1>8
  <2> HIDE DEF S
  <2> QED
    BY <2>1, UpTo
<1>10. Fine(N)
  <2>1. N \in 0..N
    OBVIOUS
  <2> QED
    BY <1>9, <2>1
<1> QED
  BY <1>5, <1>10 DEF Fine

(***************************************************************************)
(* The inductive invariant of the cache.  Whatever holds a pair (a call id *)
(* and its block) holds a true one: the memory, the maps of the files, the *)
(* pairs read and not yet put.  Files under a final name are complete.  In *)
(* each phase of an operation the file it works on is there, or the file   *)
(* it writes is as far as the phase says.  During eviction the list is the *)
(* directory and the running total its size, unless an unlink failed and   *)
(* the loop has been told to stop.                                         *)
(***************************************************************************)
Pairs == Ids \X Dsml

Sampled(p) == p[1] \in DOMAIN sampled /\ sampled[p[1]] = p[2]

Sampling ==
    /\ sampled = [i \in DOMAIN sampled |-> sampled[i]]
    /\ \A i \in DOMAIN sampled : i \in Ids /\ sampled[i] \in Dsml

TrueMap(map, k) ==
    /\ map \subseteq Pairs /\ IsFiniteSet(map)
    /\ \A p \in map : p[2] \in ToSet(k) /\ Sampled(p)

Files ==
    /\ dir = [k \in DOMAIN dir |-> dir[k]] /\ IsFiniteSet(DOMAIN dir)
    /\ \A k \in DOMAIN dir :
          k \in Texts /\ dir[k] \in FileType /\ dir[k].body /\ TrueMap(dir[k].map, k)

Memory ==
    /\ Good(mem) /\ Limited(mem)
    /\ \A i \in DOMAIN mem.by_id : Sampled(<<i, mem.by_id[i].block>>)

TruePairs(s) == s \in Seq(Pairs) /\ \A n \in 1..Len(s) : Sampled(s[n])

Reading ==
    /\ TruePairs(pairs)
    /\ reader = [wanted |-> reader.wanted, todo |-> reader.todo, pairs |-> reader.pairs]
    /\ reader.wanted \in Seq(Ids) /\ TruePairs(reader.pairs)

Worker ==
    /\ phase \in Phases /\ server \in Servers /\ faults \in Nat
    /\ key \in Texts \cup {NoText}
    /\ phase \in {"truncate", "remap", "flag", "touch"} => key \in DOMAIN dir
    /\ phase = "touch" => dir[key].hits < MaxHits
    /\ IF phase \in {"write", "rename"}
       THEN /\ key \in Texts
            /\ \E f \in FileType :
                  tmp = {f} /\ (phase = "rename" => f.body /\ TrueMap(f.map, key))
       ELSE tmp = {}

Sizes == [k \in Readable |-> FileBytes(k, dir[k])]

Evicting ==
    /\ total \in Nat /\ protect \subseteq Texts /\ \E x : protect \subseteq {x}
    /\ phase \notin {"scan", "evict"} => protect = {}
    /\ IF phase = "evict"
       THEN /\ list = [k \in DOMAIN list |-> list[k]] /\ DOMAIN list \subseteq DOMAIN dir
            /\ \A k \in DOMAIN list : list[k] = dir[k]
            /\ protect \subseteq DOMAIN dir
            /\ \A k \in protect : FileBytes(k, dir[k]) <= Budget
            /\ faults = 0 \/ total > Budget =>
                  DOMAIN list = DOMAIN dir /\ total = SumFunctionOnSet(Sizes, Readable)
       ELSE list = NoFiles /\ total = 0

CInv == Sampling /\ Files /\ Memory /\ Reading /\ Worker /\ Evicting

-----------------------------------------------------------------------------
LEMMA CacheConstants ==
    /\ \A k \in Texts : BodyBytes[k] \in Nat \ {0}
    /\ MapHeader \in Nat /\ PairBytes \in Nat /\ Budget \in Nat /\ MaxHits \in Nat
    /\ \A x \in Servers : x.ctx \in Nat /\ x.quant \in {2, 4}
BY CacheAssumption

\* Sums of equal sizes are equal.
LEMMA SumSame ==
    ASSUME NEW F, NEW G, NEW S, IsFiniteSet(S), \A x \in S : F[x] = G[x]
    PROVE  SumFunctionOnSet(F, S) = SumFunctionOnSet(G, S)
<1>1. PICK f : f = CHOOSE h : Sums(h, F, S)
  OBVIOUS
<1>2. Sums(f, F, S) /\ SumFunctionOnSet(F, S) = f[S]
  BY <1>1, SumsExist, SumDef
<1>3. PICK g : g = CHOOSE h : Sums(h, G, S)
  OBVIOUS
<1>4. Sums(g, G, S) /\ SumFunctionOnSet(G, S) = g[S]
  BY <1>3, SumsExist, SumDef
<1>5. Sums(g, F, S)
  <2>1. \A s \in SUBSET S : g[s] = IF s = {} THEN 0 ELSE G[First(s)] + g[s \ {First(s)}]
    BY <1>4, SumsAt
  <2>2. \A s \in SUBSET S : s # {} => F[First(s)] = G[First(s)]
    BY DEF First
  <2>3. \A s \in SUBSET S : g[s] = IF s = {} THEN 0 ELSE F[First(s)] + g[s \ {First(s)}]
    BY <2>1, <2>2
  <2>4. g = [s \in SUBSET S |-> g[s]]
    BY <1>4 DEF Sums
  <2> QED
    BY <2>3, <2>4 DEF Sums
<1>6. \A s \in (SUBSET S) \cap (SUBSET S) : f[s] = g[s]
  BY <1>2, <1>5, SumsAgree
<1> QED
  BY <1>2, <1>4, <1>6

\* The size of a file is a number.
LEMMA FileSize ==
    ASSUME NEW k \in Texts, NEW f, TrueMap(f.map, k)
    PROVE  FileBytes(k, f) \in Nat
<1>1. Cardinality(f.map) \in Nat
  BY FS_CardinalityType DEF TrueMap
<1>2. PairBytes * Cardinality(f.map) \in Nat
  BY <1>1, CacheConstants, Times
<1>3. MapBytes(f.map) \in Nat
  BY <1>2, CacheConstants DEF MapBytes
<1> QED
  BY <1>3, CacheConstants DEF FileBytes

LEMMA AllReadable == Files => Readable = DOMAIN dir
BY DEF Files, Readable

\* The tool map written for a text is true and about that text.
LEMMA MapTrue ==
    ASSUME Memory, NEW t
    PROVE  TrueMap(MapOf(t), t)
<1> DEFINE Held == {<<i, mem.by_id[i].block>> : i \in DOMAIN mem.by_id}
<1>1. ASSUME NEW p \in MapOf(t)
      PROVE  p \in Pairs /\ p[2] \in ToSet(t) /\ p[1] \in DOMAIN mem.by_id /\ mem.by_id[p[1]].block = p[2]
             /\ p = <<p[1], p[2]>>
  BY DEF MapOf, EntriesOf, Pairs
<1>2. MapOf(t) \subseteq Held
  BY <1>1
<1>3. IsFiniteSet(Held)
  <2>1. PICK f : f = [i \in DOMAIN mem.by_id |-> <<i, mem.by_id[i].block>>]
    OBVIOUS
  <2>2. f \in Surjection(DOMAIN mem.by_id, Held)
    <3>1. f \in [DOMAIN mem.by_id -> Held] /\ \A y \in Held : \E x \in DOMAIN mem.by_id : f[x] = y
      BY <2>1
    <3> HIDE DEF Held
    <3> QED
      BY <3>1 DEF Surjection
  <2>3. IsFiniteSet(DOMAIN mem.by_id)
    BY DEF Memory, Good, Accounted
  <2> HIDE DEF Held
  <2> QED
    BY <2>2, <2>3, FS_Surjection
<1>4. IsFiniteSet(MapOf(t))
  <2> HIDE DEF Held
  <2> QED
    BY <1>2, <1>3, FS_Subset
<1>5. ASSUME NEW p \in MapOf(t) PROVE Sampled(p)
  <2>1. p[1] \in DOMAIN mem.by_id /\ mem.by_id[p[1]].block = p[2]
    BY <1>1
  <2>2. Sampled(<<p[1], mem.by_id[p[1]].block>>)
    BY <2>1 DEF Memory
  <2> QED
    BY <2>1, <2>2 DEF Sampled
<1> QED
  BY <1>1, <1>4, <1>5 DEF TrueMap

LEMMA PartTrue ==
    ASSUME NEW map, NEW k, TrueMap(map, k), NEW part, part \subseteq map
    PROVE  TrueMap(part, k)
BY FS_Subset DEF TrueMap

\* Pairs read from a true map, in any order.
LEMMA OrderTrue ==
    ASSUME NEW S, S \subseteq Pairs, IsFiniteSet(S), \A p \in S : Sampled(p), NEW s \in SetToSeqs(S)
    PROVE  TruePairs(s)
<1>1. PICK n \in Nat : n = Cardinality(S)
  BY FS_CardinalityType
<1>2. s \in [1..n -> S]
  BY <1>1 DEF SetToSeqs
<1>3. s \in Seq(Pairs) /\ Len(s) = n
  BY <1>2
<1> QED
  BY <1>2, <1>3 DEF TruePairs

LEMMA HeadTrue ==
    ASSUME NEW s, TruePairs(s), s # <<>>
    PROVE  /\ Head(s) \in Pairs /\ Sampled(Head(s)) /\ TruePairs(Tail(s))
           /\ Head(s)[1] \in Ids /\ Head(s)[2] \in Dsml
<1>1. s \in Seq(Pairs) /\ Len(s) \in Nat /\ Len(s) >= 1
  BY DEF TruePairs
<1>2. Head(s) = s[1] /\ s[1] \in Pairs
  BY <1>1
<1>3. Sampled(s[1])
  BY <1>1 DEF TruePairs
<1>4. Tail(s) \in Seq(Pairs) /\ Len(Tail(s)) = Len(s) - 1 /\ \A n \in 1..(Len(s) - 1) : Tail(s)[n] = s[n + 1]
  BY <1>1
<1>5. \A n \in 1..(Len(s) - 1) : n + 1 \in 1..Len(s)
  BY <1>1
<1>6. TruePairs(Tail(s))
  BY <1>4, <1>5 DEF TruePairs
<1>7. Head(s)[1] \in Ids /\ Head(s)[2] \in Dsml
  BY <1>2 DEF Pairs
<1> QED
  BY <1>2, <1>3, <1>6, <1>7

LEMMA NothingTrue == TruePairs(<<>>)
<1>1. <<>> \in Seq(Pairs) /\ Len(<<>>) = 0
  OBVIOUS
<1> QED
  BY <1>1 DEF TruePairs

-----------------------------------------------------------------------------
\* What a step leaves alone.
LEMMA SamplingKept == Sampling /\ UNCHANGED sampled => Sampling'
BY DEF Sampling

LEMMA FilesKept == Files /\ UNCHANGED <<dir, sampled>> => Files'
BY DEF Files, TrueMap, Sampled

LEMMA MemoryKept == Memory /\ UNCHANGED <<mem, sampled>> => Memory'
BY DEF Memory, Sampled

LEMMA ReadingKept == Reading /\ UNCHANGED <<pairs, reader, sampled>> => Reading'
BY DEF Reading, TruePairs, Sampled

LEMMA WorkerKept ==
    Worker /\ UNCHANGED <<phase, server, faults, key, tmp, dir, sampled>> => Worker'
BY DEF Worker, TrueMap, Sampled

LEMMA EvictingKept ==
    Evicting /\ UNCHANGED <<total, protect, phase, list, dir, faults>> => Evicting'
BY DEF Evicting, Sizes, Readable

\* No eviction is under way, and none begins.
LEMMA EvictingAside ==
    Evicting /\ phase \notin {"scan", "evict"} /\ phase' # "evict" /\ UNCHANGED <<total, protect, list>>
        => Evicting'
BY DEF Evicting

LEMMA EvictingOver ==
    phase' # "evict" /\ list' = NoFiles /\ total' = 0 /\ protect' = {} => Evicting'
BY DEF Evicting

LEMMA WorkerFinishes ==
    Finish /\ server' \in Servers /\ faults' \in Nat => Worker'
BY DEF Finish, Worker, Phases, NoText

\* A file goes.
LEMMA FileGone ==
    ASSUME Files, NEW k, dir' = Without(k), UNCHANGED sampled
    PROVE  Files'
<1>1. DOMAIN dir' = DOMAIN dir \ {k} /\ \A j \in DOMAIN dir' : dir'[j] = dir[j]
  BY DEF Without
<1>2. dir' = [j \in DOMAIN dir' |-> dir'[j]]
  BY DEF Without
<1>3. IsFiniteSet(DOMAIN dir')
  BY <1>1, FS_Subset DEF Files
<1>4. \A j \in DOMAIN dir' :
         j \in Texts /\ dir'[j] \in FileType /\ dir'[j].body /\ TrueMap(dir[j].map, j)
  BY <1>1 DEF Files
<1>5. \A j \in DOMAIN dir' : TrueMap(dir[j].map, j)' 
  BY <1>1, <1>4 DEF TrueMap, Sampled
<1> QED
  BY <1>2, <1>3, <1>4, <1>5 DEF Files

\* A file is written, or replaced.
LEMMA FilePut ==
    ASSUME Files, NEW k \in Texts, NEW f \in FileType, f.body, TrueMap(f.map, k),
           dir' = With(k, f), UNCHANGED sampled
    PROVE  Files'
<1>1. /\ DOMAIN dir' = DOMAIN dir \cup {k} /\ dir'[k] = f
      /\ \A j \in DOMAIN dir' : j # k => j \in DOMAIN dir /\ dir'[j] = dir[j]
  BY DEF With
<1>2. dir' = [j \in DOMAIN dir' |-> dir'[j]]
  BY DEF With
<1>3. IsFiniteSet(DOMAIN dir')
  BY <1>1, FS_AddElement DEF Files
<1>4. ASSUME NEW j \in DOMAIN dir'
      PROVE  j \in Texts /\ dir'[j] \in FileType /\ dir'[j].body /\ TrueMap(dir'[j].map, j)
  <2>1. CASE j = k
    BY <1>1, <2>1
  <2>2. CASE j # k
    BY <1>1, <2>2 DEF Files
  <2> QED
    BY <2>1, <2>2
<1>5. \A j \in DOMAIN dir' : TrueMap(dir[j].map, j)'
  BY <1>4 DEF TrueMap, Sampled
<1> QED
  BY <1>2, <1>3, <1>4, <1>5 DEF Files

\* Changing one field of a file.
LEMMA FileEdited ==
    ASSUME Files, NEW k \in DOMAIN dir
    PROVE  /\ \A x : [dir EXCEPT ![k].map = x] = With(k, [dir[k] EXCEPT !.map = x])
           /\ [dir EXCEPT ![k].flag = TRUE] = With(k, [dir[k] EXCEPT !.flag = TRUE])
           /\ [dir EXCEPT ![k].hits = @ + 1] = With(k, [dir[k] EXCEPT !.hits = @ + 1])
<1>1. dir = [j \in DOMAIN dir |-> dir[j]] /\ DOMAIN dir \cup {k} = DOMAIN dir
  BY DEF Files
<1>2. ASSUME NEW x PROVE [dir EXCEPT ![k].map = x] = With(k, [dir[k] EXCEPT !.map = x])
  BY <1>1 DEF With
<1>3. [dir EXCEPT ![k].flag = TRUE] = With(k, [dir[k] EXCEPT !.flag = TRUE])
  BY <1>1 DEF With
<1>4. [dir EXCEPT ![k].hits = @ + 1] = With(k, [dir[k] EXCEPT !.hits = @ + 1])
  BY <1>1 DEF With
<1> QED
  BY <1>2, <1>3, <1>4

LEMMA MapEdited ==
    ASSUME NEW f \in FileType, NEW x, x \subseteq Pairs, NEW g, g = [f EXCEPT !.map = x]
    PROVE  g \in FileType /\ g.map = x /\ g.body = f.body /\ g.hits = f.hits
BY DEF FileType, Pairs

-----------------------------------------------------------------------------
LEMMA InitInv == Init => CInv
<1> SUFFICES ASSUME Init PROVE CInv
  OBVIOUS
<1>1. Sampling
  BY DEF Init, Sampling
<1>2. Files
  <2>1. DOMAIN dir = {} /\ dir = [k \in DOMAIN dir |-> dir[k]]
    BY DEF Init, NoFiles
  <2> QED
    BY <2>1, FS_EmptySet DEF Files
<1>3. Memory
  <2>1. Good(mem) /\ Limited(mem)
    BY EmptyGood, MemoryConstants DEF Init, Limited
  <2>2. DOMAIN mem.by_id = {}
    BY DEF Init, EmptyMemory
  <2> QED
    BY <2>1, <2>2 DEF Memory
<1>4. Reading
  <2>1. /\ reader = [wanted |-> reader.wanted, todo |-> reader.todo, pairs |-> reader.pairs]
        /\ reader.wanted = <<>> /\ reader.pairs = <<>> /\ pairs = <<>>
    BY DEF Init, NoReader
  <2>2. <<>> \in Seq(Ids)
    OBVIOUS
  <2> QED
    BY <2>1, <2>2, NothingTrue DEF Reading
<1>5. Worker
  BY DEF Init, Worker, Phases, NoText
<1>6. Evicting
  BY DEF Init, Evicting
<1> QED
  BY <1>1, <1>2, <1>3, <1>4, <1>5, <1>6 DEF CInv

LEMMA StoreInv == ASSUME CInv, NEW t \in Texts, Store(t) PROVE CInv'
<1> USE DEF CInv
<1>0. /\ UNCHANGED <<mem, server, pairs, reader, sampled, faults, list, total, protect>>
      /\ phase = "idle" /\ key' = t
  BY DEF Store, evictVars, counters
<1>1. Sampling' /\ Memory' /\ Reading'
  BY <1>0, SamplingKept, MemoryKept, ReadingKept
<1>2. CASE Compatible(t)
  <2>1. phase' = "truncate" /\ UNCHANGED <<dir, tmp>> /\ t \in DOMAIN dir
    BY <1>2 DEF Store, Compatible, Readable
  <2>2. Files'
    BY <1>0, <2>1, FilesKept
  <2>3. Evicting'
    BY <1>0, <2>1, EvictingAside
  <2>4. Worker'
    BY <1>0, <2>1 DEF Worker, Phases
  <2> QED
    BY <1>1, <2>2, <2>3, <2>4
<1>3. CASE ~Compatible(t)
  <2>1. /\ phase' = "write" /\ tmp' = {NewFile(MapOf(t) # {})}
        /\ dir' = IF t \in Readable THEN Without(t) ELSE dir
    BY <1>3 DEF Store
  <2>2. Files'
    BY <1>0, <2>1, FileGone, FilesKept
  <2>3. Evicting'
    BY <1>0, <2>1, EvictingAside
  <2>4. PICK b \in BOOLEAN : b = (MapOf(t) # {})
    OBVIOUS
  <2>5. NewFile(b) \in FileType
    <3>1. server.ctx \in Nat /\ server.quant \in {2, 4} /\ 0 \in 0..MaxHits
      BY CacheConstants DEF Worker
    <3> QED
      BY <3>1 DEF NewFile, FileType
  <2>6. Worker'
    BY <1>0, <2>1, <2>4, <2>5 DEF Worker, Phases
  <2> QED
    BY <1>1, <2>2, <2>3, <2>6
<1> QED
  BY <1>2, <1>3

LEMMA WriteFileInv == ASSUME CInv, WriteFile PROVE CInv'
<1> USE DEF CInv
<1>0. /\ UNCHANGED <<dir, mem, server, reader, sampled, faults, list, total, protect>>
      /\ phase = "write"
  BY DEF WriteFile, evictVars, counters
<1>1. Sampling' /\ Files' /\ Memory'
  BY <1>0, SamplingKept, FilesKept, MemoryKept
<1>2. CASE Fits(key, MapOf(key))
  <2>1. /\ phase' = "rename" /\ UNCHANGED <<key, asked, pairs>>
        /\ tmp' = {[f EXCEPT !.body = TRUE, !.map = MapOf(key)] : f \in tmp}
    BY <1>2 DEF WriteFile
  <2>2. Reading' /\ Evicting'
    BY <1>0, <2>1, ReadingKept, EvictingAside
  <2>3. PICK f \in FileType : tmp = {f}
    BY <1>0 DEF Worker
  <2>4. PICK g : g = [f EXCEPT !.body = TRUE, !.map = MapOf(key)]
    OBVIOUS
  <2>5. TrueMap(MapOf(key), key)
    BY MapTrue
  <2>6. g \in FileType /\ g.body /\ g.map = MapOf(key) /\ tmp' = {g}
    BY <2>1, <2>3, <2>4, <2>5 DEF FileType, TrueMap, Pairs
  <2>7. TrueMap(g.map, key)'
    BY <1>0, <2>1, <2>5, <2>6 DEF TrueMap, Sampled
  <2>8. Worker'
    BY <1>0, <2>1, <2>6, <2>7 DEF Worker, Phases
  <2> QED
    BY <1>1, <2>2, <2>8
<1>3. CASE ~Fits(key, MapOf(key))
  <2>1. Finish
    BY <1>3 DEF WriteFile
  <2>2. UNCHANGED pairs /\ phase' = "idle"
    BY <2>1 DEF Finish
  <2>3. Reading' /\ Evicting'
    BY <1>0, <2>2, ReadingKept, EvictingAside
  <2>4. Worker'
    BY <1>0, <2>1, WorkerFinishes DEF Worker
  <2> QED
    BY <1>1, <2>3, <2>4
<1> QED
  BY <1>2, <1>3

LEMMA WriteFailsInv == ASSUME CInv, WriteFails PROVE CInv'
<1> USE DEF CInv
<1>0. /\ UNCHANGED <<dir, mem, server, pairs, reader, sampled, list, total, protect>>
      /\ phase \in {"write", "rename"} /\ phase' = "idle" /\ Finish /\ faults' = faults + 1
  BY DEF WriteFails, evictVars, Finish
<1>1. Sampling' /\ Files' /\ Memory' /\ Reading'
  BY <1>0, SamplingKept, FilesKept, MemoryKept, ReadingKept
<1>2. Evicting'
  BY <1>0, EvictingAside
<1>3. Worker'
  BY <1>0, WorkerFinishes DEF Worker
<1> QED
  BY <1>1, <1>2, <1>3

LEMMA RenameInv == ASSUME CInv, Rename PROVE CInv'
<1> USE DEF CInv
<1>0. /\ UNCHANGED <<mem, server, pairs, reader, sampled, faults, list, total, key>>
      /\ phase = "rename" /\ phase' = "scan" /\ protect' = {key} /\ tmp' = {}
  BY DEF Rename, counters
<1>1. Sampling' /\ Memory' /\ Reading'
  BY <1>0, SamplingKept, MemoryKept, ReadingKept
<1>2. PICK f \in FileType : tmp = {f} /\ f.body /\ TrueMap(f.map, key)
  BY <1>0 DEF Worker
<1>3. key \in Texts /\ dir' = With(key, f)
  BY <1>0, <1>2 DEF Rename, Worker
<1>4. Files'
  BY <1>0, <1>2, <1>3, FilePut
<1>5. Worker'
  BY <1>0 DEF Worker, Phases
<1>6. Evicting'
  BY <1>0, <1>3 DEF Evicting
<1> QED
  BY <1>1, <1>4, <1>5, <1>6

LEMMA TruncateInv == ASSUME CInv, Truncate PROVE CInv'
<1> USE DEF CInv
<1>0. /\ UNCHANGED <<mem, server, pairs, reader, sampled, faults, list, total, protect, key, tmp>>
      /\ phase = "truncate" /\ phase' = "remap" /\ dir' = [dir EXCEPT ![key].map = {}]
  BY DEF Truncate, evictVars, counters
<1>1. Sampling' /\ Memory' /\ Reading'
  BY <1>0, SamplingKept, MemoryKept, ReadingKept
<1>2. key \in DOMAIN dir /\ key \in Texts
  BY <1>0 DEF Worker, Files
<1>3. PICK g : g = [dir[key] EXCEPT !.map = {}]
  OBVIOUS
<1>4. dir' = With(key, g)
  BY <1>0, <1>2, <1>3, FileEdited
<1>5. g \in FileType /\ g.map = {} /\ g.body
  <2>1. dir[key] \in FileType /\ dir[key].body /\ {} \subseteq Pairs
    BY <1>2 DEF Files
  <2>2. g \in FileType /\ g.map = {} /\ g.body = dir[key].body
    BY <1>3, <2>1, MapEdited
  <2> QED
    BY <2>1, <2>2
<1>6. TrueMap(g.map, key)
  BY <1>5, FS_EmptySet DEF TrueMap
<1>7. Files'
  BY <1>0, <1>2, <1>4, <1>5, <1>6, FilePut
<1>8. Evicting'
  BY <1>0, EvictingAside
<1>9. key \in DOMAIN dir'
  BY <1>4 DEF With
<1>10. Worker'
  BY <1>0, <1>9 DEF Worker, Phases
<1> QED
  BY <1>1, <1>7, <1>8, <1>10

\* The map of a file is rewritten with true pairs.
LEMMA Remapped ==
    ASSUME CInv, phase = "remap", UNCHANGED sampled, NEW map, map \subseteq MapOf(key),
           dir' = [dir EXCEPT ![key].map = map]
    PROVE  Files' /\ key \in DOMAIN dir'
<1> USE DEF CInv
<1>1. key \in DOMAIN dir /\ key \in Texts
  BY DEF Worker, Files
<1>2. PICK g : g = [dir[key] EXCEPT !.map = map]
  OBVIOUS
<1>3. dir' = With(key, g)
  BY <1>1, <1>2, FileEdited
<1>4. TrueMap(map, key)
  BY MapTrue, PartTrue
<1>5. g \in FileType /\ g.map = map /\ g.body
  <2>1. dir[key] \in FileType /\ dir[key].body /\ map \subseteq Pairs
    BY <1>1, <1>4 DEF Files, TrueMap
  <2>2. g \in FileType /\ g.map = map /\ g.body = dir[key].body
    BY <1>2, <2>1, MapEdited
  <2> QED
    BY <2>1, <2>2
<1>6. Files'
  BY <1>1, <1>3, <1>4, <1>5, FilePut
<1> QED
  BY <1>3, <1>6 DEF With

LEMMA RemapInv == ASSUME CInv, Remap PROVE CInv'
<1> USE DEF CInv
<1>0. /\ UNCHANGED <<mem, server, reader, sampled, faults, list, total, protect>>
      /\ phase = "remap" /\ dir' = [dir EXCEPT ![key].map = MapOf(key)]
      /\ IF MapOf(key) # {}
         THEN phase' = "flag" /\ UNCHANGED <<key, asked, tmp, pairs>>
         ELSE Finish
  BY DEF Remap, evictVars, counters
<1>1. UNCHANGED pairs /\ phase' \in {"flag", "idle"}
  BY <1>0 DEF Finish
<1>2. Sampling' /\ Memory' /\ Reading'
  BY <1>0, <1>1, SamplingKept, MemoryKept, ReadingKept
<1>3. Files' /\ key \in DOMAIN dir'
  BY <1>0, Remapped
<1>4. Evicting'
  BY <1>0, <1>1, EvictingAside
<1>5. CASE MapOf(key) # {}
  <2>1. Worker'
    BY <1>0, <1>3, <1>5 DEF Worker, Phases
  <2> QED
    BY <1>2, <1>3, <1>4, <2>1
<1>6. CASE MapOf(key) = {}
  <2>1. Worker'
    BY <1>0, <1>6, WorkerFinishes DEF Worker
  <2> QED
    BY <1>2, <1>3, <1>4, <2>1
<1> QED
  BY <1>5, <1>6

LEMMA RemapFailsInv == ASSUME CInv, RemapFails PROVE CInv'
<1> USE DEF CInv
<1>0. /\ UNCHANGED <<mem, server, pairs, reader, sampled, list, total, protect>>
      /\ phase = "remap" /\ phase' = "idle" /\ Finish /\ faults' = faults + 1
      /\ \E part \in SUBSET MapOf(key) : dir' = [dir EXCEPT ![key].map = part]
  BY DEF RemapFails, evictVars, Finish
<1>1. Sampling' /\ Memory' /\ Reading'
  BY <1>0, SamplingKept, MemoryKept, ReadingKept
<1>2. Files'
  BY <1>0, Remapped
<1>3. Evicting'
  BY <1>0, EvictingAside
<1>4. Worker'
  BY <1>0, WorkerFinishes DEF Worker
<1> QED
  BY <1>1, <1>2, <1>3, <1>4

LEMMA FlagInv == ASSUME CInv, Flag PROVE CInv'
<1> USE DEF CInv
<1>0. /\ UNCHANGED <<mem, server, pairs, reader, sampled, faults, list, total, protect>>
      /\ phase = "flag" /\ phase' = "idle" /\ Finish /\ dir' = [dir EXCEPT ![key].flag = TRUE]
  BY DEF Flag, evictVars, counters, Finish
<1>1. Sampling' /\ Memory' /\ Reading'
  BY <1>0, SamplingKept, MemoryKept, ReadingKept
<1>2. key \in DOMAIN dir /\ key \in Texts
  BY <1>0 DEF Worker, Files
<1>3. PICK g : g = [dir[key] EXCEPT !.flag = TRUE]
  OBVIOUS
<1>4. dir' = With(key, g)
  BY <1>0, <1>2, <1>3, FileEdited
<1>5. dir[key] \in FileType /\ dir[key].body /\ TrueMap(dir[key].map, key)
  BY <1>2 DEF Files
<1>6. g \in FileType /\ g.map = dir[key].map /\ g.body
  BY <1>3, <1>5 DEF FileType
<1>7. Files'
  BY <1>0, <1>2, <1>4, <1>5, <1>6, FilePut
<1>8. Evicting'
  BY <1>0, EvictingAside
<1>9. Worker'
  BY <1>0, WorkerFinishes DEF Worker
<1> QED
  BY <1>1, <1>7, <1>8, <1>9

LEMMA ScanInv == ASSUME CInv, Scan PROVE CInv'
<1> USE DEF CInv
<1>0. /\ UNCHANGED <<dir, mem, server, pairs, reader, sampled, faults, key, tmp>>
      /\ phase = "scan" /\ phase' = "evict" /\ list' = [k \in Readable |-> dir[k]] /\ total' = CacheBytes
      /\ protect' = {k \in protect \cap Readable : FileBytes(k, dir[k]) <= Budget}
  BY DEF Scan, counters
<1>1. Sampling' /\ Files' /\ Memory' /\ Reading'
  BY <1>0, SamplingKept, FilesKept, MemoryKept, ReadingKept
<1>2. Worker'
  BY <1>0 DEF Worker, Phases
<1>3. Readable = DOMAIN dir
  BY AllReadable
<1>4. CacheBytes = SumFunctionOnSet(Sizes, Readable)
  <2>1. DOMAIN Sizes = Readable
    BY DEF Sizes
  <2> QED
    BY <2>1 DEF CacheBytes, Sizes, SumFunction
<1>5. SumFunctionOnSet(Sizes, Readable) \in Nat
  <2>1. ASSUME NEW k \in Readable PROVE Sizes[k] \in Nat
    <3>1. Sizes[k] = FileBytes(k, dir[k])
      BY DEF Sizes
    <3>2. k \in Texts /\ TrueMap(dir[k].map, k)
      BY <1>3 DEF Files
    <3> QED
      BY <3>1, <3>2, FileSize
  <2>2. IsFiniteSet(Readable)
    BY <1>3 DEF Files
  <2> QED
    BY <2>1, <2>2, SumAny
<1>6. Sizes' = Sizes /\ Readable' = Readable
  BY <1>0 DEF Sizes, Readable
<1>7. Evicting'
  <2>1. total' \in Nat /\ total' = SumFunctionOnSet(Sizes', Readable')
    BY <1>0, <1>4, <1>5, <1>6
  <2>2. protect' \subseteq Texts /\ \E x : protect' \subseteq {x}
    BY <1>0 DEF Evicting
  <2>3. list' = [k \in DOMAIN list' |-> list'[k]] /\ DOMAIN list' = DOMAIN dir'
        /\ \A k \in DOMAIN list' : list'[k] = dir'[k]
    BY <1>0, <1>3
  <2>4. protect' \subseteq DOMAIN dir' /\ \A k \in protect' : FileBytes(k, dir'[k]) <= Budget
    BY <1>0, <1>3
  <2> QED
    BY <1>0, <2>1, <2>2, <2>3, <2>4 DEF Evicting, FileBytes
<1> QED
  BY <1>1, <1>2, <1>7

\* A victim is in the list, and never the file just stored.
LEMMA VictimMeans ==
    ASSUME CInv, phase = "evict", total > Budget, NEW hits, NEW k \in Victims(hits)
    PROVE  k \in DOMAIN list /\ k \notin protect
<1> USE DEF CInv
<1>1. /\ DOMAIN list = DOMAIN dir /\ total = SumFunctionOnSet(Sizes, Readable)
      /\ \A j \in protect : FileBytes(j, dir[j]) <= Budget
  BY DEF Evicting
<1>2. k \in IF DOMAIN list = protect THEN protect ELSE DOMAIN list \ protect
  BY DEF Victims
<1>3. CASE DOMAIN list # protect
  BY <1>2, <1>3
<1>4. CASE DOMAIN list = protect
  <2>1. k \in protect
    BY <1>2, <1>4
  <2>2. protect = {k}
    BY <2>1 DEF Evicting
  <2>3. Readable = {k} /\ k \in Texts /\ TrueMap(dir[k].map, k)
    BY <1>1, <1>4, <2>2, AllReadable DEF Files
  <2>4. Sizes[k] = FileBytes(k, dir[k]) /\ FileBytes(k, dir[k]) \in Nat
    BY <2>3, FileSize DEF Sizes
  <2>5. PICK S : S = {k}
    OBVIOUS
  <2>6. IsFiniteSet(S) /\ S \ {k} = {} /\ \A x \in S : Sizes[x] \in Nat
    BY <2>4, <2>5, FS_Singleton
  <2>7. SumFunctionOnSet(Sizes, S) = Sizes[k] + SumFunctionOnSet(Sizes, S \ {k})
    BY <2>5, <2>6, SumAny
  <2>8. SumFunctionOnSet(Sizes, S \ {k}) = 0
    BY <2>6, SumNone
  <2>9. total = FileBytes(k, dir[k])
    BY <1>1, <2>3, <2>4, <2>5, <2>7, <2>8
  <2>10. FileBytes(k, dir[k]) <= Budget
    BY <1>1, <2>1
  <2> QED
    BY <2>4, <2>9, <2>10, CacheConstants
<1> QED
  BY <1>3, <1>4

LEMMA EvictInv == ASSUME CInv, Evict PROVE CInv'
<1> USE DEF CInv
<1>0. /\ UNCHANGED <<mem, server, phase, pairs, reader, sampled, faults, key, tmp, protect>>
      /\ phase = "evict" /\ total > Budget
  BY DEF Evict, counters
<1>1. PICK hits \in Decayed : \E k \in Victims(hits) :
          LET bytes == FileBytes(k, list[k])
          IN  /\ dir' = Without(k)
              /\ total' = IF total >= bytes THEN total - bytes ELSE 0
              /\ list' = [j \in DOMAIN list \ {k} |-> list[j]]
  BY DEF Evict
<1>2. PICK k \in Victims(hits) :
          /\ dir' = Without(k)
          /\ total' = IF total >= FileBytes(k, list[k]) THEN total - FileBytes(k, list[k]) ELSE 0
          /\ list' = [j \in DOMAIN list \ {k} |-> list[j]]
  BY <1>1
<1>3. Sampling' /\ Memory' /\ Reading'
  BY <1>0, SamplingKept, MemoryKept, ReadingKept
<1>4. Files'
  BY <1>0, <1>2, FileGone
<1>5. Worker'
  BY <1>0 DEF Worker
<1>6. k \in DOMAIN list /\ k \notin protect
  BY <1>0, VictimMeans
<1>7. /\ DOMAIN list = DOMAIN dir /\ total = SumFunctionOnSet(Sizes, Readable)
      /\ Readable = DOMAIN dir /\ list[k] = dir[k] /\ IsFiniteSet(DOMAIN dir)
  BY <1>0, <1>6, AllReadable DEF Evicting, Files
<1>8. /\ DOMAIN dir' = DOMAIN dir \ {k} /\ \A j \in DOMAIN dir' : dir'[j] = dir[j]
      /\ DOMAIN list' = DOMAIN dir \ {k} /\ \A j \in DOMAIN list' : list'[j] = list[j]
      /\ list' = [j \in DOMAIN list' |-> list'[j]]
  BY <1>2, <1>7 DEF Without
<1>9. Readable' = DOMAIN dir \ {k}
  BY <1>4, <1>8, AllReadable DEF Files, Readable
<1>10. ASSUME NEW j \in DOMAIN dir PROVE Sizes[j] = FileBytes(j, dir[j]) /\ Sizes[j] \in Nat
  <2>1. j \in Texts /\ TrueMap(dir[j].map, j)
    BY DEF Files
  <2> QED
    BY <1>7, <2>1, FileSize DEF Sizes
<1>11. PICK w \in Nat : w = SumFunctionOnSet(Sizes, DOMAIN dir \ {k})
  <2>1. IsFiniteSet(DOMAIN dir \ {k})
    BY <1>7, FS_Subset
  <2> QED
    BY <1>10, <2>1, SumAny
<1>12. total = FileBytes(k, list[k]) + w /\ FileBytes(k, list[k]) \in Nat
  <2>1. k \in DOMAIN dir
    BY <1>6, <1>7
  <2>2. SumFunctionOnSet(Sizes, DOMAIN dir) = Sizes[k] + SumFunctionOnSet(Sizes, DOMAIN dir \ {k})
    BY <1>7, <1>10, <2>1, SumAny
  <2> QED
    BY <1>7, <1>10, <1>11, <2>1, <2>2
<1>13. total' = w
  BY <1>2, <1>11, <1>12
<1>14. SumFunctionOnSet(Sizes', Readable') = w
  <2>1. \A j \in DOMAIN dir \ {k} : Sizes'[j] = Sizes[j]
    <3> SUFFICES ASSUME NEW j \in DOMAIN dir \ {k} PROVE Sizes'[j] = Sizes[j]
      OBVIOUS
    <3>1. Sizes'[j] = FileBytes(j, dir'[j])
      BY <1>9 DEF Sizes, FileBytes
    <3>2. dir'[j] = dir[j]
      BY <1>8
    <3> QED
      BY <1>10, <3>1, <3>2
  <2>2. IsFiniteSet(DOMAIN dir \ {k})
    BY <1>7, FS_Subset
  <2>3. SumFunctionOnSet(Sizes', DOMAIN dir \ {k}) = SumFunctionOnSet(Sizes, DOMAIN dir \ {k})
    BY <2>1, <2>2, SumSame
  <2> QED
    BY <1>9, <1>11, <2>3
<1>15. Evicting'
  <2>1. total' \in Nat /\ total' = SumFunctionOnSet(Sizes', Readable')
    BY <1>13, <1>14
  <2>2. protect' \subseteq Texts /\ \E x : protect' \subseteq {x}
    BY <1>0 DEF Evicting
  <2>3. DOMAIN list' = DOMAIN dir' /\ \A j \in DOMAIN list' : list'[j] = dir'[j]
    BY <1>0, <1>7, <1>8 DEF Evicting
  <2>4. protect' \subseteq DOMAIN dir' /\ \A j \in protect' : FileBytes(j, dir'[j]) <= Budget
    BY <1>0, <1>6, <1>8 DEF Evicting
  <2> QED
    BY <1>0, <1>8, <2>1, <2>2, <2>3, <2>4 DEF Evicting, FileBytes
<1> QED
  BY <1>3, <1>4, <1>5, <1>15

LEMMA UnlinkFailsInv == ASSUME CInv, UnlinkFails PROVE CInv'
<1> USE DEF CInv
<1>0. /\ UNCHANGED <<dir, mem, server, phase, pairs, reader, sampled, key, tmp, protect>>
      /\ phase = "evict" /\ faults' = faults + 1 /\ total' = 0
      /\ \E hits \in Decayed : \E k \in Victims(hits) : list' = [j \in DOMAIN list \ {k} |-> list[j]]
  BY DEF UnlinkFails
<1>1. Sampling' /\ Files' /\ Memory' /\ Reading'
  BY <1>0, SamplingKept, FilesKept, MemoryKept, ReadingKept
<1>2. faults' \in Nat /\ faults' # 0
  BY <1>0 DEF Worker
<1>3. Worker'
  BY <1>0, <1>2 DEF Worker
<1>4. PICK k : list' = [j \in DOMAIN list \ {k} |-> list[j]]
  BY <1>0
<1>5. Evicting'
  <2>1. total' \in Nat /\ ~(total' > Budget)
    BY <1>0, CacheConstants
  <2>2. /\ DOMAIN list' \subseteq DOMAIN dir' /\ list' = [j \in DOMAIN list' |-> list'[j]]
        /\ \A j \in DOMAIN list' : list'[j] = dir'[j]
    BY <1>0, <1>4 DEF Evicting
  <2>3. /\ protect' \subseteq Texts /\ (\E x : protect' \subseteq {x})
        /\ protect' \subseteq DOMAIN dir' /\ \A j \in protect' : FileBytes(j, dir'[j]) <= Budget
    BY <1>0 DEF Evicting
  <2> QED
    BY <1>0, <1>2, <2>1, <2>2, <2>3 DEF Evicting, FileBytes
<1> QED
  BY <1>1, <1>3, <1>5

LEMMA EvictDoneInv == ASSUME CInv, EvictDone PROVE CInv'
<1> USE DEF CInv
<1>0. /\ UNCHANGED <<dir, mem, server, pairs, reader, sampled, faults>>
      /\ phase' = "idle" /\ Finish /\ list' = NoFiles /\ total' = 0 /\ protect' = {}
  BY DEF EvictDone, counters, Finish
<1>1. Sampling' /\ Files' /\ Memory' /\ Reading'
  BY <1>0, SamplingKept, FilesKept, MemoryKept, ReadingKept
<1>2. Worker'
  BY <1>0, WorkerFinishes DEF Worker
<1>3. Evicting'
  BY <1>0, EvictingOver
<1> QED
  BY <1>1, <1>2, <1>3

\* What is read from the map of a file.
LEMMA MapRead ==
    ASSUME Files, NEW k \in DOMAIN dir, NEW S, S \subseteq LoadableMap(dir[k]), NEW s \in SetToSeqs(S)
    PROVE  TruePairs(s)
<1>1. TrueMap(dir[k].map, k)
  BY DEF Files
<1>2. LoadableMap(dir[k]) \subseteq dir[k].map
  BY DEF LoadableMap
<1>3. TrueMap(S, k)
  <2>1. S \subseteq dir[k].map
    BY <1>2
  <2> QED
    BY <1>1, <2>1, PartTrue
<1> QED
  BY <1>3, OrderTrue DEF TrueMap

LEMMA LoadInv == ASSUME CInv, NEW p, Load(p) PROVE CInv'
<1> USE DEF CInv
<1>0. /\ UNCHANGED <<dir, mem, server, reader, sampled, faults, list, total, protect, tmp>>
      /\ phase = "idle" /\ phase' = "touch"
  BY DEF Load, evictVars, counters
<1>1. PICK k \in DOMAIN dir : dir[k].hits < MaxHits /\ pairs' \in SetToSeqs(LoadableMap(dir[k])) /\ key' = k
  BY DEF Load, kv_cache_find_text_prefix, Candidates, Readable
<1>2. Sampling' /\ Files' /\ Memory'
  BY <1>0, SamplingKept, FilesKept, MemoryKept
<1>3. TruePairs(pairs')
  BY <1>1, MapRead
<1>4. Reading'
  BY <1>0, <1>3 DEF Reading, TruePairs, Sampled
<1>5. Worker'
  BY <1>0, <1>1 DEF Worker, Phases, Files
<1>6. Evicting'
  BY <1>0, EvictingAside
<1> QED
  BY <1>2, <1>4, <1>5, <1>6

\* Putting a true pair keeps the memory true.
LEMMA PutTrue ==
    ASSUME Memory, NEW i \in Ids, NEW d \in Dsml, Sampled(<<i, d>>), UNCHANGED sampled,
           mem' = tool_memory_put(mem, i, d, "disk")
    PROVE  Memory'
<1>1. PICK m, r : m = mem /\ r = mem'
  OBVIOUS
<1>2. Good(m) /\ "disk" \in {"ram", "disk"} /\ r = tool_memory_put(m, i, d, "disk")
  BY <1>1 DEF Memory
<1>3. Good(r) /\ Limited(r) /\ From(r, m, {i}, d)
  BY <1>2, PutGood
<1>4. ASSUME NEW j \in DOMAIN r.by_id PROVE Sampled(<<j, r.by_id[j].block>>)
  <2>1. CASE j = i /\ r.by_id[j].block = d
    BY <2>1
  <2>2. CASE ~(j = i /\ r.by_id[j].block = d)
    <3>1. j \in DOMAIN m.by_id /\ m.by_id[j].block = r.by_id[j].block
      BY <1>3, <2>2 DEF From, Entries
    <3>2. Sampled(<<j, m.by_id[j].block>>)
      BY <1>1, <3>1 DEF Memory
    <3> QED
      BY <3>1, <3>2
  <2> QED
    BY <2>1, <2>2
<1>5. Good(mem)' /\ Limited(mem)'
  BY <1>1, <1>3 DEF Good, Limited, Linked, Accounted, EntriesOf, Used
<1>6. \A j \in DOMAIN mem'.by_id : Sampled(<<j, mem.by_id[j].block>>)'
  BY <1>1, <1>4 DEF Sampled
<1> QED
  BY <1>5, <1>6 DEF Memory

LEMMA LoadPairInv == ASSUME CInv, LoadPair PROVE CInv'
<1> USE DEF CInv
<1>0. /\ UNCHANGED <<dir, server, phase, key, tmp, reader, sampled, faults, list, total, protect>>
      /\ pairs # <<>> /\ pairs' = Tail(pairs)
      /\ mem' = tool_memory_put(mem, Head(pairs)[1], Head(pairs)[2], "disk")
  BY DEF LoadPair, evictVars, counters
<1>1. Sampling' /\ Files' /\ Worker' /\ Evicting'
  BY <1>0, SamplingKept, FilesKept, WorkerKept, EvictingKept
<1>2. PICK s : s = pairs
  OBVIOUS
<1>3. Sampled(Head(s)) /\ TruePairs(Tail(s)) /\ Head(s)[1] \in Ids /\ Head(s)[2] \in Dsml
  BY <1>0, <1>2, HeadTrue DEF Reading
<1>4. PICK i \in Ids, d \in Dsml : i = Head(s)[1] /\ d = Head(s)[2]
  BY <1>3
<1>5. Sampled(<<i, d>>)
  BY <1>3, <1>4 DEF Sampled
<1>6. Memory'
  BY <1>0, <1>2, <1>4, <1>5, PutTrue
<1>7. Reading'
  BY <1>0, <1>2, <1>3 DEF Reading, TruePairs, Sampled
<1> QED
  BY <1>1, <1>6, <1>7

LEMMA TouchInv == ASSUME CInv, Touch PROVE CInv'
<1> USE DEF CInv
<1>0. /\ UNCHANGED <<mem, server, pairs, reader, sampled, faults, list, total, protect>>
      /\ phase = "touch" /\ phase' = "idle" /\ Finish
      /\ dir' = IF ColdMax > 0 /\ TokensOf[key] > ColdMax
                THEN Without(key)
                ELSE [dir EXCEPT ![key].hits = @ + 1]
  BY DEF Touch, evictVars, counters, Finish
<1>1. Sampling' /\ Memory' /\ Reading'
  BY <1>0, SamplingKept, MemoryKept, ReadingKept
<1>2. key \in DOMAIN dir /\ key \in Texts /\ dir[key].hits < MaxHits
  BY <1>0 DEF Worker, Files
<1>3. CASE ColdMax > 0 /\ TokensOf[key] > ColdMax
  <2>1. Files'
    BY <1>0, <1>3, FileGone
  <2> QED
    BY <1>0, <1>1, <2>1, EvictingAside, WorkerFinishes DEF Worker
<1>4. CASE ~(ColdMax > 0 /\ TokensOf[key] > ColdMax)
  <2>1. PICK g : g = [dir[key] EXCEPT !.hits = @ + 1]
    OBVIOUS
  <2>2. dir' = With(key, g)
    BY <1>0, <1>2, <1>4, <2>1, FileEdited
  <2>3. dir[key] \in FileType /\ dir[key].body /\ TrueMap(dir[key].map, key)
    BY <1>2 DEF Files
  <2>4. dir[key].hits + 1 \in 0..MaxHits
    <3>1. dir[key].hits \in 0..MaxHits
      BY <2>3 DEF FileType
    <3> QED
      BY <1>2, <3>1, CacheConstants
  <2>5. g \in FileType /\ g.map = dir[key].map /\ g.body
    BY <2>1, <2>3, <2>4 DEF FileType
  <2>6. Files'
    BY <1>0, <1>2, <2>2, <2>3, <2>5, FilePut
  <2> QED
    BY <1>0, <1>1, <2>6, EvictingAside, WorkerFinishes DEF Worker
<1> QED
  BY <1>3, <1>4

LEMMA LoadCorruptInv == ASSUME CInv, NEW p, LoadCorrupt(p) PROVE CInv'
<1> USE DEF CInv
<1>0. /\ UNCHANGED <<mem, server, phase, key, tmp, pairs, reader, sampled, list, total, protect>>
      /\ phase = "idle" /\ faults' = faults + 1 /\ \E k : dir' = Without(k)
  BY DEF LoadCorrupt, workerVars, evictVars
<1>1. Sampling' /\ Memory' /\ Reading'
  BY <1>0, SamplingKept, MemoryKept, ReadingKept
<1>2. Files'
  BY <1>0, FileGone
<1>3. Evicting'
  BY <1>0, EvictingAside
<1>4. Worker'
  BY <1>0 DEF Worker
<1> QED
  BY <1>1, <1>2, <1>3, <1>4

\* A call's ids are a list of ids.
LEMMA CallsListed == ASSUME NEW c \in Calls PROVE c \in Seq(Ids)
BY DEF Calls

LEMMA GenerateInv == ASSUME CInv, NEW ids \in Calls, NEW d \in Dsml, Generate(ids, d) PROVE CInv'
<1> USE DEF CInv
<1>0. /\ UNCHANGED <<dir, server, phase, key, tmp, pairs, reader, faults, list, total, protect>>
      /\ ToSet(ids) \cap (DOMAIN sampled \cup DOMAIN mem.by_id) = {}
      /\ mem' = tool_memory_remember(mem, ids, d)
      /\ sampled' = [i \in DOMAIN sampled \cup ToSet(ids) |-> IF i \in ToSet(ids) THEN d ELSE sampled[i]]
  BY DEF Generate, workerVars, evictVars, counters
<1>1. ids \in Seq(Ids) /\ ToSet(ids) \subseteq Ids
  BY CallsListed DEF ToSet
<1>2. /\ DOMAIN sampled' = DOMAIN sampled \cup ToSet(ids)
      /\ \A i \in DOMAIN sampled : sampled'[i] = sampled[i]
      /\ \A i \in ToSet(ids) : sampled'[i] = d
  BY <1>0
<1>3. \A p : Sampled(p) => p[1] \in DOMAIN sampled' /\ sampled'[p[1]] = p[2]
  BY <1>2 DEF Sampled
<1>4. Sampling'
  BY <1>0, <1>1, <1>2 DEF Sampling
<1>5. Files'
  BY <1>0, <1>3 DEF Files, TrueMap, Sampled
<1>6. Reading'
  BY <1>0, <1>3 DEF Reading, TruePairs, Sampled
<1>7. Worker'
  BY <1>0, <1>3 DEF Worker, TrueMap, Sampled
<1>8. Evicting'
  BY <1>0, EvictingKept
<1>9. PICK m, r : m = mem /\ r = mem'
  OBVIOUS
<1>10. Good(m) /\ Limited(m) /\ r = tool_memory_remember(m, ids, d)
  BY <1>0, <1>9 DEF Memory
<1>11. Good(r) /\ Limited(r) /\ From(r, m, ToSet(ids), d)
  BY <1>1, <1>10, RememberGood
<1>12. Good(mem)' /\ Limited(mem)'
  BY <1>9, <1>11 DEF Good, Limited, Linked, Accounted, EntriesOf, Used
<1>13. ASSUME NEW j \in DOMAIN r.by_id
       PROVE  j \in DOMAIN sampled' /\ sampled'[j] = r.by_id[j].block
  <2>1. CASE j \in ToSet(ids) /\ r.by_id[j].block = d
    BY <1>2, <2>1
  <2>2. CASE ~(j \in ToSet(ids) /\ r.by_id[j].block = d)
    <3>1. j \in DOMAIN m.by_id /\ m.by_id[j].block = r.by_id[j].block
      BY <1>11, <2>2 DEF From, Entries
    <3>2. Sampled(<<j, m.by_id[j].block>>)
      BY <1>9, <3>1 DEF Memory
    <3> QED
      BY <1>2, <3>1, <3>2 DEF Sampled
  <2> QED
    BY <2>1, <2>2
<1>14. Memory'
  <2>1. \A j \in DOMAIN mem'.by_id : Sampled(<<j, mem.by_id[j].block>>)'
    BY <1>9, <1>13 DEF Sampled
  <2> QED
    BY <1>12, <2>1 DEF Memory
<1> QED
  BY <1>4, <1>5, <1>6, <1>7, <1>8, <1>14

LEMMA StartRestoreInv == ASSUME CInv, NEW ids \in Calls, StartRestore(ids) PROVE CInv'
<1> USE DEF CInv
<1>0. /\ UNCHANGED <<dir, mem, server, phase, key, tmp, pairs, sampled, faults, list, total, protect>>
      /\ reader' = [NoReader EXCEPT !.wanted = ids, !.todo = DOMAIN dir]
  BY DEF StartRestore, workerVars, evictVars, counters
<1>1. Sampling' /\ Files' /\ Memory' /\ Worker' /\ Evicting'
  BY <1>0, SamplingKept, FilesKept, MemoryKept, WorkerKept, EvictingKept
<1>2. reader' = [wanted |-> ids, todo |-> DOMAIN dir, pairs |-> <<>>]
  BY <1>0 DEF NoReader
<1>3. /\ reader' = [wanted |-> reader'.wanted, todo |-> reader'.todo, pairs |-> reader'.pairs]
      /\ reader'.wanted = ids /\ reader'.pairs = <<>>
  BY <1>2
<1>4. TruePairs(pairs)'
  BY <1>0 DEF Reading, TruePairs, Sampled
<1>5. TruePairs(reader.pairs)'
  <2>1. <<>> \in Seq(Pairs) /\ Len(<<>>) = 0
    OBVIOUS
  <2> QED
    BY <1>3, <2>1 DEF TruePairs
<1>6. reader'.wanted \in Seq(Ids)
  BY <1>3, CallsListed
<1>7. Reading'
  BY <1>3, <1>4, <1>5, <1>6 DEF Reading
<1> QED
  BY <1>1, <1>7

LEMMA RestoreFromInv == ASSUME CInv, NEW k, RestoreFrom(k) PROVE CInv'
<1> USE DEF CInv
<1>0. UNCHANGED <<dir, mem, server, phase, key, tmp, pairs, sampled, faults, list, total, protect>>
  BY DEF RestoreFrom, workerVars, evictVars, counters
<1>1. Sampling' /\ Files' /\ Memory' /\ Worker' /\ Evicting'
  BY <1>0, SamplingKept, FilesKept, MemoryKept, WorkerKept, EvictingKept
<1>2. PICK S : S = IF k \in DOMAIN dir
                   THEN {p \in LoadableMap(dir[k]) : p[1] \in ToSet(reader.wanted)}
                   ELSE {}
  OBVIOUS
<1>3. PICK order \in SetToSeqs(S) : reader' = [reader EXCEPT !.todo = @ \ {k}, !.pairs = order]
  BY <1>2 DEF RestoreFrom
<1>4. TruePairs(order)
  <2>1. CASE k \in DOMAIN dir
    <3>1. S \subseteq LoadableMap(dir[k])
      BY <1>2, <2>1
    <3> QED
      BY <2>1, <3>1, MapRead
  <2>2. CASE k \notin DOMAIN dir
    BY <1>2, <2>2, FS_EmptySet, OrderTrue
  <2> QED
    BY <2>1, <2>2
<1>5. PICK w, t, q : reader = [wanted |-> w, todo |-> t, pairs |-> q] /\ w = reader.wanted
  BY DEF Reading
<1>6. reader' = [wanted |-> w, todo |-> t \ {k}, pairs |-> order]
  BY <1>3, <1>5
<1>7. /\ reader' = [wanted |-> reader'.wanted, todo |-> reader'.todo, pairs |-> reader'.pairs]
      /\ reader'.wanted = w /\ reader'.pairs = order
  BY <1>6
<1>8. Reading'
  BY <1>0, <1>4, <1>5, <1>7 DEF Reading, TruePairs, Sampled
<1> QED
  BY <1>1, <1>8

LEMMA RestorePairInv == ASSUME CInv, RestorePair PROVE CInv'
<1> USE DEF CInv
<1>0. /\ UNCHANGED <<dir, server, phase, key, tmp, pairs, sampled, faults, list, total, protect>>
      /\ reader.pairs # <<>> /\ reader' = [reader EXCEPT !.pairs = Tail(@)]
      /\ mem' = tool_memory_put(mem, Head(reader.pairs)[1], Head(reader.pairs)[2], "disk")
  BY DEF RestorePair, workerVars, evictVars, counters
<1>1. Sampling' /\ Files' /\ Worker' /\ Evicting'
  BY <1>0, SamplingKept, FilesKept, WorkerKept, EvictingKept
<1>2. PICK w, t, s : reader = [wanted |-> w, todo |-> t, pairs |-> s] /\ w = reader.wanted /\ s = reader.pairs
  BY DEF Reading
<1>3. Sampled(Head(s)) /\ TruePairs(Tail(s)) /\ Head(s)[1] \in Ids /\ Head(s)[2] \in Dsml
  BY <1>0, <1>2, HeadTrue DEF Reading
<1>4. PICK i \in Ids, d \in Dsml : i = Head(s)[1] /\ d = Head(s)[2]
  BY <1>3
<1>5. Sampled(<<i, d>>)
  BY <1>3, <1>4 DEF Sampled
<1>6. Memory'
  BY <1>0, <1>2, <1>4, <1>5, PutTrue
<1>7. reader' = [wanted |-> w, todo |-> t, pairs |-> Tail(s)]
  BY <1>0, <1>2
<1>8. /\ reader' = [wanted |-> reader'.wanted, todo |-> reader'.todo, pairs |-> reader'.pairs]
      /\ reader'.wanted = w /\ reader'.pairs = Tail(s)
  BY <1>7
<1>9. Reading'
  BY <1>0, <1>2, <1>3, <1>8 DEF Reading, TruePairs, Sampled
<1> QED
  BY <1>1, <1>6, <1>9

LEMMA AttachInv == ASSUME CInv, tool_memory_attach_to_messages PROVE CInv'
<1> USE DEF CInv
<1>0. /\ UNCHANGED <<dir, server, phase, key, tmp, pairs, sampled, faults, list, total, protect>>
      /\ mem' = AttachTouches(mem, reader.wanted) /\ reader' = NoReader
  BY DEF tool_memory_attach_to_messages, workerVars, evictVars, counters
<1>1. Sampling' /\ Files' /\ Worker' /\ Evicting'
  BY <1>0, SamplingKept, FilesKept, WorkerKept, EvictingKept
<1>2. PICK m, r, ids : m = mem /\ r = mem' /\ ids = reader.wanted
  OBVIOUS
<1>3. Good(m) /\ Limited(m) /\ ids \in Seq(Ids) /\ r = AttachTouches(m, ids)
  BY <1>0, <1>2 DEF Memory, Reading
<1>4. Good(r) /\ Limited(r) /\ r.by_id = m.by_id
  BY <1>3, AttachGood
<1>5. Good(mem)' /\ Limited(mem)'
  BY <1>2, <1>4 DEF Good, Limited, Linked, Accounted, EntriesOf, Used
<1>6. Memory'
  BY <1>0, <1>2, <1>4, <1>5 DEF Memory, Sampled
<1>7. /\ reader' = [wanted |-> reader'.wanted, todo |-> reader'.todo, pairs |-> reader'.pairs]
      /\ reader'.wanted = <<>> /\ reader'.pairs = <<>> /\ <<>> \in Seq(Ids)
  BY <1>0 DEF NoReader
<1>8. Reading'
  BY <1>0, <1>7, NothingTrue DEF Reading, TruePairs, Sampled
<1> QED
  BY <1>1, <1>6, <1>8

LEMMA CrashInv == ASSUME CInv, Crash PROVE CInv'
<1> USE DEF CInv
<1>0. /\ UNCHANGED <<dir, server, sampled, faults>>
      /\ phase' = "down" /\ key' = NoText /\ tmp' = {} /\ pairs' = <<>> /\ list' = NoFiles /\ total' = 0
      /\ protect' = {} /\ mem' = EmptyMemory /\ reader' = NoReader
  BY DEF Crash
<1>1. Sampling' /\ Files'
  BY <1>0, SamplingKept, FilesKept
<1>2. Evicting'
  BY <1>0, EvictingOver
<1>3. Worker'
  BY <1>0 DEF Worker, Phases, NoText
<1>4. /\ reader' = [wanted |-> reader'.wanted, todo |-> reader'.todo, pairs |-> reader'.pairs]
      /\ reader'.wanted = <<>> /\ reader'.pairs = <<>> /\ <<>> \in Seq(Ids)
  BY <1>0 DEF NoReader
<1>5. Reading'
  BY <1>0, <1>4, NothingTrue DEF Reading, TruePairs, Sampled
<1>6. PICK r : r = mem'
  OBVIOUS
<1>7. Good(r) /\ Limited(r) /\ DOMAIN r.by_id = {}
  <2>1. DOMAIN EmptyMemory.by_id = {}
    BY DEF EmptyMemory
  <2> QED
    BY <1>0, <1>6, <2>1, EmptyGood, MemoryConstants DEF Limited
<1>8. Good(mem)' /\ Limited(mem)'
  BY <1>6, <1>7 DEF Good, Limited, Linked, Accounted, EntriesOf, Used
<1>9. Memory'
  BY <1>6, <1>7, <1>8 DEF Memory
<1> QED
  BY <1>1, <1>2, <1>3, <1>5, <1>9

LEMMA OpenInv == ASSUME CInv, kv_cache_open PROVE CInv'
<1> USE DEF CInv
<1>0. /\ UNCHANGED <<dir, mem, key, tmp, pairs, reader, sampled, faults, list, total, protect>>
      /\ phase = "down" /\ server' \in Servers /\ phase' = "scan"
  BY DEF kv_cache_open, evictVars, counters
<1>1. Sampling' /\ Files' /\ Memory' /\ Reading'
  BY <1>0, SamplingKept, FilesKept, MemoryKept, ReadingKept
<1>2. Worker'
  BY <1>0 DEF Worker, Phases
<1>3. Evicting'
  BY <1>0, EvictingAside
<1> QED
  BY <1>1, <1>2, <1>3

LEMMA StepInv == CInv /\ [Next]_vars => CInv'
<1> SUFFICES ASSUME CInv, [Next]_vars PROVE CInv'
  OBVIOUS
<1>1. CASE UNCHANGED vars
  <2>1. UNCHANGED <<dir, mem, server, phase, key, tmp, pairs, list, total, protect, reader, sampled, faults>>
    BY <1>1 DEF vars, workerVars, evictVars, counters
  <2> QED
    BY <2>1, SamplingKept, FilesKept, MemoryKept, ReadingKept, WorkerKept, EvictingKept DEF CInv
<1>2. CASE \E t \in Texts : Store(t)
  BY <1>2, StoreInv
<1>3. CASE WriteFile \/ WriteFails \/ Rename
  BY <1>3, WriteFileInv, WriteFailsInv, RenameInv
<1>4. CASE Truncate \/ Remap \/ RemapFails \/ Flag
  BY <1>4, TruncateInv, RemapInv, RemapFailsInv, FlagInv
<1>5. CASE Scan \/ Evict \/ UnlinkFails \/ EvictDone
  BY <1>5, ScanInv, EvictInv, UnlinkFailsInv, EvictDoneInv
<1>6. CASE (\E p \in Prompts : Load(p)) \/ (\E p \in Prompts : LoadCorrupt(p))
  BY <1>6, LoadInv, LoadCorruptInv
<1>7. CASE LoadPair \/ Touch
  BY <1>7, LoadPairInv, TouchInv
<1>8. CASE \E ids \in Calls, d \in Dsml : Generate(ids, d)
  BY <1>8, GenerateInv
<1>9. CASE (\E ids \in Calls : StartRestore(ids)) \/ (\E k \in Texts : RestoreFrom(k))
  BY <1>9, StartRestoreInv, RestoreFromInv
<1>10. CASE RestorePair \/ tool_memory_attach_to_messages \/ Crash \/ kv_cache_open
  BY <1>10, RestorePairInv, AttachInv, CrashInv, OpenInv
<1> QED
  BY <1>1, <1>2, <1>3, <1>4, <1>5, <1>6, <1>7, <1>8, <1>9, <1>10 DEF Next

LEMMA CInvAlways == Spec => []CInv
BY InitInv, StepInv, PTL DEF Spec

-----------------------------------------------------------------------------
\* A list without repetitions is as long as the set of its elements is large.
LEMMA ListSize ==
    ASSUME NEW l \in Seq(Ids), IsInjective(l)
    PROVE  Len(l) = Cardinality(ToSet(l))
<1>1. Len(l) \in Nat /\ DOMAIN l = 1..Len(l)
  OBVIOUS
<1>2. PICK n \in Nat : n = Len(l)
  BY <1>1
<1>3. l \in Bijection(1..n, ToSet(l))
  <2>1. l \in [1..n -> ToSet(l)] /\ \A y \in ToSet(l) : \E x \in 1..n : l[x] = y
    BY <1>1, <1>2 DEF ToSet
  <2>2. \A x, y \in 1..n : l[x] = l[y] => x = y
    BY <1>1, <1>2 DEF IsInjective
  <2> QED
    BY <2>1, <2>2 DEF Bijection, Injection, Surjection
<1>4. ExistsBijection(1..n, ToSet(l))
  BY <1>3 DEF ExistsBijection
<1> QED
  BY <1>2, <1>4, FS_CountingElements

\* The books of the tool memory agree, whatever is remembered, restored from
\* disk, replaced, touched and pruned, and it stays within its limits.
THEOREM MemoryStaysConsistent == Spec => []MemoryConsistent
<1>1. ASSUME CInv PROVE MemoryConsistent
  <2> USE <1>1 DEF CInv
  <2>1. Good(mem) /\ Limited(mem)
    BY DEF Memory
  <2>2. \A k \in DOMAIN dir : k \in Texts /\ dir[k] \in FileType
    BY DEF Files
  <2>3. DOMAIN mem.by_id \subseteq Ids
    BY <2>1 DEF Good, Linked
  <2>4. mem.entries \in 0..MaxEntries /\ mem.bytes \in 0..MaxBytes
    <3>1. mem.entries \in Nat /\ mem.bytes \in Nat
      BY <2>1, Amounts
    <3> QED
      BY <2>1, <3>1, MemoryConstants DEF Limited
  <2>5. server \in Servers /\ phase \in Phases /\ key \in Texts \cup {NoText}
    BY DEF Worker
  <2>6. tmp \subseteq FileType /\ Cardinality(tmp) <= 1
    <3>1. tmp = {} \/ \E f \in FileType : tmp = {f}
      BY DEF Worker
    <3>2. Cardinality({}) = 0 /\ \A f : Cardinality({f}) = 1
      BY FS_EmptySet, FS_Singleton
    <3>3. CASE tmp = {}
      BY <3>2, <3>3
    <3>4. ASSUME NEW f \in FileType, tmp = {f} PROVE tmp \subseteq FileType /\ Cardinality(tmp) <= 1
      <4>1. Cardinality(tmp) = 1 /\ 1 <= 1
        BY <3>2, <3>4
      <4> QED
        BY <3>4, <4>1
    <3> QED
      BY <3>1, <3>3, <3>4
  <2>7. DOMAIN list \subseteq DOMAIN dir /\ total \in Nat /\ protect \subseteq Texts
    BY DEF Evicting, NoFiles
  <2>8. TypeOK
    BY <2>2, <2>3, <2>4, <2>5, <2>6, <2>7 DEF TypeOK
  <2>9. Consistent(mem)
    <3>1. Len(mem.lru) = Cardinality(ToSet(mem.lru)) /\ ToSet(mem.lru) = DOMAIN mem.by_id
      BY <2>1, ListSize DEF Good, Linked
    <3> QED
      BY <2>1, <3>1 DEF Consistent, Good, Accounted, Used
  <2> QED
    BY <2>8, <2>9 DEF MemoryConsistent
<1> QED
  BY <1>1, CInvAlways, PTL

\* What tool_memory_attach_to_messages replays for a message is the block the
\* model sampled for each of its calls, wherever the entries came from.
THEOREM ReplaysAreExact == Spec => []ReplaysWhatWasSampled
<1>1. ASSUME CInv PROVE ReplaysWhatWasSampled
  <2> SUFFICES ASSUME NEW i \in DOMAIN sampled, NEW j \in DOMAIN sampled, NEW d \in Attached(mem, <<i, j>>)
               PROVE  sampled[i] = d /\ sampled[j] = d
    BY DEF ReplaysWhatWasSampled
  <2>1. i \in ToSet(<<i, j>>) /\ j \in ToSet(<<i, j>>)
    BY DEF ToSet
  <2>2. \A x \in ToSet(<<i, j>>) : x \in DOMAIN mem.by_id /\ mem.by_id[x].block = d
    BY DEF Attached, Knows
  <2>3. \A x \in DOMAIN mem.by_id : Sampled(<<x, mem.by_id[x].block>>)
    BY <1>1 DEF CInv, Memory
  <2> QED
    BY <2>1, <2>2, <2>3 DEF Sampled
<1> QED
  BY <1>1, CInvAlways, PTL

\* No incomplete checkpoint and no untrue or foreign tool map is ever found
\* under a final name, wherever a store, a rewrite or the process stopped.
THEOREM CheckpointsStayComplete == Spec => []CheckpointsAreComplete
<1>1. ASSUME CInv PROVE CheckpointsAreComplete
  BY <1>1 DEF CInv, Files, TrueMap, Sampled, CheckpointsAreComplete
<1> QED
  BY <1>1, CInvAlways, PTL

\* Which steps leave the eviction, and which of them take files away.
LEMMA EvictionSteps ==
    ASSUME CInv, [Next]_vars, phase = "evict"
    PROVE  /\ phase' = "idle" => EvictDone
           /\ UNCHANGED dir \/ Evict
<1>1. CASE UNCHANGED vars
  BY <1>1 DEF vars, workerVars
<1>2. CASE Next
  BY <1>2 DEF Next, Store, WriteFile, WriteFails, Rename, Truncate, Remap, RemapFails, Flag, Scan,
              Evict, UnlinkFails, EvictDone, Load, LoadCorrupt, LoadPair, Touch, Generate, StartRestore,
              RestoreFrom, RestorePair, tool_memory_attach_to_messages, Crash, kv_cache_open, workerVars
<1> QED
  BY <1>1, <1>2

\* An eviction that ends without an I/O fault has brought the directory, tool
\* maps included, within its budget.
THEOREM EvictionEndsWithinBudget == Spec => EvictionReachesBudget
<1>1. ASSUME CInv, [Next]_vars, phase = "evict", phase' = "idle", faults = 0
      PROVE  CacheBytes <= Budget
  <2> USE <1>1 DEF CInv
  <2>1. EvictDone
    BY EvictionSteps
  <2>2. total = SumFunctionOnSet(Sizes, Readable) /\ DOMAIN list = DOMAIN dir
    BY DEF Evicting
  <2>3. CacheBytes = total
    <3>1. DOMAIN Sizes = Readable
      BY DEF Sizes
    <3> QED
      BY <2>2, <3>1 DEF CacheBytes, Sizes, SumFunction
  <2>4. CASE total <= Budget
    BY <2>3, <2>4
  <2>5. CASE DOMAIN list = {}
    <3>1. Readable = {}
      BY <2>2, <2>5 DEF Readable
    <3>2. total = 0
      BY <2>2, <3>1, SumNone
    <3> QED
      BY <2>3, <3>2, CacheConstants
  <2> QED
    BY <2>1, <2>4, <2>5 DEF EvictDone
<1> QED
  BY <1>1, CInvAlways, PTL DEF Spec, EvictionReachesBudget

\* The eviction that follows a store never deletes what was stored.
THEOREM StoredCheckpointIsKept == Spec => StoreKeepsItsCheckpoint
<1>1. ASSUME CInv, [Next]_vars, phase = "evict", protect # {}
      PROVE  protect \subseteq DOMAIN dir'
  <2> USE <1>1 DEF CInv
  <2>1. protect \subseteq DOMAIN dir
    BY DEF Evicting
  <2>2. CASE UNCHANGED dir
    BY <2>1, <2>2
  <2>3. CASE Evict
    <3>1. PICK hits \in Decayed : \E k \in Victims(hits) : dir' = Without(k)
      BY <2>3 DEF Evict
    <3>2. PICK k \in Victims(hits) : dir' = Without(k)
      BY <3>1
    <3>3. k \notin protect
      BY <2>3, VictimMeans DEF Evict
    <3> QED
      BY <2>1, <3>2, <3>3 DEF Without
  <2> QED
    BY <2>2, <2>3, EvictionSteps
<1> QED
  BY <1>1, CInvAlways, PTL DEF Spec, StoreKeepsItsCheckpoint

\* A checkpoint the running server can use goes only by eviction, by being
\* consumed, or with an I/O fault.
THEOREM UsableCheckpointsAreKept == Spec => UsableCheckpointsStay
<1>1. ASSUME CInv, [Next]_vars, NEW k \in Readable \ DOMAIN dir', Usable(dir[k])
      PROVE  phase \in {"evict", "touch"} \/ faults' > faults
  <2> SUFFICES ASSUME phase \notin {"evict", "touch"}, ~(faults' > faults) PROVE FALSE
    OBVIOUS
  <2>1. k \in DOMAIN dir /\ k \notin DOMAIN dir' /\ faults \in Nat
    BY <1>1 DEF Readable, CInv, Worker
  <2>2. ~ (faults' = faults + 1)
    BY <2>1
  <2>3. ASSUME NEW t \in Texts, Store(t) PROVE FALSE
    <3>1. dir' = (IF t \in Readable THEN Without(t) ELSE dir) /\ ~Compatible(t)
      BY <2>1, <2>3 DEF Store
    <3>2. k = t /\ t \in Readable
      BY <2>1, <3>1 DEF Without
    <3> QED
      BY <1>1, <3>1, <3>2 DEF Compatible
  <2>4. DOMAIN With(key, 0) = DOMAIN dir \cup {key} /\ \A f : DOMAIN With(key, f) = DOMAIN dir \cup {key}
    BY DEF With
  <2>5. ~ Rename
    BY <2>1, <2>4 DEF Rename
  <2>6. ~ (Truncate \/ Remap \/ RemapFails \/ Flag)
    BY <2>1 DEF Truncate, Remap, RemapFails, Flag
  <2>7. ~ UNCHANGED dir
    BY <2>1
  <2>8. ~ UNCHANGED vars
    BY <2>7 DEF vars
  <2> QED
    BY <1>1, <2>2, <2>3, <2>5, <2>6, <2>7, <2>8
       DEF Next, WriteFile, WriteFails, Scan, Evict, UnlinkFails, EvictDone, Load, LoadCorrupt, LoadPair,
           Touch, Generate, StartRestore, RestoreFrom, RestorePair, tool_memory_attach_to_messages, Crash,
           kv_cache_open
<1>2. CInv /\ [Next]_vars =>
         \A k \in Readable \ DOMAIN dir' :
             Usable(dir[k]) => phase \in {"evict", "touch"} \/ faults' > faults
  BY <1>1
<1> QED
  BY <1>2, CInvAlways, PTL DEF Spec, UsableCheckpointsStay
=============================================================================

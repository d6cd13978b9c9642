----------------------- MODULE SpeculativeDecodeProofs -----------------------
(***************************************************************************)
(* Whatever the MTP block drafts, whichever verifier runs and whichever    *)
(* GPU calls fail, the session agrees with itself and with its caller, and *)
(* the target model defines the stream: for every vocabulary, context      *)
(* size, target model, set of near ties, option record and array size.     *)
(***************************************************************************)
EXTENDS SpeculativeDecode, SequenceTheorems, FiniteSetTheorems, WellFoundedInduction, TLAPS

Symbols == Vocab \cup {"prompt", "mixed"}

\* Token x may follow n tokens: the target says so, or there is a near tie.
Says(n, x) == n \notin Ties => x = target[n]

(***************************************************************************)
(* The inductive invariant.  What the caller has been given is what the    *)
(* target says.  Between calls a valid session describes exactly that; in  *)
(* a call, the prefix it started from (base_graph) does, and each place of *)
(* the call says how far the tokens and the layers are past that prefix,   *)
(* what has been checked of the drafts, and that the prefix can be found   *)
(* again: in the tokens, and in the snapshot if there is one.              *)
(***************************************************************************)
Stream ==
    /\ out \in Seq(Vocab)
    /\ \A i \in 1..Len(out) : Says(i, out[i])
    /\ \A i \in 1..Len(out) : out[i] = Eos => pc = "idle" /\ i = Len(out)

Settled ==
    /\ checkpoint = Prompt \o out /\ graph = checkpoint /\ logits.of = checkpoint
    /\ Len(checkpoint) <= Ctx
    /\ logits.top \in Vocab /\ Says(Len(checkpoint), logits.top)

Shape ==
    call = [start |-> call.start, base_graph |-> call.base_graph, base_raw |-> call.base_raw,
            accepted |-> call.accepted, drafts |-> call.drafts, cap |-> call.cap,
            snap |-> call.snap, rows |-> call.rows, replayed |-> call.replayed,
            verified |-> call.verified, top |-> call.top]

\* The first n drafts are what the target says.
Right(n) == \A i \in 1..n : Says(call.start + i - 1, call.drafts[i])

\* What the verifier has reported.
Rows ==
    /\ call.rows \in [1..(DraftN - 1) -> Vocab]
    /\ \A i \in 1..(DraftN - 1) : Says(call.start + i, call.rows[i])

Prefix ==
    /\ Shape /\ valid
    /\ call.accepted[1] \in Vocab \ {Eos} /\ Says(Len(out) + 1, call.accepted[1])
    /\ call.base_graph = Prompt \o (out \o <<call.accepted[1]>>)
    /\ call.start = Len(out) + 2
    /\ logits.of = call.base_graph /\ logits.top = call.drafts[1]
    /\ call.snap # <<>> => call.snap[1] = call.base_graph
    /\ AtStart = call.base_graph

Drafts ==
    /\ call.drafts \in Seq(Vocab) /\ DraftN >= 1
    /\ call.cap \in Int /\ DraftN <= call.cap /\ call.cap <= AcceptedCap - 1 /\ call.start + call.cap < Ctx
    /\ \A i \in 1..(DraftN - 1) : call.drafts[i] # Eos
    /\ Right(1)
    /\ call.verified \in 0..DraftN
    /\ call.accepted = <<call.accepted[1]>> \o First(call.verified)

Place ==
    /\ pc # "sequential" => call.verified = 0
    /\ pc \in {"draft", "verify", "again", "decode2"} => checkpoint = call.base_graph
    /\ pc \in {"draft", "verify", "again"} => graph = call.base_graph
    /\ pc = "decode2" => DraftN = 2 /\ graph = After(2)
    /\ pc = "settle" /\ ~call.replayed =>
          graph = After(DraftN) /\ checkpoint = call.base_graph \o call.drafts
    /\ pc \in {"decode2", "settle", "takeback", "again"} => Rows
    /\ pc = "sequential" =>
          /\ graph = After(call.verified) /\ checkpoint = graph
          /\ Right(call.verified)
          /\ call.verified > 0 => call.top \in Vocab /\ Says(call.start + call.verified, call.top)

Fixed == target \in Targets /\ opts \in Options /\ passed_over \in BOOLEAN

Sound ==
    /\ Stream
    /\ pc = "idle" /\ valid => Settled
    /\ pc # "idle" => Prefix /\ Drafts /\ Place

IInv == Fixed /\ (~passed_over => Sound)

-----------------------------------------------------------------------------
\* A nonempty set of numbers has a least element.
LEMMA LeastElement ==
    ASSUME NEW S, S \subseteq Nat, S # {}
    PROVE  \E m \in S : \A n \in S : m <= n
<1>1. PICK m \in S : \A n \in S : ~ (<<n, m>> \in OpToRel(<, Nat))
  BY NatLessThanWellFounded, WFMin
<1>2. ASSUME NEW n \in S PROVE m <= n
  <2>1. ~ (<<n, m>> \in {ss \in Nat \X Nat : ss[1] < ss[2]})
    BY <1>1 DEF OpToRel
  <2>2. <<n, m>> \in Nat \X Nat /\ <<n, m>>[1] = n /\ <<n, m>>[2] = m
    OBVIOUS
  <2>3. ~ (n < m)
    BY <2>1, <2>2
  <2> QED
    BY <2>3
<1> QED
  BY <1>2

LEMMA MinOfTwo ==
    ASSUME NEW a \in Int, NEW b \in Int, a <= b
    PROVE  Min({a, b}) = a
BY DEF Min

LEMMA MinOfFour ==
    ASSUME NEW a \in Int, NEW b \in Int, NEW c \in Int, NEW d \in Int
    PROVE  /\ Min({a, b, c, d}) \in Int
           /\ Min({a, b, c, d}) <= c /\ Min({a, b, c, d}) <= d
<1> DEFINE S == {a, b, c, d}
<1>1. \E x \in S : \A y \in S : x <= y
  OBVIOUS
<1>2. Min(S) \in S /\ \A y \in S : Min(S) <= y
  <2> HIDE DEF S
  <2> QED
    BY <1>1 DEF Min
<1> QED
  BY <1>2

LEMMA Constants ==
    /\ Eos \in Vocab /\ Ctx \in Nat /\ AcceptedCap \in Nat
    /\ \A t \in Targets : t \in [1..Ctx -> Vocab]
    /\ \A o \in Options : o.depth \in Int
BY SpeculativeAssumption DEF OptionType

-----------------------------------------------------------------------------
\* Text that begins with the prompt has a definite continuation.
LEMMA PromptIsUnmixed ==
    ASSUME NEW q \in Seq(Vocab)
    PROVE  /\ Prompt \o q \in Seq(Symbols) /\ Len(Prompt \o q) = Len(q) + 1
           /\ ~IsPrefix(Mixed, Prompt \o q)
<1>1. q \in Seq(Symbols) /\ Len(q) \in Nat
  BY SeqMonotonic, LenProperties DEF Symbols
<1>2. Prompt \in Seq(Symbols) /\ Len(Prompt) = 1 /\ Prompt[1] = "prompt"
  BY DEF Prompt, Symbols
<1>3. /\ Prompt \o q \in Seq(Symbols) /\ Len(Prompt \o q) = Len(q) + 1
      /\ (Prompt \o q)[1] = "prompt"
  <2>1. /\ Prompt \o q \in Seq(Symbols) /\ Len(Prompt \o q) = Len(Prompt) + Len(q)
        /\ \A i \in 1..(Len(Prompt) + Len(q)) :
              (Prompt \o q)[i] = IF i <= Len(Prompt) THEN Prompt[i] ELSE q[i - Len(Prompt)]
    BY <1>1, <1>2, ConcatProperties
  <2>2. 1 \in 1..(Len(Prompt) + Len(q)) /\ 1 <= Len(Prompt)
    BY <1>1, <1>2
  <2> QED
    BY <1>1, <1>2, <2>1, <2>2
<1> DEFINE p == Prompt \o q
<1>4. p[1] = "prompt" /\ p[1] \in Symbols
  BY <1>3 DEF Symbols
<1> HIDE DEF p
<1>5. ASSUME IsPrefix(Mixed, p) PROVE FALSE
  <2>1. SubSeq(Mixed, 1, 1) = SubSeq(p, 1, 1)
    BY <1>5 DEF IsPrefix, Mixed
  <2>2. SubSeq(p, 1, 1)[1] = p[1]
    <3>1. \A i \in 1..1 : p[i] \in Symbols
      BY <1>4
    <3>2. \A i \in 1..(1 - 1 + 1) : SubSeq(p, 1, 1)[i] = p[1 + i - 1]
      BY <3>1, SubSeqProperties
    <3> QED
      BY <3>2
  <2>3. SubSeq(Mixed, 1, 1)[1] = "mixed"
    BY DEF Mixed
  <2> QED
    BY <1>4, <2>1, <2>2, <2>3
<1> QED
  BY <1>3, <1>5 DEF p

\* The kernels' answers after such a text.
LEMMA Tops ==
    ASSUME Fixed, NEW q \in Seq(Vocab), Len(q) + 1 <= Ctx, NEW p, p = Prompt \o q, NEW x
    PROVE  /\ x \in ExactTops(p) => x \in Vocab /\ x = target[Len(q) + 1]
           /\ x \in BatchTops(p) => x \in Vocab /\ Says(Len(q) + 1, x)
<1>1. Len(p) = Len(q) + 1 /\ ExactTops(p) = {target[Len(p)]}
  BY PromptIsUnmixed DEF ExactTops
<1>2. Len(q) \in Nat
  BY LenProperties
<1>3. target[Len(q) + 1] \in Vocab
  BY <1>2, Constants DEF Fixed
<1> QED
  BY <1>1, <1>3 DEF BatchTops, Says

-----------------------------------------------------------------------------
\* Sequences: what Append and SubSeq do to a text that grows at its end.
GrowsBy(S, b, d, n) ==
    /\ SubSeq(d, 1, n) \in Seq(S) /\ Len(SubSeq(d, 1, n)) = n
    /\ \A i \in 1..n : SubSeq(d, 1, n)[i] = d[i]
    /\ b \o SubSeq(d, 1, n) \in Seq(S) /\ Len(b \o SubSeq(d, 1, n)) = Len(b) + n
    /\ SubSeq(b \o SubSeq(d, 1, n), 1, Len(b)) = b
    /\ n < Len(d) => Append(b \o SubSeq(d, 1, n), d[n + 1]) = b \o SubSeq(d, 1, n + 1)
    /\ SubSeq(d, 1, 0) = <<>> /\ SubSeq(d, 1, Len(d)) = d
    /\ b \o SubSeq(d, 1, 0) = b /\ b \o SubSeq(d, 1, Len(d)) = b \o d

LEMMA Grown ==
    ASSUME NEW S, NEW b \in Seq(S), NEW d \in Seq(S), NEW n \in 0..Len(d)
    PROVE  GrowsBy(S, b, d, n)
<1>0. Len(d) \in Nat /\ Len(b) \in Nat /\ n \in Nat /\ n <= Len(d)
      /\ (\A i \in 1..Len(d) : d[i] \in S) /\ (\A i \in 1..Len(b) : b[i] \in S)
  BY LenProperties, ElementOfSeq
<1> DEFINE f == SubSeq(d, 1, n)
<1>1. f \in Seq(S) /\ Len(f) = n /\ \A i \in 1..n : f[i] = d[i]
  <2>1. \A i \in 1..n : d[i] \in S
    BY <1>0
  <2>2. /\ f \in Seq(S) /\ Len(f) = IF 1 <= n THEN n - 1 + 1 ELSE 0
        /\ \A i \in 1..(n - 1 + 1) : f[i] = d[1 + i - 1]
    BY <1>0, <2>1, SubSeqProperties
  <2> QED
    BY <1>0, <2>2
<1> HIDE DEF f
<1>2. /\ b \o f \in Seq(S) /\ Len(b \o f) = Len(b) + n
      /\ \A i \in 1..(Len(b) + n) : (b \o f)[i] = IF i <= Len(b) THEN b[i] ELSE f[i - Len(b)]
  BY <1>1, ConcatProperties
<1>3. SubSeq(b \o f, 1, Len(b)) = b
  <2>1. CASE Len(b) = 0
    <3>1. b = <<>>
      BY <2>1, EmptySeq
    <3>2. SubSeq(b \o f, 1, 0) = <<>>
      BY SubSeqEmpty
    <3> QED
      BY <2>1, <3>1, <3>2
  <2>2. CASE Len(b) > 0
    <3>1. 1 \in 1..Len(b) /\ Len(b) \in 1..Len(b)
      BY <1>0, <2>2
    <3>2. SubSeq(b \o f, 1, Len(b)) = SubSeq(b, 1, Len(b))
      BY <1>1, <3>1, SubSeqOfConcat1
    <3> QED
      BY <3>2, SubSeqFull
  <2> QED
    BY <1>0, <2>1, <2>2
<1>4. ASSUME n < Len(d) PROVE Append(b \o f, d[n + 1]) = b \o SubSeq(d, 1, n + 1)
  <2> DEFINE e == <<d[n + 1]>>
  <2>1. d[n + 1] \in S /\ e \in Seq(S)
    BY <1>0, <1>4
  <2>2. Append(b \o f, d[n + 1]) = (b \o f) \o e
    BY <1>2, <2>1, AppendIsConcat
  <2>3. (b \o f) \o e = b \o (f \o e)
    <3> HIDE DEF e
    <3> QED
      BY <1>1, <2>1, ConcatAssociative
  <2>4. SubSeq(d, 1, n + 1) = f \o e
    <3>1. 1 \in 1..Len(d) /\ n + 1 \in 1..Len(d) /\ n + 1 - 1 = n
      BY <1>0, <1>4
    <3>2. SubSeq(d, 1, n + 1) = SubSeq(d, 1, n + 1 - 1) \o <<d[n + 1]>>
      BY <3>1, SubSeqRecursiveSecond
    <3> QED
      BY <3>1, <3>2 DEF f
  <2> QED
    BY <2>2, <2>3, <2>4
<1>5. SubSeq(d, 1, 0) = <<>> /\ SubSeq(d, 1, Len(d)) = d
  BY SubSeqEmpty, SubSeqFull
<1>6. b \o <<>> = b
  BY ConcatEmptySeq
<1> QED
  BY <1>1, <1>2, <1>3, <1>4, <1>5, <1>6 DEF f, GrowsBy

LEMMA Chain ==
    ASSUME NEW S, NEW p \in Seq(S), NEW q \in Seq(S), NEW e \in Seq(S)
    PROVE  p \o (q \o e) \in Seq(S) /\ Len(p \o (q \o e)) = Len(p) + (Len(q) + Len(e))
<1>1. q \o e \in Seq(S) /\ Len(q \o e) = Len(q) + Len(e)
  BY ConcatProperties
<1>2. p \o (q \o e) \in Seq(S) /\ Len(p \o (q \o e)) = Len(p) + Len(q \o e)
  BY <1>1, ConcatProperties, SMTT(30)
<1> QED
  BY <1>1, <1>2

ChainExtends(p, q, e, f) == (p \o (q \o e)) \o f = p \o (q \o (e \o f))

LEMMA ChainGrows ==
    ASSUME NEW S, NEW p \in Seq(S), NEW q \in Seq(S), NEW e \in Seq(S), NEW f \in Seq(S)
    PROVE  ChainExtends(p, q, e, f)
<1>1. q \o e \in Seq(S)
  BY ConcatProperties
<1>2. (q \o e) \o f = q \o (e \o f)
  BY ConcatAssociative
<1>3. (p \o (q \o e)) \o f = p \o ((q \o e) \o f)
  BY <1>1, ConcatAssociative, SMTT(30)
<1> QED
  BY <1>2, <1>3 DEF ChainExtends

\* What the caller will have when the first n drafts are accepted.
Told(n) == out \o (<<call.accepted[1]>> \o First(n))

\* The texts of a call: n drafts after the prefix it started from are the
\* prompt and n + 1 tokens more than the caller has.
LEMMA Texts ==
    ASSUME Sound, pc # "idle", NEW n \in 0..DraftN
    PROVE  /\ DraftN \in Nat /\ n \in Nat /\ call.start \in Nat /\ Len(out) \in Nat
           /\ call.base_graph \in Seq(Symbols) /\ Len(call.base_graph) = call.start
           /\ First(n) \in Seq(Vocab) /\ Len(First(n)) = n /\ \A i \in 1..n : First(n)[i] = call.drafts[i]
           /\ Told(n) \in Seq(Vocab) /\ Len(Told(n)) = call.start + n - 1
           /\ After(n) = Prompt \o Told(n)
           /\ After(n) \in Seq(Symbols) /\ Len(After(n)) = call.start + n /\ call.start + n < Ctx
           /\ SubSeq(After(n), 1, call.start) = call.base_graph
           /\ n < DraftN => Append(After(n), call.drafts[n + 1]) = After(n + 1)
           /\ After(0) = call.base_graph /\ After(DraftN) = call.base_graph \o call.drafts
           /\ First(0) = <<>> /\ First(DraftN) = call.drafts
<1> DEFINE e == <<call.accepted[1]>>
           b == call.base_graph
           d == call.drafts
<1>0. /\ d \in Seq(Vocab) /\ out \in Seq(Vocab) /\ call.accepted[1] \in Vocab
      /\ b = Prompt \o (out \o e) /\ call.start = Len(out) + 2
      /\ call.cap \in Int /\ DraftN <= call.cap /\ call.start + call.cap < Ctx /\ DraftN = Len(d)
  BY DEF Sound, Stream, Prefix, Drafts, DraftN
<1>1. Vocab \subseteq Symbols /\ Len(Prompt) = 1 /\ Len(e) = 1
  BY DEF Symbols, Prompt
<1>s. out \in Seq(Vocab) /\ e \in Seq(Vocab)
  BY <1>0
<1>t. Prompt \in Seq(Symbols) /\ out \in Seq(Symbols) /\ e \in Seq(Symbols)
  <2>1. Prompt \in Seq(Symbols)
    BY DEF Symbols, Prompt
  <2> QED
    BY <1>1, <1>s, <2>1, SeqMonotonic
<1>2. d \in Seq(Symbols)
  BY <1>0, <1>1, SeqMonotonic
<1>3. /\ Len(out) \in Nat /\ DraftN \in Nat /\ n \in Nat /\ Ctx \in Nat /\ call.start \in Nat
      /\ call.start + n < Ctx /\ n \in 0..Len(d)
  <2>1. Len(out) \in Nat /\ DraftN \in Nat
    BY <1>0, LenProperties
  <2> QED
    BY <1>0, <2>1, Constants
<1>4. /\ First(n) = SubSeq(d, 1, n) /\ After(n) = b \o SubSeq(d, 1, n) /\ After(n + 1) = b \o SubSeq(d, 1, n + 1)
      /\ After(0) = b \o SubSeq(d, 1, 0) /\ After(DraftN) = b \o SubSeq(d, 1, DraftN)
      /\ First(0) = SubSeq(d, 1, 0) /\ First(DraftN) = SubSeq(d, 1, DraftN)
  BY DEF First, After
<1> HIDE DEF e, b, d
<1>5. /\ First(n) \in Seq(Vocab) /\ Len(First(n)) = n /\ \A i \in 1..n : First(n)[i] = d[i]
  <2>1. GrowsBy(Vocab, d, d, n)
    BY <1>0, <1>3, Grown
  <2> QED
    BY <1>4, <2>1 DEF GrowsBy
<1>u. First(n) \in Seq(Vocab)
  BY <1>5
<1>6. First(n) \in Seq(Symbols)
  BY <1>1, <1>5, SeqMonotonic
<1>7. b \in Seq(Symbols) /\ Len(b) = call.start
  <2>1. Prompt \o (out \o e) \in Seq(Symbols) /\ Len(Prompt \o (out \o e)) = Len(Prompt) + (Len(out) + Len(e))
    BY <1>t, Chain, SMTT(30)
  <2> QED
    BY <1>0, <1>1, <1>3, <2>1
<1>8. /\ out \o (e \o First(n)) \in Seq(Vocab)
      /\ Len(out \o (e \o First(n))) = call.start + n - 1
  <2>1. /\ out \o (e \o First(n)) \in Seq(Vocab)
        /\ Len(out \o (e \o First(n))) = Len(out) + (Len(e) + Len(First(n)))
    BY <1>s, <1>u, Chain, SMTT(30)
  <2> QED
    BY <1>0, <1>1, <1>3, <1>5, <2>1
<1>9. After(n) = Prompt \o (out \o (e \o First(n)))
  <2>1. ChainExtends(Prompt, out, e, First(n))
    BY <1>t, <1>6, ChainGrows
  <2> QED
    BY <1>0, <1>4, <2>1 DEF ChainExtends
<1>10. /\ b \o SubSeq(d, 1, n) \in Seq(Symbols) /\ Len(b \o SubSeq(d, 1, n)) = Len(b) + n
       /\ SubSeq(b \o SubSeq(d, 1, n), 1, Len(b)) = b
       /\ n < Len(d) => Append(b \o SubSeq(d, 1, n), d[n + 1]) = b \o SubSeq(d, 1, n + 1)
       /\ SubSeq(d, 1, 0) = <<>> /\ SubSeq(d, 1, Len(d)) = d
       /\ b \o SubSeq(d, 1, 0) = b /\ b \o SubSeq(d, 1, Len(d)) = b \o d
  <2>1. b \in Seq(Symbols)
    BY <1>7
  <2>2. n \in 0..Len(d)
    BY <1>3
  <2>3. GrowsBy(Symbols, b, d, n)
    BY <1>2, <2>1, <2>2, Grown
  <2> QED
    BY <2>3 DEF GrowsBy
<1>11. /\ After(n) \in Seq(Symbols) /\ Len(After(n)) = call.start + n
       /\ SubSeq(After(n), 1, call.start) = b
       /\ n < DraftN => Append(After(n), d[n + 1]) = After(n + 1)
       /\ After(0) = b /\ After(DraftN) = b \o d /\ First(0) = <<>> /\ First(DraftN) = d
  BY <1>0, <1>4, <1>7, <1>10
<1> QED
  BY <1>3, <1>5, <1>7, <1>8, <1>9, <1>11 DEF e, b, d, Told

\* The tokens of that text, one by one.
LEMMA ToldTokens ==
    ASSUME Sound, pc # "idle", NEW n \in 0..DraftN
    PROVE  /\ \A i \in 1..Len(out) : Told(n)[i] = out[i]
           /\ Told(n)[Len(out) + 1] = call.accepted[1]
           /\ \A i \in 1..n : Told(n)[Len(out) + 1 + i] = call.drafts[i]
<1>1. /\ out \in Seq(Vocab) /\ Len(out) \in Nat /\ First(n) \in Seq(Vocab) /\ Len(First(n)) = n
      /\ n \in Nat /\ \A i \in 1..n : First(n)[i] = call.drafts[i]
  BY Texts DEF Sound, Stream
<1>2. PICK o, f, a : o = out /\ f = First(n) /\ a = call.accepted[1]
  OBVIOUS
<1>3. o \in Seq(Vocab) /\ f \in Seq(Vocab) /\ a \in Vocab
  BY <1>1, <1>2 DEF Sound, Prefix
<1>4. /\ <<a>> \o f \in Seq(Vocab) /\ Len(<<a>> \o f) = 1 + Len(f)
      /\ (<<a>> \o f)[1] = a /\ \A i \in 1..Len(f) : (<<a>> \o f)[1 + i] = f[i]
  BY <1>3
<1>5. PICK r : r = <<a>> \o f
  OBVIOUS
<1>6. r \in Seq(Vocab) /\ Len(r) = 1 + Len(f) /\ r[1] = a /\ \A i \in 1..Len(f) : r[1 + i] = f[i]
  BY <1>4, <1>5
<1>7. /\ \A i \in 1..Len(o) : (o \o r)[i] = o[i]
      /\ \A i \in 1..Len(r) : (o \o r)[Len(o) + i] = r[i]
  BY <1>3, <1>6
<1>8. Told(n) = o \o r
  BY <1>2, <1>5 DEF Told
<1>9. Told(n)[Len(out) + 1] = call.accepted[1]
  BY <1>1, <1>2, <1>6, <1>7, <1>8
<1>10. ASSUME NEW i \in 1..n PROVE Told(n)[Len(out) + 1 + i] = call.drafts[i]
  <2>1. 1 + i \in 1..Len(r) /\ i \in 1..Len(f) /\ Len(o) + (1 + i) = Len(out) + 1 + i
    <3>1. Len(r) = 1 + n /\ Len(f) = n /\ Len(o) \in Nat /\ Len(o) = Len(out)
      BY <1>1, <1>2, <1>6
    <3> QED
      BY <1>1, <3>1
  <2>2. (o \o r)[Len(o) + (1 + i)] = r[1 + i]
    BY <1>7, <2>1
  <2> QED
    BY <1>1, <1>2, <1>6, <1>8, <2>1, <2>2
<1> QED
  BY <1>2, <1>7, <1>8, <1>9, <1>10

\* A call that returns with the first n drafts, all of them right, leaves a
\* stream the target defines.
LEMMA Granted ==
    ASSUME Sound, pc # "idle", NEW n \in 0..DraftN, Right(n),
           pc' = "idle", out' = Told(n), target' = target
    PROVE  Stream'
<1>1. /\ out \in Seq(Vocab) /\ Len(out) \in Nat /\ n \in Nat /\ DraftN \in Nat /\ n <= DraftN
      /\ call.start = Len(out) + 2
      /\ Told(n) \in Seq(Vocab) /\ Len(Told(n)) = call.start + n - 1
  <2>1. out \in Seq(Vocab) /\ call.start = Len(out) + 2
    BY DEF Sound, Stream, Prefix
  <2>2. DraftN \in Nat /\ Len(out) \in Nat /\ Told(n) \in Seq(Vocab) /\ Len(Told(n)) = call.start + n - 1
    BY Texts
  <2> QED
    BY <2>1, <2>2
<1>2. /\ \A i \in 1..Len(out) : Says(i, out[i]) /\ out[i] # Eos
      /\ Says(Len(out) + 1, call.accepted[1]) /\ call.accepted[1] # Eos
      /\ \A i \in 1..n : Says(call.start + i - 1, call.drafts[i])
      /\ \A i \in 1..(DraftN - 1) : call.drafts[i] # Eos
  BY DEF Sound, Stream, Prefix, Drafts, Right
<1>3. ASSUME NEW i \in 1..Len(Told(n))
      PROVE  Says(i, Told(n)[i]) /\ (Told(n)[i] = Eos => i = Len(Told(n)))
  <2>1. CASE i \in 1..Len(out)
    BY <1>1, <1>2, <2>1, ToldTokens
  <2>2. CASE i = Len(out) + 1
    BY <1>1, <1>2, <2>2, ToldTokens
  <2>3. CASE i > Len(out) + 1
    <3>1. PICK j \in 1..n : i = Len(out) + 1 + j
      <4>1. i - Len(out) - 1 \in 1..n /\ i = Len(out) + 1 + (i - Len(out) - 1)
        BY <1>1, <2>3
      <4> QED
        BY <4>1
    <3>2. Told(n)[i] = call.drafts[j]
      BY <3>1, ToldTokens
    <3>3. call.start + j - 1 = i
      BY <1>1, <3>1
    <3>4. j < DraftN \/ i = Len(Told(n))
      BY <1>1, <3>1
    <3> QED
      BY <1>1, <1>2, <3>2, <3>3, <3>4
  <2> QED
    BY <1>1, <2>1, <2>2, <2>3
<1>4. out' \in Seq(Vocab)
  BY <1>1
<1>5. (\A i \in 1..Len(out) : Says(i, out[i]))'
  BY <1>3 DEF Says
<1>6. \A i \in 1..Len(out') : out'[i] = Eos => pc' = "idle" /\ i = Len(out')
  BY <1>3
<1> QED
  BY <1>4, <1>5, <1>6 DEF Stream

LEMMA Returned ==
    ASSUME Sound, pc # "idle", NEW n \in 0..DraftN, Right(n),
           pc' = "idle", out' = Told(n), target' = target,
           checkpoint' = After(n), graph' = After(n), logits'.of = After(n),
           logits'.top \in Vocab, Says(call.start + n, logits'.top)
    PROVE  Sound'
<1>1. Stream'
  BY Granted
<1>2. /\ After(n) = Prompt \o Told(n) /\ Len(After(n)) = call.start + n /\ call.start + n < Ctx
      /\ call.start \in Nat /\ n \in Nat /\ Ctx \in Nat
  BY Texts, Constants
<1>3. Prompt' = Prompt
  BY DEF Prompt
<1>4. Says(Len(checkpoint), logits.top)'
  BY <1>2 DEF Says
<1>5. Settled'
  BY <1>2, <1>3, <1>4 DEF Settled
<1> QED
  BY <1>1, <1>5 DEF Sound

\* A call that fails leaves what the caller has, and a session to be renewed.
LEMMA Failed ==
    ASSUME Sound, ReturnError, target' = target
    PROVE  Sound'
<1>1. Stream'
  BY DEF Sound, Stream, ReturnError, Says
<1> QED
  BY <1>1 DEF Sound, ReturnError

\* Accept grants the first n drafts when they are right, and there is room.
LEMMA Accepted ==
    ASSUME Sound, pc # "idle", pc # "sequential", NEW n \in 1..DraftN, Right(n),
           NEW top \in Vocab, Says(call.start + n, top), target' = target,
           graph' = After(n), Accept(After(n), n, Logits(After(n), top))
    PROVE  Sound'
<1>1. n \in 0..DraftN /\ n \in Int /\ AcceptedCap - 1 \in Int /\ n <= AcceptedCap - 1
  <2>1. call.cap \in Int /\ DraftN <= call.cap /\ call.cap <= AcceptedCap - 1
    BY DEF Sound, Drafts
  <2>2. DraftN \in Nat
    BY Texts DEF Sound, Drafts
  <2> QED
    BY <2>1, <2>2, Constants
<1>2. Min({n, AcceptedCap - 1}) = n
  BY <1>1, MinOfTwo
<1>3. call.accepted = <<call.accepted[1]>>
  <2>1. call.accepted = <<call.accepted[1]>> \o First(0)
    BY DEF Sound, Drafts, Place
  <2>2. First(0) = <<>>
    BY <1>1, Texts
  <2>3. call.accepted[1] \in Vocab
    BY DEF Sound, Prefix
  <2> QED
    BY <2>1, <2>2, <2>3
<1>4. out' = Told(n) /\ pc' = "idle"
  BY <1>2, <1>3 DEF Accept, Return, Told
<1>5. checkpoint' = After(n) /\ logits' = Logits(After(n), top)
  BY DEF Accept
<1>6. logits'.of = After(n) /\ logits'.top = top
  BY <1>5 DEF Logits
<1> QED
  BY <1>1, <1>4, <1>5, <1>6, Returned

\* The verifier's rows decide how many drafts are right.
LEMMA CommittedDrafts ==
    ASSUME Sound, pc # "idle", Rows
    PROVE  commit_drafts \in 1..DraftN /\ Right(commit_drafts)
<1>1. DraftN \in Nat /\ DraftN >= 1 /\ call.start \in Nat
  <2>1. 0 \in 0..DraftN
    BY LenProperties DEF Sound, Drafts, DraftN
  <2> QED
    BY <2>1, Texts DEF Sound, Drafts
<1> DEFINE S == {n \in 1..DraftN : n = DraftN \/ call.rows[n] # call.drafts[n + 1]}
<1>2. DraftN \in S /\ S \subseteq Nat
  BY <1>1
<1>3. PICK m \in S : \A n \in S : m <= n
  <2> HIDE DEF S
  <2> QED
    BY <1>2, LeastElement
<1>4. \A i \in 1..(m - 1) : call.rows[i] = call.drafts[i + 1]
  <2>1. ASSUME NEW i \in 1..(m - 1) PROVE call.rows[i] = call.drafts[i + 1]
    <3>1. m \in 1..DraftN
      BY <1>3
    <3>2. i \in 1..DraftN /\ ~(m <= i)
      BY <1>1, <3>1
    <3>3. i \notin S
      BY <1>3, <3>2
    <3> QED
      BY <3>2, <3>3
  <2> QED
    BY <2>1
<1>5. m < DraftN => call.rows[m] # call.drafts[m + 1]
  BY <1>1, <1>3
<1>6. /\ commit_drafts \in 1..DraftN
      /\ \A i \in 1..(commit_drafts - 1) : call.rows[i] = call.drafts[i + 1]
  <2>1. m \in 1..DraftN
    BY <1>3
  <2> QED
    BY <1>4, <1>5, <2>1 DEF commit_drafts
<1>7. PICK c : c = commit_drafts
  OBVIOUS
<1>8. ASSUME NEW i \in 1..c PROVE Says(call.start + i - 1, call.drafts[i])
  <2>1. CASE i = 1
    BY <2>1 DEF Sound, Drafts, Right
  <2>2. CASE i > 1
    <3>1. PICK j \in 1..(c - 1) : i = j + 1
      <4>1. i - 1 \in 1..(c - 1) /\ i = (i - 1) + 1
        BY <1>6, <1>7, <2>2
      <4> QED
        BY <4>1
    <3>2. call.drafts[i] = call.rows[j]
      BY <1>6, <1>7, <3>1
    <3>3. j \in 1..(DraftN - 1) /\ call.start + i - 1 = call.start + j
      BY <1>1, <1>6, <1>7, <3>1
    <3>4. Says(call.start + j, call.rows[j])
      BY <3>3 DEF Rows
    <3> QED
      BY <3>2, <3>3, <3>4
  <2> QED
    BY <1>6, <1>7, <2>1, <2>2
<1> QED
  BY <1>6, <1>7, <1>8 DEF Right

\* A step inside a call that leaves its prefix, drafts and count alone.
Keeps ==
    /\ Shape' /\ call'.start = call.start /\ call'.base_graph = call.base_graph
    /\ call'.accepted = call.accepted /\ call'.drafts = call.drafts /\ call'.cap = call.cap
    /\ call'.verified = call.verified
    /\ call'.snap = call.snap \/ call'.snap[1] = call.base_graph

LEMMA Kept ==
    ASSUME Sound, pc # "idle", pc' # "idle", Keeps, valid' = valid, logits' = logits,
           out' = out, target' = target, SubSeq(checkpoint', 1, call.start) = call.base_graph
    PROVE  Stream' /\ Prefix' /\ Drafts'
<1>1. Stream'
  BY DEF Sound, Stream, Says
<1>2. AtStart' = call'.base_graph
  BY DEF AtStart, Keeps
<1>3. Says(Len(out) + 1, call.accepted[1])' /\ Prompt' = Prompt
  BY DEF Sound, Prefix, Says, Keeps, Prompt
<1>4. call'.snap # <<>> => call'.snap[1] = call'.base_graph
  BY DEF Sound, Prefix, Keeps
<1>5. Prefix'
  <2>1. call'.base_graph = Prompt \o (out \o <<call.accepted[1]>>) /\ call'.start = Len(out) + 2
    BY DEF Sound, Prefix, Keeps
  <2>2. logits.of = call.base_graph /\ logits.top = call.drafts[1] /\ valid /\ call.accepted[1] \in Vocab \ {Eos}
    BY DEF Sound, Prefix
  <2> QED
    BY <1>2, <1>3, <1>4, <2>1, <2>2 DEF Prefix, Keeps
<1>6. DraftN' = DraftN /\ (\A n : First(n)' = First(n)) /\ call'.drafts = call.drafts /\ call'.verified = call.verified
      /\ call'.start = call.start /\ call'.accepted = call.accepted /\ call'.cap = call.cap
  BY DEF Keeps, DraftN, First
<1>7. First(call.verified)' = First(call.verified)
  BY <1>6 DEF First
<1>8. Right(1)'
  <2>1. Right(1)
    BY DEF Sound, Drafts
  <2> QED
    BY <1>6, <2>1 DEF Right, Says
<1>9. Drafts'
  BY <1>6, <1>7, <1>8 DEF Sound, Drafts
<1> QED
  BY <1>1, <1>5, <1>9

LEMMA Untouched ==
    ASSUME Sound, pc # "idle", UNCHANGED call
    PROVE  Keeps
BY DEF Sound, Prefix, Shape, Keeps

\* Changing one field of the call leaves the others.
LEMMA SnapSet ==
    ASSUME Shape, NEW x, call' = [call EXCEPT !.snap = x], x[1] = call.base_graph
    PROVE  Keeps /\ call'.snap = x /\ call'.replayed = call.replayed
BY DEF Shape, Keeps

LEMMA RowsSet ==
    ASSUME Shape, NEW x, call' = [call EXCEPT !.rows = x]
    PROVE  Keeps /\ call'.rows = x /\ call'.snap = call.snap /\ call'.replayed = call.replayed
BY DEF Shape, Keeps

LEMMA ReplayedSet ==
    ASSUME Shape, NEW x, call' = [call EXCEPT !.replayed = x]
    PROVE  Keeps /\ call'.rows = call.rows /\ call'.snap = call.snap /\ call'.replayed = x
BY DEF Shape, Keeps

LEMMA KeptTexts ==
    ASSUME Sound, pc # "idle", Keeps, target' = target
    PROVE  /\ DraftN' = DraftN /\ After(0)' = After(0) /\ After(2)' = After(2)
           /\ After(DraftN)' = After(DraftN)
           /\ call'.base_graph = call.base_graph /\ call'.drafts = call.drafts /\ call'.verified = call.verified
           /\ (call'.rows = call.rows /\ Rows => Rows')
<1>1. /\ call'.base_graph = call.base_graph /\ call'.drafts = call.drafts
      /\ call'.verified = call.verified /\ call'.start = call.start
  BY DEF Keeps
<1>2. DraftN' = DraftN
  BY <1>1 DEF DraftN
<1>3. After(0)' = After(0) /\ After(2)' = After(2) /\ After(DraftN)' = After(DraftN)
  BY <1>1, <1>2 DEF After, First
<1>4. ASSUME call'.rows = call.rows, Rows PROVE Rows'
  BY <1>1, <1>2, <1>4 DEF Rows, Says
<1> QED
  BY <1>1, <1>2, <1>3, <1>4

\* What a call knows of its prefix wherever it stands.
LEMMA Standing ==
    ASSUME Sound, pc # "idle"
    PROVE  /\ Shape /\ AtStart = call.base_graph /\ After(0) = call.base_graph
           /\ SubSeq(call.base_graph, 1, call.start) = call.base_graph
           /\ DraftN \in Nat /\ DraftN >= 1 /\ Right(0) /\ Right(1)
           /\ pc # "sequential" => call.verified = 0
           /\ have_frontier => call.snap[1] = call.base_graph
<1>1. DraftN \in Nat /\ DraftN >= 1 /\ 0 \in 0..DraftN
  BY LenProperties DEF Sound, Drafts, DraftN
<1>2. After(0) = call.base_graph /\ SubSeq(After(0), 1, call.start) = call.base_graph
  BY <1>1, Texts
<1>3. Right(0)
  BY DEF Right
<1> QED
  BY <1>1, <1>2, <1>3 DEF Sound, Prefix, Drafts, Place, have_frontier

\* The exact answer after n drafts, and the batch's.
LEMMA CallTops ==
    ASSUME Fixed, Sound, pc # "idle", NEW n \in 0..DraftN, NEW x
    PROVE  /\ x \in ExactTops(After(n)) => x \in Vocab /\ Says(call.start + n, x)
           /\ x \in BatchTops(After(n)) => x \in Vocab /\ Says(call.start + n, x)
<1>1. /\ Told(n) \in Seq(Vocab) /\ Len(Told(n)) = call.start + n - 1 /\ After(n) = Prompt \o Told(n)
      /\ call.start + n < Ctx /\ call.start \in Nat /\ n \in Nat
  BY Texts
<1>2. Len(Told(n)) + 1 = call.start + n /\ Len(Told(n)) + 1 <= Ctx
  <2>1. Ctx \in Nat
    BY Constants
  <2> QED
    BY <1>1, <2>1
<1>3. /\ x \in ExactTops(After(n)) => x \in Vocab /\ x = target[Len(Told(n)) + 1]
      /\ x \in BatchTops(After(n)) => x \in Vocab /\ Says(Len(Told(n)) + 1, x)
  BY <1>1, <1>2, Tops
<1> QED
  BY <1>2, <1>3 DEF Says

\* A failed verifier may leave any layers behind, but the prefix is in the tokens.
LEMMA GivesUp ==
    ASSUME Sound, pc \notin {"idle", "sequential"}, pc' = "giveup",
           UNCHANGED <<valid, logits, call, out>>, target' = target,
           SubSeq(checkpoint', 1, call.start) = call.base_graph
    PROVE  Sound'
<1>1. Keeps
  BY Untouched
<1>2. Stream' /\ Prefix' /\ Drafts'
  BY <1>1, Kept
<1>3. call'.verified = 0
  BY Standing
<1>4. Place'
  BY <1>3 DEF Place
<1> QED
  BY <1>2, <1>4 DEF Sound

-----------------------------------------------------------------------------
\* The steps of a call, one by one.
LEMMA FrontierSnapshot ==
    ASSUME Sound, spec_frontier_snapshot
    PROVE  Sound'
<1>1. /\ pc = "draft" /\ pc' \in {"verify", "sequential"}
      /\ UNCHANGED <<checkpoint, valid, logits, graph, out>> /\ target' = target
      /\ call' = [call EXCEPT !.snap = <<graph, mtp_n_raw>>] \/ UNCHANGED call
  BY DEF spec_frontier_snapshot, session, fixed
<1>2. checkpoint = call.base_graph /\ graph = call.base_graph
  BY <1>1 DEF Sound, Place
<1>3. Keeps
  <2>1. CASE call' = [call EXCEPT !.snap = <<graph, mtp_n_raw>>]
    BY <1>1, <1>2, <2>1, Standing, SnapSet
  <2>2. CASE UNCHANGED call
    BY <1>1, <2>2, Untouched
  <2> QED
    BY <1>1, <2>1, <2>2
<1>4. Stream' /\ Prefix' /\ Drafts'
  BY <1>1, <1>2, <1>3, Standing, Kept
<1>5. /\ call'.verified = 0 /\ checkpoint' = call'.base_graph /\ graph' = call'.base_graph
      /\ After(0)' = call'.base_graph
  BY <1>1, <1>2, <1>3, Standing, KeptTexts
<1>6. Right(0)'
  BY DEF Right
<1>7. After(call.verified)' = call'.base_graph /\ Right(call.verified)'
  BY <1>5, <1>6 DEF After, First, Right
<1>8. Place'
  <2>1. CASE pc' = "verify"
    BY <1>5, <2>1 DEF Place
  <2>2. CASE pc' = "sequential"
    <3>1. ~(call'.verified > 0)
      BY <1>5
    <3> QED
      BY <1>5, <1>7, <2>2, <3>1 DEF Place
  <2> QED
    BY <1>1, <2>1, <2>2
<1> QED
  BY <1>1, <1>4, <1>8 DEF Sound

LEMMA Verified ==
    ASSUME Fixed, Sound, Verify
    PROVE  Sound'
<1>1. PICK rows \in [1..(DraftN - 1) -> Vocab] :
          /\ \A i \in DOMAIN rows :
                rows[i] \in IF use_decode2_exact THEN ExactTops(After(i)) ELSE BatchTops(After(i))
          /\ call' = [call EXCEPT !.rows = rows]
  BY DEF Verify
<1>2. /\ pc = "verify" /\ graph' = After(DraftN) /\ target' = target
      /\ UNCHANGED <<valid, logits, out>>
      /\ \/ use_decode2_exact /\ pc' = "decode2" /\ UNCHANGED checkpoint
         \/ ~use_decode2_exact /\ pc' = "settle" /\ checkpoint' = checkpoint \o call.drafts
  BY DEF Verify, fixed
<1>3. checkpoint = call.base_graph
  BY <1>2 DEF Sound, Place
<1>4. Keeps /\ call'.rows = rows /\ call'.replayed = call.replayed
  BY <1>1, <1>2, Standing, RowsSet
<1>5. DraftN \in 0..DraftN /\ DraftN \in Nat
  BY <1>2, Standing
<1>6. /\ After(DraftN) = call.base_graph \o call.drafts
      /\ SubSeq(After(DraftN), 1, call.start) = call.base_graph
  BY <1>2, <1>5, Texts
<1>7. SubSeq(checkpoint', 1, call.start) = call.base_graph
  BY <1>2, <1>3, <1>6, Standing
<1>8. Stream' /\ Prefix' /\ Drafts'
  BY <1>2, <1>4, <1>7, Kept
<1>9. ASSUME NEW i \in 1..(DraftN - 1) PROVE Says(call.start + i, rows[i])
  <2>1. i \in 0..DraftN /\ i \in DOMAIN rows
    BY <1>1, <1>5
  <2>2. rows[i] \in ExactTops(After(i)) \/ rows[i] \in BatchTops(After(i))
    BY <1>1, <2>1
  <2> QED
    BY <1>2, <2>1, <2>2, CallTops
<1>10. /\ DraftN' = DraftN /\ call'.start = call.start /\ call'.base_graph = call.base_graph
       /\ call'.drafts = call.drafts /\ call'.verified = 0
       /\ After(DraftN)' = After(DraftN) /\ After(2)' = After(2)
  BY <1>2, <1>4, Standing, KeptTexts DEF Keeps
<1>11. Rows'
  BY <1>1, <1>2, <1>4, <1>9, <1>10 DEF Rows, Says
<1>12. Place'
  <2>1. CASE pc' = "decode2"
    <3>1. DraftN = 2 /\ checkpoint' = checkpoint
      BY <1>2, <2>1 DEF use_decode2_exact
    <3> QED
      BY <1>2, <1>3, <1>10, <1>11, <2>1, <3>1 DEF Place
  <2>2. CASE pc' = "settle"
    <3>1. checkpoint' = checkpoint \o call.drafts
      BY <1>2, <2>2
    <3> QED
      BY <1>2, <1>3, <1>10, <1>11, <2>2, <3>1 DEF Place
  <2> QED
    BY <1>2, <2>1, <2>2
<1> QED
  BY <1>2, <1>8, <1>12 DEF Sound

LEMMA VerifierFailed ==
    ASSUME Sound, VerifyFails
    PROVE  Sound'
<1>1. /\ pc = "verify" /\ pc' = "giveup" /\ target' = target /\ UNCHANGED <<valid, logits, call, out>>
      /\ checkpoint' = checkpoint \/ checkpoint' = checkpoint \o call.drafts
  BY DEF VerifyFails, fixed
<1>2. checkpoint = call.base_graph
  BY <1>1 DEF Sound, Place
<1>3. DraftN \in 0..DraftN
  BY <1>1, Standing
<1>4. SubSeq(call.base_graph \o call.drafts, 1, call.start) = call.base_graph
  BY <1>1, <1>3, Texts
<1>5. SubSeq(checkpoint', 1, call.start) = call.base_graph
  BY <1>1, <1>2, <1>4, Standing
<1> QED
  BY <1>1, <1>5, GivesUp

LEMMA MarginSkipped ==
    ASSUME Fixed, Sound, MarginSkip
    PROVE  Sound'
<1>1. pc = "draft" /\ target' = target
  BY DEF MarginSkip, fixed
<1>2. checkpoint = call.base_graph /\ graph = call.base_graph
  BY <1>1 DEF Sound, Place
<1>3. 0 \in 0..DraftN /\ 1 \in 0..DraftN /\ 1 \in 1..DraftN /\ 0 < DraftN /\ Right(1)
  BY <1>1, Standing
<1>4. CASE /\ graph' = Append(graph, call.drafts[1])
           /\ \E top \in ExactTops(graph') : Accept(checkpoint \o First(1), 1, Logits(graph', top))
  <2>1. Append(After(0), call.drafts[0 + 1]) = After(0 + 1)
    BY <1>1, <1>3, Texts
  <2>2. graph' = After(1)
    BY <1>1, <1>2, <1>4, <2>1, Standing
  <2>3. checkpoint \o First(1) = After(1)
    BY <1>2 DEF After
  <2>4. PICK top \in ExactTops(After(1)) : Accept(After(1), 1, Logits(After(1), top))
    BY <1>4, <2>2, <2>3
  <2>5. top \in Vocab /\ Says(call.start + 1, top)
    BY <1>1, <1>3, CallTops
  <2> QED
    BY <1>1, <1>3, <2>2, <2>4, <2>5, Accepted
<1>5. CASE ReturnError
  BY <1>1, <1>5, Failed
<1> QED
  BY <1>4, <1>5 DEF MarginSkip

LEMMA TwoAccepted ==
    ASSUME Fixed, Sound, Decode2Accepts
    PROVE  Sound'
<1>1. /\ pc = "decode2" /\ target' = target /\ graph' = graph /\ call.rows[1] = call.drafts[2]
      /\ \E top \in ExactTops(graph) : Accept(checkpoint \o call.drafts, 2, Logits(graph, top))
  BY DEF Decode2Accepts, fixed
<1>2. checkpoint = call.base_graph /\ graph = After(2) /\ DraftN = 2 /\ Rows
  BY <1>1 DEF Sound, Place
<1>3. 2 \in 0..DraftN /\ 2 \in 1..DraftN /\ After(2) = call.base_graph \o call.drafts
  <2>1. 2 \in 0..DraftN /\ 2 \in 1..DraftN
    BY <1>2
  <2>2. After(DraftN) = call.base_graph \o call.drafts
    BY <1>1, <2>1, Texts
  <2> QED
    BY <1>2, <2>1, <2>2
<1>4. Right(2)
  <2>1. Says(call.start + 1, call.rows[1])
    BY <1>2 DEF Rows
  <2>2. Says(call.start + 1 - 1, call.drafts[1])
    BY <1>1, Standing DEF Right
  <2>3. call.start \in Nat
    BY <1>1, <1>3, Texts
  <2>4. call.start + 2 - 1 = call.start + 1
    BY <2>3
  <2>5. Says(call.start + 2 - 1, call.drafts[2])
    BY <1>1, <2>1, <2>4
  <2>6. \A i \in 1..2 : i = 1 \/ i = 2
    OBVIOUS
  <2> QED
    BY <2>2, <2>5, <2>6 DEF Right
<1>5. PICK top \in ExactTops(After(2)) : Accept(After(2), 2, Logits(After(2), top))
  BY <1>1, <1>2, <1>3
<1>6. top \in Vocab /\ Says(call.start + 2, top)
  BY <1>1, <1>3, CallTops
<1> QED
  BY <1>1, <1>2, <1>3, <1>4, <1>5, <1>6, Accepted

\* The prefix captured after the first draft is committed with its row.
LEMMA FirstCommitted ==
    ASSUME Sound, pc \notin {"idle", "sequential"}, Rows, DraftN = 2, target' = target,
           spec_frontier_commit_prefix1, Accept(AtStart \o First(1), 1, Logits(After(1), call.rows[1]))
    PROVE  Sound'
<1>1. 1 \in 1..DraftN /\ Right(1) /\ 1 \in 1..(DraftN - 1)
  BY Standing
<1>2. AtStart \o First(1) = After(1)
  BY Standing DEF After
<1>3. call.rows[1] \in Vocab /\ Says(call.start + 1, call.rows[1])
  BY <1>1 DEF Rows
<1>4. graph' = After(1)
  BY DEF spec_frontier_commit_prefix1
<1> QED
  BY <1>1, <1>2, <1>3, <1>4, Accepted

\* The tokens of the start, cut again or followed by drafts, keep the prefix.
LEMMA StartKept ==
    ASSUME Sound, pc # "idle", NEW n \in 0..DraftN
    PROVE  /\ SubSeq(AtStart, 1, call.start) = call.base_graph
           /\ SubSeq(AtStart \o First(n), 1, call.start) = call.base_graph
           /\ AtStart \o First(n) = After(n)
BY Standing, Texts DEF After

LEMMA TwoCut ==
    ASSUME Sound, Decode2CommitsPrefix1
    PROVE  Sound'
<1>1. pc = "decode2" /\ target' = target
  BY DEF Decode2CommitsPrefix1, fixed
<1>2. DraftN = 2 /\ Rows
  BY <1>1 DEF Sound, Place
<1>3. CASE /\ spec_frontier_commit_prefix1
           /\ Accept(AtStart \o First(1), 1, Logits(After(1), call.rows[1]))
  BY <1>1, <1>2, <1>3, FirstCommitted
<1>4. CASE checkpoint' = AtStart /\ pc' = "giveup" /\ UNCHANGED <<valid, logits, call, out>>
  <2>1. 0 \in 0..DraftN
    BY <1>2
  <2>2. SubSeq(checkpoint', 1, call.start) = call.base_graph
    BY <1>1, <1>4, <2>1, StartKept
  <2> QED
    BY <1>1, <1>4, <2>2, GivesUp
<1> QED
  BY <1>3, <1>4 DEF Decode2CommitsPrefix1

LEMMA PrefixCommitted ==
    ASSUME Sound, CommitPrefix1
    PROVE  Sound'
<1>1. pc = "settle" /\ target' = target /\ DraftN = 2
  BY DEF CommitPrefix1, Settling, fixed
<1>2. Rows
  BY <1>1 DEF Sound, Place
<1>3. CASE /\ spec_frontier_commit_prefix1
           /\ Accept(AtStart \o First(1), 1, Logits(After(1), call.rows[1]))
  BY <1>1, <1>2, <1>3, FirstCommitted
<1>4. CASE checkpoint' = AtStart /\ pc' = "giveup" /\ UNCHANGED <<valid, logits, call, out>>
  <2>1. 0 \in 0..DraftN
    BY <1>1
  <2>2. SubSeq(checkpoint', 1, call.start) = call.base_graph
    BY <1>1, <1>4, <2>1, StartKept
  <2> QED
    BY <1>1, <1>4, <2>2, GivesUp
<1> QED
  BY <1>3, <1>4 DEF CommitPrefix1

LEMMA Replayed ==
    ASSUME Fixed, Sound, ReplayExactly
    PROVE  Sound'
<1>1. pc = "settle" /\ target' = target /\ have_frontier
  BY DEF ReplayExactly, fixed
<1>2. Rows
  BY <1>1 DEF Sound, Place
<1>3. PICK c : c = commit_drafts
  OBVIOUS
<1>4. c \in 1..DraftN /\ c \in 0..DraftN /\ Right(c)
  BY <1>1, <1>2, <1>3, CommittedDrafts, Standing
<1>5. CASE /\ graph' = call.snap[1] \o First(commit_drafts)
           /\ \E top \in ExactTops(graph') :
                 Accept(AtStart \o First(commit_drafts), commit_drafts, Logits(graph', top))
  <2>1. graph' = After(c) /\ AtStart \o First(c) = After(c)
    BY <1>1, <1>3, <1>5, Standing DEF After
  <2>2. PICK top \in ExactTops(After(c)) : Accept(After(c), c, Logits(After(c), top))
    BY <1>3, <1>5, <2>1
  <2>3. top \in Vocab /\ Says(call.start + c, top)
    BY <1>1, <1>4, CallTops
  <2> QED
    BY <1>1, <1>4, <2>1, <2>2, <2>3, Accepted
<1>6. CASE /\ \E n \in 0..(commit_drafts - 1) : checkpoint' = AtStart \o First(n)
           /\ call' = [call EXCEPT !.replayed = TRUE]
           /\ UNCHANGED <<valid, logits, draft, pc, out>>
  <2>1. PICK n \in 0..(c - 1) : checkpoint' = AtStart \o First(n)
    BY <1>3, <1>6
  <2>2. n \in 0..DraftN
    BY <1>1, <1>4, Standing
  <2>3. SubSeq(checkpoint', 1, call.start) = call.base_graph
    BY <1>1, <2>1, <2>2, StartKept
  <2>4. Keeps /\ call'.rows = call.rows /\ call'.replayed
    BY <1>1, <1>6, Standing, ReplayedSet
  <2>5. Stream' /\ Prefix' /\ Drafts'
    BY <1>1, <1>6, <2>3, <2>4, Kept
  <2>6. Rows' /\ call'.verified = 0
    BY <1>1, <1>2, <2>4, Standing, KeptTexts
  <2>7. Place'
    BY <1>1, <1>6, <2>4, <2>6 DEF Place
  <2> QED
    BY <1>1, <1>6, <2>5, <2>7 DEF Sound
<1> QED
  BY <1>5, <1>6 DEF ReplayExactly

LEMMA AllAccepted ==
    ASSUME Fixed, Sound, AcceptAll
    PROVE  ~passed_over' => Sound'
<1> SUFFICES ASSUME ~passed_over' PROVE Sound'
  OBVIOUS
<1>1. /\ pc = "settle" /\ target' = target /\ graph' = graph /\ commit_drafts = DraftN /\ ~call.replayed
      /\ \E top \in BatchTops(After(DraftN)) : Accept(checkpoint, DraftN, Logits(After(DraftN), top))
  BY DEF AcceptAll, Settling, fixed
<1>2. Rows /\ graph = After(DraftN) /\ checkpoint = call.base_graph \o call.drafts
  BY <1>1 DEF Sound, Place
<1>3. PICK n : n = DraftN
  OBVIOUS
<1>4. n \in 1..DraftN /\ n \in 0..DraftN /\ Right(n)
  BY <1>1, <1>2, <1>3, CommittedDrafts, Standing
<1>5. After(n) = call.base_graph \o call.drafts
  BY <1>1, <1>3, <1>4, Texts
<1>6. PICK top \in BatchTops(After(n)) : Accept(After(n), n, Logits(After(n), top))
  BY <1>1, <1>2, <1>3, <1>5
<1>7. top \in Vocab /\ Says(call.start + n, top)
  BY <1>1, <1>4, CallTops
<1>8. graph' = After(n)
  BY <1>1, <1>2, <1>3
<1> QED
  BY <1>1, <1>4, <1>6, <1>7, <1>8, Accepted

LEMMA RowNotRead ==
    ASSUME Sound, RowUnreadable
    PROVE  Sound'
<1>1. /\ pc = "settle" /\ pc' = "takeback" /\ target' = target
      /\ UNCHANGED <<checkpoint, valid, logits, graph, call, out>>
  BY DEF RowUnreadable, Settling, fixed, session
<1>2. Rows
  BY <1>1 DEF Sound, Place
<1>3. Keeps
  BY <1>1, Untouched
<1>4. SubSeq(checkpoint', 1, call.start) = call.base_graph
  BY <1>1, Standing DEF AtStart
<1>5. Stream' /\ Prefix' /\ Drafts'
  BY <1>1, <1>3, <1>4, Kept
<1>6. Rows' /\ call'.verified = 0
  BY <1>1, <1>2, <1>3, Standing, KeptTexts
<1>7. Place'
  BY <1>1, <1>6 DEF Place
<1> QED
  BY <1>1, <1>5, <1>7 DEF Sound

LEMMA TakenBack ==
    ASSUME Sound, TakeBack \/ TakeBackFails
    PROVE  Sound'
<1>1. /\ pc \in {"settle", "takeback"} /\ target' = target /\ checkpoint' = AtStart
      /\ UNCHANGED <<valid, logits, call, out>>
  BY DEF TakeBack, TakeBackFails, TakingBack, Settling, fixed
<1>2. 0 \in 0..DraftN
  BY <1>1, Standing
<1>3. SubSeq(checkpoint', 1, call.start) = call.base_graph /\ checkpoint' = call.base_graph
  BY <1>1, <1>2, Standing, StartKept
<1>4. CASE pc' = "giveup"
  BY <1>1, <1>3, <1>4, GivesUp
<1>5. CASE have_frontier /\ graph' = call.snap[1] /\ pc' = "again"
  <2>1. Rows
    BY <1>1 DEF Sound, Place
  <2>2. Keeps
    BY <1>1, Untouched
  <2>3. Stream' /\ Prefix' /\ Drafts'
    BY <1>1, <1>3, <1>5, <2>2, Kept
  <2>4. Rows' /\ call'.verified = 0
    BY <1>1, <2>1, <2>2, Standing, KeptTexts
  <2>5. graph' = call'.base_graph /\ checkpoint' = call'.base_graph
    BY <1>1, <1>3, <1>5, Standing
  <2>6. Place'
    BY <1>5, <2>4, <2>5 DEF Place
  <2> QED
    BY <1>5, <2>3, <2>6 DEF Sound
<1> QED
  BY <1>4, <1>5 DEF TakeBack, TakeBackFails, spec_frontier_restore

LEMMA EvaluatedAgain ==
    ASSUME Fixed, Sound, EvaluateAgain
    PROVE  Sound'
<1>1. pc = "again" /\ target' = target
  BY DEF EvaluateAgain, fixed
<1>2. Rows /\ checkpoint = call.base_graph /\ graph = call.base_graph
  BY <1>1 DEF Sound, Place
<1>3. PICK c : c = commit_drafts
  OBVIOUS
<1>4. c \in 1..DraftN /\ c \in 0..DraftN /\ Right(c)
  BY <1>1, <1>2, <1>3, CommittedDrafts, Standing
<1>5. CASE /\ graph' = graph \o First(commit_drafts)
           /\ \E top \in IF DraftN = 2 /\ commit_drafts = 1
                         THEN ExactTops(graph') ELSE BatchTops(graph') :
                 Accept(checkpoint \o First(commit_drafts), commit_drafts, Logits(graph', top))
  <2>1. graph' = After(c) /\ checkpoint \o First(c) = After(c)
    BY <1>2, <1>3, <1>5 DEF After
  <2>2. PICK top : /\ top \in ExactTops(After(c)) \/ top \in BatchTops(After(c))
                   /\ Accept(After(c), c, Logits(After(c), top))
    BY <1>3, <1>5, <2>1
  <2>3. top \in Vocab /\ Says(call.start + c, top)
    BY <1>1, <1>4, <2>2, CallTops
  <2> QED
    BY <1>1, <1>4, <2>1, <2>2, <2>3, Accepted
<1>6. CASE pc' = "giveup" /\ UNCHANGED <<checkpoint, valid, logits, mtp_n_raw, draft, call, out>>
  <2>1. SubSeq(checkpoint', 1, call.start) = call.base_graph
    BY <1>1, <1>2, <1>6, Standing
  <2> QED
    BY <1>1, <1>6, <2>1, GivesUp
<1> QED
  BY <1>5, <1>6 DEF EvaluateAgain

LEMMA GivenUp ==
    ASSUME Sound, GiveUp
    PROVE  ~passed_over' => Sound'
<1> SUFFICES ASSUME ~passed_over' PROVE Sound'
  OBVIOUS
<1>1. pc = "giveup" /\ target' = target /\ checkpoint' = AtStart /\ logits' = logits
  BY DEF GiveUp, fixed
<1>2. CASE ReturnError
  BY <1>1, <1>2, Failed
<1>3. CASE /\ have_frontier /\ graph' = call.snap[1] /\ pc' = "sequential"
           /\ UNCHANGED <<valid, call, out>>
  <2>1. 0 \in 0..DraftN
    BY <1>1, Standing
  <2>2. SubSeq(checkpoint', 1, call.start) = call.base_graph /\ checkpoint' = call.base_graph
    BY <1>1, <2>1, Standing, StartKept
  <2>3. Keeps
    BY <1>1, <1>3, Untouched
  <2>4. Stream' /\ Prefix' /\ Drafts'
    BY <1>1, <1>3, <2>2, <2>3, Kept
  <2>5. call'.verified = 0 /\ After(0)' = call'.base_graph
    BY <1>1, <1>3, <2>3, Standing, KeptTexts
  <2>6. graph' = call'.base_graph /\ checkpoint' = call'.base_graph
    BY <1>1, <1>3, <2>2, Standing
  <2>7. After(call.verified)' = call'.base_graph /\ Right(call.verified)' /\ ~(call'.verified > 0)
    BY <2>5 DEF After, First, Right
  <2>8. Place'
    BY <1>3, <2>6, <2>7 DEF Place
  <2> QED
    BY <1>3, <2>4, <2>8 DEF Sound
<1> QED
  BY <1>2, <1>3 DEF GiveUp, spec_frontier_restore

\* The fallback evaluates the next draft when the target has said it.
LEMMA SequentialAdvances ==
    ASSUME Fixed, Sound, SequentialStep
    PROVE  Sound'
<1>1. /\ pc = "sequential" /\ pc' = "sequential" /\ target' = target /\ SequentialGoesOn
      /\ graph' = Append(graph, target_top) /\ checkpoint' = Append(checkpoint, target_top)
      /\ UNCHANGED <<valid, logits, out>>
  BY DEF SequentialStep, fixed
<1>2. PICK v : v = call.verified
  OBVIOUS
<1>3. PICK top \in ExactTops(graph') :
          call' = [call EXCEPT !.accepted = Append(@, target_top), !.verified = @ + 1, !.top = top]
  BY DEF SequentialStep
<1>4. /\ graph = After(v) /\ checkpoint = graph /\ Right(v)
      /\ v > 0 => call.top \in Vocab /\ Says(call.start + v, call.top)
  BY <1>1, <1>2 DEF Sound, Place
<1>5. /\ v \in 0..DraftN /\ v < DraftN /\ target_top = call.drafts[v + 1]
      /\ call.accepted = <<call.accepted[1]>> \o First(v)
  BY <1>1, <1>2 DEF Sound, Drafts, SequentialGoesOn
<1>6. v \in Nat /\ v + 1 \in 0..DraftN /\ v + 1 \in Nat /\ DraftN \in Nat /\ call.start \in Nat
  <2>1. DraftN \in Nat /\ call.start \in Nat
    BY <1>1, <1>5, Texts
  <2> QED
    BY <1>5, <2>1
<1>7. graph' = After(v + 1) /\ checkpoint' = After(v + 1)
  BY <1>1, <1>4, <1>5, Texts
<1>8. Says(call.start + v, target_top)
  <2>1. CASE v = 0
    <3>1. Says(call.start + 1 - 1, call.drafts[1])
      BY <1>1, Standing DEF Right
    <3> QED
      BY <1>5, <1>6, <2>1, <3>1
  <2>2. CASE v > 0
    BY <1>2, <1>4, <2>2 DEF target_top
  <2> QED
    BY <1>6, <2>1, <2>2
<1>9. /\ Shape' /\ call'.start = call.start /\ call'.base_graph = call.base_graph
      /\ call'.drafts = call.drafts /\ call'.cap = call.cap /\ call'.snap = call.snap
      /\ call'.accepted = Append(call.accepted, target_top) /\ call'.verified = v + 1 /\ call'.top = top
  BY <1>1, <1>2, <1>3, Standing DEF Shape
<1>10. call.accepted[1] \in Vocab /\ call.drafts \in Seq(Vocab)
  BY <1>1 DEF Sound, Prefix, Drafts
<1>11. call'.accepted = <<call.accepted[1]>> \o First(v + 1)
  <2>1. v \in 0..Len(call.drafts) /\ v < Len(call.drafts)
    BY <1>5 DEF DraftN
  <2>2. GrowsBy(Vocab, <<call.accepted[1]>>, call.drafts, v)
    <3>1. PICK e : e = <<call.accepted[1]>>
      OBVIOUS
    <3>2. e \in Seq(Vocab)
      BY <1>10, <3>1
    <3>3. GrowsBy(Vocab, e, call.drafts, v)
      BY <1>10, <2>1, <3>2, Grown
    <3> QED
      BY <3>1, <3>3
  <2>3. Append(<<call.accepted[1]>> \o First(v), call.drafts[v + 1]) = <<call.accepted[1]>> \o First(v + 1)
    BY <2>1, <2>2 DEF GrowsBy, First
  <2> QED
    BY <1>5, <1>9, <2>3
<1>12. call'.accepted[1] = call.accepted[1]
  <2>1. First(v + 1) \in Seq(Vocab)
    BY <1>1, <1>6, Texts
  <2> QED
    BY <1>10, <1>11, <2>1
<1>13. DraftN' = DraftN /\ First(v + 1)' = First(v + 1) /\ After(v + 1)' = After(v + 1)
  BY <1>9 DEF DraftN, First, After
<1>14. First(call.verified)' = First(v + 1) /\ After(call.verified)' = After(v + 1)
  BY <1>9 DEF First, After
<1>15. Stream'
  BY <1>1 DEF Sound, Stream, Says
<1>16. Prefix'
  <2>1. AtStart' = call.base_graph
    <3>1. SubSeq(After(v + 1), 1, call.start) = call.base_graph
      BY <1>1, <1>6, Texts
    <3> QED
      BY <1>7, <1>9, <3>1 DEF AtStart
  <2>2. Says(Len(out) + 1, call.accepted[1])' /\ Prompt' = Prompt
    BY <1>1, <1>12 DEF Sound, Prefix, Says, Prompt
  <2>3. /\ call.base_graph = Prompt \o (out \o <<call.accepted[1]>>) /\ call.start = Len(out) + 2
        /\ logits.of = call.base_graph /\ logits.top = call.drafts[1] /\ valid
        /\ call.accepted[1] \in Vocab \ {Eos} /\ (call.snap # <<>> => call.snap[1] = call.base_graph)
    BY <1>1 DEF Sound, Prefix
  <2> QED
    BY <1>1, <1>9, <1>12, <2>1, <2>2, <2>3 DEF Prefix
<1>17. Right(v + 1)'
  <2>1. ASSUME NEW i \in 1..(v + 1) PROVE Says(call.start + i - 1, call.drafts[i])
    <3>1. CASE i = v + 1
      <4>1. call.start + i - 1 = call.start + v
        BY <1>6, <3>1
      <4> QED
        BY <1>5, <1>8, <3>1, <4>1
    <3>2. CASE i \in 1..v
      BY <1>4, <3>2 DEF Right
    <3> QED
      BY <1>6, <3>1, <3>2
  <2> QED
    BY <1>1, <1>9, <2>1 DEF Right, Says
<1>18. Drafts'
  <2>1. Right(1)'
    BY <1>6, <1>17 DEF Right
  <2>2. v + 1 \in 0..DraftN
    BY <1>6
  <2> QED
    BY <1>1, <1>9, <1>11, <1>12, <1>13, <1>14, <2>1, <2>2 DEF Sound, Drafts
<1>19. top \in Vocab /\ Says(call.start + (v + 1), top)
  BY <1>1, <1>3, <1>6, <1>7, CallTops
<1>20. Place'
  <2>1. Right(call.verified)'
    BY <1>9, <1>17 DEF Right
  <2>2. Says(call.start + call.verified, call.top)' /\ call'.top \in Vocab
    BY <1>1, <1>9, <1>19 DEF Says
  <2> QED
    BY <1>1, <1>7, <1>14, <2>1, <2>2 DEF Place
<1> QED
  BY <1>1, <1>15, <1>16, <1>18, <1>20 DEF Sound

LEMMA SequentialReturns ==
    ASSUME Sound, SequentialDone
    PROVE  Sound'
<1>1. /\ pc = "sequential" /\ pc' = "idle" /\ target' = target
      /\ logits' = (IF call.verified > 0 THEN Logits(graph, call.top) ELSE logits)
      /\ out' = out \o call.accepted /\ UNCHANGED <<checkpoint, graph>>
  BY DEF SequentialDone, Return, fixed
<1>2. PICK v : v = call.verified
  OBVIOUS
<1>3. /\ graph = After(v) /\ checkpoint = graph /\ Right(v)
      /\ v > 0 => call.top \in Vocab /\ Says(call.start + v, call.top)
  BY <1>1, <1>2 DEF Sound, Place
<1>4. /\ v \in 0..DraftN /\ call.accepted = <<call.accepted[1]>> \o First(v)
      /\ call.drafts \in Seq(Vocab)
  BY <1>1, <1>2 DEF Sound, Drafts
<1>5. v \in Nat /\ call.start \in Nat /\ DraftN \in Nat /\ DraftN >= 1
  BY <1>1, <1>4, Standing, Texts
<1>6. out' = Told(v)
  BY <1>1, <1>4 DEF Told
<1>7. logits'.of = After(v) /\ logits'.top \in Vocab /\ Says(call.start + v, logits'.top)
  <2>1. CASE v > 0
    BY <1>1, <1>2, <1>3, <2>1 DEF Logits
  <2>2. CASE v = 0
    <3>1. logits.of = call.base_graph /\ logits.top = call.drafts[1] /\ logits' = logits
      BY <1>1, <1>2, <2>2 DEF Sound, Prefix
    <3>2. Says(call.start + 1 - 1, call.drafts[1]) /\ After(0) = call.base_graph
      BY <1>1, Standing DEF Right
    <3>3. call.start + 1 - 1 = call.start + v
      BY <1>5, <2>2
    <3>4. call.drafts[1] \in Vocab
      BY <1>4, <1>5, ElementOfSeq DEF DraftN
    <3> QED
      BY <2>2, <3>1, <3>2, <3>3, <3>4
  <2> QED
    BY <1>5, <2>1, <2>2
<1> QED
  BY <1>1, <1>3, <1>4, <1>6, <1>7, Returned

LEMMA DraftingFailed ==
    ASSUME Sound, DraftFails
    PROVE  Sound'
<1>1. /\ pc = "draft" /\ pc' = "idle" /\ target' = target /\ out' = out \o call.accepted
      /\ UNCHANGED <<checkpoint, graph, logits>>
  BY DEF DraftFails, Return, fixed, session
<1>2. /\ checkpoint = call.base_graph /\ graph = call.base_graph /\ call.verified = 0
      /\ call.accepted = <<call.accepted[1]>> \o First(0) /\ call.drafts \in Seq(Vocab)
      /\ logits.of = call.base_graph /\ logits.top = call.drafts[1]
  BY <1>1 DEF Sound, Place, Drafts, Prefix
<1>3. 0 \in 0..DraftN /\ DraftN >= 1 /\ Right(0) /\ Right(1) /\ After(0) = call.base_graph
  BY <1>1, Standing
<1>4. call.start \in Nat
  BY <1>1, <1>3, Texts
<1>5. out' = Told(0)
  BY <1>1, <1>2 DEF Told
<1>6. logits.top \in Vocab
  BY <1>2, <1>3, ElementOfSeq DEF DraftN
<1>7. Says(call.start + 0, logits.top)
  <2>1. Says(call.start + 1 - 1, call.drafts[1]) /\ call.start + 1 - 1 = call.start + 0
    BY <1>3, <1>4 DEF Right
  <2> QED
    BY <1>2, <2>1
<1> QED
  BY <1>1, <1>2, <1>3, <1>5, <1>6, <1>7, Returned

LEMMA DraftAdded ==
    ASSUME Sound, DraftNext
    PROVE  Sound'
<1>1. /\ pc = "draft" /\ pc' = "draft" /\ target' = target /\ ~DraftsMade
      /\ UNCHANGED <<checkpoint, valid, logits, graph, out>>
  BY DEF DraftNext, fixed
<1>2. PICK t \in Vocab : call' = [call EXCEPT !.drafts = Append(@, t)]
  BY DEF DraftNext
<1>3. /\ Shape' /\ call'.start = call.start /\ call'.base_graph = call.base_graph
      /\ call'.drafts = Append(call.drafts, t) /\ call'.cap = call.cap /\ call'.snap = call.snap
      /\ call'.accepted = call.accepted /\ call'.verified = call.verified /\ call'.replayed = call.replayed
  BY <1>1, <1>2, Standing DEF Shape
<1>4. /\ call.drafts \in Seq(Vocab) /\ DraftN <= call.cap /\ call.cap \in Int
      /\ \A i \in 1..(DraftN - 1) : call.drafts[i] # Eos
      /\ call.verified = 0 /\ call.accepted = <<call.accepted[1]>> \o First(0)
      /\ checkpoint = call.base_graph /\ graph = call.base_graph
  BY <1>1 DEF Sound, Drafts, Place
<1>5. DraftN \in Nat /\ DraftN >= 1 /\ Right(1)
  BY <1>1, Standing
<1>6. PICK d, n : d = call.drafts /\ n = DraftN
  OBVIOUS
<1>7. d \in Seq(Vocab) /\ n = Len(d) /\ n \in Nat /\ n >= 1
  BY <1>4, <1>5, <1>6 DEF DraftN
<1>8. /\ Append(d, t) \in Seq(Vocab) /\ Len(Append(d, t)) = n + 1
      /\ \A i \in 1..n : Append(d, t)[i] = d[i]
  BY <1>7
<1>9. n # call.cap /\ d[n] # Eos
  BY <1>1, <1>6, <1>7 DEF DraftsMade, Last
<1>10. DraftN' = n + 1 /\ call'.drafts = Append(d, t)
  BY <1>3, <1>6, <1>8 DEF DraftN
<1>11. First(0)' = First(0)
  <2>1. SubSeq(d, 1, 0) = <<>> /\ SubSeq(Append(d, t), 1, 0) = <<>>
    BY <1>7, <1>8, SubSeqEmpty
  <2> QED
    BY <1>6, <1>10, <2>1 DEF First
<1>12. Append(d, t)[1] = d[1]
  BY <1>7, <1>8
<1>13. Stream'
  BY <1>1 DEF Sound, Stream, Says
<1>14. Prefix'
  <2>1. AtStart' = AtStart
    BY <1>1, <1>3 DEF AtStart
  <2>2. Says(Len(out) + 1, call.accepted[1])' /\ Prompt' = Prompt
    BY <1>1, <1>3 DEF Sound, Prefix, Says, Prompt
  <2>3. /\ call.base_graph = Prompt \o (out \o <<call.accepted[1]>>) /\ call.start = Len(out) + 2
        /\ logits.of = call.base_graph /\ logits.top = call.drafts[1] /\ valid /\ AtStart = call.base_graph
        /\ call.accepted[1] \in Vocab \ {Eos} /\ (call.snap # <<>> => call.snap[1] = call.base_graph)
    BY <1>1 DEF Sound, Prefix
  <2> QED
    BY <1>1, <1>3, <1>6, <1>10, <1>12, <2>1, <2>2, <2>3 DEF Prefix
<1>15. Drafts'
  <2>1. Right(1)'
    <3>1. \A i \in 1..1 : i = 1
      OBVIOUS
    <3> QED
      BY <1>1, <1>3, <1>5, <1>6, <1>10, <1>12, <3>1 DEF Right, Says
  <2>2. \A i \in 1..(DraftN' - 1) : call'.drafts[i] # Eos
    <3>1. ASSUME NEW i \in 1..n PROVE d[i] # Eos
      BY <1>4, <1>6, <1>7, <1>9
    <3>2. DraftN' - 1 = n
      BY <1>7, <1>10
    <3> QED
      BY <1>8, <1>10, <3>1, <3>2
  <2>3. First(call.verified)' = First(0)
    BY <1>3, <1>4, <1>11 DEF First
  <2>4. DraftN' >= 1 /\ DraftN' <= call.cap /\ 0 \in 0..DraftN'
    BY <1>4, <1>6, <1>7, <1>9, <1>10
  <2>5. call.cap <= AcceptedCap - 1 /\ call.start + call.cap < Ctx
    BY <1>1 DEF Sound, Drafts
  <2> QED
    BY <1>3, <1>4, <1>8, <1>10, <2>1, <2>2, <2>3, <2>4, <2>5 DEF Drafts
<1>16. Place'
  BY <1>1, <1>3, <1>4 DEF Place
<1> QED
  BY <1>1, <1>13, <1>14, <1>15, <1>16 DEF Sound

-----------------------------------------------------------------------------
\* One more token at the end of a text that begins with the prompt.
LEMMA OneMore ==
    ASSUME NEW o \in Seq(Vocab), NEW a \in Vocab
    PROVE  /\ o \o <<a>> \in Seq(Vocab) /\ Len(o \o <<a>>) = Len(o) + 1 /\ Len(o) \in Nat
           /\ \A i \in 1..Len(o) : (o \o <<a>>)[i] = o[i]
           /\ (o \o <<a>>)[Len(o) + 1] = a
           /\ Append(Prompt \o o, a) = Prompt \o (o \o <<a>>)
<1>1. /\ o \o <<a>> \in Seq(Vocab) /\ Len(o \o <<a>>) = Len(o) + 1 /\ Len(o) \in Nat
      /\ \A i \in 1..Len(o) : (o \o <<a>>)[i] = o[i]
      /\ (o \o <<a>>)[Len(o) + 1] = a
  OBVIOUS
<1>2. PICK e : e = <<a>>
  OBVIOUS
<1>3. Vocab \subseteq Symbols /\ a \in Symbols
  BY DEF Symbols
<1>4. o \in Seq(Symbols) /\ e \in Seq(Symbols)
  BY <1>2, <1>3, SeqMonotonic
<1>5. Prompt \in Seq(Symbols) /\ Prompt \o o \in Seq(Symbols)
  BY PromptIsUnmixed DEF Prompt, Symbols
<1>6. Append(Prompt \o o, a) = (Prompt \o o) \o <<a>>
  <2>1. PICK p : p = Prompt \o o
    OBVIOUS
  <2>2. p \in Seq(Symbols)
    BY <1>5, <2>1
  <2>3. Append(p, a) = p \o <<a>>
    BY <1>3, <2>2, AppendIsConcat
  <2> QED
    BY <2>1, <2>3
<1>7. (Prompt \o o) \o e = Prompt \o (o \o e)
  <2>1. PICK p : p = Prompt
    OBVIOUS
  <2>2. p \in Seq(Symbols)
    BY <1>5, <2>1
  <2>3. (p \o o) \o e = p \o (o \o e)
    BY <1>4, <2>2, ConcatAssociative
  <2> QED
    BY <2>1, <2>3
<1> QED
  BY <1>1, <1>2, <1>6, <1>7

LEMMA CallBegun ==
    ASSUME Fixed, Sound, NEW max \in 1..MaxTokens, Begin(max)
    PROVE  Sound'
<1>1. /\ pc = "idle" /\ valid /\ Len(checkpoint) < Ctx /\ valid' = valid /\ target' = target
      /\ logits.top # Eos /\ \A i \in DOMAIN out : out[i] # Eos
      /\ checkpoint' = Append(checkpoint, logits.top) /\ graph' = Append(graph, logits.top)
  BY DEF Begin, MayDecode, Range, fixed
<1>2. PICK a : a = logits.top
  OBVIOUS
<1>3. /\ checkpoint = Prompt \o out /\ graph = checkpoint /\ a \in Vocab \ {Eos}
      /\ Says(Len(checkpoint), a) /\ out \in Seq(Vocab)
      /\ \A i \in 1..Len(out) : Says(i, out[i])
  BY <1>1, <1>2 DEF Sound, Settled, Stream
<1>4. PICK o : o = out \o <<a>>
  OBVIOUS
<1>5. /\ o \in Seq(Vocab) /\ Len(o) = Len(out) + 1 /\ Len(out) \in Nat
      /\ \A i \in 1..Len(out) : o[i] = out[i]
      /\ o[Len(out) + 1] = a
      /\ Append(Prompt \o out, a) = Prompt \o o
  BY <1>3, <1>4, OneMore
<1>6. Len(checkpoint) = Len(out) + 1 /\ Len(Prompt \o o) = Len(out) + 2
  BY <1>3, <1>5, PromptIsUnmixed
<1>7. checkpoint' = Prompt \o o /\ graph' = Prompt \o o
  BY <1>1, <1>2, <1>3, <1>5
<1>8. PICK top \in ExactTops(Prompt \o o) : logits' = Logits(Prompt \o o, top)
  BY <1>7 DEF Begin
<1>9. top \in Vocab /\ Says(Len(out) + 2, top) /\ Len(out) + 2 <= Ctx
  <2>1. Len(o) + 1 <= Ctx /\ Len(o) + 1 = Len(out) + 2
    BY <1>1, <1>5, <1>6, Constants
  <2>2. top \in Vocab /\ top = target[Len(o) + 1]
    BY <1>5, <1>8, <2>1, Tops
  <2> QED
    BY <2>1, <2>2 DEF Says
<1>10. logits'.of = Prompt \o o /\ logits'.top = top
  BY <1>8 DEF Logits
<1>11. CASE Return(<<logits.top>>)
  <2>1. out' = o /\ pc' = "idle"
    BY <1>2, <1>4, <1>11 DEF Return
  <2>2. ASSUME NEW i \in 1..Len(o) PROVE Says(i, o[i]) /\ (o[i] = Eos => i = Len(o))
    <3>1. CASE i \in 1..Len(out)
      <4>1. i \in DOMAIN out
        BY <1>3, <3>1, LenProperties
      <4> QED
        BY <1>1, <1>3, <1>5, <3>1, <4>1
    <3>2. CASE i = Len(out) + 1
      BY <1>3, <1>5, <1>6, <3>2
    <3> QED
      BY <1>5, <3>1, <3>2
  <2>3. Stream'
    <3>1. (\A i \in 1..Len(out) : Says(i, out[i]))'
      BY <1>1, <2>1, <2>2 DEF Says
    <3>2. (\A i \in 1..Len(out) : out[i] = Eos => pc = "idle" /\ i = Len(out))'
      BY <2>1, <2>2
    <3> QED
      BY <1>5, <2>1, <3>1, <3>2 DEF Stream
  <2>4. Prompt' = Prompt
    BY DEF Prompt
  <2>5. Says(Len(checkpoint), logits.top)'
    BY <1>1, <1>6, <1>7, <1>9, <1>10 DEF Says
  <2>6. Len(checkpoint)' <= Ctx
    BY <1>6, <1>7, <1>9
  <2>7. Settled'
    BY <1>7, <1>9, <1>10, <2>1, <2>4, <2>5, <2>6 DEF Settled
  <2> QED
    BY <2>1, <2>3, <2>7 DEF Sound
<1>12. ASSUME NEW t \in Vocab, NEW cap, cap = DraftCap(max), cap > 0, logits'.top = t,
              call' = [start |-> Len(checkpoint'), base_graph |-> graph',
                       base_raw |-> mtp_n_raw', accepted |-> <<logits.top>>,
                       drafts |-> <<t>>, cap |-> cap, snap |-> <<>>,
                       rows |-> <<>>, replayed |-> FALSE, verified |-> 0, top |-> t],
              pc' = "draft", out' = out
       PROVE  Sound'
  <2>1. /\ Shape' /\ call'.start = Len(out) + 2 /\ call'.base_graph = Prompt \o o /\ call'.accepted = <<a>>
        /\ call'.drafts = <<t>> /\ call'.cap = cap /\ call'.snap = <<>> /\ call'.replayed = FALSE
        /\ call'.verified = 0
    BY <1>2, <1>6, <1>7, <1>12 DEF Shape
  <2>2. call'.accepted[1] = a /\ call'.drafts[1] = t /\ DraftN' = 1 /\ t = top
    BY <1>10, <1>12, <2>1 DEF DraftN
  <2>3. /\ cap \in Int /\ cap >= 1 /\ cap <= AcceptedCap - 1 /\ call'.start + cap < Ctx
    <3>1. opts.depth \in Int /\ max - 1 \in Int /\ AcceptedCap - 1 \in Int /\ Ctx - Len(checkpoint) - 2 \in Int
      BY <1>5, <1>6, Constants, SpeculativeAssumption DEF Fixed
    <3>2. cap \in Int /\ cap <= AcceptedCap - 1 /\ cap <= Ctx - Len(checkpoint) - 2
      BY <1>12, <3>1, MinOfFour DEF DraftCap
    <3>3. Ctx \in Nat
      BY Constants
    <3> QED
      BY <1>5, <1>6, <1>12, <2>1, <3>2, <3>3
  <2>4. AtStart' = Prompt \o o
    <3>1. PICK p : p = Prompt \o o
      OBVIOUS
    <3>2. p \in Seq(Symbols) /\ Len(p) = Len(out) + 2
      BY <1>5, <1>6, <3>1, PromptIsUnmixed
    <3>3. SubSeq(p, 1, Len(p)) = p
      BY <3>2, SubSeqFull
    <3> QED
      BY <1>7, <2>1, <3>1, <3>2, <3>3 DEF AtStart
  <2>5. Stream'
    <3>1. \A i \in 1..Len(out) : i \in DOMAIN out
      BY <1>3, LenProperties
    <3> QED
      BY <1>1, <1>3, <1>12, <3>1 DEF Stream, Says
  <2>6. Prefix'
    <3>1. Says(Len(out) + 1, call.accepted[1])' /\ Prompt' = Prompt
      BY <1>1, <1>3, <1>6, <1>12, <2>2 DEF Says, Prompt
    <3>2. call'.base_graph = Prompt \o (out' \o <<call'.accepted[1]>>)
      BY <1>4, <1>12, <2>1, <2>2
    <3> QED
      BY <1>1, <1>3, <1>10, <1>12, <2>1, <2>2, <2>4, <3>1, <3>2 DEF Prefix
  <2>7. Drafts'
    <3>1. Right(1)'
      <4>1. \A i \in 1..1 : i = 1
        OBVIOUS
      <4>2. Says(call.start + 1 - 1, call.drafts[1])'
        <5>1. call'.start + 1 - 1 = Len(out) + 2
          BY <1>5, <2>1
        <5> QED
          BY <1>1, <1>9, <2>2, <5>1 DEF Says
      <4> QED
        BY <4>1, <4>2 DEF Right
    <3>2. call'.drafts \in Seq(Vocab)
      BY <2>1
    <3>3. call'.accepted = <<call'.accepted[1]>> \o First(call.verified)'
      <4>1. First(call.verified)' = <<>>
        BY <2>1, SubSeqEmpty DEF First
      <4> QED
        BY <1>3, <2>1, <2>2, <4>1
    <3>4. \A i \in 1..(DraftN' - 1) : call'.drafts[i] # Eos
      BY <2>2
    <3>5. 0 \in 0..DraftN' /\ DraftN' >= 1 /\ DraftN' <= cap
      BY <2>2, <2>3
    <3> QED
      BY <2>1, <2>3, <3>1, <3>2, <3>3, <3>4, <3>5 DEF Drafts
  <2>8. Place'
    BY <1>7, <1>12, <2>1 DEF Place
  <2> QED
    BY <1>12, <2>5, <2>6, <2>7, <2>8 DEF Sound
<1> QED
  BY <1>11, <1>12 DEF Begin

LEMMA Synced ==
    ASSUME Fixed, Sound, ds4_session_sync
    PROVE  Sound'
<1>1. /\ pc' = "idle" /\ target' = target /\ out' = out /\ Len(Prompt \o out) < Ctx
      /\ checkpoint' = Prompt \o out /\ graph' = Prompt \o out
      /\ \E top \in BatchTops(graph') : logits' = Logits(graph', top)
  BY DEF ds4_session_sync, fixed
<1>2. out \in Seq(Vocab) /\ Len(out) \in Nat
  BY LenProperties DEF Sound, Stream
<1>3. Stream' /\ Prompt' = Prompt
  BY <1>1 DEF Sound, Stream, Says, Prompt, ds4_session_sync
<1>4. Len(Prompt \o out) = Len(out) + 1
  BY <1>2, PromptIsUnmixed
<1>5. PICK top \in BatchTops(Prompt \o out) : logits' = Logits(Prompt \o out, top)
  BY <1>1
<1>6. Len(out) + 1 <= Ctx
  BY <1>1, <1>2, <1>4, Constants
<1>7. top \in Vocab /\ Says(Len(out) + 1, top)
  BY <1>2, <1>5, <1>6, Tops
<1>8. logits'.of = Prompt \o out /\ logits'.top = top
  BY <1>5 DEF Logits
<1>9. Says(Len(checkpoint), logits.top)'
  BY <1>1, <1>4, <1>7, <1>8 DEF Says
<1>10. Settled'
  BY <1>1, <1>3, <1>4, <1>6, <1>7, <1>8, <1>9 DEF Settled
<1> QED
  BY <1>1, <1>3, <1>10 DEF Sound

-----------------------------------------------------------------------------
LEMMA InitSound ==
    ASSUME Init
    PROVE  IInv
<1>1. Fixed
  BY DEF Init, Fixed
<1>2. /\ pc = "idle" /\ out = <<>> /\ checkpoint = Prompt /\ graph = Prompt
      /\ \E top \in BatchTops(Prompt) : logits = Logits(Prompt, top)
  BY DEF Init
<1>3. out \in Seq(Vocab) /\ Len(out) = 0
  BY <1>2
<1>4. Prompt \o out = Prompt
  BY <1>2 DEF Prompt
<1>5. Len(Prompt) = 1 /\ 0 + 1 <= Ctx
  BY SpeculativeAssumption DEF Prompt
<1>6. PICK top \in BatchTops(Prompt) : logits = Logits(Prompt, top)
  BY <1>2
<1>7. top \in Vocab /\ Says(1, top)
  <2>1. Len(out) + 1 <= Ctx /\ Prompt = Prompt \o out
    BY <1>3, <1>4, <1>5
  <2>2. top \in BatchTops(Prompt) => top \in Vocab /\ Says(Len(out) + 1, top)
    BY <1>1, <1>3, <2>1, Tops
  <2> QED
    BY <1>3, <1>6, <2>2
<1>8. Settled
  <2>1. logits.of = Prompt /\ logits.top = top
    BY <1>6 DEF Logits
  <2> QED
    BY <1>2, <1>4, <1>5, <1>7, <2>1 DEF Settled
<1>9. Stream
  BY <1>3 DEF Stream
<1> QED
  BY <1>1, <1>2, <1>8, <1>9 DEF IInv, Sound

LEMMA NextSound ==
    ASSUME Fixed, Sound, [Next]_vars
    PROVE  ~passed_over' => Sound'
<1>1. ASSUME NEW max \in 1..MaxTokens, Begin(max) PROVE Sound'
  BY <1>1, CallBegun
<1>2. CASE EvalFails
  BY <1>2, Failed DEF EvalFails, fixed
<1>3. CASE SequentialFails
  BY <1>3, Failed DEF SequentialFails, fixed
<1>4. CASE UNCHANGED vars
  <2>1. UNCHANGED <<checkpoint, valid, logits, graph, call, pc, out, target>>
    BY <1>4 DEF vars, session, fixed
  <2>2. Stream' = Stream
    BY <2>1 DEF Stream, Says
  <2>3. Settled' = Settled
    BY <2>1 DEF Settled, Says, Prompt
  <2>4. Prefix' = Prefix
    BY <2>1 DEF Prefix, Shape, AtStart, Says, Prompt
  <2>5. Drafts' = Drafts
    BY <2>1 DEF Drafts, DraftN, First, Right, Says
  <2>6. Place' = Place
    BY <2>1 DEF Place, DraftN, First, After, Right, Rows, Says
  <2> QED
    BY <2>1, <2>2, <2>3, <2>4, <2>5, <2>6 DEF Sound
<1>5. CASE DraftNext \/ DraftFails \/ MarginSkip \/ spec_frontier_snapshot
  BY <1>5, DraftAdded, DraftingFailed, MarginSkipped, FrontierSnapshot
<1>6. CASE Verify \/ VerifyFails \/ Decode2Accepts \/ Decode2CommitsPrefix1
  BY <1>6, Verified, VerifierFailed, TwoAccepted, TwoCut
<1>7. CASE ReplayExactly \/ AcceptAll \/ CommitPrefix1 \/ RowUnreadable
  BY <1>7, Replayed, AllAccepted, PrefixCommitted, RowNotRead
<1>8. CASE TakeBack \/ TakeBackFails \/ EvaluateAgain \/ GiveUp
  BY <1>8, TakenBack, EvaluatedAgain, GivenUp
<1>9. CASE SequentialStep \/ SequentialDone \/ ds4_session_sync
  BY <1>9, SequentialAdvances, SequentialReturns, Synced
<1> QED
  BY <1>1, <1>2, <1>3, <1>4, <1>5, <1>6, <1>7, <1>8, <1>9 DEF Next

\* The mark of a failure that was passed over is never taken away.
LEMMA MarkStays ==
    ASSUME Fixed, [Next]_vars
    PROVE  Fixed' /\ (passed_over => passed_over')
<1>1. ASSUME NEW max \in 1..MaxTokens, Begin(max)
      PROVE  UNCHANGED <<target, opts, passed_over>>
  BY <1>1 DEF Begin, fixed
<1>2. CASE EvalFails \/ DraftNext \/ DraftFails \/ MarginSkip \/ spec_frontier_snapshot
  BY <1>2 DEF EvalFails, DraftNext, DraftFails, MarginSkip, spec_frontier_snapshot, fixed, Fixed
<1>3. CASE Verify \/ VerifyFails \/ Decode2Accepts \/ Decode2CommitsPrefix1
  BY <1>3 DEF Verify, VerifyFails, Decode2Accepts, Decode2CommitsPrefix1, fixed, Fixed
<1>4. CASE ReplayExactly \/ CommitPrefix1 \/ RowUnreadable
  BY <1>4 DEF ReplayExactly, CommitPrefix1, RowUnreadable, fixed, Fixed
<1>5. CASE AcceptAll
  BY <1>5, Zenon DEF AcceptAll, fixed, Fixed
<1>6. CASE TakeBack \/ TakeBackFails \/ EvaluateAgain
  BY <1>6 DEF TakeBack, TakeBackFails, EvaluateAgain, fixed, Fixed
<1>7. CASE GiveUp
  BY <1>7, Zenon DEF GiveUp, fixed, Fixed
<1>8. CASE SequentialStep \/ SequentialFails \/ SequentialDone \/ ds4_session_sync
  BY <1>8 DEF SequentialStep, SequentialFails, SequentialDone, ds4_session_sync, fixed, Fixed
<1>9. CASE UNCHANGED vars
  BY <1>9 DEF vars, fixed, Fixed
<1> QED
  BY <1>1, <1>2, <1>3, <1>4, <1>5, <1>6, <1>7, <1>8, <1>9 DEF Next, Fixed

LEMMA Inductive == Spec => []IInv
<1>1. Init => IInv
  BY InitSound
<1>2. IInv /\ [Next]_vars => IInv'
  <2> SUFFICES ASSUME IInv, [Next]_vars PROVE IInv'
    OBVIOUS
  <2>1. Fixed' /\ (passed_over => passed_over')
    BY MarkStays DEF IInv
  <2>2. ~passed_over => (~passed_over' => Sound')
    BY NextSound DEF IInv
  <2> QED
    BY <2>1, <2>2 DEF IInv
<1> QED
  BY <1>1, <1>2, PTL DEF Spec

(***************************************************************************)
(* Whatever is drafted, accepted, taken back or fails, between two calls a *)
(* valid session's tokens, layers and logits agree with each other and     *)
(* with what the caller was given (ds4_session_eval_speculative_argmax).   *)
(***************************************************************************)
THEOREM SessionAgreesAlways == Spec => []SessionAgrees
<1>1. IInv => SessionAgrees
  BY DEF IInv, Sound, Settled, SessionAgrees
<1> QED
  BY <1>1, Inductive, PTL

(***************************************************************************)
(* Every token given to the caller is what the target model says after the *)
(* tokens before it, near ties apart, and nothing follows an end token:    *)
(* the drafts of the MTP block never show in the stream.                   *)
(***************************************************************************)
THEOREM TargetDefinesTheStream == Spec => []TargetDefinesStream
<1>1. IInv => TargetDefinesStream
  <2> SUFFICES ASSUME IInv, ~passed_over PROVE TargetDefinesStream
    BY DEF TargetDefinesStream
  <2>1. Stream
    BY DEF IInv, Sound
  <2>2. DOMAIN out = 1..Len(out)
    BY <2>1, LenProperties DEF Stream
  <2> QED
    BY <2>1, <2>2 DEF Stream, Says, TargetDefinesStream
<1> QED
  BY <1>1, Inductive, PTL
=============================================================================

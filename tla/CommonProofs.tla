---------------------------- MODULE CommonProofs ----------------------------
(***************************************************************************)
(* Facts the other proofs rest on: numbers compared modulo 2^16, numbers   *)
(* in order, sequences of sequences and occurrences in sequences.          *)
(***************************************************************************)
EXTENDS SeqNum, Order, Sequences, SequencesExt, FiniteSetTheorems, FunctionTheorems,
        SequenceTheorems, WellFoundedInduction, Functions, TLAPS

-----------------------------------------------------------------------------
(* Sequence numbers. *)

\* A number on the wire fits the 16 bits it is written in.
LEMMA WireType ==
    ASSUME NEW n \in Nat
    PROVE  Wire(n) \in Seqs
BY HalfAssumption, Z3 DEF Wire, Seqs, SeqSpace

\* Wire(n) is the remainder of n: it forgets only whole turns of the circle.
LEMMA WireQuotient ==
    ASSUME NEW n \in Nat
    PROVE  \E q \in Nat : n = SeqSpace * q + Wire(n)
  <1> DEFINE q == n \div SeqSpace
  <1>1. q \in Nat /\ n = SeqSpace * q + Wire(n)
    BY HalfAssumption, Z3 DEF Wire, SeqSpace
  <1> QED BY <1>1

\* Two numbers less than half the circle apart are on the same turn or on turns that meet.
LEMMA OrderAndDifference ==
    ASSUME NEW n \in Nat, NEW m \in Nat, n - m < Half, m - n < Half
    PROVE  /\ SeqGt(Wire(n), Wire(m)) <=> n > m
           /\ SeqDiff(Wire(n), Wire(m)) = n - m
  <1>1. PICK q \in Nat : n = SeqSpace * q + Wire(n)
    BY WireQuotient
  <1>2. PICK r \in Nat : m = SeqSpace * r + Wire(m)
    BY WireQuotient
  <1>3. Wire(n) \in 0 .. (2 * Half - 1) /\ Wire(m) \in 0 .. (2 * Half - 1)
    BY WireType DEF Seqs, SeqSpace
  <1>4. q = r \/ q = r + 1 \/ r = q + 1
    <2>1. CASE q >= r + 2
      <3>1. SeqSpace * q >= SeqSpace * (r + 2)
        BY <2>1, HalfAssumption DEF SeqSpace
      <3>2. SeqSpace * (r + 2) = SeqSpace * r + 4 * Half
        BY HalfAssumption DEF SeqSpace
      <3> QED BY <3>1, <3>2, <1>1, <1>2, <1>3, HalfAssumption DEF SeqSpace
    <2>2. CASE r >= q + 2
      <3>1. SeqSpace * r >= SeqSpace * (q + 2)
        BY <2>2, HalfAssumption DEF SeqSpace
      <3>2. SeqSpace * (q + 2) = SeqSpace * q + 4 * Half
        BY HalfAssumption DEF SeqSpace
      <3> QED BY <3>1, <3>2, <1>1, <1>2, <1>3, HalfAssumption DEF SeqSpace
    <2> QED BY <2>1, <2>2
  <1>5. CASE q = r
    <2>1. n - m = Wire(n) - Wire(m)
      <3>1. SeqSpace * q = SeqSpace * r /\ SeqSpace * r \in Nat
        BY <1>5, HalfAssumption DEF SeqSpace
      <3> QED BY <3>1, <1>1, <1>2, <1>3, HalfAssumption
    <2> QED BY <2>1, <1>3, HalfAssumption DEF SeqGt, SeqDiff, SeqSpace
  <1>6. CASE q = r + 1
    <2>1. n - m = Wire(n) - Wire(m) + 2 * Half
      <3>1. SeqSpace * (r + 1) = SeqSpace * r + 2 * Half
        BY HalfAssumption DEF SeqSpace
      <3> QED BY <3>1, <1>1, <1>2, <1>3, <1>6, HalfAssumption DEF SeqSpace
    <2> QED BY <2>1, <1>3, HalfAssumption DEF SeqGt, SeqDiff, SeqSpace
  <1>7. CASE r = q + 1
    <2>1. n - m = Wire(n) - Wire(m) - 2 * Half
      <3>1. SeqSpace * (q + 1) = SeqSpace * q + 2 * Half
        BY HalfAssumption DEF SeqSpace
      <3> QED BY <3>1, <1>1, <1>2, <1>3, <1>7, HalfAssumption DEF SeqSpace
    <2> QED BY <2>1, <1>3, HalfAssumption DEF SeqGt, SeqDiff, SeqSpace
  <1> QED BY <1>4, <1>5, <1>6, <1>7

\* nn_seq_gt, nn_seq_diff and the distance taken of it (Reliability.hs) recover the order,
\* the difference and the distance of any two numbers less than half the circle apart,
\* wherever on the circle they lie.
THEOREM WindowOrder ==
    ASSUME NEW n \in Nat, NEW m \in Nat, n - m < Half, m - n < Half
    PROVE  /\ SeqGt(Wire(n), Wire(m)) <=> n > m
           /\ SeqDiff(Wire(n), Wire(m)) = n - m
           /\ SeqDist(Wire(n), Wire(m)) = IF n > m THEN n - m ELSE m - n
  <1>1. /\ SeqGt(Wire(n), Wire(m)) <=> n > m
        /\ SeqDiff(Wire(n), Wire(m)) = n - m
    BY OrderAndDifference
  <1>2. SeqDist(Wire(n), Wire(m)) = IF n > m THEN n - m ELSE m - n
    BY <1>1 DEF SeqDist
  <1> QED BY <1>1, <1>2

-----------------------------------------------------------------------------
(* Induction. *)

\* A set of natural numbers has a least element, which stands for induction below.
LEMMA Least ==
    ASSUME NEW S \in SUBSET Nat, S # {}
    PROVE  \E n \in S : \A m \in S : n <= m
  <1> DEFINE R == OpToRel(<, Nat)
  <1>1. IsWellFoundedOn(R, Nat)
    BY NatLessThanWellFounded
  <1>2. \A m, n \in Nat : m < n => <<m, n>> \in R
    BY DEF OpToRel
  <1> HIDE DEF R
  <1>3. PICK n \in S : \A m \in S : ~(<<m, n>> \in R)
    BY <1>1, WFMin
  <1>4. \A m \in S : ~(m < n)
    BY <1>2, <1>3
  <1> QED BY <1>4

-----------------------------------------------------------------------------
(* Numbers in order. *)

\* How many of S are below s tells s from the others.
Below(S, s) == {t \in S : t < s}

LEMMA BelowCounts ==
    ASSUME NEW S \in SUBSET Int, IsFiniteSet(S)
    PROVE  /\ \A s \in S : Cardinality(Below(S, s)) \in 0 .. (Cardinality(S) - 1)
           /\ \A s, t \in S : s < t => Cardinality(Below(S, s)) < Cardinality(Below(S, t))
<1>1. ASSUME NEW s \in S, NEW T \in SUBSET S, Below(S, s) \subseteq T, s \in T
      PROVE  Cardinality(Below(S, s)) < Cardinality(T)
  <2>1. s \notin Below(S, s)
    BY DEF Below
  <2>2. IsFiniteSet(T)
    BY FS_Subset
  <2>3. Cardinality(Below(S, s)) <= Cardinality(T) /\ Cardinality(Below(S, s)) # Cardinality(T)
    BY <1>1, <2>1, <2>2, FS_Subset
  <2>4. Cardinality(T) \in Nat /\ Cardinality(Below(S, s)) \in Nat
    BY <1>1, <2>2, FS_Subset, FS_CardinalityType
  <2> QED
    BY <2>3, <2>4
<1>2. \A s \in S : IsFiniteSet(Below(S, s))
  BY FS_Subset DEF Below
<1>3. \A s \in S : Cardinality(Below(S, s)) \in Nat /\ Cardinality(S) \in Nat
  BY <1>2, FS_CardinalityType
<1>4. \A s \in S : Cardinality(Below(S, s)) < Cardinality(S)
  BY <1>1 DEF Below
<1>5. \A s, t \in S : s < t => Cardinality(Below(S, s)) < Cardinality(Below(S, t))
  <2> SUFFICES ASSUME NEW s \in S, NEW t \in S, s < t
               PROVE  Cardinality(Below(S, s)) < Cardinality(Below(S, t))
    OBVIOUS
  <2>1. \A r \in S : r < s => r < t
    OBVIOUS
  <2>2. s \in Below(S, t) /\ Below(S, t) \in SUBSET S
    BY DEF Below
  <2>3. Below(S, s) \subseteq Below(S, t)
    BY <2>1 DEF Below
  <2> QED
    BY <1>1, <2>2, <2>3
<1> QED
  BY <1>3, <1>4, <1>5

\* Ascending(S) has every element of S once, the smaller ones first.
LEMMA AscendingIs ==
    ASSUME NEW S \in SUBSET Int, IsFiniteSet(S)
    PROVE  /\ Cardinality(S) \in Nat
           /\ Ascending(S) \in [1 .. Cardinality(S) -> S]
           /\ \A s \in S : \E i \in 1 .. Cardinality(S) : Ascending(S)[i] = s
           /\ \A i, j \in 1 .. Cardinality(S) : i < j => Ascending(S)[i] < Ascending(S)[j]
<1> DEFINE n == Cardinality(S)
           rank == [s \in S |-> Cardinality(Below(S, s)) + 1]
<1>1. n \in Nat
  BY FS_CardinalityType
<1>2. rank \in [S -> 1 .. n] /\ \A s, t \in S : s < t => rank[s] < rank[t]
  <2>1. \A s \in S : Cardinality(Below(S, s)) + 1 \in 1 .. n
    BY <1>1, BelowCounts
  <2>2. \A s, t \in S : s < t => Cardinality(Below(S, s)) + 1 < Cardinality(Below(S, t)) + 1
    BY BelowCounts
  <2> QED
    BY <2>1, <2>2
<1>3. \A s, t \in S : rank[s] = rank[t] => s = t
  <2>1. \A s \in S : rank[s] \in Int
    BY <1>1, <1>2
  <2>2. \A s, t \in S : s < t \/ t < s \/ s = t
    OBVIOUS
  <2> HIDE DEF rank
  <2> QED
    BY <1>2, <2>1, <2>2
<1>4. \A i \in 1 .. n : \E s \in S : rank[s] = i
  <2> HIDE DEF rank
  <2>1. rank \in Injection(S, 1 .. n)
    BY <1>2, <1>3, Fun_IsInj
  <2>2. IsFiniteSet(1 .. n) /\ Cardinality(1 .. n) = n
    BY <1>1, FS_Interval
  <2>3. rank \in Surjection(S, 1 .. n)
    BY <2>1, <2>2, FS_Injection
  <2> QED
    BY <2>3, Fun_SurjectionProperties
<1>5. \A i \in 1 .. n : Ascending(S)[i] \in S /\ rank[Ascending(S)[i]] = i
  <2> SUFFICES ASSUME NEW i \in 1 .. n
               PROVE  Ascending(S)[i] \in S /\ rank[Ascending(S)[i]] = i
    OBVIOUS
  <2>1. PICK s \in S : rank[s] = i
    BY <1>4
  <2>2. Cardinality(Below(S, s)) \in Nat /\ i \in Int
    BY BelowCounts, <1>1
  <2>3. Cardinality(Below(S, s)) = i - 1
    BY <2>1, <2>2
  <2>4. Ascending(S)[i] = CHOOSE t \in S : Cardinality(Below(S, t)) = i - 1
    BY DEF Ascending, Below
  <2>5. Ascending(S)[i] \in S /\ Cardinality(Below(S, Ascending(S)[i])) = i - 1
    BY <2>3, <2>4
  <2> QED
    BY <2>2, <2>5
<1>6. Ascending(S) \in [1 .. n -> S]
  BY <1>5 DEF Ascending
<1>7. \A s \in S : rank[s] \in 1 .. n /\ Ascending(S)[rank[s]] = s
  <2> HIDE DEF rank
  <2> QED
    BY <1>2, <1>3, <1>5
<1>8. \A i, j \in 1 .. n : i < j => Ascending(S)[i] < Ascending(S)[j]
  <2> SUFFICES ASSUME NEW i \in 1 .. n, NEW j \in 1 .. n, i < j
               PROVE  Ascending(S)[i] < Ascending(S)[j]
    OBVIOUS
  <2> DEFINE s == Ascending(S)[i]  t == Ascending(S)[j]
  <2>1. s \in S /\ t \in S /\ rank[s] = i /\ rank[t] = j
    BY <1>5
  <2> HIDE DEF rank, s, t
  <2>2. t < s => j < i
    BY <1>2, <2>1
  <2>3. s # t /\ s \in Int /\ t \in Int
    BY <2>1
  <2>4. s < t
    BY <1>1, <2>2, <2>3
  <2> QED
    BY <2>4 DEF s, t
<1> QED
  BY <1>1, <1>6, <1>7, <1>8

-----------------------------------------------------------------------------
(* Occurrences in sequences. *)

Places(q, M) == {i \in DOMAIN q : q[i] \in M}
Hits(q, M)   == Cardinality(Places(q, M))
PlacesIn(q, S, M) == {i \in S : q[i] \in M}

LEMMA HitsNat ==
    ASSUME NEW S, NEW q \in Seq(S), NEW M
    PROVE  IsFiniteSet(Places(q, M)) /\ Hits(q, M) \in Nat
<1>1. IsFiniteSet(1 .. Len(q)) /\ Places(q, M) \in SUBSET (1 .. Len(q))
  BY FS_Interval DEF Places
<1>2. IsFiniteSet(Places(q, M))
  BY <1>1, FS_Subset
<1> QED
  BY <1>2, FS_CardinalityType DEF Hits

LEMMA HitsNone ==
    ASSUME NEW q, NEW M, \A i \in DOMAIN q : q[i] \notin M
    PROVE  Hits(q, M) = 0
BY FS_EmptySet DEF Hits, Places

LEMMA HitsOnce ==
    ASSUME NEW q, NEW M, NEW k \in DOMAIN q, q[k] \in M, \A i \in DOMAIN q : q[i] \in M => i = k
    PROVE  Hits(q, M) = 1
<1>1. Places(q, M) = {k}
  BY DEF Places
<1> QED
  BY <1>1, FS_Singleton DEF Hits

\* A part of what is looked for, and the rest of it.
LEMMA HitsSplit ==
    ASSUME NEW S, NEW q \in Seq(S), NEW M, NEW A
    PROVE  Hits(q, M) = Hits(q, M \cap A) + Hits(q, M \ A)
<1> DEFINE P == Places(q, M \cap A)  R == Places(q, M \ A)
<1>1. Places(q, M) = P \cup R /\ P \cap R = {}
  BY DEF Places
<1>2. IsFiniteSet(P) /\ IsFiniteSet(R)
  BY HitsNat
<1> HIDE DEF P, R
<1>3. Cardinality(P \cup R) = Cardinality(P) + Cardinality(R) - Cardinality(P \cap R)
  BY <1>2, FS_Union
<1>4. Cardinality(P \cap R) = 0 /\ Cardinality(P) \in Nat /\ Cardinality(R) \in Nat
  BY <1>1, <1>2, FS_EmptySet, FS_CardinalityType
<1> QED
  BY <1>1, <1>3, <1>4 DEF P, R, Hits

\* What is counted twice over is counted in both parts.
LEMMA HitsConcat ==
    ASSUME NEW S, NEW q \in Seq(S), NEW r \in Seq(S), NEW M
    PROVE  Hits(q \o r, M) = Hits(q, M) + Hits(r, M)
<1> DEFINE n == Len(q)  P == Places(q, M)  R == Places(r, M)
           shifted == {i \in n + 1 .. n + Len(r) : r[i - n] \in M}
           shift == [i \in R |-> n + i]
<1>1. n \in Nat /\ Len(r) \in Nat /\ DOMAIN q = 1 .. n /\ DOMAIN r = 1 .. Len(r)
  OBVIOUS
<1>2. Places(q \o r, M) = P \cup shifted
  <2>1. DOMAIN (q \o r) = 1 .. n + Len(r)
    OBVIOUS
  <2>2. \A i \in 1 .. n : (q \o r)[i] = q[i]
    OBVIOUS
  <2>3. \A i \in n + 1 .. n + Len(r) : (q \o r)[i] = r[i - n]
    OBVIOUS
  <2>4. \A i : i \in 1 .. n + Len(r) <=> i \in 1 .. n \/ i \in n + 1 .. n + Len(r)
    BY <1>1
  <2> HIDE DEF n
  <2> QED
    BY <1>1, <2>1, <2>2, <2>3, <2>4 DEF Places
<1>3. P \cap shifted = {}
  <2>1. \A i : ~(i \in 1 .. n /\ i \in n + 1 .. n + Len(r))
    BY <1>1
  <2> QED
    BY <1>1, <2>1 DEF Places
<1>4. shift \in Bijection(R, shifted)
  <2>1. \A i \in R : i \in 1 .. Len(r) /\ r[i] \in M
    BY DEF Places
  <2>2. \A i \in R : n + i \in shifted
    BY <1>1, <2>1
  <2>3. \A j \in shifted : j - n \in R /\ n + (j - n) = j
    BY <1>1 DEF Places
  <2>4. \A i, j \in R : n + i = n + j => i = j
    BY <1>1, <2>1
  <2>5. shift \in [R -> shifted]
    BY <2>2
  <2> HIDE DEF shifted, R
  <2> QED
    BY <2>3, <2>4, <2>5, Fun_IsBij
<1>5. IsFiniteSet(P) /\ IsFiniteSet(R)
  BY HitsNat
<1>6. IsFiniteSet(shifted) /\ Cardinality(shifted) = Cardinality(R)
  <2> HIDE DEF R, shifted, shift
  <2> QED
    BY <1>4, <1>5, FS_Bijection DEF ExistsBijection
<1>7. Cardinality(P \cup shifted) = Cardinality(P) + Cardinality(shifted)
  <2> HIDE DEF P, shifted
  <2>1. Cardinality(P \cup shifted) = Cardinality(P) + Cardinality(shifted) - Cardinality(P \cap shifted)
    BY <1>5, <1>6, FS_Union
  <2>2. Cardinality(P \cap shifted) = 0
    BY <1>3, FS_EmptySet
  <2>3. Cardinality(P) \in Nat /\ Cardinality(shifted) \in Nat
    BY <1>5, <1>6, FS_CardinalityType
  <2> QED
    BY <2>1, <2>2, <2>3
<1> QED
  BY <1>2, <1>6, <1>7 DEF Hits

\* The parts of a concatenation.
LEMMA JoinedIs ==
    ASSUME NEW T, NEW a \in Seq(T), NEW b \in Seq(T)
    PROVE  /\ a \o b \in Seq(T) /\ Len(a \o b) = Len(a) + Len(b)
           /\ \A i \in 1 .. Len(a) : (a \o b)[i] = a[i]
           /\ \A i \in 1 .. Len(b) : (a \o b)[Len(a) + i] = b[i]
OBVIOUS

\* Occurrences of one thing.
CountOf(q, m) == Cardinality({i \in DOMAIN q : q[i] = m})

LEMMA CountHits == \A q, m : CountOf(q, m) = Hits(q, {m})
<1> SUFFICES ASSUME NEW q, NEW m PROVE CountOf(q, m) = Hits(q, {m})
  OBVIOUS
<1>1. {i \in DOMAIN q : q[i] = m} = Places(q, {m})
  BY DEF Places
<1> QED
  BY <1>1 DEF CountOf, Hits

LEMMA CountNat ==
    ASSUME NEW S, NEW q \in Seq(S), NEW m
    PROVE  IsFiniteSet({i \in DOMAIN q : q[i] = m}) /\ CountOf(q, m) \in Nat
<1>1. {i \in DOMAIN q : q[i] = m} = Places(q, {m})
  BY DEF Places
<1> QED
  BY <1>1, HitsNat, CountHits

LEMMA CountNone ==
    ASSUME NEW q, NEW m, \A i \in DOMAIN q : q[i] # m
    PROVE  CountOf(q, m) = 0
BY CountHits, HitsNone

LEMMA CountOnce ==
    ASSUME NEW q, NEW k \in DOMAIN q, \A i \in DOMAIN q : q[i] = q[k] => i = k
    PROVE  CountOf(q, q[k]) = 1
BY CountHits, HitsOnce

LEMMA CountConcat ==
    ASSUME NEW S, NEW q \in Seq(S), NEW r \in Seq(S), NEW m
    PROVE  CountOf(q \o r, m) = CountOf(q, m) + CountOf(r, m)
BY CountHits, HitsConcat, ZenonT(30)

\* A queue is what leaves it and what remains.
LEMMA CountSplit ==
    ASSUME NEW S, NEW q \in Seq(S), NEW m, NEW k \in 0 .. Len(q)
    PROVE  /\ SubSeq(q, 1, k) \in Seq(S) /\ SubSeq(q, k + 1, Len(q)) \in Seq(S)
           /\ CountOf(q, m) = CountOf(SubSeq(q, 1, k), m) + CountOf(SubSeq(q, k + 1, Len(q)), m)
<1>1. SubSeq(q, 1, k) \in Seq(S) /\ SubSeq(q, k + 1, Len(q)) \in Seq(S)
  OBVIOUS
<1>2. SubSeq(q, 1, k) \o SubSeq(q, k + 1, Len(q)) = q
  <2>1. 1 \in 1 .. Len(q) + 1 /\ k \in 1 - 1 .. Len(q) /\ Len(q) \in k .. Len(q)
    OBVIOUS
  <2>2. SubSeq(q, 1, k) \o SubSeq(q, k + 1, Len(q)) = SubSeq(q, 1, Len(q))
    BY <2>1, ConcatAdjacentSubSeq
  <2> QED
    BY <2>2, SubSeqFull
<1> DEFINE a == SubSeq(q, 1, k)  b == SubSeq(q, k + 1, Len(q))
<1> HIDE DEF a, b
<1>3. CountOf(a \o b, m) = CountOf(a, m) + CountOf(b, m)
  BY <1>1, CountConcat DEF a, b
<1> QED
  BY <1>1, <1>2, <1>3 DEF a, b

-----------------------------------------------------------------------------
(* Sequences of sequences. *)

Concat(q, r) == q \o r

\* What FlattenSeq has put together after each of the first n of them.
Flats(f, seqs, n) ==
    f = [i \in 1 .. n |-> IF i = 1 THEN seqs[i] ELSE Concat(f[i - 1], seqs[i])]

LEMMA FlatsExist ==
    ASSUME NEW seqs, NEW n \in Nat \ {0}
    PROVE  \E f : Flats(f, seqs, n)
<1> DEFINE S == {k \in Nat \ {0} : ~ \E f : Flats(f, seqs, k)}
<1>1. SUFFICES ASSUME S # {} PROVE FALSE
  OBVIOUS
<1>2. PICK k \in S : \A j \in S : k <= j
  BY <1>1, Least
<1>3. k \in Nat \ {0} /\ ~ \E f : Flats(f, seqs, k)
  BY <1>2
<1>4. CASE k = 1
  <2> DEFINE f == [i \in 1 .. 1 |-> seqs[i]]
  <2>1. f = [i \in 1 .. 1 |-> IF i = 1 THEN seqs[i] ELSE Concat(f[i - 1], seqs[i])]
    OBVIOUS
  <2> QED
    BY <1>3, <1>4, <2>1 DEF Flats
<1>5. CASE k # 1
  <2>1. k - 1 \in Nat \ {0} /\ ~(k - 1 \in S)
    BY <1>2, <1>3, <1>5
  <2>2. PICK f : Flats(f, seqs, k - 1)
    BY <2>1
  <2> DEFINE g == [i \in 1 .. k |-> IF i = k THEN Concat(f[k - 1], seqs[k]) ELSE f[i]]
  <2>3. ASSUME NEW i \in 1 .. k
        PROVE  g[i] = IF i = 1 THEN seqs[i] ELSE Concat(g[i - 1], seqs[i])
    <3>1. \A j \in 1 .. k - 1 :
              g[j] = f[j] /\ f[j] = IF j = 1 THEN seqs[j] ELSE Concat(f[j - 1], seqs[j])
      BY <1>3, <2>2 DEF Flats
    <3>2. g[k] = Concat(f[k - 1], seqs[k])
      BY <1>3
    <3> HIDE DEF g
    <3>3. CASE i = k
      BY <1>3, <1>5, <2>1, <3>1, <3>2, <3>3
    <3>4. CASE i # k
      <4>1. i \in 1 .. k - 1 /\ (i # 1 => i - 1 \in 1 .. k - 1)
        BY <1>3, <3>4
      <4> QED
        BY <3>1, <4>1
    <3> QED
      BY <3>3, <3>4
  <2>4. g = [i \in 1 .. k |-> IF i = 1 THEN seqs[i] ELSE Concat(g[i - 1], seqs[i])]
    <3>1. DOMAIN g = 1 .. k /\ g = [i \in 1 .. k |-> g[i]]
      OBVIOUS
    <3> HIDE DEF g
    <3> QED
      BY <2>3, <3>1, Zenon
  <2> QED
    BY <1>3, <2>4 DEF Flats
<1> QED
  BY <1>4, <1>5

LEMMA FlattenStep ==
    ASSUME NEW seqs, Len(seqs) \in Nat \ {0}
    PROVE  \E f : Flats(f, seqs, Len(seqs)) /\ FlattenSeq(seqs) = f[Len(seqs)]
<1> DEFINE n == Len(seqs)  f == CHOOSE g : Flats(g, seqs, n)
<1>1. Flats(f, seqs, n)
  BY FlatsExist
<1>2. FlattenSeq(seqs) = f[n]
  BY DEF FlattenSeq, Flats, Concat
<1> QED
  BY <1>1, <1>2

\* What is put together is made of what it was put together from.
LEMMA FlattenIs ==
    ASSUME NEW S, NEW seqs \in Seq(Seq(S))
    PROVE  FlattenSeq(seqs) \in Seq(S)
<1>1. CASE Len(seqs) = 0
  <2>1. seqs = <<>> /\ FlattenSeq(seqs) = seqs
    BY <1>1 DEF FlattenSeq
  <2> QED
    BY <2>1, EmptySeq
<1>2. CASE Len(seqs) # 0
  <2> DEFINE n == Len(seqs)
  <2>1. n \in Nat \ {0}
    BY <1>2
  <2>2. PICK f : Flats(f, seqs, n) /\ FlattenSeq(seqs) = f[n]
    BY <2>1, FlattenStep
  <2>3. \A k \in 1 .. n : f[k] = IF k = 1 THEN seqs[k] ELSE Concat(f[k - 1], seqs[k])
    BY <2>2 DEF Flats
  <2> DEFINE Bad == {k \in Nat : k \in 1 .. n /\ ~(f[k] \in Seq(S))}
  <2>4. SUFFICES ASSUME Bad # {} PROVE FALSE
    BY <2>1, <2>2
  <2>5. PICK k \in Bad : \A j \in Bad : k <= j
    <3> HIDE DEF Bad
    <3>1. Bad \in SUBSET Nat
      BY DEF Bad
    <3> QED
      BY <2>4, <3>1, Least
  <2>6. k \in 1 .. n /\ ~(f[k] \in Seq(S))
    BY <2>5
  <2>7. CASE k = 1
    BY <2>3, <2>6, <2>7
  <2>8. CASE k # 1
    <3>1. k - 1 \in Nat /\ k - 1 \in 1 .. n /\ ~(k - 1 \in Bad)
      <4>1. k - 1 \in Nat /\ k - 1 \in 1 .. n /\ ~(k <= k - 1)
        BY <2>6, <2>8
      <4> HIDE DEF Bad
      <4> QED
        BY <2>5, <4>1
    <3> DEFINE q == f[k - 1]  r == seqs[k]
    <3>2. q \in Seq(S) /\ r \in Seq(S)
      BY <2>6, <3>1
    <3>3. f[k] = Concat(q, r)
      BY <2>3, <2>6, <2>8
    <3> HIDE DEF q, r
    <3>4. Concat(q, r) \in Seq(S)
      BY <3>2 DEF Concat
    <3> QED
      BY <2>6, <3>3, <3>4
  <2> QED
    BY <2>7, <2>8
<1> QED
  BY <1>1, <1>2

\* What only one of them has occurs as often as there.
LEMMA FlattenHits ==
    ASSUME NEW S, NEW seqs \in Seq(Seq(S)), NEW M, NEW c \in 1 .. Len(seqs),
           \A i \in 1 .. Len(seqs) : i # c => Hits(seqs[i], M) = 0
    PROVE  Hits(FlattenSeq(seqs), M) = Hits(seqs[c], M)
<1> DEFINE n == Len(seqs)
           Due(k) == IF k < c THEN 0 ELSE Hits(seqs[c], M)
<1>1. n \in Nat \ {0} /\ c \in 1 .. n
  OBVIOUS
<1>2. PICK f : Flats(f, seqs, n) /\ FlattenSeq(seqs) = f[n]
  BY <1>1, FlattenStep
<1>3. \A k \in 1 .. n : f[k] = IF k = 1 THEN seqs[k] ELSE Concat(f[k - 1], seqs[k])
  BY <1>2 DEF Flats
<1>4. \A k \in 1 .. n : seqs[k] \in Seq(S) /\ Hits(seqs[k], M) \in Nat
  <2> SUFFICES ASSUME NEW k \in 1 .. n PROVE seqs[k] \in Seq(S) /\ Hits(seqs[k], M) \in Nat
    OBVIOUS
  <2>1. seqs[k] \in Seq(S)
    OBVIOUS
  <2> QED
    BY <2>1, HitsNat
<1> DEFINE Bad == {k \in Nat : k \in 1 .. n /\ ~(f[k] \in Seq(S) /\ Hits(f[k], M) = Due(k))}
<1>5. SUFFICES ASSUME Bad # {} PROVE FALSE
  <2>1. n \in 1 .. n /\ n \in Nat /\ ~(n < c)
    BY <1>1
  <2>2. n \notin Bad => Hits(f[n], M) = Due(n)
    BY <2>1
  <2> QED
    BY <1>2, <2>1, <2>2
<1>6. PICK k \in Bad : \A j \in Bad : k <= j
  <2> HIDE DEF Bad
  <2>1. Bad \in SUBSET Nat
    BY DEF Bad
  <2> QED
    BY <1>5, <2>1, Least
<1>7. k \in 1 .. n /\ ~(f[k] \in Seq(S) /\ Hits(f[k], M) = Due(k))
  BY <1>6
<1>8. CASE k = 1
  <2>1. f[k] = seqs[k] /\ seqs[k] \in Seq(S)
    BY <1>3, <1>4, <1>7, <1>8
  <2>2. Hits(seqs[k], M) = Due(k)
    BY <1>1, <1>7, <1>8
  <2> QED
    BY <1>7, <2>1, <2>2
<1>9. CASE k # 1
  <2>1. k - 1 \in Nat /\ k - 1 \in 1 .. n /\ ~(k - 1 \in Bad)
    <3>1. k - 1 \in Nat /\ k - 1 \in 1 .. n /\ ~(k <= k - 1)
      BY <1>7, <1>9
    <3> HIDE DEF Bad
    <3> QED
      BY <1>6, <3>1
  <2>2. f[k - 1] \in Seq(S) /\ Hits(f[k - 1], M) = Due(k - 1)
    BY <2>1
  <2> DEFINE q == f[k - 1]  r == seqs[k]
  <2>3. f[k] = q \o r
    BY <1>3, <1>7, <1>9 DEF Concat
  <2>4. q \in Seq(S) /\ r \in Seq(S)
    BY <1>4, <1>7, <2>2
  <2>5. q \o r \in Seq(S) /\ Hits(q \o r, M) = Hits(q, M) + Hits(r, M)
    <3> HIDE DEF q, r
    <3> QED
      BY <2>4, HitsConcat
  <2>6. Due(k - 1) + Hits(r, M) = Due(k)
    <3>1. Hits(r, M) \in Nat /\ Hits(seqs[c], M) \in Nat /\ (k # c => Hits(r, M) = 0)
      BY <1>1, <1>4, <1>7
    <3>2. k = c => Hits(r, M) = Hits(seqs[c], M)
      OBVIOUS
    <3> HIDE DEF r
    <3> QED
      BY <1>1, <1>7, <3>1, <3>2
  <2> HIDE DEF q, r, Due
  <2>7. Hits(q, M) = Due(k - 1)
    BY <2>2 DEF q
  <2> QED
    BY <1>7, <2>3, <2>5, <2>6, <2>7
<1> QED
  BY <1>8, <1>9

LEMMA FlattenCount ==
    ASSUME NEW S, NEW seqs \in Seq(Seq(S)), NEW m, NEW c \in 1 .. Len(seqs),
           \A i \in 1 .. Len(seqs) : i # c => CountOf(seqs[i], m) = 0
    PROVE  CountOf(FlattenSeq(seqs), m) = CountOf(seqs[c], m)
<1>1. \A i \in 1 .. Len(seqs) : i # c => Hits(seqs[i], {m}) = 0
  BY CountHits
<1>2. Hits(FlattenSeq(seqs), {m}) = Hits(seqs[c], {m})
  BY <1>1, FlattenHits
<1> QED
  BY <1>2, CountHits

-----------------------------------------------------------------------------
(* Parts of sequences. *)

\* The numbers from 1 to n are n.
LEMMA OneTo == \A n \in Nat : IsFiniteSet(1 .. n) /\ Cardinality(1 .. n) = n
<1> SUFFICES ASSUME NEW n \in Nat PROVE IsFiniteSet(1 .. n) /\ Cardinality(1 .. n) = n
  OBVIOUS
<1>1. 1 \in Int /\ n \in Int
  OBVIOUS
<1>2. IsFiniteSet(1 .. n) /\ Cardinality(1 .. n) = IF 1 > n THEN 0 ELSE n - 1 + 1
  BY <1>1, FS_Interval
<1> QED
  BY <1>2

\* What grows from place to place takes no value twice.
LEMMA GrowingInjective ==
    ASSUME NEW I \in SUBSET Int, NEW f, \A i \in I : f[i] \in Int,
           \A i, j \in I : i < j => f[i] < f[j]
    PROVE  \A i, j \in I : f[i] = f[j] => i = j
<1>1. \A i, j \in I : i < j \/ j < i \/ i = j
  OBVIOUS
<1>2. \A i, j \in I : f[i] < f[j] => f[i] # f[j]
  OBVIOUS
<1> QED
  BY <1>1, <1>2

\* There is one way to list a set in ascending order.
LEMMA AscendingOnly ==
    ASSUME NEW S \in SUBSET Int, IsFiniteSet(S),
           NEW f \in [1 .. Cardinality(S) -> S],
           \A i, j \in 1 .. Cardinality(S) : i < j => f[i] < f[j]
    PROVE  f = Ascending(S)
<1> DEFINE n == Cardinality(S)
           a == Ascending(S)
<1>1. n \in Nat /\ a \in [1 .. n -> S] /\ (\A s \in S : \E i \in 1 .. n : a[i] = s)
      /\ (\A i, j \in 1 .. n : i < j => a[i] < a[j])
  BY AscendingIs
<1>2. \A i \in 1 .. n : f[i] \in S /\ f[i] \in Int /\ a[i] \in Int
  BY <1>1
<1>3. \A s \in S : \E i \in 1 .. n : f[i] = s
  <2>1. \A i, j \in 1 .. n : f[i] = f[j] => i = j
    <3>1. 1 .. n \in SUBSET Int
      BY <1>1
    <3>2. \A i, j \in 1 .. n : i < j => f[i] < f[j]
      OBVIOUS
    <3> HIDE DEF n
    <3> QED
      BY <3>1, <3>2, <1>2, GrowingInjective
  <2>2. f \in Injection(1 .. n, S)
    BY <2>1, Fun_IsInj
  <2>3. IsFiniteSet(1 .. n) /\ Cardinality(1 .. n) = n
    BY <1>1, OneTo
  <2>4. f \in Surjection(1 .. n, S)
    BY <2>2, <2>3, FS_Injection
  <2> HIDE DEF n
  <2> QED
    BY <2>4 DEF Surjection
\* They agree up to the first place where they do not.
<1> DEFINE Bad == {i \in 1 .. n : f[i] # a[i]}
<1> HIDE DEF n, a
<1>4. ASSUME NEW b \in Bad, \A i \in Bad : b <= i
      PROVE  FALSE
  <2>1. b \in 1 .. n /\ f[b] # a[b] /\ b \in Nat
    BY <1>1
  <2>2. \A i \in 1 .. n : i < b => f[i] = a[i]
    BY <1>1, <1>4
  <2>3. PICK i \in 1 .. n : f[i] = a[b]
    BY <1>1, <1>3, <2>1
  <2>4. PICK j \in 1 .. n : a[j] = f[b]
    BY <1>1, <1>2, <2>1
  <2>5. i \in Int /\ j \in Int /\ b \in Int
    BY <1>1, <2>1
  <2>6. i # b /\ j # b
    BY <2>1, <2>3, <2>4
  <2>7. ~(i < b)
    <3> SUFFICES ASSUME i < b PROVE FALSE
      OBVIOUS
    <3>1. a[i] = a[b] /\ a[i] < a[b]
      BY <1>1, <2>1, <2>2, <2>3
    <3> QED
      BY <3>1, <1>2, <2>1
  <2>8. ~(j < b)
    <3> SUFFICES ASSUME j < b PROVE FALSE
      OBVIOUS
    <3>1. f[j] = f[b] /\ f[j] < f[b]
      BY <1>1, <2>1, <2>2, <2>4 DEF n
    <3> QED
      BY <3>1, <1>2, <2>1
  <2>9. f[b] < f[i] /\ a[b] < a[j]
    BY <1>1, <2>1, <2>5, <2>6, <2>7, <2>8 DEF n
  <2> QED
    BY <2>1, <2>3, <2>4, <2>9, <1>2
<1>5. Bad = {}
  <2>1. Bad \in SUBSET Nat
    BY <1>1 DEF Bad
  <2> HIDE DEF Bad
  <2> QED
    BY <1>4, <2>1, Least
<1>6. DOMAIN f = 1 .. n /\ DOMAIN a = 1 .. n
  BY <1>1 DEF n
<1>7. f = a
  BY <1>1, <1>5, <1>6 DEF n
<1> QED
  BY <1>7 DEF a

\* A list of all places picks all there is.
LEMMA PickedAll ==
    ASSUME NEW T, NEW q \in Seq(T)
    PROVE  Picked(q, DOMAIN q) = q
<1> DEFINE n == Len(q)
           f == [i \in 1 .. n |-> i]
<1>1. n \in Nat /\ DOMAIN q = 1 .. n /\ q = [i \in 1 .. n |-> q[i]]
  OBVIOUS
<1>2. IsFiniteSet(1 .. n) /\ Cardinality(1 .. n) = n
  BY <1>1, OneTo
<1>3. f = Ascending(1 .. n)
  <2>1. f \in [1 .. n -> 1 .. n] /\ (\A i, j \in 1 .. n : i < j => f[i] < f[j]) /\ 1 .. n \in SUBSET Int
    BY <1>1
  <2> HIDE DEF f, n
  <2> QED
    BY <1>2, <2>1, AscendingOnly
<1>4. \A i \in 1 .. n : Ascending(1 .. n)[i] = i
  <2>1. \A i \in 1 .. n : f[i] = i
    OBVIOUS
  <2> HIDE DEF f, n
  <2> QED
    BY <1>3, <2>1
<1>5. Picked(q, 1 .. n) = [i \in 1 .. n |-> q[i]]
  BY <1>2, <1>4, Zenon DEF Picked
<1> QED
  BY <1>1, <1>5

\* What is picked is a sequence, of the entries at these places and no others.
LEMMA PickedIs ==
    ASSUME NEW T, NEW q \in Seq(T), NEW S \in SUBSET DOMAIN q
    PROVE  /\ IsFiniteSet(S) /\ S \in SUBSET Int
           /\ Picked(q, S) \in Seq(T) /\ Len(Picked(q, S)) = Cardinality(S)
           /\ DOMAIN Picked(q, S) = 1 .. Cardinality(S) /\ Cardinality(S) \in Nat
           /\ \A i \in 1 .. Cardinality(S) :
                 Ascending(S)[i] \in S /\ Picked(q, S)[i] = q[Ascending(S)[i]]
           /\ \A s \in S : \E i \in 1 .. Cardinality(S) : Ascending(S)[i] = s
<1>1. Len(q) \in Nat /\ DOMAIN q = 1 .. Len(q) /\ \A i \in DOMAIN q : q[i] \in T
  OBVIOUS
<1>2. IsFiniteSet(1 .. Len(q))
  BY <1>1, OneTo
<1>3. IsFiniteSet(S) /\ S \in SUBSET Int
  BY <1>1, <1>2, FS_Subset
<1>4. Cardinality(S) \in Nat /\ Ascending(S) \in [1 .. Cardinality(S) -> S]
      /\ (\A s \in S : \E i \in 1 .. Cardinality(S) : Ascending(S)[i] = s)
  BY <1>3, AscendingIs
<1>5. \A i \in 1 .. Cardinality(S) : Ascending(S)[i] \in S /\ q[Ascending(S)[i]] \in T
  BY <1>1, <1>4
<1>6. Picked(q, S) \in [1 .. Cardinality(S) -> T]
  BY <1>5 DEF Picked
<1>7. Picked(q, S) \in Seq(T) /\ Len(Picked(q, S)) = Cardinality(S)
  BY <1>4, <1>6
<1>8. \A i \in 1 .. Cardinality(S) : Picked(q, S)[i] = q[Ascending(S)[i]]
  BY DEF Picked
<1> QED
  BY <1>3, <1>4, <1>5, <1>6, <1>7, <1>8

\* Picking from what was picked.
LEMMA PickedTwice ==
    ASSUME NEW T, NEW q \in Seq(T), NEW S \in SUBSET DOMAIN q,
           NEW R \in SUBSET (1 .. Cardinality(S))
    PROVE  /\ {Ascending(S)[i] : i \in R} \in SUBSET S
           /\ Picked(Picked(q, S), R) = Picked(q, {Ascending(S)[i] : i \in R})
<1> DEFINE a == Ascending(S)
           n == Cardinality(S)
           I == {a[i] : i \in R}
           f == [i \in 1 .. Cardinality(R) |-> a[Ascending(R)[i]]]
<1>1. IsFiniteSet(S) /\ S \in SUBSET Int /\ n \in Nat
  BY PickedIs
<1>2. a \in [1 .. n -> S] /\ \A i, j \in 1 .. n : i < j => a[i] < a[j]
  BY <1>1, AscendingIs
<1>3. IsFiniteSet(R) /\ R \in SUBSET Int
  <2>1. IsFiniteSet(1 .. n)
    BY <1>1, OneTo
  <2>2. 1 .. n \in SUBSET Int
    BY <1>1
  <2> QED
    BY <2>1, <2>2, FS_Subset
<1> DEFINE r == Ascending(R)
           m == Cardinality(R)
<1>4. m \in Nat /\ r \in [1 .. m -> R] /\ (\A i, j \in 1 .. m : i < j => r[i] < r[j])
  BY <1>3, AscendingIs
<1>5. I \in SUBSET S
  BY <1>2
<1>6. IsFiniteSet(I) /\ Cardinality(I) = m
  <2> DEFINE g == [i \in R |-> a[i]]
  <2>1. \A i, j \in R : g[i] = g[j] => i = j
    <3>1. \A i \in R : g[i] \in Int
      BY <1>1, <1>2
    <3>2. \A i, j \in R : i < j => g[i] < g[j]
      BY <1>2
    <3> HIDE DEF g
    <3> QED
      BY <1>3, <3>1, <3>2, GrowingInjective
  <2>2. g \in Surjection(R, I)
    BY DEF Surjection
  <2>3. g \in Injection(R, I)
    BY <2>1, Fun_IsInj
  <2>4. g \in Bijection(R, I)
    BY <2>2, <2>3 DEF Bijection
  <2> HIDE DEF g, I
  <2> QED
    BY <1>3, <2>4, FS_Bijection DEF ExistsBijection
<1>7. f \in [1 .. m -> I] /\ \A i, j \in 1 .. m : i < j => f[i] < f[j]
  BY <1>2, <1>4
<1>8. f = Ascending(I)
  <2> HIDE DEF f, I, a, n, r
  <2> QED
    BY <1>1, <1>5, <1>6, <1>7, AscendingOnly
<1>9. \A i \in 1 .. m : Picked(Picked(q, S), R)[i] = q[a[r[i]]] /\ Picked(q, I)[i] = q[a[r[i]]]
  <2> SUFFICES ASSUME NEW i \in 1 .. m
               PROVE  Picked(Picked(q, S), R)[i] = q[a[r[i]]] /\ Picked(q, I)[i] = q[a[r[i]]]
    OBVIOUS
  <2>1. r[i] \in 1 .. n
    BY <1>4
  <2>2. Picked(Picked(q, S), R)[i] = Picked(q, S)[r[i]]
    BY DEF Picked
  <2>3. Picked(q, S)[r[i]] = q[a[r[i]]]
    BY <2>1 DEF Picked
  <2>4. f[i] = a[r[i]]
    OBVIOUS
  <2>5. Picked(q, I)[i] = q[Ascending(I)[i]]
    <3> HIDE DEF I
    <3> QED
      BY <1>6 DEF Picked
  <2> HIDE DEF f, I, a, r
  <2> QED
    BY <1>8, <2>2, <2>3, <2>4, <2>5
<1>10. Picked(Picked(q, S), R) = Picked(q, I)
  <2>1. Picked(Picked(q, S), R) = [i \in 1 .. m |-> Picked(Picked(q, S), R)[i]]
    BY DEF Picked
  <2>2. Picked(q, I) = [i \in 1 .. m |-> Picked(q, I)[i]]
    <3> HIDE DEF I
    <3> QED
      BY <1>6 DEF Picked
  <2> HIDE DEF I, a, r, m
  <2> QED
    BY <1>9, <2>1, <2>2, Zenon
<1> QED
  BY <1>5, <1>10

\* As many of a kind are picked as there are of it at those places.
LEMMA PickedPlaces ==
    ASSUME NEW T, NEW q \in Seq(T), NEW S \in SUBSET DOMAIN q, NEW R
    PROVE  Hits(Picked(q, S), R) = Cardinality(PlacesIn(q, S, R))
<1> DEFINE a == Ascending(S)
           n == Cardinality(S)
           I == {i \in 1 .. n : Picked(q, S)[i] \in R}
           J == {s \in S : q[s] \in R}
           g == [i \in I |-> a[i]]
<1>1. /\ n \in Nat /\ DOMAIN Picked(q, S) = 1 .. n /\ IsFiniteSet(S) /\ S \in SUBSET Int
      /\ \A i \in 1 .. n : a[i] \in S /\ Picked(q, S)[i] = q[a[i]]
      /\ \A s \in S : \E i \in 1 .. n : a[i] = s
  BY PickedIs
<1>2. \A i, j \in 1 .. n : i < j => a[i] < a[j]
  BY <1>1, AscendingIs
<1>3. IsFiniteSet(I)
  BY <1>1, OneTo, FS_Subset
<1> HIDE DEF a, n
<1>4. g \in Surjection(I, J)
  <2>1. \A i \in I : g[i] \in J
    BY <1>1
  <2>2. \A s \in J : \E i \in I : g[i] = s
    BY <1>1
  <2> HIDE DEF I, J
  <2> QED
    BY <2>1, <2>2, Fun_IsSurj
<1>5. \A i, j \in I : g[i] = g[j] => i = j
  <2>1. \A i, j \in I : i < j \/ j < i \/ i = j
    BY <1>1
  <2>2. \A i \in I : a[i] \in Int /\ g[i] = a[i]
    BY <1>1
  <2> HIDE DEF g
  <2> QED
    BY <1>2, <2>1, <2>2
<1>6. g \in Bijection(I, J)
  <2> HIDE DEF g, I, J
  <2>1. g \in Injection(I, J)
    BY <1>4, <1>5, Fun_IsInj DEF Surjection
  <2> QED
    BY <2>1, <1>4 DEF Bijection
<1>7. Cardinality(I) = Cardinality(J)
  <2> HIDE DEF g, I, J
  <2> QED
    BY <1>3, <1>6, FS_Bijection DEF ExistsBijection
<1>8. Places(Picked(q, S), R) = I
  BY <1>1 DEF Places
<1> QED
  BY <1>7, <1>8, Zenon DEF Hits, PlacesIn, J

\* A finite set of integers has a least element.
LEMMA LeastInt ==
    ASSUME NEW S \in SUBSET Int, IsFiniteSet(S), S # {}
    PROVE  \E s \in S : \A t \in S : s <= t
<1> DEFINE n == Cardinality(S)  a == Ascending(S)
<1>1. n \in Nat /\ a \in [1 .. n -> S] /\ (\A s \in S : \E i \in 1 .. n : a[i] = s)
      /\ (\A i, j \in 1 .. n : i < j => a[i] < a[j])
  BY AscendingIs
<1> HIDE DEF n, a
<1>2. 1 \in 1 .. n
  <2>1. PICK s \in S : TRUE
    OBVIOUS
  <2>2. PICK i \in 1 .. n : a[i] = s
    BY <1>1, <2>1
  <2> QED
    BY <1>1, <2>2
<1>3. ASSUME NEW t \in S PROVE a[1] <= t
  <2>1. PICK i \in 1 .. n : a[i] = t
    BY <1>1
  <2>2. i = 1 \/ 1 < i
    BY <1>1
  <2>3. a[1] \in Int /\ a[i] \in Int
    BY <1>1, <1>2
  <2>4. a[1] = a[i] \/ a[1] < a[i]
    BY <1>1, <1>2, <2>2
  <2> QED
    BY <2>1, <2>3, <2>4
<1> QED
  BY <1>1, <1>2, <1>3

-----------------------------------------------------------------------------
(* Sums. *)

\* The recursion behind SumFunctionOnSet: an element is chosen, then the rest is summed.
Chosen(s) == CHOOSE x \in s : TRUE
Summand(f, g, s) == IF s = {} THEN 0 ELSE f[Chosen(s)] + g[s \ {Chosen(s)}]
Totals(f, S) == CHOOSE g : g = [s \in SUBSET S |-> Summand(f, g, s)]

LEMMA SumUnfolds ==
    ASSUME NEW f, NEW S
    PROVE  SumFunctionOnSet(f, S) = Totals(f, S)[S]
BY DEF SumFunctionOnSet, FoldFunctionOnSet, MapThenFoldSet, Totals, Summand, Chosen

\* The recursion exists on the sets of up to n elements, for every n.
Upto(S, n) == {s \in SUBSET S : Cardinality(s) <= n}

LEMMA SumsUpto ==
    ASSUME NEW f, NEW S, IsFiniteSet(S), NEW n \in Nat
    PROVE  \E g : g = [s \in Upto(S, n) |-> Summand(f, g, s)]
<1> DEFINE Good(k) == \E g : g = [s \in Upto(S, k) |-> Summand(f, g, s)]
           Bad == {k \in Nat : ~Good(k)}
<1>1. Good(0)
  <2>1. \A s \in Upto(S, 0) : s = {}
    <3> SUFFICES ASSUME NEW s \in Upto(S, 0) PROVE s = {}
      OBVIOUS
    <3>1. IsFiniteSet(s) /\ Cardinality(s) <= 0
      BY FS_Subset DEF Upto
    <3>2. Cardinality(s) \in Nat
      BY <3>1, FS_CardinalityType
    <3> QED
      BY <3>1, <3>2, FS_EmptySet
  <2> DEFINE g == [s \in Upto(S, 0) |-> 0]
  <2>2. \A s \in Upto(S, 0) : Summand(f, g, s) = 0
    BY <2>1 DEF Summand
  <2>3. g = [s \in Upto(S, 0) |-> Summand(f, g, s)]
    BY <2>2
  <2> HIDE DEF g
  <2> QED
    BY <2>3
<1>2. ASSUME NEW k \in Nat, Good(k) PROVE Good(k + 1)
  <2>1. PICK g : g = [s \in Upto(S, k) |-> Summand(f, g, s)]
    BY <1>2
  <2> DEFINE e == [s \in Upto(S, k + 1) |-> Summand(f, g, s)]
  <2>2. \A s \in Upto(S, k + 1) : s # {} => s \ {Chosen(s)} \in Upto(S, k) /\ s \ {Chosen(s)} \in Upto(S, k + 1)
    <3> SUFFICES ASSUME NEW s \in Upto(S, k + 1), s # {}
                 PROVE  s \ {Chosen(s)} \in Upto(S, k) /\ s \ {Chosen(s)} \in Upto(S, k + 1)
      OBVIOUS
    <3>1. Chosen(s) \in s
      BY DEF Chosen
    <3>2. IsFiniteSet(s) /\ Cardinality(s) <= k + 1 /\ s \subseteq S
      BY FS_Subset DEF Upto
    <3>3. Cardinality(s \ {Chosen(s)}) = Cardinality(s) - 1
      BY <3>1, <3>2, FS_RemoveElement
    <3>4. Cardinality(s) \in Nat
      BY <3>2, FS_CardinalityType
    <3>5. Cardinality(s \ {Chosen(s)}) <= k /\ Cardinality(s \ {Chosen(s)}) <= k + 1
      BY <3>2, <3>3, <3>4
    <3> QED
      BY <3>2, <3>5 DEF Upto
  <2>3. \A s \in Upto(S, k) : s \in Upto(S, k + 1)
    <3> SUFFICES ASSUME NEW s \in Upto(S, k) PROVE s \in Upto(S, k + 1)
      OBVIOUS
    <3>1. Cardinality(s) \in Nat /\ Cardinality(s) <= k /\ s \subseteq S
      BY FS_Subset, FS_CardinalityType DEF Upto
    <3> QED
      BY <3>1 DEF Upto
  <2>4. \A s \in Upto(S, k) : e[s] = g[s]
    BY <2>1, <2>3
  <2>5. \A s \in Upto(S, k + 1) : Summand(f, g, s) = Summand(f, e, s)
    <3> HIDE DEF e
    <3> QED
      BY <2>2, <2>4 DEF Summand
  <2>6. e = [s \in Upto(S, k + 1) |-> Summand(f, e, s)]
    BY <2>5
  <2> HIDE DEF e
  <2> QED
    BY <2>6
<1>3. Bad = {}
  <2> HIDE DEF Good
  <2> SUFFICES ASSUME Bad # {} PROVE FALSE
    OBVIOUS
  <2>1. Bad \in SUBSET Nat
    OBVIOUS
  <2>2. PICK b \in Bad : \A m \in Bad : b <= m
    <3> HIDE DEF Bad
    <3> QED BY <2>1, Least
  <2>3. b # 0 /\ b \in Nat
    BY <1>1
  <2>4. b - 1 \in Nat /\ b - 1 \notin Bad
    BY <2>2, <2>3
  <2>5. Good(b - 1 + 1)
    BY <2>4, <1>2
  <2>6. b - 1 + 1 = b
    BY <2>3
  <2> QED
    BY <2>5, <2>6
<1> QED
  BY <1>3

\* The library's sum obeys its recursion on every part of a finite set.
LEMMA TotalsObey ==
    ASSUME NEW f, NEW S, IsFiniteSet(S), NEW s \in SUBSET S
    PROVE  Totals(f, S)[s] = Summand(f, Totals(f, S), s)
<1>1. Cardinality(S) \in Nat
  BY FS_CardinalityType
<1>2. PICK g : g = [r \in Upto(S, Cardinality(S)) |-> Summand(f, g, r)]
  BY <1>1, SumsUpto
<1>3. Upto(S, Cardinality(S)) = SUBSET S
  BY FS_Subset DEF Upto
<1> DEFINE j == Totals(f, S)
<1>4. j = [r \in SUBSET S |-> Summand(f, j, r)]
  BY <1>2, <1>3 DEF Totals
<1> HIDE DEF j
<1>5. j[s] = [r \in SUBSET S |-> Summand(f, j, r)][s]
  BY <1>4
<1>6. j[s] = Summand(f, j, s)
  BY <1>5
<1> QED
  BY <1>6 DEF j

\* A sum takes out the element that the library happens to choose.
LEMMA SumChosen ==
    ASSUME NEW f, NEW S, IsFiniteSet(S)
    PROVE  SumFunctionOnSet(f, S) =
               IF S = {} THEN 0 ELSE f[Chosen(S)] + SumFunctionOnSet(f, S \ {Chosen(S)})
<1>1. ASSUME NEW R \in SUBSET S
      PROVE  \A r \in SUBSET R : Totals(f, S)[r] = Totals(f, R)[r]
  <2> DEFINE Bad == {k \in Nat : \E r \in SUBSET R : Cardinality(r) = k /\ Totals(f, S)[r] # Totals(f, R)[r]}
  <2>0. IsFiniteSet(R)
    BY FS_Subset
  <2>1. ASSUME NEW b \in Bad, \A m \in Bad : b <= m
        PROVE  FALSE
    <3>1. PICK r \in SUBSET R : Cardinality(r) = b /\ Totals(f, S)[r] # Totals(f, R)[r]
      OBVIOUS
    <3>2. r \in SUBSET S
      OBVIOUS
    <3>3. Totals(f, S)[r] = Summand(f, Totals(f, S), r)
      BY <3>2, TotalsObey
    <3>4. Totals(f, R)[r] = Summand(f, Totals(f, R), r)
      BY <2>0, <3>1, TotalsObey
    <3>5. r # {}
      BY <3>1, <3>3, <3>4 DEF Summand
    <3> DEFINE t == r \ {Chosen(r)}
    <3>6. Totals(f, S)[t] # Totals(f, R)[t]
      BY <3>1, <3>3, <3>4 DEF Summand
    <3>7. Cardinality(t) = b - 1 /\ b \in Nat
      <4>1. Chosen(r) \in r
        BY <3>5 DEF Chosen
      <4>2. IsFiniteSet(r)
        BY <3>2, FS_Subset
      <4> QED
        BY <4>1, <4>2, <3>1, FS_RemoveElement
    <3>8. Cardinality(t) \in Nat /\ t \in SUBSET R
      <4>1. t \in SUBSET R
        OBVIOUS
      <4>2. IsFiniteSet(t)
        BY <4>1, <2>0, FS_Subset
      <4> QED
        BY <4>1, <4>2, FS_CardinalityType
    <3>9. b - 1 \in Bad
      BY <3>6, <3>7, <3>8
    <3> HIDE DEF Bad
    <3> QED
      BY <3>7, <3>9, <2>1
  <2>2. Bad = {}
    <3>1. Bad \in SUBSET Nat
      OBVIOUS
    <3> HIDE DEF Bad
    <3> QED
      BY <2>1, <3>1, Least
  <2> SUFFICES ASSUME NEW r \in SUBSET R PROVE Totals(f, S)[r] = Totals(f, R)[r]
    OBVIOUS
  <2>3. Cardinality(r) \in Nat
    BY <2>0, FS_Subset, FS_CardinalityType
  <2> QED
    BY <2>2, <2>3
<1>2. Totals(f, S)[S] = Summand(f, Totals(f, S), S)
  BY TotalsObey
<1>3. Totals(f, S)[S \ {Chosen(S)}] = Totals(f, S \ {Chosen(S)})[S \ {Chosen(S)}]
  BY <1>1
<1>4. SumFunctionOnSet(f, S) = Totals(f, S)[S]
  BY SumUnfolds
<1>5. SumFunctionOnSet(f, S \ {Chosen(S)}) = Totals(f, S \ {Chosen(S)})[S \ {Chosen(S)}]
  BY SumUnfolds
<1> QED
  BY <1>2, <1>3, <1>4, <1>5 DEF Summand

\* A sum stays among the numbers its summands are of, if their sums do.
LEMMA SumIn ==
    ASSUME NEW T, 0 \in T, \A a, b \in T : a + b \in T,
           NEW f, NEW S, IsFiniteSet(S), \A x \in S : f[x] \in T
    PROVE  SumFunctionOnSet(f, S) \in T
<1> DEFINE Bad == {k \in Nat : \E s \in SUBSET S : Cardinality(s) = k /\ SumFunctionOnSet(f, s) \notin T}
<1>1. ASSUME NEW b \in Bad, \A m \in Bad : b <= m
      PROVE  FALSE
  <2>1. PICK s \in SUBSET S : Cardinality(s) = b /\ SumFunctionOnSet(f, s) \notin T
    OBVIOUS
  <2>2. IsFiniteSet(s)
    BY FS_Subset
  <2> DEFINE t == s \ {Chosen(s)}
  <2>3. SumFunctionOnSet(f, s) = IF s = {} THEN 0 ELSE f[Chosen(s)] + SumFunctionOnSet(f, t)
    BY <2>2, SumChosen
  <2>4. s # {}
    BY <2>1, <2>3
  <2>5. Chosen(s) \in s
    BY <2>4 DEF Chosen
  <2>6. SumFunctionOnSet(f, t) \notin T
    <3>1. f[Chosen(s)] \in T
      BY <2>5
    <3> QED
      BY <2>1, <2>3, <2>4, <3>1
  <2>7. Cardinality(t) = b - 1 /\ Cardinality(t) \in Nat /\ b \in Nat
    <3>1. IsFiniteSet(t)
      BY <2>2, FS_Subset
    <3> QED
      BY <3>1, <2>1, <2>2, <2>5, FS_RemoveElement, FS_CardinalityType
  <2>8. b - 1 \in Bad
    BY <2>6, <2>7
  <2> HIDE DEF Bad
  <2> QED
    BY <2>7, <2>8, <1>1
<1>2. Bad = {}
  <2>1. Bad \in SUBSET Nat
    OBVIOUS
  <2> HIDE DEF Bad
  <2> QED
    BY <1>1, <2>1, Least
<1> QED
  BY <1>2, FS_CardinalityType

LEMMA SumType ==
    ASSUME NEW f, NEW S, IsFiniteSet(S)
    PROVE  /\ (\A x \in S : f[x] \in Int) => SumFunctionOnSet(f, S) \in Int
           /\ (\A x \in S : f[x] \in Nat) => SumFunctionOnSet(f, S) \in Nat
<1>1. 0 \in Int /\ (\A a, b \in Int : a + b \in Int) /\ 0 \in Nat /\ (\A a, b \in Nat : a + b \in Nat)
  OBVIOUS
<1> QED
  BY <1>1, SumIn

\* ... and any element may be taken out first.
LEMMA SumTakes ==
    ASSUME NEW f, NEW S, IsFiniteSet(S), \A x \in S : f[x] \in Int, NEW x \in S
    PROVE  SumFunctionOnSet(f, S) = f[x] + SumFunctionOnSet(f, S \ {x})
<1> DEFINE Takes(s) == \A y \in s : SumFunctionOnSet(f, s) = f[y] + SumFunctionOnSet(f, s \ {y})
           Bad == {k \in Nat : \E s \in SUBSET S : Cardinality(s) = k /\ ~Takes(s)}
<1>1. ASSUME NEW b \in Bad, \A m \in Bad : b <= m
      PROVE  FALSE
  <2>1. PICK s \in SUBSET S : Cardinality(s) = b /\ ~Takes(s)
    OBVIOUS
  <2>2. PICK y \in s : SumFunctionOnSet(f, s) # f[y] + SumFunctionOnSet(f, s \ {y})
    BY <2>1
  <2> DEFINE c == Chosen(s)
             t == s \ {c}
             u == s \ {y}
             r == (s \ {y}) \ {c}
  <2>3. c \in s /\ IsFiniteSet(s)
    BY <2>2, FS_Subset DEF Chosen
  <2>4. SumFunctionOnSet(f, s) = f[c] + SumFunctionOnSet(f, t)
    BY <2>2, <2>3, SumChosen
  <2>5. y # c
    BY <2>2, <2>4
  <2>6. IsFiniteSet(t) /\ IsFiniteSet(u) /\ IsFiniteSet(r) /\ Cardinality(s) \in Nat
    BY <2>3, FS_Subset, FS_CardinalityType
  <2>7. Cardinality(t) = b - 1 /\ Cardinality(u) = b - 1 /\ b - 1 \in Nat /\ b \in Nat
    <3>1. Cardinality(t) \in Nat
      BY <2>6, FS_CardinalityType
    <3>2. Cardinality(t) = b - 1 /\ Cardinality(u) = b - 1
      BY <2>1, <2>3, FS_RemoveElement
    <3> QED
      BY <3>1, <3>2
  <2>8. Takes(t) /\ Takes(u)
    <3>1. b - 1 \notin Bad
      <4> HIDE DEF Bad
      <4> QED
        BY <1>1, <2>7
    <3>2. t \in SUBSET S /\ u \in SUBSET S
      OBVIOUS
    <3> HIDE DEF Takes
    <3> QED
      BY <2>7, <3>1, <3>2
  <2>9. t \ {y} = r
    OBVIOUS
  <2>10. SumFunctionOnSet(f, t) = f[y] + SumFunctionOnSet(f, r)
    <3>1. y \in t
      BY <2>5
    <3> HIDE DEF t, r
    <3> QED
      BY <2>8, <2>9, <3>1
  <2>11. SumFunctionOnSet(f, u) = f[c] + SumFunctionOnSet(f, r)
    <3>1. c \in u
      BY <2>3, <2>5
    <3> QED
      BY <2>8, <3>1
  <2>12. SumFunctionOnSet(f, r) \in Int /\ f[c] \in Int /\ f[y] \in Int
    BY <2>3, <2>6, SumType
  <2> HIDE DEF c, t, u, r, Bad
  <2>13. u = s \ {y}
    BY DEF u
  <2> QED
    BY <2>2, <2>4, <2>10, <2>11, <2>12, <2>13
<1>2. Bad = {}
  <2>1. Bad \in SUBSET Nat
    OBVIOUS
  <2> HIDE DEF Bad
  <2> QED
    BY <1>1, <2>1, Least
<1>3. Takes(S)
  <2>1. Cardinality(S) \in Nat
    BY FS_CardinalityType
  <2> QED
    BY <1>2, <2>1
<1> QED
  BY <1>3

\* What holds of nothing, and of a set if it does without one of its elements, holds
\* of every finite set.
LEMMA ByElements ==
    ASSUME NEW S, IsFiniteSet(S), NEW P, {} \in P,
           \A s \in SUBSET S : \A x \in s : s \ {x} \in P => s \in P
    PROVE  S \in P
<1> DEFINE Bad == {k \in Nat : \E s \in SUBSET S : Cardinality(s) = k /\ s \notin P}
<1>1. ASSUME NEW b \in Bad, \A m \in Bad : b <= m
      PROVE  FALSE
  <2>1. PICK s \in SUBSET S : Cardinality(s) = b /\ s \notin P
    OBVIOUS
  <2>2. PICK x \in s : TRUE
    BY <2>1
  <2>3. s \ {x} \notin P /\ s \ {x} \in SUBSET S
    BY <2>1, <2>2
  <2>4. IsFiniteSet(s) /\ IsFiniteSet(s \ {x})
    BY FS_Subset
  <2>5. Cardinality(s \ {x}) = b - 1 /\ Cardinality(s \ {x}) \in Nat /\ b \in Nat
    BY <2>1, <2>2, <2>4, FS_RemoveElement, FS_CardinalityType
  <2>6. b - 1 \in Bad
    BY <2>3, <2>5
  <2> HIDE DEF Bad
  <2> QED
    BY <2>5, <2>6, <1>1
<1>2. Bad = {}
  <2>1. Bad \in SUBSET Nat
    OBVIOUS
  <2> HIDE DEF Bad
  <2> QED
    BY <1>1, <2>1, Least
<1> QED
  BY <1>2, FS_CardinalityType

LEMMA SumEmpty == \A f : SumFunctionOnSet(f, {}) = 0
<1> SUFFICES ASSUME NEW f PROVE SumFunctionOnSet(f, {}) = 0
  OBVIOUS
<1>1. IsFiniteSet({})
  BY FS_EmptySet
<1> QED
  BY <1>1, SumChosen

\* A sum is that of a part and that of the rest.
LEMMA SumSplit ==
    ASSUME NEW f, NEW S, IsFiniteSet(S), \A x \in S : f[x] \in Int, NEW R \in SUBSET S
    PROVE  SumFunctionOnSet(f, S) = SumFunctionOnSet(f, R) + SumFunctionOnSet(f, S \ R)
<1> DEFINE P == {s \in SUBSET S : SumFunctionOnSet(f, S) = SumFunctionOnSet(f, s) + SumFunctionOnSet(f, S \ s)}
<1>1. \A s \in SUBSET S : IsFiniteSet(s) /\ SumFunctionOnSet(f, s) \in Int
  <2> SUFFICES ASSUME NEW s \in SUBSET S PROVE IsFiniteSet(s) /\ SumFunctionOnSet(f, s) \in Int
    OBVIOUS
  <2>1. IsFiniteSet(s)
    BY FS_Subset
  <2> QED
    BY <2>1, SumType
<1>2. {} \in P
  <2>1. S \ {} = S
    OBVIOUS
  <2> QED
    BY <1>1, <2>1, SumEmpty
<1>3. ASSUME NEW s \in SUBSET R, NEW x \in s, s \ {x} \in P
      PROVE  s \in P
  <2>1. SumFunctionOnSet(f, s) = f[x] + SumFunctionOnSet(f, s \ {x})
    BY <1>1, SumTakes
  <2>2. SumFunctionOnSet(f, S \ (s \ {x})) = f[x] + SumFunctionOnSet(f, (S \ (s \ {x})) \ {x})
    <3>1. x \in S \ (s \ {x}) /\ S \ (s \ {x}) \in SUBSET S
      OBVIOUS
    <3> HIDE DEF P
    <3> QED
      BY <3>1, <1>1, SumTakes
  <2>3. (S \ (s \ {x})) \ {x} = S \ s
    OBVIOUS
  <2>4. SumFunctionOnSet(f, S) = SumFunctionOnSet(f, s \ {x}) + SumFunctionOnSet(f, S \ (s \ {x}))
    BY <1>3
  <2>5. SumFunctionOnSet(f, s \ {x}) \in Int /\ SumFunctionOnSet(f, S \ s) \in Int /\ f[x] \in Int
    <3>1. s \ {x} \in SUBSET S /\ S \ s \in SUBSET S
      OBVIOUS
    <3> QED
      BY <1>1, <3>1
  <2>6. SumFunctionOnSet(f, S) = SumFunctionOnSet(f, s) + SumFunctionOnSet(f, S \ s)
    <3> DEFINE a == SumFunctionOnSet(f, s)  b == SumFunctionOnSet(f, S \ (s \ {x}))
               c == SumFunctionOnSet(f, s \ {x})  d == SumFunctionOnSet(f, S \ s)
               e == f[x]  all == SumFunctionOnSet(f, S)
    <3>1. b = e + d
      BY <2>2, <2>3
    <3>2. a = e + c /\ all = c + b /\ c \in Int /\ d \in Int /\ e \in Int
      BY <2>1, <2>4, <2>5
    <3> HIDE DEF a, b, c, d, e, all
    <3>3. all = a + d
      BY <3>1, <3>2
    <3> QED
      BY <3>3 DEF a, d, all
  <2> QED
    BY <2>6
<1>4. IsFiniteSet(R)
  BY <1>1
<1>5. R \in P
  <2> HIDE DEF P
  <2> QED
    BY <1>2, <1>3, <1>4, ByElements
<1> QED
  BY <1>5

\* The sum of a part of natural numbers is no greater.
LEMMA SumGrows ==
    ASSUME NEW f, NEW S, IsFiniteSet(S), \A x \in S : f[x] \in Nat, NEW R \in SUBSET S
    PROVE  SumFunctionOnSet(f, R) <= SumFunctionOnSet(f, S)
<1>1. SumFunctionOnSet(f, S) = SumFunctionOnSet(f, R) + SumFunctionOnSet(f, S \ R)
  BY SumSplit
<1>2. IsFiniteSet(R) /\ IsFiniteSet(S \ R)
  BY FS_Subset
<1>3. SumFunctionOnSet(f, R) \in Nat /\ SumFunctionOnSet(f, S \ R) \in Nat
  BY <1>2, SumType
<1> QED
  BY <1>1, <1>3

\* Summands may be named differently.
LEMMA SumRenamed ==
    ASSUME NEW f, NEW g, NEW S, IsFiniteSet(S), \A x \in S : f[x] \in Int,
           NEW m, \A x \in S : g[m[x]] = f[x], \A x, y \in S : m[x] = m[y] => x = y
    PROVE  SumFunctionOnSet(f, S) = SumFunctionOnSet(g, {m[x] : x \in S})
<1> DEFINE Named(s) == {m[x] : x \in s}
           P == {s \in SUBSET S : SumFunctionOnSet(f, s) = SumFunctionOnSet(g, Named(s))}
<1>1. {} \in P
  <2>1. Named({}) = {}
    OBVIOUS
  <2> HIDE DEF Named
  <2> QED
    BY <2>1, SumEmpty
<1>2. ASSUME NEW s \in SUBSET S, NEW x \in s, s \ {x} \in P
      PROVE  s \in P
  <2>1. IsFiniteSet(s)
    BY FS_Subset
  <2>2. IsFiniteSet(Named(s))
    <3> DEFINE j == [y \in s |-> m[y]]
    <3>1. j \in Surjection(s, Named(s))
      BY DEF Surjection
    <3> HIDE DEF j, Named
    <3> QED
      BY <2>1, <3>1, FS_Surjection
  <2>3. SumFunctionOnSet(f, s) = f[x] + SumFunctionOnSet(f, s \ {x})
    BY <2>1, SumTakes
  <2>4. \A y \in Named(s) : g[y] \in Int
    OBVIOUS
  <2>5. m[x] \in Named(s)
    OBVIOUS
  <2>6. SumFunctionOnSet(g, Named(s)) = g[m[x]] + SumFunctionOnSet(g, Named(s) \ {m[x]})
    <3> HIDE DEF Named, P
    <3> QED
      BY <2>2, <2>4, <2>5, SumTakes
  <2>7. Named(s) \ {m[x]} = Named(s \ {x})
    OBVIOUS
  <2>8. g[m[x]] = f[x]
    OBVIOUS
  <2>9. SumFunctionOnSet(f, s \ {x}) = SumFunctionOnSet(g, Named(s \ {x}))
    BY <1>2
  <2> HIDE DEF Named
  <2> QED
    BY <2>3, <2>6, <2>7, <2>8, <2>9
<1>3. S \in P
  <2> HIDE DEF P
  <2> QED
    BY <1>1, <1>2, ByElements
<1> QED
  BY <1>3

\* A sum depends on its summands only.
LEMMA SumAgrees ==
    ASSUME NEW f, NEW g, NEW S, IsFiniteSet(S), \A x \in S : f[x] \in Int /\ g[x] = f[x]
    PROVE  SumFunctionOnSet(f, S) = SumFunctionOnSet(g, S)
<1> DEFINE m == [x \in S |-> x]
<1>1. {m[x] : x \in S} = S
  OBVIOUS
<1>2. SumFunctionOnSet(f, S) = SumFunctionOnSet(g, {m[x] : x \in S})
  <2>1. \A x \in S : g[m[x]] = f[x]
    OBVIOUS
  <2>2. \A x, y \in S : m[x] = m[y] => x = y
    OBVIOUS
  <2> HIDE DEF m
  <2> QED
    BY <2>1, <2>2, SumRenamed
<1> QED
  BY <1>1, <1>2

-----------------------------------------------------------------------------
(* Occurrences in short sequences, in parts of sequences and in changed ones. *)

LEMMA HitsShort ==
    /\ \A M : Hits(<<>>, M) = 0
    /\ \A x, M : Hits(<<x>>, M) = IF x \in M THEN 1 ELSE 0
<1>1. \A M : Hits(<<>>, M) = 0
  BY FS_EmptySet DEF Hits, Places
<1>2. ASSUME NEW x, NEW M PROVE Hits(<<x>>, M) = IF x \in M THEN 1 ELSE 0
  <2>1. CASE x \in M
    <3>1. Places(<<x>>, M) = {1}
      BY <2>1 DEF Places
    <3> QED
      BY <2>1, <3>1, FS_Singleton DEF Hits
  <2>2. CASE x \notin M
    <3>1. Places(<<x>>, M) = {}
      BY <2>2 DEF Places
    <3> QED
      BY <2>2, <3>1, FS_EmptySet DEF Hits
  <2> QED
    BY <2>1, <2>2
<1> QED
  BY <1>1, <1>2

\* What is picked at the places of A occurs as often as those places have it.
LEMMA HitsPicked ==
    ASSUME NEW T, NEW q \in Seq(T), NEW A, NEW M
    PROVE  Hits(Picked(q, {i \in DOMAIN q : q[i] \in A}), M) = Hits(q, M \cap A)
<1> DEFINE S == {i \in DOMAIN q : q[i] \in A}
<1>1. S \in SUBSET DOMAIN q
  OBVIOUS
<1>2. PlacesIn(q, S, M) = Places(q, M \cap A)
  BY DEF Places, PlacesIn
<1> HIDE DEF S
<1>3. Hits(Picked(q, S), M) = Cardinality(PlacesIn(q, S, M))
  BY <1>1, PickedPlaces
<1> QED
  BY <1>2, <1>3 DEF Hits, S

LEMMA HitsSame ==
    ASSUME NEW q, NEW r, NEW M, NEW N, DOMAIN q = DOMAIN r, \A i \in DOMAIN q : q[i] \in M <=> r[i] \in N
    PROVE  Hits(q, M) = Hits(r, N)
<1>1. Places(q, M) = Places(r, N)
  BY DEF Places
<1> QED
  BY <1>1 DEF Hits

LEMMA HitsReverse ==
    ASSUME NEW T, NEW q \in Seq(T), NEW M
    PROVE  Reverse(q) \in Seq(T) /\ Hits(Reverse(q), M) = Hits(q, M)
<1> DEFINE n == Len(q)  r == Reverse(q)  P == Places(q, M)  R == Places(r, M)
           f == [i \in P |-> n - i + 1]
<1>1. n \in Nat /\ DOMAIN q = 1 .. n /\ \A i \in 1 .. n : q[i] \in T
  OBVIOUS
<1>2. r = [i \in 1 .. n |-> q[(n - i) + 1]]
  BY DEF Reverse
<1> HIDE DEF n, r
<1>3. \A i \in 1 .. n : (n - i) + 1 \in 1 .. n /\ (n - ((n - i) + 1)) + 1 = i
  BY <1>1
<1>4. r \in Seq(T) /\ DOMAIN r = 1 .. n
  <2>1. r \in [1 .. n -> T]
    BY <1>1, <1>2, <1>3
  <2> QED
    BY <1>1, <2>1
<1>5. IsFiniteSet(P)
  BY HitsNat
<1>6. f \in [P -> R] /\ (\A i, j \in P : f[i] = f[j] => i = j) /\ (\A j \in R : \E i \in P : f[i] = j)
  <2>1. \A i \in P : i \in 1 .. n /\ q[i] \in M
    BY <1>1 DEF Places
  <2>2. \A i \in P : (n - i) + 1 \in R
    BY <1>2, <1>3, <1>4, <2>1 DEF Places
  <2>3. \A i, j \in P : (n - i) + 1 = (n - j) + 1 => i = j
    BY <1>1, <2>1
  <2>4. \A j \in R : (n - j) + 1 \in P /\ (n - ((n - j) + 1)) + 1 = j
    BY <1>1, <1>2, <1>3, <1>4 DEF Places
  <2>5. \A i \in P : f[i] = (n - i) + 1
    BY <1>1, <2>1
  <2>6. DOMAIN f = P /\ f = [i \in P |-> f[i]]
    OBVIOUS
  <2> HIDE DEF f, P, R
  <2>7. f \in [P -> R]
    BY <2>2, <2>5, <2>6
  <2> QED
    BY <2>3, <2>4, <2>5, <2>7
<1> HIDE DEF f, P, R
<1>7. f \in Bijection(P, R)
  BY <1>6, Fun_IsBij
<1>8. Cardinality(R) = Cardinality(P)
  BY <1>5, <1>7, FS_Bijection DEF ExistsBijection
<1> QED
  BY <1>4, <1>8 DEF Hits, P, R, r

\* A larger set of members.
LEMMA SeqWider ==
    ASSUME NEW S, NEW T, S \in SUBSET T, NEW f \in Seq(S)
    PROVE  f \in Seq(T)
<1>1. f \in [1 .. Len(f) -> S] /\ Len(f) \in Nat
  OBVIOUS
<1>2. f \in [1 .. Len(f) -> T]
  BY <1>1
<1> QED
  BY <1>1, <1>2

LEMMA SeqNarrower ==
    ASSUME NEW T, NEW f \in Seq(T), NEW S, \A i \in DOMAIN f : f[i] \in S
    PROVE  f \in Seq(S)
<1>1. f \in [1 .. Len(f) -> T] /\ Len(f) \in Nat /\ DOMAIN f = 1 .. Len(f)
  OBVIOUS
<1>2. f \in [1 .. Len(f) -> S]
  BY <1>1
<1> QED
  BY <1>1, <1>2

LEMMA OfLength ==
    ASSUME NEW S, NEW k \in Nat, NEW f \in [1 .. k -> S]
    PROVE  f \in Seq(S) /\ Len(f) = k
OBVIOUS

\* Without its first entry.
LEMMA HitsTail ==
    ASSUME NEW T, NEW f \in Seq(T), f # <<>>, NEW M
    PROVE  /\ Tail(f) \in Seq(T) /\ Head(f) \in T
           /\ Hits(f, M) = (IF Head(f) \in M THEN 1 ELSE 0) + Hits(Tail(f), M)
<1>1. Tail(f) \in Seq(T) /\ Head(f) \in T /\ <<Head(f)>> \in Seq(T)
  OBVIOUS
<1>2. f = <<Head(f)>> \o Tail(f)
  OBVIOUS
<1>3. Hits(<<Head(f)>> \o Tail(f), M) = Hits(<<Head(f)>>, M) + Hits(Tail(f), M)
  BY <1>1, HitsConcat
<1>4. Hits(<<Head(f)>>, M) = IF Head(f) \in M THEN 1 ELSE 0
  BY HitsShort
<1> QED
  BY <1>1, <1>2, <1>3, <1>4

\* What is picked is made of what is at those places.
LEMMA PickedOf ==
    ASSUME NEW T, NEW f \in Seq(T), NEW A
    PROVE  Picked(f, {i \in DOMAIN f : f[i] \in A}) \in Seq(T \cap A)
<1> DEFINE S == {i \in DOMAIN f : f[i] \in A}
<1>1. S \in SUBSET DOMAIN f
  OBVIOUS
<1>2. \A s \in S : f[s] \in T \cap A
  OBVIOUS
<1> HIDE DEF S
<1>3. /\ Picked(f, S) \in Seq(T) /\ DOMAIN Picked(f, S) = 1 .. Cardinality(S)
      /\ \A i \in 1 .. Cardinality(S) : Ascending(S)[i] \in S /\ Picked(f, S)[i] = f[Ascending(S)[i]]
  BY <1>1, PickedIs
<1>4. \A i \in DOMAIN Picked(f, S) : Picked(f, S)[i] \in T \cap A
  BY <1>2, <1>3
<1>5. Picked(f, S) \in Seq(T \cap A)
  BY <1>3, <1>4, SeqNarrower
<1> QED
  BY <1>5 DEF S

-----------------------------------------------------------------------------
(* Rings: item n of a ring of W places is kept at place n % W. *)

LEMMA PlaceInRing == \A W \in Nat \ {0}, n \in Nat : n % W \in 0 .. (W - 1)
BY Z3

\* Two items less than a turn apart have different places.
LEMMA PlacesApart ==
    ASSUME NEW W \in Nat \ {0}, NEW a \in Nat, NEW b \in Nat, a < b, b - a < W
    PROVE  a % W # b % W
<1> SUFFICES ASSUME a % W = b % W PROVE FALSE
  OBVIOUS
<1>1. \A n \in Nat : n = (W * (n \div W)) + (n % W) /\ n \div W \in Nat /\ (n % W) \in Nat
  BY Z3
<1> DEFINE p == a \div W  q == b \div W
<1>2. p \in Nat /\ q \in Nat /\ a = (W * p) + (a % W) /\ b = (W * q) + (b % W)
  BY <1>1
<1> HIDE DEF p, q
<1>3. W * p \in Nat /\ W * q \in Nat
  BY <1>2
<1>4. W * q - W * p = b - a
  BY <1>1, <1>2, <1>3
<1>5. CASE q <= p
  <2>1. W * q <= W * p
    BY <1>2, <1>5, Z3
  <2> QED
    BY <1>3, <1>4, <2>1
<1>6. CASE q >= p + 1
  <2>1. W * q >= W * (p + 1) /\ W * (p + 1) = W * p + W
    BY <1>2, <1>6, Z3
  <2> QED
    BY <1>3, <1>4, <2>1
<1> QED
  BY <1>2, <1>5, <1>6

-----------------------------------------------------------------------------
(* The greatest of some numbers, numbers that leave the same rest, and what is left of a
   sequence. *)

LEMMA GreatestOf ==
    ASSUME NEW S \in SUBSET Nat, NEW n \in Nat, \A x \in S : x <= n, S # {}
    PROVE  \E k \in S : \A j \in S : j <= k
<1> DEFINE R == {n - x : x \in S}
<1>1. R \in SUBSET Nat /\ R # {}
  <2>1. \A x \in S : n - x \in Nat
    OBVIOUS
  <2>2. PICK x \in S : TRUE
    OBVIOUS
  <2>3. n - x \in R
    OBVIOUS
  <2> QED
    BY <2>1, <2>3
<1>2. PICK r \in R : \A t \in R : r <= t
  BY <1>1, Least
<1>3. PICK k \in S : r = n - k
  BY <1>2
<1>4. ASSUME NEW j \in S PROVE j <= k
  <2>1. n - j \in R
    OBVIOUS
  <2>2. n - k <= n - j
    BY <1>2, <1>3, <2>1
  <2>3. j \in Nat /\ k \in Nat
    OBVIOUS
  <2> HIDE DEF R
  <2> QED
    BY <2>2, <2>3, SMT
<1> QED
  BY <1>4

\* Two numbers with the same rest are the same, or at least the divisor apart.
LEMMA Congruent ==
    ASSUME NEW a \in Nat, NEW b \in Nat, NEW n \in Nat \ {0}, a % n = b % n
    PROVE  a = b \/ a >= b + n \/ b >= a + n
<1> DEFINE p == a \div n  q == b \div n
<1>1. \A x \in Nat, m \in Nat \ {0} : x = (m * (x \div m)) + (x % m) /\ x \div m \in Nat /\ x % m \in 0 .. (m - 1)
  BY Z3
<1>2. a = (n * p) + (a % n) /\ b = (n * q) + (b % n) /\ p \in Nat /\ q \in Nat /\ a % n \in Nat
  <2>1. n \in Nat \ {0} /\ a \in Nat /\ b \in Nat
    OBVIOUS
  <2>2. a = (n * (a \div n)) + (a % n) /\ b = (n * (b \div n)) + (b % n) /\ a \div n \in Nat /\ b \div n \in Nat
    BY <1>1, <2>1, Zenon
  <2>3. a % n \in 0 .. (n - 1)
    BY <1>1, <2>1, Zenon
  <2> HIDE DEF p, q
  <2>4. a % n \in Nat
    BY <2>3
  <2> QED
    BY <2>2, <2>4, Zenon DEF p, q
<1>3. \A x, y \in Nat, m \in Nat \ {0} : x > y => m * x >= m * y + m
  BY Z3
<1>4. n * p \in Nat /\ n * q \in Nat
  <2>1. \A x \in Nat, m \in Nat : m * x \in Nat
    BY Z3
  <2> QED
    BY <1>2, <2>1
<1> HIDE DEF p, q
<1>5. p = q \/ n * p >= n * q + n \/ n * q >= n * p + n
  BY <1>2, <1>3
<1> QED
  BY <1>2, <1>4, <1>5

\* What follows a place in a sequence.
LEMMA RestOf ==
    ASSUME NEW T, NEW q \in Seq(T), NEW i \in 1 .. Len(q)
    PROVE  LET r == SubSeq(q, i + 1, Len(q))
           IN  r \in Seq(T) /\ Len(r) = Len(q) - i /\ \A j \in 1 .. (Len(q) - i) : r[j] = q[i + j]
<1> DEFINE l == Len(q)  r == SubSeq(q, i + 1, l)  k == i + 1
<1>1. l \in Nat /\ l \in Int /\ i \in Nat /\ i <= l /\ k \in Int /\ \A j \in k .. l : q[j] \in T
  OBVIOUS
<1> HIDE DEF l, k
<1>2. /\ SubSeq(q, k, l) \in Seq(T) /\ Len(SubSeq(q, k, l)) = IF k <= l THEN l - k + 1 ELSE 0
      /\ \A j \in 1 .. l - k + 1 : SubSeq(q, k, l)[j] = q[k + j - 1]
  BY <1>1, SubSeqProperties
<1>3. k = i + 1
  BY DEF k
<1> HIDE DEF r
<1>4. r = SubSeq(q, k, l)
  BY <1>3 DEF r
<1>5. l - k + 1 = l - i /\ Len(r) = l - i
  BY <1>1, <1>2, <1>3, <1>4
<1>6. ASSUME NEW j \in 1 .. (l - i) PROVE r[j] = q[i + j]
  <2>1. k + j - 1 = i + j
    BY <1>1, <1>3
  <2> QED
    BY <1>2, <1>4, <1>5, <2>1
<1> QED
  BY <1>2, <1>4, <1>5, <1>6 DEF r, l
=============================================================================

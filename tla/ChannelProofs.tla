--------------------------- MODULE ChannelProofs ----------------------------
(***************************************************************************)
(* What a channel keeps to, for any size of the circle of numbers, of the  *)
(* buffers and of the messages that are cut into pieces, however often the *)
(* numbers come round: the order it promises; that its buffers hold what   *)
(* they are said to; that it implements Delivery, in all modes, as long as *)
(* the numbers do not come round where the receiver goes by them alone;    *)
(* and what becomes of a message that was acknowledged.                    *)
(***************************************************************************)
EXTENDS Channel, CommonProofs

-----------------------------------------------------------------------------
(* Numbers. *)

\* The types that the assumptions give.
LEMMA Ranges ==
    /\ Half \in Nat \ {0} /\ SeqSpace = 2 * Half /\ SeqSpace \in Nat \ {0}
    /\ MaxSpan \in Nat /\ Pieces \in Nat /\ MaxMessages \in Nat /\ Start \in 0 .. MaxMessages
    /\ Modes \subseteq DeliveryModes
BY HalfAssumption, ChannelAssumption DEF SeqSpace

\* Numbers less than half the circle apart are told apart on the wire.
LEMMA WireInjective ==
    ASSUME NEW n \in Nat, NEW m \in Nat, n - m < Half, m - n < Half, Wire(n) = Wire(m)
    PROVE  n = m
  <1>1. SeqDiff(Wire(n), Wire(m)) = n - m
    BY WindowOrder
  <1>2. Wire(m) \in Nat
    BY WireType, Ranges DEF Seqs
  <1>3. SeqDiff(Wire(m), Wire(m)) = 0
    BY <1>2, Ranges DEF SeqDiff
  <1> QED BY <1>1, <1>3

\* A remainder, with whole turns of the circle added
LEMMA Turns ==
    ASSUME NEW q \in Int, NEW r \in 0 .. SeqSpace - 1
    PROVE  (SeqSpace * q + r) % SeqSpace = r
  <1> DEFINE s == SeqSpace
             n == s * q + r
             d == n \div s
             e == n % s
  <1>1. s \in Nat /\ s >= 1 /\ r \in Int /\ 0 <= r /\ r < s
    BY Ranges
  <1> HIDE DEF s
  <1>2. s * q \in Int
    BY <1>1, Z3
  <1>3. n \in Int
    BY <1>1, <1>2
  <1>4. d \in Int /\ e \in 0 .. s - 1 /\ n = s * d + e
    <2> HIDE DEF n
    <2> QED BY <1>1, <1>3, Z3
  <1>5. s * d \in Int
    BY <1>1, <1>4, Z3
  <1>6. CASE d = q
    BY <1>1, <1>2, <1>4, <1>6 DEF s
  <1>7. CASE d >= q + 1
    <2>1. s * d >= s * q + s
      BY <1>1, <1>4, <1>7, Z3
    <2> QED BY <1>1, <1>2, <1>4, <1>5, <2>1
  <1>8. CASE d <= q - 1
    <2>1. s * d <= s * q - s
      BY <1>1, <1>4, <1>8, Z3
    <2> QED BY <1>1, <1>2, <1>4, <1>5, <2>1
  <1> QED BY <1>4, <1>6, <1>7, <1>8

\* Counting on from a number on the wire
LEMMA WireOfWire ==
    ASSUME NEW n \in Nat, NEW i \in Nat
    PROVE  Wire(Wire(n) + i) = Wire(n + i)
  <1>1. PICK q \in Nat : n = SeqSpace * q + Wire(n)
    BY WireQuotient
  <1>2. Wire(n) \in Nat
    BY WireType, Ranges DEF Seqs
  <1>3. PICK p \in Nat : Wire(n) + i = SeqSpace * p + Wire(Wire(n) + i)
    BY <1>2, WireQuotient
  <1>4. Wire(Wire(n) + i) \in 0 .. SeqSpace - 1
    BY <1>2, WireType, Ranges DEF Seqs
  <1>5. SeqSpace * q \in Int /\ SeqSpace * p \in Int /\ SeqSpace * (q + p) \in Int
    <2>1. \A x, y \in Int : x * y \in Int
      BY Z3
    <2> QED BY <2>1, Ranges
  <1>6. SeqSpace * (q + p) = SeqSpace * q + SeqSpace * p
    <2>1. \A x, y, z \in Int : x * (y + z) = x * y + x * z
      BY Z3
    <2> QED BY <2>1, Ranges
  <1>7. n + i = SeqSpace * (q + p) + Wire(Wire(n) + i)
    <2> DEFINE a == SeqSpace * q
               b == SeqSpace * p
               c == SeqSpace * (q + p)
    <2>1. a \in Int /\ b \in Int /\ c = a + b /\ n = a + Wire(n)
          /\ Wire(n) + i = b + Wire(Wire(n) + i)
      BY <1>1, <1>3, <1>5, <1>6
    <2> HIDE DEF a, b, c
    <2>2. n + i = c + Wire(Wire(n) + i)
      BY <1>2, <1>4, <2>1, Ranges
    <2> QED BY <2>2 DEF c
  <1>8. (n + i) % SeqSpace = Wire(Wire(n) + i)
    BY <1>4, <1>7, Turns
  <1> QED BY <1>8 DEF Wire

\* How far a number on the wire is behind another
LEMMA WireBehind ==
    ASSUME NEW n \in Nat, NEW m \in Nat, m <= n, n - m < SeqSpace
    PROVE  (Wire(n) - Wire(m)) % SeqSpace = n - m
  <1>1. PICK q \in Nat : n = SeqSpace * q + Wire(n)
    BY WireQuotient
  <1>2. PICK r \in Nat : m = SeqSpace * r + Wire(m)
    BY WireQuotient
  <1>3. Wire(n) \in Int /\ Wire(m) \in Int
    BY WireType, Ranges DEF Seqs
  <1>4. SeqSpace * (r - q) = SeqSpace * r - SeqSpace * q /\ SeqSpace * r \in Int /\ SeqSpace * q \in Int
    BY Ranges, Z3
  <1>5. Wire(n) - Wire(m) = SeqSpace * (r - q) + (n - m)
    BY <1>1, <1>2, <1>3, <1>4
  <1>6. n - m \in 0 .. SeqSpace - 1 /\ r - q \in Int
    BY Ranges
  <1> QED BY <1>5, <1>6, Turns

-----------------------------------------------------------------------------
(* The invariant. *)

\* What is said of an ordered channel is said until it gives up on a message.
Firm == mode # "ReliableOrdered" \/ ~gaveUp

\* A number that is no more than k numbers before the last
Within(n, last, k) == n \in Nat /\ n < last /\ last - n <= k

\* What the sender and the link hold is recent.
LinkInv ==
    /\ sent \in Nat /\ sent <= MaxMessages
    /\ \A s \in DOMAIN sendBuffer :
           sendBuffer[s] \in SendEntries /\ Within(sendBuffer[s].num, sent, MaxSpan)
    /\ copies \in [0 .. (MaxMessages - 1) -> Nat]
    /\ \A n \in DOMAIN copies : copies[n] > 0 => Within(n, sent, MaxSpan)
    /\ \A n \in marked : Within(n, sent, MaxSpan)
    /\ \A n \in large : n \in Nat /\ n < sent

\* A sequenced channel knows the newest message it delivered, and is not far behind.
Sequenced ==
    \E m \in Nat :
        /\ recvSeq = Wire(m) /\ m <= sent /\ sent - m <= MaxSpan + 1
        /\ \A i \in DOMAIN delivered : delivered[i] <= m
        /\ \A i, j \in DOMAIN delivered : i < j => delivered[i] < delivered[j]

\* An ordered channel has delivered the first messages and awaits the next one; what
\* it holds back was sent after that.
InOrder ==
    /\ \A i \in DOMAIN delivered : delivered[i] = i - 1
    /\ expectedSeq = Wire(Len(delivered))
    /\ Len(delivered) <= sent /\ sent - Len(delivered) <= MaxSpan
    /\ IsFiniteSet(DOMAIN orderedBuffer)
    /\ \A s \in DOMAIN orderedBuffer :
           LET n == orderedBuffer[s].num
           IN  /\ orderedBuffer[s] \in OooEntries
               /\ n \in Nat /\ s = Wire(n) /\ Len(delivered) < n /\ n < sent

\* An unordered channel remembers everything it delivered.
Once ==
    /\ recvSeq = 0
    /\ \A i \in DOMAIN delivered : Wire(delivered[i]) \in recvSeen
    /\ \A i, j \in DOMAIN delivered : i # j => delivered[i] # delivered[j]

ReceiverInv ==
    /\ delivered \in Seq(Nat) /\ \A i \in DOMAIN delivered : delivered[i] < sent
    /\ isSequenced => Sequenced
    /\ IF mode = "ReliableOrdered" THEN InOrder ELSE DOMAIN orderedBuffer = {}
    /\ mode = "ReliableUnordered" /\ MaxMessages <= Half => Once

ChannelInv == mode \in Modes /\ (Firm => LinkInv /\ ReceiverInv)

\* The clocks and the buffers may be anything; only the numbers that are under way at
\* one time must fit in half the circle.
SpanFits == MaxSpan + Pieces < Half

-----------------------------------------------------------------------------
(* Reception. *)

\* A message that is newer than the newest one is recognised, and only such a one.
LEMMA SequencedReceives ==
    ASSUME SpanFits, LinkInv, ReceiverInv, isSequenced,
           NEW n, Within(n, sent, MaxSpan + Pieces), ReceiveSequenced(n),
           UNCHANGED <<config, sent>>
    PROVE  Sequenced' /\ ReceiverInv'
  <1>1. PICK m \in Nat :
            /\ recvSeq = Wire(m) /\ m <= sent /\ sent - m <= MaxSpan + 1
            /\ \A i \in DOMAIN delivered : delivered[i] <= m
            /\ \A i, j \in DOMAIN delivered : i < j => delivered[i] < delivered[j]
    BY DEF ReceiverInv, Sequenced
  <1>2. SeqGt(Wire(n), Wire(m)) <=> n > m
    <2>1. n \in Nat /\ n - m < Half /\ m - n < Half
      BY <1>1, Ranges DEF Within, SpanFits, LinkInv
    <2> QED BY <2>1, WindowOrder
  <1>3. mode' = mode /\ sent' = sent /\ isSequenced' /\ mode # "ReliableOrdered"
        /\ mode # "ReliableUnordered"
    BY DEF config, isSequenced
  <1>4. delivered \in Seq(Nat) /\ DOMAIN orderedBuffer = {}
        /\ \A i \in DOMAIN delivered : delivered[i] < sent
    BY <1>3 DEF ReceiverInv
  <1>5. CASE Newer(Wire(n)) /\ recvSeq' = Wire(n) /\ delivered' = Append(delivered, n)
             /\ orderedBuffer' = orderedBuffer
    <2>1. n > m /\ n \in Nat /\ n < sent /\ sent \in Nat
      BY <1>1, <1>2, <1>5 DEF Newer, Within, LinkInv
    <2>2. sent - n <= MaxSpan + 1
      BY <1>1, <2>1, Ranges
    <2>3. /\ delivered' \in Seq(Nat) /\ DOMAIN delivered = 1 .. Len(delivered)
          /\ DOMAIN delivered' = 1 .. Len(delivered) + 1 /\ Len(delivered) \in Nat
          /\ \A i \in DOMAIN delivered : delivered'[i] = delivered[i]
          /\ delivered'[Len(delivered) + 1] = n
      BY <1>4, <1>5, <2>1
    <2>4. \A i \in DOMAIN delivered : delivered[i] \in Nat
      BY <1>4
    <2>5. \A i \in DOMAIN delivered' : delivered'[i] <= n /\ delivered'[i] < sent
      <3> SUFFICES ASSUME NEW i \in DOMAIN delivered'
                   PROVE  delivered'[i] <= n /\ delivered'[i] < sent
        OBVIOUS
      <3>1. CASE i \in DOMAIN delivered
        <4>1. delivered'[i] \in Nat /\ delivered'[i] <= m /\ delivered'[i] < sent
          BY <1>1, <1>4, <2>3, <2>4, <3>1
        <4> QED BY <2>1, <4>1
      <3>2. CASE i = Len(delivered) + 1
        BY <2>1, <2>3, <3>2
      <3> QED BY <2>3, <3>1, <3>2
    <2>6. \A i, j \in DOMAIN delivered' : i < j => delivered'[i] < delivered'[j]
      <3> SUFFICES ASSUME NEW i \in DOMAIN delivered', NEW j \in DOMAIN delivered', i < j
                   PROVE  delivered'[i] < delivered'[j]
        OBVIOUS
      <3>1. i \in DOMAIN delivered
        BY <2>3
      <3>2. CASE j \in DOMAIN delivered
        BY <1>1, <2>3, <3>1, <3>2
      <3>3. CASE j = Len(delivered) + 1
        BY <1>1, <2>1, <2>3, <2>4, <3>1, <3>3
      <3> QED BY <2>3, <3>2, <3>3
    <2>7. Sequenced'
      BY <1>3, <1>5, <2>1, <2>2, <2>5, <2>6 DEF Sequenced
    <2> QED BY <1>3, <1>4, <1>5, <2>3, <2>5, <2>7 DEF ReceiverInv
  <1>6. CASE UNCHANGED recvVars
    BY <1>1, <1>3, <1>4, <1>6 DEF recvVars, ReceiverInv, Sequenced
  <1> QED BY <1>5, <1>6 DEF ReceiveSequenced, IgnoreMessage

\* The numbers seen keep a message from being delivered again.
LEMMA UnorderedReceives ==
    ASSUME LinkInv, ReceiverInv, NEW n, n \in Nat, n < sent, ReceiveUnordered(n),
           UNCHANGED <<config, sent>>
    PROVE  ReceiverInv'
  <1>1. mode' = mode /\ sent' = sent /\ mode = "ReliableUnordered" /\ ~isSequenced'
    BY DEF config, isSequenced, ReceiveUnordered
  <1>2. delivered \in Seq(Nat) /\ DOMAIN orderedBuffer = {}
        /\ \A i \in DOMAIN delivered : delivered[i] < sent
    BY <1>1 DEF ReceiverInv
  <1>3. CASE Wire(n) \notin recvSeen /\ recvSeen' = recvSeen \cup {Wire(n)}
             /\ delivered' = Append(delivered, n)
             /\ UNCHANGED <<recvSeq, expectedSeq, orderedBuffer, gaveUp>>
    <2>1. /\ delivered' \in Seq(Nat) /\ DOMAIN delivered = 1 .. Len(delivered)
          /\ DOMAIN delivered' = 1 .. Len(delivered) + 1 /\ Len(delivered) \in Nat
          /\ \A i \in DOMAIN delivered : delivered'[i] = delivered[i]
          /\ delivered'[Len(delivered) + 1] = n
      BY <1>2, <1>3
    <2>2. \A i \in DOMAIN delivered' : delivered'[i] < sent
      BY <1>2, <2>1
    <2>3. ASSUME Once PROVE Once'
      <3>1. \A i \in DOMAIN delivered : delivered[i] # n
        BY <1>3, <2>3 DEF Once
      <3>2. \A i \in DOMAIN delivered' : i \in DOMAIN delivered \/ i = Len(delivered) + 1
        BY <2>1
      <3>3. \A i \in DOMAIN delivered' : Wire(delivered'[i]) \in recvSeen'
        BY <1>3, <2>1, <2>3, <3>2 DEF Once
      <3>4. \A i, j \in DOMAIN delivered' : i # j => delivered'[i] # delivered'[j]
        BY <2>1, <2>3, <3>1, <3>2 DEF Once
      <3> QED BY <1>3, <2>3, <3>3, <3>4 DEF Once
    <2> QED BY <1>1, <1>2, <1>3, <2>1, <2>2, <2>3 DEF ReceiverInv
  <1>4. CASE UNCHANGED recvVars
    BY <1>1, <1>2, <1>4 DEF recvVars, ReceiverInv, Once
  <1> QED BY <1>3, <1>4 DEF ReceiveUnordered, IgnoreMessage

\* The run that flushConsecutive delivers ends where nothing is held back.
LEMMA RunEnds ==
    ASSUME SpanFits, LinkInv, InOrder, NEW l \in Nat, Len(delivered) < l, l <= sent,
           delivered \in Seq(Nat)
    PROVE  LET buf == orderedBuffer
               k   == RunLength(Wire(l), buf)
           IN  /\ k \in Nat /\ l + k <= sent
               /\ \A i \in 1 .. k : /\ Wire(Wire(l) + i - 1) \in DOMAIN buf
                                    /\ buf[Wire(Wire(l) + i - 1)].num = l + i - 1
               /\ \A s \in DOMAIN buf :
                      s \in {Wire(Wire(l) + i) : i \in 0 .. (k - 1)} \/ buf[s].num < l
                      \/ buf[s].num > l + k
  <1> DEFINE buf == orderedBuffer
             D == DOMAIN buf
             S == {j \in Nat : Wire(l + j) \notin D}
             L == Len(delivered)
             num(s) == buf[s].num
  <1>1. /\ L \in Nat /\ sent \in Nat /\ L <= sent /\ sent - L <= MaxSpan /\ IsFiniteSet(D)
        /\ \A s \in D : num(s) \in Nat /\ s = Wire(num(s)) /\ L < num(s) /\ num(s) < sent
    BY DEF LinkInv, InOrder
  <1>2. \A i \in Nat : Wire(Wire(l) + i) = Wire(l + i)
    BY WireOfWire
  <1> HIDE DEF D, L, num
  <1>3. ASSUME NEW s \in D, NEW j \in Nat, s = Wire(j), L < j, j <= sent
        PROVE  num(s) = j
    <2>1. num(s) - j < Half /\ j - num(s) < Half /\ num(s) \in Nat /\ Wire(num(s)) = Wire(j)
      BY <1>1, <1>3, Ranges DEF SpanFits
    <2> QED BY <2>1, WireInjective
  <1>4. sent - l \in S
    <2>1. sent - l \in Nat /\ l + (sent - l) = sent
      BY <1>1
    <2>2. ASSUME Wire(sent) \in D PROVE FALSE
      BY <1>1, <1>3, <2>2 DEF L
    <2> QED BY <2>1, <2>2
  <1>5. PICK k \in S : \A j \in S : k <= j
    BY <1>4, Least
  <1>6. k \in Nat /\ l + k <= sent /\ Wire(l + k) \notin D
        /\ \A i \in Nat : i < k => Wire(l + i) \in D
    <2>1. k \in Nat /\ Wire(l + k) \notin D /\ k <= sent - l
      BY <1>4, <1>5
    <2>2. ASSUME NEW i \in Nat, i < k PROVE Wire(l + i) \in D
      <3>1. i \notin S
        BY <1>5, <2>1, <2>2
      <3> QED BY <3>1
    <2>3. l + k <= sent
      BY <1>1, <2>1
    <2> QED BY <2>1, <2>2, <2>3
  <1> HIDE DEF S
  \* Every number of the run stands for a message of its own.
  <1>7. ASSUME NEW c \in Nat, \A i \in 0 .. c - 1 : Wire(Wire(l) + i) \in D
        PROVE  c <= k
    <2>1. CASE c > k
      <3>1. k \in 0 .. c - 1
        BY <1>6, <2>1
      <3> QED BY <1>2, <1>6, <1>7, <3>1
    <2> QED BY <1>6, <2>1
  <1>8. k \in 0 .. Cardinality(D)
    <2> DEFINE f == [i \in 1 .. k |-> Wire(l + i - 1)]
    <2>1. \A i \in 1 .. k : i - 1 \in Nat /\ i - 1 < k /\ l + (i - 1) = l + i - 1
      BY <1>6
    <2>2. f \in [1 .. k -> D]
      BY <1>6, <2>1
    <2>3. ASSUME NEW i \in 1 .. k, NEW j \in 1 .. k, f[i] = f[j] PROVE i = j
      <3>1. l + i - 1 \in Nat /\ l + j - 1 \in Nat /\ Wire(l + i - 1) = Wire(l + j - 1)
        BY <1>6, <2>3
      <3>2. (l + i - 1) - (l + j - 1) < Half /\ (l + j - 1) - (l + i - 1) < Half
        <4>1. k <= MaxSpan /\ k < Half /\ Half \in Nat
          BY <1>1, <1>6, Ranges DEF SpanFits, L
        <4>2. i \in Nat /\ j \in Nat /\ 1 <= i /\ i <= k /\ 1 <= j /\ j <= k /\ k \in Nat
          BY <1>6
        <4> QED BY <4>1, <4>2
      <3>3. l + i - 1 = l + j - 1
        BY <3>1, <3>2, WireInjective
      <3> QED BY <3>3
    <2>4. f \in Injection(1 .. k, D)
      BY <2>2, <2>3 DEF Injection, IsInjective
    <2>5. Cardinality(1 .. k) <= Cardinality(D)
      BY <1>1, <2>4, FS_Injection
    <2>6. Cardinality(1 .. k) = k
      BY <1>6, FS_Interval
    <2>7. Cardinality(D) \in Nat
      BY <1>1, FS_CardinalityType
    <2> QED BY <1>6, <2>5, <2>6, <2>7
  <1> DEFINE r == RunLength(Wire(l), buf)
  <1>9. /\ r \in 0 .. Cardinality(D)
        /\ \A i \in 0 .. (r - 1) : Wire(Wire(l) + i) \in D
        /\ Wire(Wire(l) + r) \notin D
    <2>1. \A i \in 0 .. (k - 1) : Wire(Wire(l) + i) \in D
      <3> SUFFICES ASSUME NEW i \in 0 .. (k - 1) PROVE Wire(Wire(l) + i) \in D
        OBVIOUS
      <3>1. i \in Nat /\ i < k
        BY <1>6
      <3> QED BY <1>2, <1>6, <3>1
    <2>2. Wire(Wire(l) + k) \notin D
      BY <1>2, <1>6
    <2> QED BY <1>8, <2>1, <2>2 DEF RunLength, D
  <1> HIDE DEF r
  <1>10. r \in Nat /\ r <= k
    <2>1. r \in Nat
      BY <1>9
    <2> QED BY <1>7, <1>9, <2>1
  <1>11. ASSUME NEW i \in 1 .. r
         PROVE  Wire(Wire(l) + i - 1) \in D /\ num(Wire(Wire(l) + i - 1)) = l + i - 1
    <2>1. i - 1 \in 0 .. r - 1 /\ i - 1 \in Nat /\ Wire(l) \in Int
          /\ Wire(l) + (i - 1) = Wire(l) + i - 1 /\ l + (i - 1) = l + i - 1
      BY <1>10, WireType, Ranges DEF Seqs
    <2>2. Wire(Wire(l) + i - 1) \in D /\ Wire(Wire(l) + i - 1) = Wire(l + i - 1)
      BY <1>2, <1>9, <2>1
    <2>3. l + i - 1 \in Nat /\ L < l + i - 1 /\ l + i - 1 <= sent
      BY <1>1, <1>6, <1>10 DEF L
    <2> QED BY <1>3, <2>2, <2>3
  <1>12. ASSUME NEW s \in D, num(s) >= l, num(s) <= l + r
         PROVE  s \in {Wire(Wire(l) + i) : i \in 0 .. (r - 1)}
    <2> DEFINE i == num(s) - l
    <2>1. i \in 0 .. r /\ l + i = num(s) /\ i \in Nat
      BY <1>1, <1>10, <1>12
    <2>2. s = Wire(Wire(l) + i)
      BY <1>1, <1>2, <2>1
    <2>3. i # r
      BY <1>9, <2>2
    <2> HIDE DEF i
    <2>4. i \in 0 .. r - 1
      BY <1>10, <2>1, <2>3
    <2> QED BY <2>2, <2>4
  <1>13. \A s \in D : \/ s \in {Wire(Wire(l) + i) : i \in 0 .. (r - 1)}
                      \/ num(s) < l \/ num(s) > l + r
    BY <1>1, <1>10, <1>12
  <1>14. l + r <= sent
    BY <1>1, <1>6, <1>10
  <1> QED BY <1>10, <1>11, <1>13, <1>14 DEF r, D, num

\* The message that is awaited is delivered with the run that was held back behind it;
\* one that is ahead is held back; and no other message is taken for either.
LEMMA OrderedReceives ==
    ASSUME SpanFits, LinkInv, ReceiverInv, Firm,
           NEW n, Within(n, sent, MaxSpan + Pieces), ReceiveOrdered(n),
           UNCHANGED <<config, sent>>
    PROVE  ReceiverInv' /\ gaveUp' = gaveUp
  <1> DEFINE L == Len(delivered)
             num(s) == orderedBuffer[s].num
  <1>1. mode' = mode /\ sent' = sent /\ mode = "ReliableOrdered" /\ ~isSequenced' /\ InOrder
    BY DEF config, isSequenced, ReceiveOrdered, ReceiverInv
  <1>2. /\ L \in Nat /\ DOMAIN delivered = 1 .. L /\ delivered \in Seq(Nat)
        /\ \A i \in DOMAIN delivered : delivered[i] = i - 1 /\ delivered[i] < sent
        /\ expectedSeq = Wire(L) /\ L <= sent /\ sent - L <= MaxSpan /\ sent \in Nat
        /\ IsFiniteSet(DOMAIN orderedBuffer)
        /\ \A s \in DOMAIN orderedBuffer :
               num(s) \in Nat /\ s = Wire(num(s)) /\ L < num(s) /\ num(s) < sent
    BY <1>1 DEF InOrder, ReceiverInv, LinkInv
  <1>3. n \in Nat /\ n < sent /\ n - L < Half /\ L - n < Half
    BY <1>2, Ranges DEF Within, SpanFits
  <1> HIDE DEF L, num
  <1>4. CASE Expected(Wire(n)) /\ gaveUp' = gaveUp
             /\ FlushConsecutive(NextSeq(Wire(n)), orderedBuffer, Append(delivered, n))
    <2> DEFINE l == L + 1
               k == RunLength(Wire(l), orderedBuffer)
               run == [i \in 1 .. k |-> orderedBuffer[Wire(Wire(l) + i - 1)].num]
    <2>1. n = L
      BY <1>2, <1>3, <1>4, WireInjective DEF Expected
    <2>2. NextSeq(Wire(n)) = Wire(l)
      <3>1. NextSeq(Wire(n)) = Wire(Wire(n) + 1)
        BY DEF NextSeq, Wire
      <3> QED BY <1>3, <2>1, <3>1, WireOfWire
    <2>3. /\ k \in Nat /\ l + k <= sent
          /\ \A i \in 1 .. k : orderedBuffer[Wire(Wire(l) + i - 1)].num = l + i - 1
          /\ \A s \in DOMAIN orderedBuffer :
                 s \in {Wire(Wire(l) + i) : i \in 0 .. (k - 1)} \/ num(s) < l
                 \/ num(s) > l + k
      <3>1. l \in Nat /\ Len(delivered) < l /\ l <= sent
        BY <1>2, <1>3, <2>1 DEF L
      <3> HIDE DEF l
      <3> QED BY <1>1, <1>2, <3>1, RunEnds DEF num
    <2>4. /\ expectedSeq' = Wire(Wire(l) + k)
          /\ delivered' = Append(delivered, n) \o run
          /\ orderedBuffer' = Without(orderedBuffer, {Wire(Wire(l) + i) : i \in 0 .. (k - 1)})
      BY <1>4, <2>2 DEF FlushConsecutive
    <2> HIDE DEF k
    <2>5. \A i \in 1 .. k : run[i] = L + i /\ run[i] \in Nat
      <3> SUFFICES ASSUME NEW i \in 1 .. k PROVE run[i] = L + i /\ run[i] \in Nat
        OBVIOUS
      <3>1. run[i] = l + i - 1
        BY <2>3
      <3> QED BY <1>2, <2>3, <3>1
    <2> HIDE DEF run
    <2>6. run \in [1 .. k -> Nat]
      BY <2>5 DEF run
    <2>7. run \in Seq(Nat) /\ Len(run) = k
      BY <2>3, <2>6
    <2>8. /\ delivered' \in Seq(Nat) /\ Len(delivered') = l + k
          /\ DOMAIN delivered' = 1 .. l + k
          /\ \A i \in 1 .. l + k : delivered'[i] = IF i <= L THEN delivered[i]
                                                    ELSE IF i = l THEN n ELSE run[i - l]
      <3> DEFINE q == Append(delivered, n)
      <3>1. /\ q \in Seq(Nat) /\ Len(q) = l
            /\ \A i \in 1 .. l : q[i] = IF i <= L THEN delivered[i] ELSE n
        BY <1>2, <1>3 DEF L
      <3> HIDE DEF q
      <3>2. /\ q \o run \in Seq(Nat) /\ Len(q \o run) = l + k /\ DOMAIN (q \o run) = 1 .. l + k
            /\ \A i \in 1 .. l + k : (q \o run)[i] = IF i <= l THEN q[i] ELSE run[i - l]
        <4>1. /\ q \o run \in Seq(Nat) /\ Len(q \o run) = Len(q) + Len(run)
              /\ \A i \in 1 .. Len(q) + Len(run) :
                     (q \o run)[i] = IF i <= Len(q) THEN q[i] ELSE run[i - Len(q)]
          BY <2>7, <3>1, ConcatProperties
        <4>2. DOMAIN (q \o run) = 1 .. Len(q \o run)
          BY <4>1, LenProperties
        <4> QED BY <2>7, <3>1, <4>1, <4>2, Zenon
      <3>3. delivered' = q \o run
        BY <2>4 DEF q
      <3> HIDE DEF l
      <3>4. ASSUME NEW i \in 1 .. l + k
            PROVE  (q \o run)[i] = IF i <= L THEN delivered[i]
                                   ELSE IF i = l THEN n ELSE run[i - l]
        <4>0. L \in Nat /\ l = L + 1 /\ l \in Nat /\ i \in Nat
          BY <1>2, <2>3 DEF l
        <4>1. CASE i <= l
          <5>1. i \in 1 .. l
            BY <4>1
          <5>2. (q \o run)[i] = IF i <= L THEN delivered[i] ELSE n
            BY <3>1, <3>2, <4>1, <5>1
          <5> QED BY <4>0, <4>1, <5>2
        <4>2. CASE i > l
          <5>1. (q \o run)[i] = run[i - l]
            BY <3>2, <4>0, <4>2
          <5> QED BY <4>0, <4>2, <5>1
        <4>3. i <= l \/ i > l
          BY <4>0
        <4> QED BY <4>1, <4>2, <4>3, Zenon
      <3> QED BY <3>2, <3>3, <3>4
    <2>9. ASSUME NEW i \in DOMAIN delivered' PROVE delivered'[i] = i - 1 /\ delivered'[i] < sent
      <3>1. i \in 1 .. l + k
        BY <2>8
      <3>2. CASE i <= L
        BY <1>2, <2>8, <3>1, <3>2
      <3>3. CASE i = l
        BY <1>2, <1>3, <2>1, <2>8, <3>1, <3>3
      <3>4. CASE i > l
        <4>1. i - l \in 1 .. k /\ delivered'[i] = run[i - l]
          <5>1. i \in Int /\ i <= l + k /\ L \in Nat /\ k \in Nat
            BY <1>2, <2>3, <3>1
          <5>2. i - l \in 1 .. k /\ ~(i <= L) /\ i # l
            BY <3>4, <5>1
          <5> QED BY <2>8, <3>1, <5>2
        <4>2. delivered'[i] = L + (i - l)
          BY <2>5, <4>1
        <4> QED BY <1>2, <2>3, <3>1, <4>2
      <3> QED BY <1>2, <3>1, <3>2, <3>3, <3>4
    <2>10. expectedSeq' = Wire(Len(delivered'))
      <3>1. l \in Nat
        BY <1>2
      <3> HIDE DEF l
      <3> QED BY <2>3, <2>4, <2>8, <3>1, WireOfWire
    <2>11. Len(delivered') <= sent /\ sent - Len(delivered') <= MaxSpan
      BY <1>2, <2>3, <2>8, Ranges
    <2> DEFINE D == DOMAIN orderedBuffer \ {Wire(Wire(l) + i) : i \in 0 .. (k - 1)}
    <2>12. DOMAIN orderedBuffer' = D /\ \A s \in D : orderedBuffer'[s] = orderedBuffer[s]
      BY <2>4 DEF Without
    <2>13. IsFiniteSet(D)
      BY <1>2, FS_Subset
    <2>14. ASSUME NEW s \in D
           PROVE  num(s) \in Nat /\ s = Wire(num(s)) /\ l + k < num(s) /\ num(s) < sent
      <3>1. /\ s \in DOMAIN orderedBuffer
            /\ ~(s \in {Wire(Wire(l) + i) : i \in 0 .. (k - 1)})
        OBVIOUS
      <3>2. num(s) \in Nat /\ s = Wire(num(s)) /\ L < num(s) /\ num(s) < sent
        BY <1>2, <3>1
      <3>3. num(s) < l \/ num(s) > l + k
        BY <2>3, <3>1
      <3> QED BY <1>2, <2>3, <3>2, <3>3
    <2>15. \A s \in DOMAIN orderedBuffer' :
               orderedBuffer'[s].num = num(s) /\ orderedBuffer'[s] \in OooEntries
      BY <1>1, <2>12 DEF num, InOrder
    <2> HIDE DEF D
    <2>16. InOrder'
      BY <1>1, <2>8, <2>9, <2>10, <2>11, <2>12, <2>13, <2>14, <2>15 DEF InOrder
    <2> QED BY <1>1, <1>4, <2>8, <2>9, <2>16 DEF ReceiverInv
  <1>5. CASE /\ SeqGt(Wire(n), expectedSeq)
             /\ orderedBuffer' = With(orderedBuffer, Wire(n), [num |-> n, age |-> 0])
             /\ UNCHANGED <<recvSeq, expectedSeq, recvSeen, delivered, gaveUp>>
    <2> DEFINE D == DOMAIN orderedBuffer
    <2>1. n > L
      BY <1>2, <1>3, <1>5, WindowOrder
    <2>2. DOMAIN orderedBuffer' = D \cup {Wire(n)}
      BY <1>5 DEF With
    <2>3. \A s \in D \cup {Wire(n)} :
              orderedBuffer'[s].num = IF s = Wire(n) THEN n ELSE num(s)
      BY <1>5 DEF With, num
    <2>4. IsFiniteSet(D \cup {Wire(n)})
      BY <1>2, FS_AddElement
    <2>5. \A s \in D \cup {Wire(n)} :
              LET m == orderedBuffer'[s].num
              IN  m \in Nat /\ s = Wire(m) /\ L < m /\ m < sent
      BY <1>2, <1>3, <2>1, <2>3
    <2>6. \A s \in D \cup {Wire(n)} : orderedBuffer'[s] \in OooEntries
      BY <1>1, <1>3, <1>5 DEF InOrder, With, OooEntries
    <2>7. InOrder'
      BY <1>1, <1>2, <1>5, <2>2, <2>4, <2>5, <2>6 DEF InOrder, L
    <2> QED BY <1>1, <1>2, <1>5, <2>7 DEF ReceiverInv
  <1>6. CASE UNCHANGED recvVars
    BY <1>1, <1>2, <1>6 DEF recvVars, ReceiverInv, InOrder
  <1> QED BY <1>4, <1>5, <1>6 DEF ReceiveOrdered, IgnoreMessage

\* Nothing is delivered but what was sent, in every mode.
LEMMA Receives ==
    ASSUME SpanFits, ChannelInv, Firm, Firm', NEW n, Within(n, sent, MaxSpan + Pieces),
           OnMessageReceived(n), UNCHANGED <<config, sent>>
    PROVE  ReceiverInv'
  <1>1. LinkInv /\ ReceiverInv /\ n \in Nat /\ n < sent /\ sent' = sent /\ mode' = mode
    BY DEF ChannelInv, Within, config
  <1>2. CASE ReceiveUnreliable(n)
    <2>1. /\ mode = "Unreliable" /\ delivered \in Seq(Nat) /\ DOMAIN orderedBuffer = {}
          /\ \A i \in DOMAIN delivered : delivered[i] < sent
          /\ delivered' = Append(delivered, n) /\ orderedBuffer' = orderedBuffer
      BY <1>1, <1>2 DEF ReceiveUnreliable, ReceiverInv
    <2>2. /\ delivered' \in Seq(Nat) /\ DOMAIN delivered = 1 .. Len(delivered)
          /\ DOMAIN delivered' = 1 .. Len(delivered) + 1 /\ Len(delivered) \in Nat
          /\ \A i \in DOMAIN delivered : delivered'[i] = delivered[i]
          /\ delivered'[Len(delivered) + 1] = n
      BY <1>1, <2>1
    <2>3. \A i \in DOMAIN delivered' : delivered'[i] < sent
      BY <1>1, <2>1, <2>2
    <2> QED BY <1>1, <2>1, <2>2, <2>3 DEF ReceiverInv, isSequenced
  <1>3. CASE ReceiveSequenced(n)
    BY <1>1, <1>3, SequencedReceives DEF ReceiveSequenced
  <1>4. CASE ReceiveUnordered(n)
    BY <1>1, <1>4, UnorderedReceives
  <1>5. CASE ReceiveOrdered(n)
    BY <1>1, <1>5, OrderedReceives
  <1> QED BY <1>2, <1>3, <1>4, <1>5 DEF OnMessageReceived

-----------------------------------------------------------------------------
(* Time. *)

\* What is held back is the same when it is older.
LEMMA AgedSame ==
    ASSUME NEW f, NEW d \in Frames, NEW E \in {SendEntries, OooEntries},
           \A s \in DOMAIN f : f[s] \in E
    PROVE  /\ DOMAIN Aged(f, d) = DOMAIN f
           /\ \A s \in DOMAIN f : Aged(f, d)[s] \in E /\ Aged(f, d)[s].num = f[s].num
  <1> SUFFICES ASSUME NEW s \in DOMAIN f
               PROVE  /\ [f[s] EXCEPT !.age = Later(@, d)] \in E
                      /\ [f[s] EXCEPT !.age = Later(@, d)].num = f[s].num
    BY DEF Aged
  <1>1. d \in Nat /\ MaxAge \in Nat
    BY ChannelAssumption
  <1>2. f[s] \in E /\ f[s].age \in Nat
    BY DEF SendEntries, OooEntries
  <1>3. Later(f[s].age, d) \in Nat
    BY <1>1, <1>2 DEF Later
  <1> DEFINE e == f[s]
             a == Later(f[s].age, d)
  <1> HIDE DEF e, a
  <1>4. ASSUME e \in SendEntries
        PROVE  [e EXCEPT !.age = a] \in SendEntries /\ [e EXCEPT !.age = a].num = e.num
    BY <1>3, <1>4 DEF SendEntries, a
  <1>5. ASSUME e \in OooEntries
        PROVE  [e EXCEPT !.age = a] \in OooEntries /\ [e EXCEPT !.age = a].num = e.num
    BY <1>3, <1>5 DEF OooEntries, a
  <1> QED BY <1>2, <1>4, <1>5 DEF e, a

\* Nor is an entry that is sent again.
LEMMA ResentSame ==
    ASSUME NEW e \in SendEntries
    PROVE  LET f == [e EXCEPT !.age = 0, !.retries = @ + 1]
           IN  f \in SendEntries /\ f.num = e.num
  <1> DEFINE g == [e EXCEPT !.age = 0]
             r == e.retries + 1
             f == [g EXCEPT !.retries = r]
  <1>1. g \in SendEntries /\ g.num = e.num
    BY DEF SendEntries
  <1>2. r \in Nat
    BY DEF SendEntries
  <1> HIDE DEF g, r
  <1>3. f \in SendEntries /\ f.num = g.num
    BY <1>1, <1>2 DEF SendEntries
  <1>4. f = [e EXCEPT !.age = 0, !.retries = @ + 1]
    BY DEF g, r
  <1> QED BY <1>1, <1>3, <1>4

\* The receiver's clock releases a message too early only on an ordered channel, which
\* has given up then; and an unordered channel that fits in half the circle forgets none.
LEMMA ReceiverTicks ==
    ASSUME ChannelInv, Firm, Firm', NEW d \in Frames, ReceiverTick(d)
    PROVE  LinkInv' /\ ReceiverInv'
  <1> DEFINE aged == Aged(orderedBuffer, d)
             late == {s \in DOMAIN aged : Late(aged[s])}
  <1>1. /\ LinkInv /\ ReceiverInv /\ mode' = mode /\ sent' = sent /\ recvSeq' = recvSeq
        /\ UNCHANGED <<sendBuffer, copies, marked, large>>
    BY DEF ChannelInv, ReceiverTick, config, sendVars, linkVars, fragVars
  <1>2. LinkInv'
    BY <1>1 DEF LinkInv, Within
  <1>3. DOMAIN aged = DOMAIN orderedBuffer
    BY DEF Aged
  <1>4. late = {}
    <2>1. CASE mode = "ReliableOrdered"
      <3>1. ~gaveUp'
        BY <1>1, <2>1 DEF Firm
      <3> QED BY <3>1 DEF ReceiverTick, FlushTimedOut
    <2>2. CASE mode # "ReliableOrdered"
      BY <1>1, <1>3, <2>2 DEF ReceiverInv
    <2> QED BY <2>1, <2>2
  <1>5. orderedBuffer' = aged /\ UNCHANGED <<expectedSeq, delivered, gaveUp>>
    BY <1>4 DEF ReceiverTick, FlushTimedOut
  <1>6. ASSUME InOrder PROVE InOrder'
    <2>1. /\ DOMAIN aged = DOMAIN orderedBuffer
          /\ \A s \in DOMAIN orderedBuffer :
                 aged[s] \in OooEntries /\ aged[s].num = orderedBuffer[s].num
      BY <1>6, AgedSame DEF InOrder
    <2> HIDE DEF aged
    <2> QED BY <1>1, <1>5, <1>6, <2>1 DEF InOrder
  <1>7. ASSUME Once, MaxMessages <= Half, mode = "ReliableUnordered" PROVE Once'
    <2>1. recvSeen' = CleanedDedupSet
      BY DEF ReceiverTick
    <2>2. ASSUME NEW i \in DOMAIN delivered PROVE Wire(delivered[i]) \in CleanedDedupSet
      <3>1. delivered[i] \in Nat /\ delivered[i] < sent /\ sent <= MaxMessages
        BY <1>1 DEF ReceiverInv, LinkInv
      <3>2. Wire(delivered[i]) = delivered[i]
        <4> DEFINE n == delivered[i]
        <4>1. n \in 0 .. SeqSpace - 1
          <5>1. n \in Nat /\ n < sent /\ sent \in Nat /\ sent <= Half
            BY <1>1, <1>7, <3>1, Ranges DEF LinkInv
          <5> HIDE DEF n
          <5> QED BY <5>1, Ranges
        <4>2. (SeqSpace * 0 + n) % SeqSpace = n
          BY <4>1, Turns
        <4>3. SeqSpace * 0 + n = n
          BY <3>1, Ranges
        <4> QED BY <4>2, <4>3 DEF Wire
      <3>3. Circular(delivered[i]) < Half
        BY <1>1, <1>7, <3>1, Ranges DEF Circular, Once, LinkInv
      <3> QED BY <1>7, <3>2, <3>3 DEF CleanedDedupSet, Once
    <2> QED BY <1>1, <1>5, <1>7, <2>1, <2>2 DEF Once
  <1>8. isSequenced' <=> isSequenced
    BY <1>1 DEF isSequenced
  <1>9. isSequenced => Sequenced'
    BY <1>1, <1>5 DEF ReceiverInv, Sequenced
  <1> QED BY <1>1, <1>2, <1>3, <1>5, <1>6, <1>7, <1>8, <1>9 DEF ReceiverInv

\* What is sent again was sent before.
LEMMA SenderTicks ==
    ASSUME ChannelInv, Firm, NEW d \in Frames, SenderTick(d)
    PROVE  LinkInv' /\ ReceiverInv'
  <1> DEFINE aged    == Aged(sendBuffer, d)
             overdue == {s \in DOMAIN aged : Overdue(aged[s])}
             dropped == {s \in overdue : OutOfRetries(aged[s])}
             resent  == overdue \ dropped
  <1>1. /\ LinkInv /\ ReceiverInv /\ mode' = mode /\ sent' = sent
        /\ UNCHANGED <<marked, large, recvVars>>
        /\ sendBuffer' = [s \in DOMAIN aged \ dropped |->
                             IF s \in resent
                             THEN [aged[s] EXCEPT !.age = 0, !.retries = @ + 1]
                             ELSE aged[s]]
        /\ copies' = [n \in DOMAIN copies |->
                         IF \E s \in resent : aged[s].num = n
                         THEN copies[n] + 1 ELSE copies[n]]
    BY DEF ChannelInv, SenderTick, config, fragVars
  <1>2. /\ DOMAIN aged = DOMAIN sendBuffer
        /\ \A s \in DOMAIN sendBuffer :
               aged[s] \in SendEntries /\ aged[s].num = sendBuffer[s].num
    BY <1>1, AgedSame DEF LinkInv
  <1>3. ReceiverInv'
    BY <1>1 DEF ReceiverInv, recvVars, isSequenced, Sequenced, InOrder, Once
  <1>4. resent \subseteq DOMAIN sendBuffer /\ DOMAIN aged \ dropped \subseteq DOMAIN sendBuffer
    BY <1>2
  <1> HIDE DEF aged, resent, dropped
  <1>5. ASSUME NEW s \in DOMAIN sendBuffer'
        PROVE  sendBuffer'[s] \in SendEntries /\ Within(sendBuffer'[s].num, sent, MaxSpan)
    <2>1. s \in DOMAIN sendBuffer /\ aged[s] \in SendEntries
          /\ sendBuffer'[s] \in {[aged[s] EXCEPT !.age = 0, !.retries = @ + 1], aged[s]}
      BY <1>1, <1>2, <1>4
    <2>2. aged[s].num = sendBuffer[s].num /\ Within(sendBuffer[s].num, sent, MaxSpan)
      BY <1>1, <1>2, <2>1 DEF LinkInv
    <2>3. CASE sendBuffer'[s] = [aged[s] EXCEPT !.age = 0, !.retries = @ + 1]
      BY <2>1, <2>2, <2>3, ResentSame
    <2>4. CASE sendBuffer'[s] = aged[s]
      BY <2>1, <2>2, <2>4
    <2> QED BY <2>1, <2>3, <2>4
  <1>6. copies' \in [0 .. (MaxMessages - 1) -> Nat]
    <2>1. copies \in [0 .. (MaxMessages - 1) -> Nat]
      BY <1>1 DEF LinkInv
    <2>2. ASSUME NEW n \in 0 .. (MaxMessages - 1)
          PROVE  (IF \E s \in resent : aged[s].num = n THEN copies[n] + 1 ELSE copies[n]) \in Nat
      <3>1. copies[n] \in Nat /\ copies[n] + 1 \in Nat
        BY <2>1
      <3> QED BY <3>1, Zenon
    <2>3. DOMAIN copies = 0 .. (MaxMessages - 1)
      BY <2>1
    <2> QED BY <1>1, <2>2, <2>3, Zenon
  <1>7. ASSUME NEW n \in DOMAIN copies', copies'[n] > 0 PROVE Within(n, sent, MaxSpan)
    <2>1. n \in DOMAIN copies
      BY <1>1
    <2>2. CASE \E s \in resent : aged[s].num = n
      BY <1>1, <1>2, <1>4, <2>2 DEF LinkInv, Within
    <2>3. CASE copies'[n] = copies[n]
      BY <1>1, <1>7, <2>1, <2>3 DEF LinkInv, Within
    <2> QED BY <1>1, <2>1, <2>2, <2>3
  <1>8. /\ sent' \in Nat /\ sent' <= MaxMessages /\ \A n \in marked' : Within(n, sent', MaxSpan)
        /\ \A n \in large' : n \in Nat /\ n < sent'
    BY <1>1 DEF LinkInv, Within
  <1>9. LinkInv'
    <2>1. sent' = sent
      BY <1>1
    <2> QED BY <1>5, <1>6, <1>7, <1>8, <2>1 DEF LinkInv
  <1> QED BY <1>3, <1>9

-----------------------------------------------------------------------------
(* Sending. *)

\* Behind is how far the receiver is behind; so k more numbers leave it near enough.
LEMMA BehindIs ==
    ASSUME SpanFits, LinkInv, ReceiverInv, Firm, NEW k \in Nat, CanSend(k)
    PROVE  /\ k <= MaxSpan /\ sent + k <= MaxMessages
           /\ \A s \in DOMAIN sendBuffer : sent - sendBuffer[s].num + k <= MaxSpan
           /\ mode = "ReliableOrdered" => sent - Len(delivered) + k <= MaxSpan
           /\ \A m \in Nat : /\ isSequenced /\ recvSeq = Wire(m)
                             /\ m <= sent /\ sent - m <= MaxSpan + 1
                             => sent - m + k <= MaxSpan
  <1>1. /\ sent \in Nat /\ sent + k <= MaxMessages /\ Behind + k <= MaxSpan
        /\ \A s \in DOMAIN sendBuffer : sent - sendBuffer[s].num + k <= MaxSpan
    BY DEF CanSend, Recent, LinkInv
  <1>2. ASSUME NEW m \in Nat, m <= sent, sent - m <= MaxSpan + 1
        PROVE  (Wire(sent) - Wire(m)) % SeqSpace = sent - m
    <2>1. sent - m < SeqSpace
      BY <1>1, <1>2, Ranges DEF SpanFits
    <2> QED BY <1>1, <1>2, <2>1, WireBehind
  <1>3. CASE isSequenced
    <2>1. PICK m \in Nat : recvSeq = Wire(m) /\ m <= sent /\ sent - m <= MaxSpan + 1
      BY <1>3 DEF ReceiverInv, Sequenced
    <2>2. \A w \in Nat : recvSeq = Wire(w) /\ w <= sent /\ sent - w <= MaxSpan + 1
                            => Behind = sent - w
      <3>1. mode # "ReliableOrdered"
        BY <1>3 DEF isSequenced
      <3>2. Behind = (Wire(sent) - recvSeq) % SeqSpace
        BY <1>3, <3>1 DEF Behind
      <3> QED BY <1>2, <3>2
    <2>3. mode # "ReliableOrdered"
      BY <1>3 DEF isSequenced
    <2>4. Behind = sent - m
      BY <2>1, <2>2
    <2>5. k <= MaxSpan
      BY <1>1, <2>1, <2>4, Ranges
    <2>6. ASSUME NEW w \in Nat, recvSeq = Wire(w), w <= sent, sent - w <= MaxSpan + 1
          PROVE  sent - w + k <= MaxSpan
      <3>1. Behind = sent - w
        BY <2>2, <2>6
      <3> QED BY <1>1, <3>1
    <2> QED BY <1>1, <2>3, <2>5, <2>6
  <1>4. CASE mode = "ReliableOrdered"
    <2>1. /\ Len(delivered) \in Nat /\ expectedSeq = Wire(Len(delivered))
          /\ Len(delivered) <= sent /\ sent - Len(delivered) <= MaxSpan + 1
      BY <1>1, <1>4, Ranges DEF ReceiverInv, InOrder
    <2>2. ~isSequenced
      BY <1>4 DEF isSequenced
    <2>3. Behind = sent - Len(delivered)
      BY <1>2, <1>4, <2>1, <2>2 DEF Behind
    <2> QED BY <1>1, <2>1, <2>2, <2>3, Ranges
  <1>5. CASE ~isSequenced /\ mode # "ReliableOrdered"
    BY <1>1, <1>5, Ranges DEF Behind
  <1> QED BY <1>3, <1>4, <1>5

\* The receiver does not notice that more was sent.
LEMMA SentMore ==
    ASSUME SpanFits, LinkInv, ReceiverInv, Firm, NEW k \in Nat, CanSend(k),
           sent' = sent + k, UNCHANGED <<config, recvVars>>
    PROVE  ReceiverInv'
  <1>1. /\ k <= MaxSpan
        /\ mode = "ReliableOrdered" => sent - Len(delivered) + k <= MaxSpan
        /\ \A m \in Nat : /\ isSequenced /\ recvSeq = Wire(m)
                          /\ m <= sent /\ sent - m <= MaxSpan + 1
                          => sent - m + k <= MaxSpan
    BY BehindIs
  <1>2. /\ mode' = mode /\ sent \in Nat
        /\ UNCHANGED <<recvSeq, expectedSeq, orderedBuffer, recvSeen, delivered, gaveUp>>
    BY DEF config, recvVars, LinkInv
  <1>3. delivered' \in Seq(Nat) /\ \A i \in DOMAIN delivered' : delivered'[i] < sent'
    <2>1. \A i \in DOMAIN delivered : delivered[i] \in Nat /\ delivered[i] < sent
      BY DEF ReceiverInv
    <2> QED BY <1>2, <2>1 DEF ReceiverInv
  <1>4. ASSUME isSequenced PROVE Sequenced'
    <2>1. PICK m \in Nat :
              /\ recvSeq = Wire(m) /\ m <= sent /\ sent - m <= MaxSpan + 1
              /\ \A i \in DOMAIN delivered : delivered[i] <= m
              /\ \A i, j \in DOMAIN delivered : i < j => delivered[i] < delivered[j]
      BY <1>4 DEF ReceiverInv, Sequenced
    <2>2. m <= sent' /\ sent' - m <= MaxSpan + 1
      BY <1>1, <1>2, <1>4, <2>1, Ranges
    <2> QED BY <1>2, <2>1, <2>2 DEF Sequenced
  <1>5. ASSUME mode = "ReliableOrdered" PROVE InOrder'
    <2>1. InOrder /\ Len(delivered) \in Nat
      BY <1>5 DEF ReceiverInv
    <2>2. Len(delivered') <= sent' /\ sent' - Len(delivered') <= MaxSpan
      BY <1>1, <1>2, <1>5, <2>1, Ranges DEF InOrder
    <2>3. ASSUME NEW s \in DOMAIN orderedBuffer
          PROVE  orderedBuffer[s].num \in Nat /\ orderedBuffer[s].num < sent'
      BY <1>2, <2>1 DEF InOrder
    <2> QED BY <1>2, <2>1, <2>2, <2>3 DEF InOrder
  <1>6. Once => Once'
    BY <1>2 DEF Once
  <1>7. isSequenced' <=> isSequenced
    BY <1>2 DEF isSequenced
  <1> QED BY <1>2, <1>3, <1>4, <1>5, <1>6, <1>7 DEF ReceiverInv

\* channelSend keeps some of the entries, and makes at most one of its own.
LEMMA TrackedEntries ==
    ASSUME NEW buf, NEW n \in Nat, NEW s \in DOMAIN Tracked(buf, n)
    PROVE  \/ Tracked(buf, n)[s] = [num |-> n, age |-> 0, retries |-> 0]
           \/ s \in DOMAIN buf /\ Tracked(buf, n)[s] = buf[s]
  <1> DEFINE kept == IF BufferFull(buf) THEN Without(buf, {Oldest(buf)}) ELSE buf
             e    == [num |-> n, age |-> 0, retries |-> 0]
  <1>1. Tracked(buf, n) = IF Tracks THEN With(kept, Wire(n), e) ELSE buf
    BY DEF Tracked
  <1>2. ASSUME NEW t \in DOMAIN kept PROVE t \in DOMAIN buf /\ kept[t] = buf[t]
    BY <1>2 DEF Without
  <1> HIDE DEF kept, e
  <1>3. CASE Tracks
    <2>1. DOMAIN Tracked(buf, n) = DOMAIN kept \cup {Wire(n)}
          /\ Tracked(buf, n)[s] = IF s = Wire(n) THEN e ELSE kept[s]
      BY <1>1, <1>3 DEF With
    <2> QED BY <1>2, <2>1 DEF e
  <1> QED BY <1>1, <1>3

\* What is sent, and what is under way with it, is recent.
LEMMA SendKeeps ==
    ASSUME SpanFits, ChannelInv, Firm, Send
    PROVE  LinkInv' /\ ReceiverInv'
  <1>1. LinkInv /\ ReceiverInv /\ sent \in Nat /\ sent' = sent + 1 /\ CanSend(1)
        /\ UNCHANGED <<config, recvVars, large>>
    BY DEF ChannelInv, Send, LinkInv, fragVars
  <1>0. \A m : m \in Nat /\ m < sent + 1 /\ sent + 1 - m <= MaxSpan => Within(m, sent', MaxSpan)
    BY <1>1 DEF Within
  <1>2. ReceiverInv'
    BY <1>1, SentMore
  <1>3. /\ 1 <= MaxSpan /\ sent' <= MaxMessages
        /\ \A s \in DOMAIN sendBuffer : sent - sendBuffer[s].num + 1 <= MaxSpan
    BY <1>1, BehindIs
  <1>4. ASSUME NEW s \in DOMAIN sendBuffer'
        PROVE  sendBuffer'[s] \in SendEntries /\ Within(sendBuffer'[s].num, sent', MaxSpan)
    <2>1. sendBuffer' = Tracked(sendBuffer, sent)
      BY DEF Send
    <2>2. \/ sendBuffer'[s] = [num |-> sent, age |-> 0, retries |-> 0]
          \/ s \in DOMAIN sendBuffer /\ sendBuffer'[s] = sendBuffer[s]
      BY <1>1, <2>1, TrackedEntries
    <2>3. CASE sendBuffer'[s] = [num |-> sent, age |-> 0, retries |-> 0]
      <3>1. sendBuffer'[s] \in SendEntries /\ sendBuffer'[s].num = sent
        BY <1>1, <2>3 DEF SendEntries
      <3> QED BY <1>0, <1>1, <1>3, <3>1, Ranges
    <2>4. CASE s \in DOMAIN sendBuffer /\ sendBuffer'[s] = sendBuffer[s]
      <3>1. sendBuffer[s] \in SendEntries /\ Within(sendBuffer[s].num, sent, MaxSpan)
        BY <1>1, <2>4 DEF LinkInv
      <3>2. sendBuffer[s].num \in Nat /\ sendBuffer[s].num < sent
            /\ sent - sendBuffer[s].num + 1 <= MaxSpan
        BY <1>3, <2>4, <3>1 DEF Within
      <3>3. Within(sendBuffer[s].num, sent', MaxSpan)
        BY <1>0, <1>1, <3>2, Ranges
      <3> QED BY <2>4, <3>1, <3>3
    <2> QED BY <2>2, <2>3, <2>4
  <1>5. ASSUME NEW n, Within(n, sent, MaxSpan), Recent(n, 1) PROVE Within(n, sent', MaxSpan)
    BY <1>1, <1>5 DEF Within, Recent
  <1>6. /\ copies' = [n \in DOMAIN copies |->
                         IF n = sent THEN 1 ELSE IF Recent(n, 1) THEN copies[n] ELSE 0]
        /\ copies \in [0 .. (MaxMessages - 1) -> Nat]
        /\ \A n \in DOMAIN copies : copies[n] > 0 => Within(n, sent, MaxSpan)
    BY <1>1 DEF Send, LinkInv
  <1>7. copies' \in [0 .. (MaxMessages - 1) -> Nat]
    BY <1>6
  <1>8. ASSUME NEW n \in DOMAIN copies', copies'[n] > 0 PROVE Within(n, sent', MaxSpan)
    <2>1. n \in DOMAIN copies
      BY <1>6
    <2>2. CASE n = sent
      BY <1>1, <1>3, <2>2, Ranges DEF Within
    <2>3. CASE n # sent
      <3>1. Recent(n, 1) /\ copies[n] > 0
        BY <1>6, <1>8, <2>1, <2>3
      <3> QED BY <1>5, <1>6, <2>1, <3>1
    <2> QED BY <2>2, <2>3
  <1>9. ASSUME NEW n \in marked' PROVE Within(n, sent', MaxSpan)
    <2>1. n \in marked /\ Recent(n, 1)
      BY DEF Send
    <2> QED BY <1>1, <1>5, <2>1 DEF LinkInv
  <1>10. \A n \in large' : n \in Nat /\ n < sent'
    BY <1>1 DEF LinkInv
  <1>11. LinkInv'
    <2>1. sent' \in Nat
      BY <1>1
    <2> QED BY <1>3, <1>4, <1>7, <1>8, <1>9, <1>10, <2>1 DEF LinkInv
  <1> QED BY <1>2, <1>11

\* The send buffer after each of the first m pieces
Buffers(f, m) ==
    f = [k \in 0 .. m |-> IF k = 0 THEN sendBuffer ELSE Tracked(f[k - 1], sent + k)]

LEMMA BuffersExist ==
    ASSUME NEW m \in Nat
    PROVE  \E f : Buffers(f, m)
  <1> DEFINE S == {i \in Nat : ~ \E f : Buffers(f, i)}
  <1>1. SUFFICES ASSUME S # {} PROVE FALSE
    OBVIOUS
  <1>2. PICK i \in S : \A j \in S : i <= j
    BY <1>1, Least
  <1>3. i \in Nat /\ ~ \E f : Buffers(f, i)
    BY <1>2
  <1>4. CASE i = 0
    <2> DEFINE f == [k \in 0 .. 0 |-> sendBuffer]
    <2>1. f = [k \in 0 .. 0 |-> IF k = 0 THEN sendBuffer ELSE Tracked(f[k - 1], sent + k)]
      OBVIOUS
    <2> QED BY <1>3, <1>4, <2>1 DEF Buffers
  <1>5. CASE i # 0
    <2>1. i - 1 \in Nat /\ ~(i - 1 \in S)
      BY <1>2, <1>3, <1>5
    <2>2. PICK f : Buffers(f, i - 1)
      BY <2>1
    <2> DEFINE g == [k \in 0 .. i |-> IF k = i THEN Tracked(f[i - 1], sent + i) ELSE f[k]]
    <2>3. ASSUME NEW k \in 0 .. i
          PROVE  g[k] = IF k = 0 THEN sendBuffer ELSE Tracked(g[k - 1], sent + k)
      <3>1. \A j \in 0 .. i - 1 :
                g[j] = f[j] /\ f[j] = IF j = 0 THEN sendBuffer ELSE Tracked(f[j - 1], sent + j)
        BY <1>3, <2>2 DEF Buffers
      <3>2. g[i] = Tracked(f[i - 1], sent + i)
        BY <1>3
      <3> HIDE DEF g
      <3>3. CASE k = i
        BY <1>3, <1>5, <3>1, <3>2, <3>3
      <3>4. CASE k # i
        <4>1. k \in 0 .. i - 1 /\ (k # 0 => k - 1 \in 0 .. i - 1)
          BY <1>3, <3>4
        <4> QED BY <3>1, <4>1
      <3> QED BY <3>3, <3>4
    <2>4. g = [k \in 0 .. i |-> IF k = 0 THEN sendBuffer ELSE Tracked(g[k - 1], sent + k)]
      <3>1. DOMAIN g = 0 .. i /\ g = [k \in 0 .. i |-> g[k]]
        OBVIOUS
      <3> HIDE DEF g
      <3> QED BY <2>3, <3>1, Zenon
    <2> QED BY <1>3, <2>4 DEF Buffers
  <1> QED BY <1>4, <1>5

\* Every entry is an old one or that of a piece.
LEMMA BuffersEntries ==
    ASSUME NEW m \in Nat, NEW f, Buffers(f, m), sent \in Nat, NEW k \in 0 .. m,
           NEW s \in DOMAIN f[k]
    PROVE  \/ \E i \in 1 .. k : f[k][s] = [num |-> sent + i, age |-> 0, retries |-> 0]
           \/ s \in DOMAIN sendBuffer /\ f[k][s] = sendBuffer[s]
  <1> DEFINE Good(j) ==
                 \A t \in DOMAIN f[j] :
                     \/ \E i \in 1 .. j : f[j][t] = [num |-> sent + i, age |-> 0, retries |-> 0]
                     \/ t \in DOMAIN sendBuffer /\ f[j][t] = sendBuffer[t]
             S == {j \in 0 .. m : ~Good(j)}
  <1>0. \A j \in 0 .. m : f[j] = IF j = 0 THEN sendBuffer ELSE Tracked(f[j - 1], sent + j)
    BY DEF Buffers
  <1>1. SUFFICES ASSUME S # {} PROVE FALSE
    OBVIOUS
  <1>2. PICK j \in S : \A i \in S : j <= i
    <2> HIDE DEF Good
    <2>1. S \in SUBSET Nat
      OBVIOUS
    <2> HIDE DEF S
    <2> QED BY <1>1, <2>1, Least
  <1>3. j \in 0 .. m /\ ~Good(j)
    BY <1>2
  <1>4. CASE j = 0
    <2>1. f[0] = sendBuffer
      BY <1>0, <1>3, <1>4
    <2> QED BY <1>3, <1>4, <2>1
  <1>5. CASE j # 0
    <2>1. Good(j - 1)
      <3> HIDE DEF Good
      <3>1. j - 1 \in 0 .. m /\ j \in Nat /\ ~(j <= j - 1)
        BY <1>3, <1>5
      <3>2. ~(j - 1 \in S)
        <4> HIDE DEF S
        <4> QED BY <1>2, <3>1
      <3> QED BY <3>1, <3>2
    <2>2. \A t \in DOMAIN f[j - 1] :
              \/ \E i \in 1 .. j - 1 : f[j - 1][t] = [num |-> sent + i, age |-> 0, retries |-> 0]
              \/ t \in DOMAIN sendBuffer /\ f[j - 1][t] = sendBuffer[t]
      BY <2>1
    <2>3. f[j] = Tracked(f[j - 1], sent + j) /\ sent + j \in Nat
      BY <1>0, <1>3, <1>5
    <2>4. ASSUME NEW t \in DOMAIN f[j]
          PROVE  \/ \E i \in 1 .. j : f[j][t] = [num |-> sent + i, age |-> 0, retries |-> 0]
                 \/ t \in DOMAIN sendBuffer /\ f[j][t] = sendBuffer[t]
      <3>1. \/ f[j][t] = [num |-> sent + j, age |-> 0, retries |-> 0]
            \/ t \in DOMAIN f[j - 1] /\ f[j][t] = f[j - 1][t]
        BY <2>3, TrackedEntries
      <3>2. j \in 1 .. j /\ 1 .. j - 1 \subseteq 1 .. j
        BY <1>3, <1>5
      <3> QED BY <2>2, <3>1, <3>2
    <2> QED BY <1>3, <2>4
  <1> QED BY <1>3, <1>4, <1>5

\* So a large message leaves nothing old behind either.
LEMMA SendLargeKeeps ==
    ASSUME SpanFits, ChannelInv, Firm, SendLarge
    PROVE  LinkInv' /\ ReceiverInv'
  <1> DEFINE K == Pieces + 1
             buffer[k \in 0 .. Pieces] ==
                 IF k = 0 THEN sendBuffer ELSE Tracked(buffer[k - 1], sent + k)
  <1>1. LinkInv /\ ReceiverInv /\ sent \in Nat /\ sent' = sent + K /\ CanSend(K)
        /\ Pieces \in Nat /\ K \in Nat
        /\ UNCHANGED <<config, recvVars>> /\ large' = large \cup {sent}
    <2>1. LinkInv /\ ReceiverInv /\ sent \in Nat /\ Pieces \in Nat /\ K \in Nat
      BY Ranges DEF ChannelInv, LinkInv
    <2>2. /\ CanSend(Pieces + 1) /\ sent' = sent + Pieces + 1
          /\ UNCHANGED <<config, recvVars>> /\ large' = large \cup {sent}
      BY DEF SendLarge
    <2> QED BY <2>1, <2>2
  <1>2. sendBuffer' = buffer[Pieces]
    BY DEF SendLarge
  <1>3. Buffers(buffer, Pieces)
    BY <1>1, BuffersExist DEF Buffers
  <1> HIDE DEF buffer
  <1>4. ReceiverInv'
    BY <1>1, SentMore
  <1>5. /\ K <= MaxSpan /\ sent' <= MaxMessages /\ sent' \in Nat
        /\ \A s \in DOMAIN sendBuffer : sent - sendBuffer[s].num + K <= MaxSpan
    BY <1>1, BehindIs
  <1>6. \A m : m \in Nat /\ m < sent + K /\ sent + K - m <= MaxSpan => Within(m, sent', MaxSpan)
    BY <1>1 DEF Within
  <1>7. ASSUME NEW s \in DOMAIN sendBuffer'
        PROVE  sendBuffer'[s] \in SendEntries /\ Within(sendBuffer'[s].num, sent', MaxSpan)
    <2>1. \/ \E i \in 1 .. Pieces : sendBuffer'[s] = [num |-> sent + i, age |-> 0, retries |-> 0]
          \/ s \in DOMAIN sendBuffer /\ sendBuffer'[s] = sendBuffer[s]
      <3>1. Pieces \in 0 .. Pieces
        BY <1>1
      <3>2. s \in DOMAIN buffer[Pieces]
        BY <1>2
      <3>3. \/ \E i \in 1 .. Pieces :
                   buffer[Pieces][s] = [num |-> sent + i, age |-> 0, retries |-> 0]
            \/ s \in DOMAIN sendBuffer /\ buffer[Pieces][s] = sendBuffer[s]
        BY <1>1, <1>3, <3>1, <3>2, BuffersEntries, ZenonT(30)
      <3> QED BY <1>2, <3>3, Zenon
    <2>2. ASSUME NEW i \in 1 .. Pieces,
                 sendBuffer'[s] = [num |-> sent + i, age |-> 0, retries |-> 0]
          PROVE  sendBuffer'[s] \in SendEntries /\ Within(sendBuffer'[s].num, sent', MaxSpan)
      <3>1. sendBuffer'[s] \in SendEntries /\ sendBuffer'[s].num = sent + i
        BY <1>1, <2>2 DEF SendEntries
      <3>2. sent + i \in Nat /\ sent + i < sent + K /\ sent + K - (sent + i) <= MaxSpan
        BY <1>1, <1>5, Ranges
      <3> QED BY <1>6, <3>1, <3>2
    <2>3. CASE s \in DOMAIN sendBuffer /\ sendBuffer'[s] = sendBuffer[s]
      <3>1. sendBuffer[s] \in SendEntries /\ Within(sendBuffer[s].num, sent, MaxSpan)
        BY <1>1, <2>3 DEF LinkInv
      <3>2. sendBuffer[s].num \in Nat /\ sendBuffer[s].num < sent
            /\ sent - sendBuffer[s].num + K <= MaxSpan
        BY <1>5, <2>3, <3>1 DEF Within
      <3>3. Within(sendBuffer[s].num, sent', MaxSpan)
        BY <1>1, <1>6, <3>2, Ranges
      <3> QED BY <2>3, <3>1, <3>3
    <2> QED BY <2>1, <2>2, <2>3
  <1>8. ASSUME NEW n, Within(n, sent, MaxSpan), Recent(n, K) PROVE Within(n, sent', MaxSpan)
    BY <1>1, <1>8, Ranges DEF Within, Recent
  <1>9. /\ copies' = [n \in DOMAIN copies |-> IF Recent(n, K) THEN copies[n] ELSE 0]
        /\ copies \in [0 .. (MaxMessages - 1) -> Nat]
        /\ \A n \in DOMAIN copies : copies[n] > 0 => Within(n, sent, MaxSpan)
    BY <1>1 DEF SendLarge, LinkInv
  <1> HIDE DEF K
  <1>10. copies' \in [0 .. (MaxMessages - 1) -> Nat]
    BY <1>9
  <1>11. ASSUME NEW n \in DOMAIN copies', copies'[n] > 0 PROVE Within(n, sent', MaxSpan)
    <2>1. n \in DOMAIN copies /\ Recent(n, K) /\ copies[n] > 0
      BY <1>9, <1>11
    <2> QED BY <1>8, <1>9, <2>1
  <1>12. ASSUME NEW n \in marked' PROVE Within(n, sent', MaxSpan)
    <2>1. (n \in marked /\ Recent(n, K)) \/ n \in PiecesOf(sent)
      BY DEF SendLarge, K
    <2>2. CASE n \in marked /\ Recent(n, K)
      BY <1>1, <1>8, <2>2 DEF LinkInv
    <2>3. CASE n \in PiecesOf(sent)
      <3>1. n \in Nat /\ n < sent + K /\ sent + K - n <= K
        BY <1>1, <2>3 DEF PiecesOf, K
      <3> QED BY <1>1, <1>5, <1>6, <3>1, Ranges
    <2> QED BY <2>1, <2>2, <2>3
  <1>13. \A n \in large' : n \in Nat /\ n < sent'
    BY <1>1 DEF LinkInv, K
  <1>14. LinkInv'
    BY <1>5, <1>7, <1>10, <1>11, <1>12, <1>13 DEF LinkInv
  <1> QED BY <1>4, <1>14

-----------------------------------------------------------------------------
(* Every step. *)

LEMMA ChannelInit == SpanFits /\ Init => ChannelInv
  <1> SUFFICES ASSUME SpanFits, Init PROVE ChannelInv
    OBVIOUS
  <1>1. /\ mode \in Modes /\ sent = Start /\ sent \in Nat /\ sent <= MaxMessages
        /\ DOMAIN sendBuffer = {} /\ DOMAIN orderedBuffer = {}
        /\ delivered = [i \in 1 .. Start |-> i - 1] /\ marked = {} /\ large = {}
        /\ copies = [n \in 0 .. (MaxMessages - 1) |-> 0]
    BY Ranges DEF Init, Empty
  <1>2. LinkInv
    BY <1>1 DEF LinkInv
  <1>3. /\ DOMAIN delivered = 1 .. Start /\ delivered \in Seq(Nat) /\ Len(delivered) = Start
        /\ \A i \in DOMAIN delivered : delivered[i] = i - 1
    <2>1. delivered \in [1 .. Start -> Nat]
      BY <1>1
    <2> QED BY <1>1, <2>1
  <1>4. ASSUME isSequenced PROVE Sequenced
    <2>1. CASE Start > 0
      <3>1. Start - 1 \in Nat /\ recvSeq = Wire(Start - 1) /\ Start - 1 <= sent
            /\ sent - (Start - 1) <= MaxSpan + 1
        BY <1>1, <1>4, <2>1, Ranges DEF Init
      <3>2. /\ \A i \in DOMAIN delivered : delivered[i] <= Start - 1
            /\ \A i, j \in DOMAIN delivered : i < j => delivered[i] < delivered[j]
        BY <1>1, <1>3
      <3> QED BY <3>1, <3>2 DEF Sequenced
    <2>2. CASE ~(Start > 0)
      <3>1. Start = 0 /\ recvSeq = 0
        BY <1>1, <1>4, <2>2 DEF Init, initialSeq
      <3>2. Wire(0) = 0
        BY Ranges, Turns DEF Wire
      <3>3. DOMAIN delivered = {}
        BY <1>3, <3>1
      <3> QED BY <1>1, <3>1, <3>2, <3>3, Ranges DEF Sequenced
    <2> QED BY <2>1, <2>2
  <1>5. ASSUME mode = "ReliableOrdered" PROVE InOrder
    <2>1. IsFiniteSet(DOMAIN orderedBuffer)
      BY <1>1, FS_EmptySet
    <2>2. expectedSeq = Wire(Start)
      BY <1>5 DEF Init
    <2> QED BY <1>1, <1>3, <2>1, <2>2, Ranges DEF InOrder
  <1>6. ASSUME mode = "ReliableUnordered" PROVE Once
    <2>1. recvSeq = 0 /\ recvSeen = {Wire(n) : n \in 0 .. (Start - 1)}
      BY <1>6 DEF Init, isSequenced, initialSeq
    <2>2. \A i \in DOMAIN delivered : delivered[i] \in 0 .. (Start - 1)
      BY <1>1, <1>3
    <2> QED BY <1>3, <2>1, <2>2 DEF Once
  <1>7. \A i \in DOMAIN delivered : delivered[i] < sent
    BY <1>1, <1>3
  <1> QED BY <1>1, <1>2, <1>3, <1>4, <1>5, <1>6, <1>7 DEF ChannelInv, ReceiverInv

\* What the application of the receiver is given came from the link.
LEMMA ReceiveKeeps ==
    ASSUME SpanFits, ChannelInv, Firm, Firm', NEW n \in DOMAIN copies, Receive(n)
    PROVE  LinkInv' /\ ReceiverInv'
  <1>1. /\ LinkInv /\ UNCHANGED <<config, sent, sendBuffer, marked, large>>
        /\ copies[n] > 0 /\ copies' = [copies EXCEPT ![n] = @ - 1]
        /\ OnMessageReceived(n)
    BY DEF ChannelInv, Receive, sendVars, fragVars
  <1>2. copies \in [0 .. (MaxMessages - 1) -> Nat] /\ n \in DOMAIN copies
        /\ \A m \in DOMAIN copies : copies[m] > 0 => Within(m, sent, MaxSpan)
    BY <1>1 DEF LinkInv
  <1>3. Within(n, sent, MaxSpan) /\ Within(n, sent, MaxSpan + Pieces)
    <2>1. Within(n, sent, MaxSpan) /\ sent \in Nat
      BY <1>1, <1>2 DEF LinkInv
    <2> QED BY <2>1, Ranges DEF Within
  <1>4. ReceiverInv'
    BY <1>1, <1>3, Receives
  <1>5. copies[n] - 1 \in Nat
    BY <1>1, <1>2
  <1>6. copies' \in [0 .. (MaxMessages - 1) -> Nat]
    BY <1>1, <1>2, <1>5
  <1>7. ASSUME NEW m \in DOMAIN copies', copies'[m] > 0 PROVE Within(m, sent, MaxSpan)
    BY <1>1, <1>2, <1>3, <1>7
  <1>8. LinkInv'
    BY <1>1, <1>6, <1>7 DEF LinkInv
  <1> QED BY <1>4, <1>8

\* Nor is the number in front of a large message too old, when its last piece is not.
LEMMA ReceivePieceKeeps ==
    ASSUME SpanFits, ChannelInv, Firm, Firm', NEW n \in large, NEW piece, ReceivePiece(n, piece)
    PROVE  LinkInv' /\ ReceiverInv'
  <1>1. /\ LinkInv /\ ReceiverInv /\ UNCHANGED <<config, sent, sendBuffer, copies, large>>
        /\ piece \in marked /\ piece \in PiecesOf(n) /\ marked' \subseteq marked
        /\ (OnMessageReceived(n) \/ IgnoreMessage)
    BY DEF ChannelInv, ReceivePiece, sendVars
  <1>2. Within(n, sent, MaxSpan + Pieces)
    <2>1. Within(piece, sent, MaxSpan) /\ n \in Nat /\ sent \in Nat
      BY <1>1 DEF LinkInv
    <2>2. piece \in n + 1 .. n + Pieces
      BY <1>1 DEF PiecesOf
    <2> QED BY <2>1, <2>2, Ranges DEF Within
  <1>3. ASSUME OnMessageReceived(n) PROVE ReceiverInv'
    BY <1>1, <1>2, <1>3, Receives
  <1>4. ASSUME IgnoreMessage PROVE ReceiverInv'
    BY <1>1, <1>4 DEF IgnoreMessage, recvVars, config, ReceiverInv, isSequenced, Sequenced,
                      InOrder, Once
  <1>5. ReceiverInv'
    BY <1>1, <1>3, <1>4
  <1>6. LinkInv'
    BY <1>1 DEF LinkInv
  <1> QED BY <1>5, <1>6

LEMMA AcknowledgeKeeps ==
    ASSUME ChannelInv, Firm, NEW n, Acknowledge(n)
    PROVE  LinkInv' /\ ReceiverInv'
  <1>1. /\ LinkInv /\ ReceiverInv /\ UNCHANGED <<config, sent, copies, marked, recvVars, large>>
        /\ sendBuffer' = Without(sendBuffer, {Wire(n)})
    BY DEF ChannelInv, Acknowledge, fragVars
  <1>2. \A s \in DOMAIN sendBuffer' : s \in DOMAIN sendBuffer /\ sendBuffer'[s] = sendBuffer[s]
    BY <1>1 DEF Without
  <1>3. LinkInv'
    BY <1>1, <1>2 DEF LinkInv
  <1>4. ReceiverInv'
    BY <1>1 DEF recvVars, config, ReceiverInv, isSequenced, Sequenced, InOrder, Once
  <1> QED BY <1>3, <1>4

\* No step changes the mode, or takes back that the receiver gave up.
LEMMA FirmBefore ==
    ASSUME [Next]_vars
    PROVE  mode' = mode /\ (Firm' => Firm)
  <1>1. mode' = mode
    BY DEF Next, vars, config, Send, SendLarge, ReceivePiece, Acknowledge, Receive, SenderTick,
           ReceiverTick
  <1>2. gaveUp => gaveUp'
    <2>1. ASSUME NEW n, OnMessageReceived(n) PROVE gaveUp' = gaveUp
      BY <2>1 DEF OnMessageReceived, ReceiveUnreliable, ReceiveSequenced, ReceiveUnordered,
                  ReceiveOrdered, IgnoreMessage, recvVars
    <2>2. ASSUME NEW d, ReceiverTick(d) PROVE gaveUp' \in {gaveUp, TRUE}
      BY <2>2 DEF ReceiverTick, FlushTimedOut
    <2>3. CASE Send \/ SendLarge \/ UNCHANGED vars
      BY <2>3 DEF Send, SendLarge, vars, recvVars
    <2>4. ASSUME NEW n, Receive(n) PROVE gaveUp' = gaveUp
      BY <2>1, <2>4 DEF Receive
    <2>5. ASSUME NEW n, NEW piece, ReceivePiece(n, piece) PROVE gaveUp' = gaveUp
      BY <2>1, <2>5 DEF ReceivePiece, IgnoreMessage, recvVars
    <2>6. ASSUME NEW n, Acknowledge(n) PROVE gaveUp' = gaveUp
      BY <2>6 DEF Acknowledge, recvVars
    <2>7. ASSUME NEW d, SenderTick(d) PROVE gaveUp' = gaveUp
      BY <2>7 DEF SenderTick, recvVars
    <2> QED BY <2>2, <2>3, <2>4, <2>5, <2>6, <2>7 DEF Next
  <1> QED BY <1>1, <1>2 DEF Firm

LEMMA ChannelStep == SpanFits /\ ChannelInv /\ [Next]_vars => ChannelInv'
  <1> SUFFICES ASSUME SpanFits, ChannelInv, [Next]_vars PROVE ChannelInv'
    OBVIOUS
  <1>1. mode' = mode /\ mode \in Modes
    BY FirmBefore DEF ChannelInv
  <1>2. SUFFICES ASSUME Firm, Firm' PROVE LinkInv' /\ ReceiverInv'
    BY <1>1, FirmBefore DEF ChannelInv
  <1>3. CASE Send
    BY <1>2, <1>3, SendKeeps
  <1>4. CASE SendLarge
    BY <1>2, <1>4, SendLargeKeeps
  <1>5. ASSUME NEW n \in large, NEW piece \in marked, ReceivePiece(n, piece)
        PROVE  LinkInv' /\ ReceiverInv'
    BY <1>2, <1>5, ReceivePieceKeeps
  <1>6. ASSUME NEW n, Acknowledge(n) PROVE LinkInv' /\ ReceiverInv'
    BY <1>2, <1>6, AcknowledgeKeeps
  <1>7. ASSUME NEW n \in DOMAIN copies, Receive(n) PROVE LinkInv' /\ ReceiverInv'
    BY <1>2, <1>7, ReceiveKeeps
  <1>8. ASSUME NEW d \in Frames, SenderTick(d) PROVE LinkInv' /\ ReceiverInv'
    BY <1>2, <1>8, SenderTicks
  <1>9. ASSUME NEW d \in Frames, ReceiverTick(d) PROVE LinkInv' /\ ReceiverInv'
    BY <1>2, <1>9, ReceiverTicks
  <1>10. CASE UNCHANGED vars
    <2>1. LinkInv /\ ReceiverInv
      BY <1>2 DEF ChannelInv
    <2> QED BY <1>10, <2>1 DEF vars, config, sendVars, recvVars, linkVars, fragVars, LinkInv,
                               ReceiverInv, isSequenced, Sequenced, InOrder, Once
  <1> QED BY <1>3, <1>4, <1>5, <1>6, <1>7, <1>8, <1>9, <1>10 DEF Next

LEMMA ChannelAlways == SpanFits => (Spec => []ChannelInv)
  <1> SUFFICES ASSUME SpanFits PROVE Spec => []ChannelInv
    OBVIOUS
  <1>1. Init => ChannelInv
    BY ChannelInit
  <1>2. ChannelInv /\ [Next]_vars => ChannelInv'
    BY ChannelStep
  <1> QED BY <1>1, <1>2, PTL DEF Spec

\* As long as what is under way fits in half the circle of numbers, a sequenced channel
\* never delivers a message after a newer one, and an ordered channel delivers exactly
\* the first messages, in order, until it gives up on one (onMessageReceived and
\* flushTimedOutOrdered, with any buffers, timeouts, losses and reordering).
THEOREM OrderKept == SpanFits => (Spec => []OrderHolds)
  <1> SUFFICES ASSUME SpanFits PROVE Spec => []OrderHolds
    OBVIOUS
  <1>1. ChannelInv => OrderHolds
    BY DEF ChannelInv, Firm, ReceiverInv, InOrder, Sequenced, OrderHolds, OrderedUntilGaveUp,
           NewestOnly, isSequenced
  <1> QED BY <1>1, ChannelAlways, PTL

-----------------------------------------------------------------------------
(* The buffers, whatever is under way. *)

\* The send buffer after any number of calls of channelSend
Sendable(buf) ==
    /\ DOMAIN buf \in SUBSET Seqs
    /\ \A s \in DOMAIN buf :
           buf[s] \in SendEntries /\ s = Wire(buf[s].num) /\ buf[s].num < MaxMessages
    /\ Cardinality(DOMAIN buf) <= SendBufferSize

\* What is sent, under way, arrived or acknowledged was numbered before.
NumbersInv ==
    /\ mode \in Modes /\ blocks \in Policies
    /\ sent \in 0 .. MaxMessages
    /\ \A s \in DOMAIN sendBuffer : sendBuffer[s].num < sent
    /\ copies \in [0 .. (MaxMessages - 1) -> Nat]
    /\ \A n \in DOMAIN copies : copies[n] > 0 => n < sent
    /\ large \in SUBSET (0 .. (sent - 1))
    /\ marked \in SUBSET (0 .. (sent - 1))
    /\ marked \cup gathered \in SUBSET (UNION {PiecesOf(n) : n \in large})
    /\ arrived \in SUBSET (0 .. (sent - 1)) /\ acked \in SUBSET (0 .. (sent - 1))

\* What is held back is entered under its number, and the message awaited is not among it.
Held(buf) ==
    /\ DOMAIN buf \in SUBSET Seqs
    /\ \A s \in DOMAIN buf : buf[s] \in OooEntries /\ s = Wire(buf[s].num)
    /\ Cardinality(DOMAIN buf) <= OrderedBufferSize

HeldInv ==
    /\ Held(orderedBuffer) /\ expectedSeq \notin DOMAIN orderedBuffer
    /\ recvSeq \in Seqs /\ expectedSeq \in Seqs /\ recvSeen \in SUBSET Seqs
    /\ delivered \in Seq(Nat) /\ gaveUp \in BOOLEAN

BufferInv == Sendable(sendBuffer) /\ NumbersInv /\ HeldInv

LEMMA SeqsFinite == \A S \in SUBSET Seqs : IsFiniteSet(S) /\ Cardinality(S) \in Nat
  <1>1. IsFiniteSet(Seqs)
    <2>1. 0 \in Int /\ SeqSpace - 1 \in Int
      BY Ranges
    <2> QED BY <2>1, FS_Interval DEF Seqs
  <1> QED BY <1>1, FS_Subset, FS_CardinalityType

\* The entry that is sent again, evicted or released first: the oldest one.
LEMMA OldestIs ==
    ASSUME NEW buf, Sendable(buf), DOMAIN buf # {}
    PROVE  Oldest(buf) \in DOMAIN buf
  <1> DEFINE D == DOMAIN buf
             A == {buf[s].age : s \in D}
  <1>1. D \in SUBSET Nat /\ IsFiniteSet(D) /\ \A s \in D : buf[s].age \in Nat
    BY SeqsFinite, Ranges DEF Sendable, SendEntries, Seqs
  <1>2. A \in SUBSET Int /\ A # {} /\ IsFiniteSet(A)
    <2>1. IsFiniteSet(A)
      <3> DEFINE g == [s \in D |-> buf[s].age]
      <3>1. g \in Surjection(D, A)
        BY DEF Surjection
      <3> HIDE DEF D, A, g
      <3> QED BY <1>1, <3>1, FS_Surjection
    <2> QED BY <1>1, <2>1
  <1> HIDE DEF A
  <1>3. PICK a \in A : \A b \in A : b <= a
    <2> DEFINE N == Cardinality(A)
               top == Ascending(A)[N]
    <2>1. N \in Nat /\ N # 0
      BY <1>2, FS_CardinalityType, FS_EmptySet
    <2>2. N \in 1 .. N
      BY <2>1
    <2>3. top \in A
      BY <1>2, <2>2, AscendingIs
    <2>4. ASSUME NEW b \in A PROVE b <= top
      <3>1. PICK i \in 1 .. N : Ascending(A)[i] = b
        BY <1>2, AscendingIs
      <3>2. CASE i < N
        <4>1. Ascending(A)[i] < Ascending(A)[N]
          BY <1>2, <2>2, <3>2, AscendingIs
        <4>2. b \in Int /\ top \in Int
          BY <1>2, <2>3
        <4>3. b < top
          BY <3>1, <4>1
        <4> HIDE DEF top
        <4> QED BY <4>2, <4>3
      <3>3. CASE i = N
        BY <1>2, <2>3, <3>1, <3>3
      <3> QED BY <2>1, <3>2, <3>3
    <2> QED BY <2>3, <2>4
  <1> DEFINE K == {s \in D : buf[s].age = a}
  <1>4. K \in SUBSET Nat /\ K # {}
    BY <1>1, <1>3 DEF A
  <1>5. PICK k \in K : \A s \in K : k <= s
    <2> HIDE DEF K
    <2> QED BY <1>4, Least
  <1>6. ASSUME NEW t \in D \ {k}
        PROVE  buf[k].age > buf[t].age \/ (buf[k].age = buf[t].age /\ k < t)
    <2>1. k \in D /\ buf[k].age = a /\ buf[t].age \in A /\ a \in Nat /\ t \in Nat /\ k \in Nat
      BY <1>1, <1>5 DEF A
    <2>2. buf[t].age <= a
      BY <1>3, <2>1
    <2>3. CASE buf[t].age = a
      BY <1>5, <2>1, <2>3
    <2> QED BY <1>1, <2>1, <2>2, <2>3
  <1>7. k \in D
    BY <1>5
  <1> HIDE DEF D, K
  <1> QED BY <1>6, <1>7 DEF Oldest, D

\* channelSend makes room before it adds an entry.
LEMMA TrackedFits ==
    ASSUME NEW buf, Sendable(buf), NEW n \in 0 .. MaxMessages - 1
    PROVE  Sendable(Tracked(buf, n))
  <1> DEFINE kept == IF BufferFull(buf) THEN Without(buf, {Oldest(buf)}) ELSE buf
             e    == [num |-> n, age |-> 0, retries |-> 0]
             D    == DOMAIN buf
  <1>1. SendBufferSize \in Nat \ {0}
    BY ChannelAssumption
  <1>2. D \in SUBSET Seqs /\ IsFiniteSet(D) /\ Cardinality(D) \in Nat /\ Cardinality(D) <= SendBufferSize
    BY SeqsFinite DEF Sendable
  <1>3. Tracked(buf, n) = IF Tracks THEN With(kept, Wire(n), e) ELSE buf
    BY DEF Tracked
  <1>4. /\ DOMAIN kept \in SUBSET D
        /\ Cardinality(DOMAIN kept) + 1 <= SendBufferSize
        /\ \A s \in DOMAIN kept : kept[s] = buf[s]
    <2>1. CASE BufferFull(buf)
      <3>1. D # {}
        <4>1. ASSUME D = {} PROVE FALSE
          <5>1. Cardinality(D) = 0
            BY <4>1, FS_EmptySet
          <5> QED BY <1>1, <2>1, <5>1 DEF BufferFull
        <4> QED BY <4>1
      <3>2. Oldest(buf) \in D
        BY <3>1, OldestIs
      <3>3. Cardinality(D \ {Oldest(buf)}) = Cardinality(D) - 1
        BY <1>2, <3>2, FS_RemoveElement
      <3>4. DOMAIN kept = D \ {Oldest(buf)}
        BY <2>1 DEF Without
      <3>5. \A s \in DOMAIN kept : kept[s] = buf[s]
        BY <2>1 DEF Without
      <3> HIDE DEF kept
      <3> QED BY <1>1, <1>2, <3>3, <3>4, <3>5
    <2>2. CASE ~BufferFull(buf)
      <3>1. kept = buf
        BY <2>2
      <3> HIDE DEF kept
      <3> QED BY <1>1, <1>2, <2>2, <3>1 DEF BufferFull
    <2> QED BY <2>1, <2>2
  <1> HIDE DEF kept
  <1>5. n \in Nat /\ n < MaxMessages /\ Wire(n) \in Seqs
    BY WireType, Ranges
  <1>6. e \in SendEntries /\ e.num = n
    BY <1>5 DEF SendEntries
  <1> HIDE DEF e
  <1>7. CASE Tracks
    <2> DEFINE new == Tracked(buf, n)
    <2>1. /\ DOMAIN new = DOMAIN kept \cup {Wire(n)}
          /\ \A s \in DOMAIN new : new[s] = IF s = Wire(n) THEN e ELSE kept[s]
      BY <1>3, <1>7 DEF With
    <2> HIDE DEF new
    <2>2. DOMAIN new \in SUBSET Seqs
      BY <1>2, <1>4, <1>5, <2>1
    <2>3. ASSUME NEW s \in DOMAIN new
          PROVE  new[s] \in SendEntries /\ s = Wire(new[s].num) /\ new[s].num < MaxMessages
      <3>1. CASE s = Wire(n)
        BY <1>5, <1>6, <2>1, <3>1
      <3>2. CASE s # Wire(n)
        <4>1. s \in DOMAIN kept /\ new[s] = buf[s] /\ s \in D
          BY <1>4, <2>1, <3>2
        <4> QED BY <4>1 DEF Sendable
      <3> QED BY <3>1, <3>2
    <2>4. Cardinality(DOMAIN new) <= SendBufferSize
      <3>1. IsFiniteSet(DOMAIN kept) /\ Cardinality(DOMAIN kept) \in Nat
        BY <1>2, <1>4, FS_Subset, FS_CardinalityType
      <3>2. Cardinality(DOMAIN new) = IF Wire(n) \in DOMAIN kept THEN Cardinality(DOMAIN kept)
                                      ELSE Cardinality(DOMAIN kept) + 1
        BY <2>1, <3>1, FS_AddElement
      <3> QED BY <1>1, <1>4, <3>1, <3>2
    <2> QED BY <2>2, <2>3, <2>4 DEF Sendable, new
  <1> QED BY <1>3, <1>7

\* So it does for every piece of a large message.
LEMMA BuffersFit ==
    ASSUME NEW m \in Nat, NEW f, Buffers(f, m), sent \in Nat, sent + m < MaxMessages,
           Sendable(sendBuffer)
    PROVE  Sendable(f[m])
  <1> DEFINE S == {j \in 0 .. m : ~Sendable(f[j])}
  <1>0. \A j \in 0 .. m : f[j] = IF j = 0 THEN sendBuffer ELSE Tracked(f[j - 1], sent + j)
    BY DEF Buffers
  <1>1. SUFFICES ASSUME S # {} PROVE FALSE
    BY DEF S
  <1>2. PICK j \in S : \A i \in S : j <= i
    <2>1. S \in SUBSET Nat
      OBVIOUS
    <2> HIDE DEF S
    <2> QED BY <1>1, <2>1, Least
  <1>3. j \in 0 .. m /\ ~Sendable(f[j])
    BY <1>2
  <1>4. j # 0
    <2>1. f[0] = sendBuffer
      BY <1>0
    <2> QED BY <1>3, <2>1
  <1>5. Sendable(f[j - 1])
    <2>1. j - 1 \in 0 .. m /\ ~(j <= j - 1)
      BY <1>3, <1>4
    <2> QED BY <1>2, <2>1
  <1>6. f[j] = Tracked(f[j - 1], sent + j) /\ sent + j \in 0 .. MaxMessages - 1
    <2>1. MaxMessages \in Nat
      BY Ranges
    <2> QED BY <1>0, <1>3, <1>4, <2>1
  <1> QED BY <1>3, <1>5, <1>6, TrackedFits


\* What is sent takes the next numbers.
LEMMA SendFits ==
    ASSUME BufferInv, Send
    PROVE  Sendable(sendBuffer') /\ NumbersInv'
  <1>1. /\ sent \in 0 .. MaxMessages /\ sent + 1 <= MaxMessages /\ sent' = sent + 1
        /\ UNCHANGED <<config, acked, arrived, large, gathered>> /\ marked' \in SUBSET marked
        /\ sendBuffer' = Tracked(sendBuffer, sent)
    BY DEF BufferInv, NumbersInv, Send, CanSend, fragVars
  <1>2. MaxMessages \in Nat /\ sent \in Nat /\ sent \in 0 .. MaxMessages - 1
    BY <1>1, Ranges
  <1>3. Sendable(sendBuffer')
    BY <1>1, <1>2, TrackedFits DEF BufferInv
  <1>4. ASSUME NEW s \in DOMAIN sendBuffer' PROVE sendBuffer'[s].num < sent'
    <2>1. \/ sendBuffer'[s] = [num |-> sent, age |-> 0, retries |-> 0]
          \/ s \in DOMAIN sendBuffer /\ sendBuffer'[s] = sendBuffer[s]
      BY <1>1, <1>2, TrackedEntries
    <2>2. CASE sendBuffer'[s] = [num |-> sent, age |-> 0, retries |-> 0]
      BY <1>1, <1>2, <2>2
    <2>3. CASE s \in DOMAIN sendBuffer /\ sendBuffer'[s] = sendBuffer[s]
      <3>1. sendBuffer[s].num < sent /\ sendBuffer[s].num \in Nat
        BY <2>3 DEF BufferInv, NumbersInv, Sendable, SendEntries
      <3> QED BY <1>1, <1>2, <2>3, <3>1
    <2> QED BY <2>1, <2>2, <2>3
  <1>5. /\ copies' = [n \in DOMAIN copies |->
                         IF n = sent THEN 1 ELSE IF Recent(n, 1) THEN copies[n] ELSE 0]
        /\ copies \in [0 .. (MaxMessages - 1) -> Nat]
        /\ \A n \in DOMAIN copies : copies[n] > 0 => n < sent
    BY DEF BufferInv, NumbersInv, Send
  <1>6. copies' \in [0 .. (MaxMessages - 1) -> Nat] /\ \A n \in DOMAIN copies' : copies'[n] > 0 => n < sent'
    <2>1. ASSUME NEW n \in DOMAIN copies', copies'[n] > 0 PROVE n < sent'
      BY <1>1, <1>2, <1>5, <2>1
    <2> QED BY <1>5, <2>1
  <1>7. 0 .. (sent - 1) \in SUBSET (0 .. (sent' - 1)) /\ sent' \in 0 .. MaxMessages
    BY <1>1, <1>2
  <1>8. /\ mode' \in Modes /\ blocks' \in Policies
        /\ large' \in SUBSET (0 .. (sent' - 1)) /\ marked' \in SUBSET (0 .. (sent' - 1))
        /\ marked' \cup gathered' \in SUBSET (UNION {PiecesOf(n) : n \in large'})
        /\ arrived' \in SUBSET (0 .. (sent' - 1)) /\ acked' \in SUBSET (0 .. (sent' - 1))
    <2>1. /\ mode \in Modes /\ blocks \in Policies
          /\ large \in SUBSET (0 .. (sent - 1)) /\ marked \in SUBSET (0 .. (sent - 1))
          /\ marked \cup gathered \in SUBSET (UNION {PiecesOf(n) : n \in large})
          /\ arrived \in SUBSET (0 .. (sent - 1)) /\ acked \in SUBSET (0 .. (sent - 1))
      BY DEF BufferInv, NumbersInv
    <2>2. large' = large /\ gathered' = gathered /\ arrived' = arrived /\ acked' = acked
          /\ mode' = mode /\ blocks' = blocks
      BY <1>1 DEF config
    <2>3. marked' \cup gathered' \in SUBSET (marked \cup gathered)
      BY <1>1, <2>2
    <2>4. marked' \cup gathered' \in SUBSET (UNION {PiecesOf(n) : n \in large'})
      BY <2>1, <2>2, <2>3, Zenon
    <2>5. marked' \in SUBSET (0 .. (sent' - 1))
      BY <1>1, <1>7, <2>1, Zenon
    <2> QED BY <1>7, <2>1, <2>2, <2>4, <2>5
  <1> QED BY <1>3, <1>4, <1>6, <1>7, <1>8 DEF NumbersInv

LEMMA SendLargeFits ==
    ASSUME BufferInv, SendLarge
    PROVE  Sendable(sendBuffer') /\ NumbersInv'
  <1> DEFINE K == Pieces + 1
             buffer[k \in 0 .. Pieces] ==
                 IF k = 0 THEN sendBuffer ELSE Tracked(buffer[k - 1], sent + k)
  <1>1. /\ sent \in 0 .. MaxMessages /\ sent + K <= MaxMessages /\ sent' = sent + K
        /\ Pieces \in Nat /\ Pieces > 0
        /\ UNCHANGED <<config, acked, arrived, gathered>> /\ large' = large \cup {sent}
    <2>1. /\ sent \in 0 .. MaxMessages /\ sent + (Pieces + 1) <= MaxMessages
          /\ sent' = sent + Pieces + 1 /\ Pieces > 0
          /\ UNCHANGED <<config, acked, arrived, gathered>> /\ large' = large \cup {sent}
      BY DEF BufferInv, NumbersInv, SendLarge, CanSend
    <2> QED BY <2>1, Ranges
  <1>2. sendBuffer' = buffer[Pieces]
    BY DEF SendLarge
  <1>3. Buffers(buffer, Pieces)
    BY <1>1, BuffersExist DEF Buffers
  <1> HIDE DEF buffer
  <1>4. MaxMessages \in Nat /\ sent \in Nat /\ sent + Pieces < MaxMessages /\ sent < sent'
        /\ sent' \in 0 .. MaxMessages /\ 0 .. (sent - 1) \in SUBSET (0 .. (sent' - 1))
    BY <1>1, Ranges
  <1>5. Sendable(sendBuffer')
    BY <1>1, <1>2, <1>3, <1>4, BuffersFit DEF BufferInv
  <1>6. ASSUME NEW s \in DOMAIN sendBuffer' PROVE sendBuffer'[s].num < sent'
    <2>1. \/ \E i \in 1 .. Pieces : sendBuffer'[s] = [num |-> sent + i, age |-> 0, retries |-> 0]
          \/ s \in DOMAIN sendBuffer /\ sendBuffer'[s] = sendBuffer[s]
      <3>1. Pieces \in 0 .. Pieces
        BY <1>1
      <3>2. s \in DOMAIN buffer[Pieces]
        BY <1>2
      <3>3. \/ \E i \in 1 .. Pieces :
                   buffer[Pieces][s] = [num |-> sent + i, age |-> 0, retries |-> 0]
            \/ s \in DOMAIN sendBuffer /\ buffer[Pieces][s] = sendBuffer[s]
        BY <1>1, <1>3, <1>4, <3>1, <3>2, BuffersEntries
      <3> QED BY <1>2, <3>3, Zenon
    <2>2. ASSUME NEW i \in 1 .. Pieces,
                 sendBuffer'[s] = [num |-> sent + i, age |-> 0, retries |-> 0]
          PROVE  sendBuffer'[s].num < sent'
      <3>1. sendBuffer'[s].num = sent + i
        BY <2>2
      <3> QED BY <1>1, <1>4, <3>1
    <2>3. CASE s \in DOMAIN sendBuffer /\ sendBuffer'[s] = sendBuffer[s]
      <3>1. sendBuffer[s].num < sent /\ sendBuffer[s].num \in Nat
        BY <2>3 DEF BufferInv, NumbersInv, Sendable, SendEntries
      <3> QED BY <1>4, <2>3, <3>1
    <2> QED BY <2>1, <2>2, <2>3
  <1>7. /\ copies' = [n \in DOMAIN copies |-> IF Recent(n, K) THEN copies[n] ELSE 0]
        /\ copies \in [0 .. (MaxMessages - 1) -> Nat]
        /\ \A n \in DOMAIN copies : copies[n] > 0 => n < sent
    BY DEF BufferInv, NumbersInv, SendLarge
  <1> HIDE DEF K
  <1>8. copies' \in [0 .. (MaxMessages - 1) -> Nat] /\ \A n \in DOMAIN copies' : copies'[n] > 0 => n < sent'
    <2>1. ASSUME NEW n \in DOMAIN copies', copies'[n] > 0 PROVE n < sent'
      BY <1>4, <1>7, <2>1
    <2> QED BY <1>7, <2>1
  <1>9. /\ mode \in Modes /\ blocks \in Policies
        /\ large \in SUBSET (0 .. (sent - 1)) /\ marked \in SUBSET (0 .. (sent - 1))
        /\ marked \cup gathered \in SUBSET (UNION {PiecesOf(n) : n \in large})
        /\ arrived \in SUBSET (0 .. (sent - 1)) /\ acked \in SUBSET (0 .. (sent - 1))
    BY DEF BufferInv, NumbersInv
  <1>10. PiecesOf(sent) \in SUBSET (0 .. (sent' - 1))
    BY <1>1, <1>4 DEF PiecesOf, K
  <1>11. marked' = {n \in marked : Recent(n, K)} \cup PiecesOf(sent)
    BY DEF SendLarge, K
  <1>12. large' \in SUBSET (0 .. (sent' - 1))
    <2>1. sent \in 0 .. (sent' - 1)
      <3>1. sent \in Nat /\ sent' \in Nat /\ sent < sent'
        BY <1>1, <1>4 DEF K
      <3>2. \A a, b \in Nat : a < b => a \in 0 .. (b - 1)
        OBVIOUS
      <3> QED BY <3>1, <3>2, Zenon
    <2> QED BY <1>1, <1>4, <1>9, <2>1, Zenon
  <1>13. marked' \in SUBSET (0 .. (sent' - 1))
    <2>1. marked' \in SUBSET (marked \cup PiecesOf(sent))
      BY <1>11
    <2> QED BY <1>4, <1>9, <1>10, <2>1, Zenon
  <1>14. marked' \cup gathered' \in SUBSET (UNION {PiecesOf(n) : n \in large'})
    <2>1. ASSUME NEW p \in marked' \cup gathered' PROVE \E n \in large' : p \in PiecesOf(n)
      <3>1. p \in marked \cup gathered \/ p \in PiecesOf(sent)
        BY <1>1, <1>11
      <3>2. CASE p \in marked \cup gathered
        <4>1. PICK n \in large : p \in PiecesOf(n)
          BY <1>9, <3>2, Zenon
        <4> QED BY <1>1, <4>1, Zenon
      <3>3. CASE p \in PiecesOf(sent)
        BY <1>1, <3>3, Zenon
      <3> QED BY <3>1, <3>2, <3>3
    <2> QED BY <2>1, Zenon
  <1>15. /\ mode' \in Modes /\ blocks' \in Policies
         /\ arrived' \in SUBSET (0 .. (sent' - 1)) /\ acked' \in SUBSET (0 .. (sent' - 1))
    BY <1>1, <1>4, <1>9, Zenon DEF config
  <1> QED BY <1>4, <1>5, <1>6, <1>8, <1>12, <1>13, <1>14, <1>15 DEF NumbersInv

\* A tick of the sender drops entries and counts their retries.
LEMMA SenderTickFits ==
    ASSUME BufferInv, NEW d \in Frames, SenderTick(d)
    PROVE  Sendable(sendBuffer') /\ NumbersInv'
  <1> DEFINE aged    == Aged(sendBuffer, d)
             overdue == {s \in DOMAIN aged : Overdue(aged[s])}
             dropped == {s \in overdue : OutOfRetries(aged[s])}
             resent  == overdue \ dropped
             new(s)  == [aged[s] EXCEPT !.age = 0, !.retries = @ + 1]
  <1>1. /\ sendBuffer' = [s \in DOMAIN aged \ dropped |-> IF s \in resent THEN new(s) ELSE aged[s]]
        /\ copies' = [n \in DOMAIN copies |->
                         IF \E s \in resent : aged[s].num = n THEN copies[n] + 1 ELSE copies[n]]
        /\ UNCHANGED <<config, sent, acked, marked, arrived, large, gathered>>
    BY DEF SenderTick, fragVars
  <1>2. /\ DOMAIN aged = DOMAIN sendBuffer
        /\ \A s \in DOMAIN sendBuffer : aged[s] \in SendEntries /\ aged[s].num = sendBuffer[s].num
    BY AgedSame DEF BufferInv, Sendable
  <1>3. \A s \in DOMAIN sendBuffer : new(s) \in SendEntries /\ new(s).num = sendBuffer[s].num
    BY <1>2, ResentSame
  <1>4. resent \in SUBSET DOMAIN sendBuffer /\ DOMAIN sendBuffer' \in SUBSET DOMAIN sendBuffer
    BY <1>1, <1>2
  <1> HIDE DEF new, dropped, resent, aged
  <1>5. ASSUME NEW s \in DOMAIN sendBuffer'
        PROVE  sendBuffer'[s] \in SendEntries /\ sendBuffer'[s].num = sendBuffer[s].num
    BY <1>1, <1>2, <1>3, <1>4
  <1>6. Sendable(sendBuffer')
    <2>1. Sendable(sendBuffer) /\ SendBufferSize \in Nat
      BY ChannelAssumption DEF BufferInv
    <2>2. IsFiniteSet(DOMAIN sendBuffer) /\ Cardinality(DOMAIN sendBuffer) \in Nat
      BY <2>1, SeqsFinite DEF Sendable
    <2>3. Cardinality(DOMAIN sendBuffer') <= Cardinality(DOMAIN sendBuffer)
          /\ Cardinality(DOMAIN sendBuffer') \in Nat
      BY <1>4, <2>2, FS_Subset, FS_CardinalityType
    <2>4. Cardinality(DOMAIN sendBuffer') <= SendBufferSize
      BY <2>1, <2>2, <2>3 DEF Sendable
    <2>5. DOMAIN sendBuffer' \in SUBSET Seqs
      BY <1>4, <2>1 DEF Sendable
    <2>6. ASSUME NEW s \in DOMAIN sendBuffer'
          PROVE  s = Wire(sendBuffer'[s].num) /\ sendBuffer'[s].num < MaxMessages
      BY <1>4, <1>5, <2>1 DEF Sendable
    <2> QED BY <1>5, <2>4, <2>5, <2>6 DEF Sendable
  <1>7. \A s \in DOMAIN sendBuffer' : sendBuffer'[s].num < sent'
    BY <1>1, <1>4, <1>5 DEF BufferInv, NumbersInv
  <1>8. copies' \in [0 .. (MaxMessages - 1) -> Nat] /\ \A n \in DOMAIN copies' : copies'[n] > 0 => n < sent'
    <2>1. copies \in [0 .. (MaxMessages - 1) -> Nat] /\ \A n \in DOMAIN copies : copies[n] > 0 => n < sent
      BY DEF BufferInv, NumbersInv
    <2>2. ASSUME NEW n \in DOMAIN copies, copies'[n] > 0 PROVE n < sent
      <3>1. CASE \E s \in resent : aged[s].num = n
        BY <1>2, <1>4, <3>1 DEF BufferInv, NumbersInv
      <3>2. CASE ~ \E s \in resent : aged[s].num = n
        BY <1>1, <2>1, <2>2, <3>2
      <3> QED BY <3>1, <3>2
    <2>3. copies' \in [0 .. (MaxMessages - 1) -> Nat]
      BY <1>1, <2>1
    <2>4. DOMAIN copies' = DOMAIN copies /\ sent' = sent
      BY <1>1
    <2> QED BY <2>2, <2>3, <2>4
  <1> QED BY <1>1, <1>7, <1>6, <1>8 DEF BufferInv, NumbersInv, config

-----------------------------------------------------------------------------
\* A run of held messages ends, wherever it starts, when some number is not held.
LEMMA RunExists ==
    ASSUME NEW buf, DOMAIN buf \in SUBSET Seqs, NEW x \in Seqs, x \notin DOMAIN buf, NEW e \in Seqs
    PROVE  LET k == RunLength(e, buf)
           IN  /\ k \in Nat
               /\ \A i \in 0 .. (k - 1) : Wire(e + i) \in DOMAIN buf
               /\ Wire(e + k) \notin DOMAIN buf
  <1> DEFINE D == DOMAIN buf
             S == {j \in Nat : Wire(e + j) \notin D}
             j0 == IF x >= e THEN x - e ELSE x - e + SeqSpace
  <1>1. e \in Nat /\ x \in Nat /\ e < SeqSpace /\ x < SeqSpace /\ SeqSpace \in Nat \ {0}
        /\ x \in 0 .. SeqSpace - 1
    BY Ranges DEF Seqs
  <1>2. j0 \in Nat /\ j0 < SeqSpace /\ Wire(e + j0) = x
    <2>1. CASE x >= e
      <3>1. j0 = x - e /\ e + j0 = SeqSpace * 0 + x
        BY <1>1, <2>1
      <3>2. Wire(e + j0) = x
        BY <1>1, <3>1, Turns DEF Wire
      <3> QED BY <1>1, <2>1, <3>1, <3>2
    <2>2. CASE x < e
      <3>1. j0 = x - e + SeqSpace /\ e + j0 = SeqSpace * 1 + x
        BY <1>1, <2>2
      <3>2. Wire(e + j0) = x
        BY <1>1, <3>1, Turns DEF Wire
      <3> QED BY <1>1, <2>2, <3>1, <3>2
    <2> QED BY <1>1, <2>1, <2>2
  <1> HIDE DEF j0
  <1>3. j0 \in S
    BY <1>2
  <1>4. PICK k \in S : \A j \in S : k <= j
    BY <1>3, Least
  <1>5. k \in Nat /\ k < SeqSpace /\ Wire(e + k) \notin D
    BY <1>1, <1>2, <1>3, <1>4
  <1>6. ASSUME NEW i \in 0 .. (k - 1) PROVE Wire(e + i) \in D
    <2>1. i \in Nat /\ ~(k <= i)
      BY <1>5
    <2> QED BY <1>4, <2>1
  <1> HIDE DEF S
  <1>7. k \in 0 .. Cardinality(D)
    <2> DEFINE f == [i \in 1 .. k |-> Wire(e + (i - 1))]
    <2>1. f \in [1 .. k -> D]
      <3>1. \A i \in 1 .. k : i - 1 \in 0 .. (k - 1)
        BY <1>5
      <3> QED BY <1>6, <3>1
    <2>2. ASSUME NEW i \in 1 .. k, NEW j \in 1 .. k, f[i] = f[j] PROVE i = j
      <3> DEFINE a == e + (i - 1)
                 b == e + (j - 1)
      <3>1. a \in Nat /\ b \in Nat /\ Wire(a) = Wire(b) /\ i \in Nat /\ j \in Nat
        BY <1>1, <1>5, <2>2
      <3>2. a < b + SeqSpace /\ b < a + SeqSpace
        BY <1>1, <1>5, <3>1
      <3>3. a = b
        <4> HIDE DEF a, b
        <4>1. a = b \/ a >= b + SeqSpace \/ b >= a + SeqSpace
          BY <1>1, <3>1, Congruent DEF Wire
        <4> QED BY <1>1, <3>1, <3>2, <4>1
      <3> QED BY <1>1, <3>1, <3>3
    <2>3. f \in Injection(1 .. k, D)
      BY <2>1, <2>2 DEF Injection, IsInjective
    <2>4. IsFiniteSet(D) /\ Cardinality(D) \in Nat
      BY SeqsFinite
    <2>5. Cardinality(1 .. k) <= Cardinality(D)
      BY <2>3, <2>4, FS_Injection
    <2>6. Cardinality(1 .. k) = k
      BY <1>5, FS_Interval
    <2> QED BY <1>5, <2>4, <2>5, <2>6
  <1> DEFINE r == RunLength(e, buf)
  <1>8. /\ r \in 0 .. Cardinality(D)
        /\ \A i \in 0 .. (r - 1) : Wire(e + i) \in D
        /\ Wire(e + r) \notin D
    BY <1>5, <1>6, <1>7 DEF RunLength, D
  <1> HIDE DEF r
  <1>9. r \in Nat
    BY <1>8
  <1> QED BY <1>8, <1>9 DEF r

\* What is left of the ordered buffer is as sound as the buffer was.
LEMMA LessHeld ==
    ASSUME NEW buf, Held(buf), NEW S
    PROVE  Held(Without(buf, S)) /\ DOMAIN Without(buf, S) \in SUBSET DOMAIN buf
  <1> DEFINE new == Without(buf, S)
  <1>1. DOMAIN new = DOMAIN buf \ S /\ \A s \in DOMAIN new : new[s] = buf[s]
    BY DEF Without
  <1> HIDE DEF new
  <1>2. DOMAIN new \in SUBSET DOMAIN buf /\ OrderedBufferSize \in Nat
    BY <1>1, ChannelAssumption
  <1>3. Cardinality(DOMAIN new) <= OrderedBufferSize
    <2>1. IsFiniteSet(DOMAIN buf) /\ Cardinality(DOMAIN buf) \in Nat
      BY SeqsFinite DEF Held
    <2>2. Cardinality(DOMAIN new) <= Cardinality(DOMAIN buf) /\ Cardinality(DOMAIN new) \in Nat
      BY <1>2, <2>1, FS_Subset, FS_CardinalityType
    <2> QED BY <1>2, <2>1, <2>2 DEF Held
  <1> QED BY <1>1, <1>2, <1>3 DEF Held, new

\* flushConsecutive stops at a number that is not held, and it is awaited next.
LEMMA FlushKeeps ==
    ASSUME NEW buf, Held(buf), NEW x \in Seqs, x \notin DOMAIN buf, NEW e \in Seqs,
           NEW queue \in Seq(Nat), FlushConsecutive(e, buf, queue)
    PROVE  /\ Held(orderedBuffer')
           /\ expectedSeq' \in Seqs /\ expectedSeq' \notin DOMAIN orderedBuffer'
           /\ delivered' \in Seq(Nat)
  <1> DEFINE k == RunLength(e, buf)
             run == [i \in 1 .. k |-> buf[Wire(e + i - 1)].num]
             gone == {Wire(e + i) : i \in 0 .. (k - 1)}
  <1>1. /\ k \in Nat
        /\ \A i \in 0 .. (k - 1) : Wire(e + i) \in DOMAIN buf
        /\ Wire(e + k) \notin DOMAIN buf
    BY RunExists DEF Held
  <1>2. expectedSeq' = Wire(e + k) /\ delivered' = queue \o run /\ orderedBuffer' = Without(buf, gone)
    BY DEF FlushConsecutive
  <1> HIDE DEF k
  <1>3. e \in Nat /\ e + k \in Nat /\ Wire(e + k) \in Seqs
    BY <1>1, WireType, Ranges DEF Seqs
  <1>4. run \in [1 .. k -> Nat]
    <2>1. ASSUME NEW i \in 1 .. k PROVE buf[Wire(e + i - 1)].num \in Nat
      <3>1. i - 1 \in 0 .. (k - 1) /\ e + (i - 1) = e + i - 1
        BY <1>1, <1>3
      <3>2. Wire(e + i - 1) \in DOMAIN buf
        BY <1>1, <3>1
      <3> QED BY <3>2 DEF Held, OooEntries
    <2> QED BY <2>1
  <1> HIDE DEF run, gone
  <1>5. run \in Seq(Nat)
    BY <1>1, <1>4, OfLength
  <1>6. delivered' \in Seq(Nat)
    BY <1>2, <1>5
  <1>7. Held(orderedBuffer') /\ DOMAIN orderedBuffer' \in SUBSET DOMAIN buf
    BY <1>2, LessHeld
  <1> QED BY <1>1, <1>2, <1>3, <1>6, <1>7

\* What arrives is delivered, held back if there is room, or dropped.
LEMMA ReceptionFits ==
    ASSUME HeldInv, NEW n \in Nat, OnMessageReceived(n) \/ IgnoreMessage
    PROVE  HeldInv'
  <1>1. Wire(n) \in Seqs
    BY WireType
  <1>2. /\ Held(orderedBuffer) /\ expectedSeq \notin DOMAIN orderedBuffer
        /\ recvSeq \in Seqs /\ expectedSeq \in Seqs /\ recvSeen \in SUBSET Seqs
        /\ delivered \in Seq(Nat) /\ gaveUp \in BOOLEAN /\ Append(delivered, n) \in Seq(Nat)
    BY DEF HeldInv
  <1>3. CASE UNCHANGED recvVars
    BY <1>2, <1>3 DEF HeldInv, recvVars, Held
  <1>4. CASE ReceiveUnreliable(n)
    BY <1>2, <1>4 DEF ReceiveUnreliable, HeldInv, Held
  <1>5. CASE ReceiveSequenced(n)
    BY <1>1, <1>2, <1>3, <1>5 DEF ReceiveSequenced, IgnoreMessage, HeldInv, Held
  <1>6. CASE ReceiveUnordered(n)
    BY <1>1, <1>2, <1>3, <1>6 DEF ReceiveUnordered, IgnoreMessage, HeldInv, Held
  <1>7. CASE ReceiveOrdered(n)
    <2> DEFINE s == Wire(n)
               e == [num |-> n, age |-> 0]
               new == With(orderedBuffer, s, e)
    <2>1. CASE /\ Expected(s) /\ FlushConsecutive(NextSeq(s), orderedBuffer, Append(delivered, n))
               /\ UNCHANGED <<recvSeq, recvSeen, gaveUp>>
      <3>1. NextSeq(s) \in Seqs
        <4>1. s + 1 \in Nat
          BY <1>1, Ranges DEF Seqs
        <4> QED BY <4>1, WireType DEF NextSeq, Wire
      <3> HIDE DEF s
      <3>2. /\ Held(orderedBuffer') /\ expectedSeq' \in Seqs /\ expectedSeq' \notin DOMAIN orderedBuffer'
            /\ delivered' \in Seq(Nat)
        BY <1>2, <2>1, <3>1, FlushKeeps
      <3> QED BY <1>2, <2>1, <3>2 DEF HeldInv
    <2>2. CASE /\ s # expectedSeq /\ s \notin DOMAIN orderedBuffer
               /\ Cardinality(DOMAIN orderedBuffer) < OrderedBufferSize
               /\ orderedBuffer' = new
               /\ UNCHANGED <<recvSeq, expectedSeq, recvSeen, delivered, gaveUp>>
      <3>1. e \in OooEntries /\ e.num = n
        BY DEF OooEntries
      <3> HIDE DEF e
      <3>2. DOMAIN new = DOMAIN orderedBuffer \cup {s}
            /\ \A t \in DOMAIN new : new[t] = IF t = s THEN e ELSE orderedBuffer[t]
        BY DEF With
      <3> HIDE DEF new
      <3>3. \A t \in DOMAIN new : new[t] \in OooEntries /\ t = Wire(new[t].num)
        BY <1>2, <3>1, <3>2 DEF Held
      <3>4. Cardinality(DOMAIN new) <= OrderedBufferSize
        <4>1. IsFiniteSet(DOMAIN orderedBuffer) /\ Cardinality(DOMAIN orderedBuffer) \in Nat
              /\ OrderedBufferSize \in Nat
          BY <1>2, SeqsFinite, ChannelAssumption DEF Held
        <4>2. Cardinality(DOMAIN new) = Cardinality(DOMAIN orderedBuffer) + 1
          BY <2>2, <3>2, <4>1, FS_AddElement
        <4> QED BY <2>2, <4>1, <4>2
      <3>5. DOMAIN new \in SUBSET Seqs
        BY <1>1, <1>2, <3>2 DEF Held
      <3>6. Held(new)
        BY <3>3, <3>4, <3>5 DEF Held
      <3>7. expectedSeq \notin DOMAIN new
        BY <1>2, <2>2, <3>2
      <3> QED BY <1>2, <2>2, <3>6, <3>7 DEF HeldInv, Held
    <2> QED BY <1>3, <1>7, <2>1, <2>2 DEF ReceiveOrdered, Expected, IgnoreMessage
  <1> QED BY <1>3, <1>4, <1>5, <1>6, <1>7 DEF OnMessageReceived, IgnoreMessage

\* So does the receiver's clock leave the ordered buffer.
LEMMA ReceiverTickFits ==
    ASSUME HeldInv, NEW d \in Frames, ReceiverTick(d)
    PROVE  HeldInv'
  <1> DEFINE aged  == Aged(orderedBuffer, d)
             late  == {s \in DOMAIN aged : Late(aged[s])}
             order == Ascending(late)
             highest == order[Len(order)]
             after == IF SeqGt(NextSeq(highest), expectedSeq) THEN NextSeq(highest) ELSE expectedSeq
             kept  == Without(aged, late)
             queue == delivered \o [i \in DOMAIN order |-> aged[order[i]].num]
  <1>1. /\ Held(orderedBuffer) /\ expectedSeq \notin DOMAIN orderedBuffer
        /\ recvSeq \in Seqs /\ expectedSeq \in Seqs /\ recvSeen \in SUBSET Seqs
        /\ delivered \in Seq(Nat) /\ gaveUp \in BOOLEAN
    BY DEF HeldInv
  <1>2. recvSeq' = recvSeq /\ recvSeen' \in SUBSET Seqs
    BY <1>1 DEF ReceiverTick, CleanedDedupSet
  <1>3. /\ DOMAIN aged = DOMAIN orderedBuffer
        /\ \A s \in DOMAIN orderedBuffer : aged[s] \in OooEntries /\ aged[s].num = orderedBuffer[s].num
    BY <1>1, AgedSame DEF Held
  <1>4. IF late = {}
        THEN orderedBuffer' = aged /\ UNCHANGED <<expectedSeq, delivered, gaveUp>>
        ELSE FlushConsecutive(after, kept, queue) /\ gaveUp' = TRUE
    BY DEF ReceiverTick, FlushTimedOut
  <1>5. late \in SUBSET DOMAIN orderedBuffer
    BY <1>3
  <1> HIDE DEF aged
  <1>6. Held(aged) /\ expectedSeq \notin DOMAIN aged
    BY <1>1, <1>3 DEF Held
  <1> HIDE DEF late
  <1>7. CASE late = {}
    BY <1>1, <1>2, <1>4, <1>6, <1>7 DEF HeldInv, Held
  <1>8. CASE late # {}
    <2> DEFINE N == Cardinality(late)
    <2>1. late \in SUBSET Seqs /\ late \in SUBSET Int /\ IsFiniteSet(late)
      <3>1. late \in SUBSET Seqs
        BY <1>1, <1>5 DEF Held
      <3>2. Seqs \in SUBSET Int
        BY DEF Seqs
      <3>3. late \in SUBSET Int
        BY <3>1, <3>2, Zenon
      <3> QED BY <3>1, <3>3, SeqsFinite
    <2>2. N \in Nat /\ order \in [1 .. N -> late]
      BY <2>1, AscendingIs
    <2>3. N # 0
      BY <1>8, <2>1, FS_EmptySet
    <2> HIDE DEF order, N
    <2>4. Len(order) = N /\ DOMAIN order = 1 .. N
      BY <2>2, OfLength
    <2>5. highest \in Seqs
      <3>1. N \in 1 .. N
        BY <2>2, <2>3
      <3> QED BY <2>1, <2>2, <2>4, <3>1
    <2> HIDE DEF highest
    <2>6. after \in Seqs
      <3>1. highest + 1 \in Nat
        BY <2>5, Ranges DEF Seqs
      <3>2. NextSeq(highest) \in Seqs
        BY <3>1, WireType DEF NextSeq, Wire
      <3> QED BY <1>1, <3>2
    <2> HIDE DEF after
    <2>7. queue \in Seq(Nat)
      <3> DEFINE q == [i \in 1 .. N |-> aged[order[i]].num]
      <3>1. ASSUME NEW i \in 1 .. N PROVE aged[order[i]].num \in Nat
        <4>1. order[i] \in late
          BY <2>2
        <4>2. order[i] \in DOMAIN orderedBuffer
          BY <1>5, <4>1
        <4> QED BY <1>3, <4>2 DEF OooEntries
      <3>2. q \in [1 .. N -> Nat]
        BY <3>1
      <3> HIDE DEF q
      <3>3. q \in Seq(Nat)
        BY <2>2, <3>2, OfLength
      <3>4. queue = delivered \o q
        BY <2>4 DEF q
      <3> HIDE DEF queue
      <3> QED BY <1>1, <3>3, <3>4
    <2> HIDE DEF queue
    <2>8. Held(kept) /\ expectedSeq \notin DOMAIN kept
      BY <1>6, LessHeld
    <2> HIDE DEF kept
    <2>9. FlushConsecutive(after, kept, queue) /\ gaveUp' = TRUE
      BY <1>4, <1>8
    <2>10. /\ Held(orderedBuffer') /\ expectedSeq' \in Seqs /\ expectedSeq' \notin DOMAIN orderedBuffer'
           /\ delivered' \in Seq(Nat)
      BY <1>1, <2>6, <2>7, <2>8, <2>9, FlushKeeps
    <2> QED BY <1>1, <1>2, <2>9, <2>10 DEF HeldInv
  <1> QED BY <1>7, <1>8

-----------------------------------------------------------------------------
LEMMA BufferInit == Init => BufferInv
  <1> SUFFICES ASSUME Init PROVE BufferInv
    OBVIOUS
  <1>1. Start \in Nat /\ MaxMessages \in Nat /\ Start <= MaxMessages /\ SendBufferSize \in Nat
        /\ OrderedBufferSize \in Nat
    BY Ranges, ChannelAssumption
  <1>2. /\ mode \in Modes /\ blocks \in Policies /\ sent = Start /\ sendBuffer = Empty /\ acked = {}
        /\ orderedBuffer = Empty /\ copies = [n \in 0 .. (MaxMessages - 1) |-> 0]
        /\ marked = {} /\ arrived = {} /\ large = {} /\ gathered = {} /\ gaveUp = FALSE
        /\ delivered = [i \in 1 .. Start |-> i - 1]
    BY DEF Init
  <1>3. DOMAIN Empty = {} /\ Cardinality({}) = 0
    BY FS_EmptySet DEF Empty
  <1>4. Sendable(sendBuffer) /\ Held(orderedBuffer) /\ expectedSeq \notin DOMAIN orderedBuffer
    BY <1>1, <1>2, <1>3 DEF Sendable, Held
  <1>5. NumbersInv
    BY <1>1, <1>2, <1>3 DEF NumbersInv
  <1>6. 0 \in Seqs
    BY Ranges DEF Seqs
  <1>7. recvSeq \in Seqs
    <2>1. CASE isSequenced /\ Start > 0
      <3>1. Start - 1 \in Nat
        BY <1>1, <2>1
      <3> QED BY <2>1, <3>1, WireType DEF Init
    <2>2. CASE ~(isSequenced /\ Start > 0)
      BY <1>6, <2>2 DEF Init, initialSeq
    <2> QED BY <2>1, <2>2
  <1>8. expectedSeq \in Seqs
    BY <1>1, <1>6, WireType DEF Init, initialSeq
  <1>9. recvSeen \in SUBSET Seqs
    <2>1. \A n \in 0 .. (Start - 1) : Wire(n) \in Seqs
      BY <1>1, WireType
    <2>2. recvSeen \in SUBSET {Wire(n) : n \in 0 .. (Start - 1)}
      BY DEF Init
    <2> QED BY <2>1, <2>2
  <1>10. delivered \in Seq(Nat)
    <2>1. [i \in 1 .. Start |-> i - 1] \in [1 .. Start -> Nat]
      BY <1>1
    <2> QED BY <1>1, <1>2, <2>1, OfLength
  <1> QED BY <1>2, <1>4, <1>5, <1>7, <1>8, <1>9, <1>10 DEF BufferInv, HeldInv

LEMMA AcknowledgeFits ==
    ASSUME BufferInv, NEW n \in arrived, Acknowledge(n)
    PROVE  BufferInv'
  <1>1. /\ arrived' \in SUBSET arrived /\ sendBuffer' = Without(sendBuffer, {Wire(n)})
        /\ acked' = acked \cup {n} /\ UNCHANGED <<config, sent, copies, marked, recvVars, fragVars>>
    BY DEF Acknowledge
  <1>2. /\ DOMAIN sendBuffer' \in SUBSET DOMAIN sendBuffer
        /\ \A s \in DOMAIN sendBuffer' : sendBuffer'[s] = sendBuffer[s]
    BY <1>1 DEF Without
  <1>3. Sendable(sendBuffer')
    <2>1. IsFiniteSet(DOMAIN sendBuffer) /\ Cardinality(DOMAIN sendBuffer) \in Nat /\ SendBufferSize \in Nat
      BY SeqsFinite, ChannelAssumption DEF BufferInv, Sendable
    <2>2. Cardinality(DOMAIN sendBuffer') <= Cardinality(DOMAIN sendBuffer)
          /\ Cardinality(DOMAIN sendBuffer') \in Nat
      BY <1>2, <2>1, FS_Subset, FS_CardinalityType
    <2>3. Cardinality(DOMAIN sendBuffer') <= SendBufferSize
      BY <2>1, <2>2 DEF BufferInv, Sendable
    <2> QED BY <1>2, <2>3 DEF BufferInv, Sendable
  <1>4. NumbersInv'
    <2>1. n \in 0 .. (sent - 1) /\ acked' \in SUBSET (0 .. (sent - 1)) /\ arrived' \in SUBSET (0 .. (sent - 1))
      BY <1>1 DEF BufferInv, NumbersInv
    <2> QED BY <1>1, <1>2, <2>1 DEF BufferInv, NumbersInv, config, fragVars
  <1>5. HeldInv'
    BY <1>1 DEF BufferInv, HeldInv, recvVars, Held
  <1> QED BY <1>3, <1>4, <1>5 DEF BufferInv

LEMMA ReceiveFits ==
    ASSUME BufferInv, NEW n \in DOMAIN copies, Receive(n)
    PROVE  BufferInv'
  <1>1. /\ copies[n] > 0 /\ copies' = [copies EXCEPT ![n] = @ - 1]
        /\ arrived' \in {arrived, arrived \cup {n}} /\ OnMessageReceived(n)
        /\ UNCHANGED <<config, sendVars, marked, fragVars>>
    BY DEF Receive, WillBeAcknowledged
  <1>2. /\ copies \in [0 .. (MaxMessages - 1) -> Nat] /\ sent \in 0 .. MaxMessages
        /\ \A m \in DOMAIN copies : copies[m] > 0 => m < sent
        /\ arrived \in SUBSET (0 .. (sent - 1)) /\ MaxMessages \in Nat
    BY Ranges DEF BufferInv, NumbersInv
  <1>3. n \in Nat /\ n \in 0 .. (sent - 1) /\ copies[n] \in Nat
    BY <1>1, <1>2
  <1>4. HeldInv'
    BY <1>1, <1>3, ReceptionFits DEF BufferInv
  <1>5. copies' \in [0 .. (MaxMessages - 1) -> Nat] /\ \A m \in DOMAIN copies' : copies'[m] > 0 => m < sent
    <2>1. \A m \in DOMAIN copies : copies'[m] = IF m = n THEN copies[n] - 1 ELSE copies[m]
      BY <1>1, <1>2
    <2>2. copies[n] - 1 \in Nat
      BY <1>1, <1>3
    <2>3. DOMAIN copies' = DOMAIN copies
      BY <1>1
    <2>4. \A m \in DOMAIN copies : copies'[m] \in Nat
      BY <1>2, <2>1, <2>2
    <2>5. copies' \in [0 .. (MaxMessages - 1) -> Nat]
      BY <1>1, <1>2, <2>2
    <2> QED BY <1>1, <1>2, <2>1, <2>3, <2>5
  <1>6. arrived' \in SUBSET (0 .. (sent - 1))
    BY <1>1, <1>2, <1>3
  <1>7. NumbersInv'
    BY <1>1, <1>5, <1>6 DEF BufferInv, NumbersInv, config, sendVars, fragVars
  <1>8. Sendable(sendBuffer')
    BY <1>1 DEF BufferInv, sendVars
  <1> QED BY <1>4, <1>7, <1>8 DEF BufferInv

LEMMA ReceivePieceFits ==
    ASSUME BufferInv, NEW n \in large, NEW piece \in marked, ReceivePiece(n, piece)
    PROVE  BufferInv'
  <1>1. /\ marked' = marked \ {piece} /\ gathered' = gathered \cup {piece}
        /\ arrived' \in {arrived, arrived \cup {piece}} /\ (OnMessageReceived(n) \/ IgnoreMessage)
        /\ UNCHANGED <<config, sendVars, copies, large>>
    BY DEF ReceivePiece, WillBeAcknowledged
  <1>2. n \in Nat /\ piece \in 0 .. (sent - 1)
    BY DEF BufferInv, NumbersInv
  <1>3. HeldInv'
    BY <1>1, <1>2, ReceptionFits DEF BufferInv
  <1>4. /\ marked \cup gathered \in SUBSET (UNION {PiecesOf(m) : m \in large})
        /\ arrived \in SUBSET (0 .. (sent - 1)) /\ marked \in SUBSET (0 .. (sent - 1))
    BY DEF BufferInv, NumbersInv
  <1>5. marked' \cup gathered' \in SUBSET (marked \cup gathered) /\ marked' \in SUBSET marked
    BY <1>1
  <1>6. marked' \cup gathered' \in SUBSET (UNION {PiecesOf(m) : m \in large'})
        /\ marked' \in SUBSET (0 .. (sent - 1))
    <2>1. large' = large
      BY <1>1
    <2> QED BY <1>4, <1>5, <2>1, Zenon
  <1>7. arrived' \in SUBSET (0 .. (sent - 1))
    BY <1>1, <1>2, <1>4
  <1>8. NumbersInv'
    BY <1>1, <1>6, <1>7 DEF BufferInv, NumbersInv, config, sendVars
  <1>9. Sendable(sendBuffer')
    BY <1>1 DEF BufferInv, sendVars
  <1> QED BY <1>3, <1>8, <1>9 DEF BufferInv

LEMMA BufferStep == BufferInv /\ [Next]_vars => BufferInv'
  <1> SUFFICES ASSUME BufferInv, [Next]_vars PROVE BufferInv'
    OBVIOUS
  <1>1. ASSUME UNCHANGED recvVars PROVE HeldInv'
    BY <1>1 DEF BufferInv, HeldInv, recvVars, Held
  <1>2. Sendable(sendBuffer') <=> Sendable(sendBuffer)'
    BY DEF Sendable
  <1>3. CASE Send
    BY <1>1, <1>2, <1>3, SendFits DEF BufferInv, Send
  <1>4. CASE SendLarge
    BY <1>1, <1>2, <1>4, SendLargeFits DEF BufferInv, SendLarge
  <1>5. ASSUME NEW n \in large, NEW piece \in marked, ReceivePiece(n, piece) PROVE BufferInv'
    BY <1>5, ReceivePieceFits
  <1>6. ASSUME NEW n \in arrived, Acknowledge(n) PROVE BufferInv'
    BY <1>6, AcknowledgeFits
  <1>7. ASSUME NEW n \in DOMAIN copies, Receive(n) PROVE BufferInv'
    BY <1>7, ReceiveFits
  <1>8. ASSUME NEW d \in Frames, SenderTick(d) PROVE BufferInv'
    BY <1>1, <1>2, <1>8, SenderTickFits DEF BufferInv, SenderTick
  <1>9. ASSUME NEW d \in Frames, ReceiverTick(d) PROVE BufferInv'
    <2>1. HeldInv'
      BY <1>9, ReceiverTickFits DEF BufferInv
    <2>2. UNCHANGED <<config, sendVars, linkVars, fragVars>>
      BY <1>9 DEF ReceiverTick
    <2>3. NumbersInv'
      BY <2>2 DEF BufferInv, NumbersInv, config, sendVars, linkVars, fragVars
    <2>4. Sendable(sendBuffer')
      BY <2>2 DEF BufferInv, sendVars
    <2> QED BY <1>2, <2>1, <2>3, <2>4 DEF BufferInv
  <1>10. CASE UNCHANGED vars
    BY <1>1, <1>10 DEF vars, config, sendVars, linkVars, fragVars, BufferInv, NumbersInv, Sendable
  <1> QED BY <1>3, <1>4, <1>5, <1>6, <1>7, <1>8, <1>9, <1>10 DEF Next

\* Neither buffer outgrows the size it was configured with, and the entry under a number
\* is the message of that number, whatever is evicted, acknowledged, sent again, held
\* back or released, and however many messages are under way (evictOldestEntry,
\* acknowledgeMessage, getRetransmitMessages, receiveReliableOrdered,
\* flushTimedOutOrdered): nothing is asked of the constants here.
THEOREM BuffersSound == Spec => []BuffersConsistent
  <1>1. BufferInv => BuffersConsistent
    BY DEF BufferInv, NumbersInv, HeldInv, Sendable, Held, BuffersConsistent, TypeOK
  <1> QED BY <1>1, BufferInit, BufferStep, PTL DEF Spec

-----------------------------------------------------------------------------
(* An ordered channel that gives up. *)

\* The receiver tells by the number alone what it has had, or gives it up for lost: the
\* numbers must not come round.
NumbersLast ==
    Modes \cap {"ReliableUnordered", "ReliableOrdered"} # {} => MaxMessages <= Half

\* What an ordered channel delivered is behind the message it awaits, was delivered
\* once, and is no longer held back; also when it stopped waiting for some messages
\* and released what it held, newer ones before older ones.
DealtInv ==
    mode = "ReliableOrdered" =>
        /\ expectedSeq <= sent
        /\ \A i \in DOMAIN delivered : delivered[i] < expectedSeq
        /\ \A i, j \in DOMAIN delivered : i # j => delivered[i] # delivered[j]
        /\ \A s \in DOMAIN orderedBuffer :
               s < sent /\ orderedBuffer[s].num = s /\ \A i \in DOMAIN delivered : delivered[i] # s

\* One sequence continues another.
Longer(d, e) == Len(d) < Len(e) /\ \A i \in 1 .. Len(d) : e[i] = d[i]

\* A number that has not come round is the same on the wire.
LEMMA WireSame ==
    ASSUME NEW n \in 0 .. Half
    PROVE  Wire(n) = n /\ n \in Seqs /\ Half < SeqSpace
  <1>1. n \in 0 .. SeqSpace - 1 /\ Half < SeqSpace
    BY Ranges
  <1>2. (SeqSpace * 0 + n) % SeqSpace = n
    BY <1>1, Turns
  <1>3. SeqSpace * 0 + n = n
    BY <1>1, Ranges
  <1> QED BY <1>1, <1>2, <1>3 DEF Wire, Seqs

\* What flushConsecutive releases, where the numbers do not come round.
LEMMA FlushDeals ==
    ASSUME NEW last \in 0 .. Half, NEW buf, NEW e \in 0 .. last, NEW queue \in Seq(Nat),
           \A s \in DOMAIN buf : s \in 0 .. last - 1 /\ buf[s].num = s,
           \A i \in DOMAIN queue : queue[i] < e,
           \A i, j \in DOMAIN queue : i # j => queue[i] # queue[j],
           \A s \in DOMAIN buf : \A i \in DOMAIN queue : queue[i] # s,
           FlushConsecutive(e, buf, queue)
    PROVE  /\ expectedSeq' \in 0 .. last
           /\ delivered' \in Seq(Nat) /\ (delivered' = queue \/ Longer(queue, delivered'))
           /\ \A i \in DOMAIN delivered' : delivered'[i] < expectedSeq'
           /\ \A i, j \in DOMAIN delivered' : i # j => delivered'[i] # delivered'[j]
           /\ \A s \in DOMAIN orderedBuffer' :
                  /\ s \in DOMAIN buf /\ orderedBuffer'[s] = buf[s]
                  /\ \A i \in DOMAIN delivered' : delivered'[i] # s
  <1> DEFINE k == RunLength(e, buf)
             run == [i \in 1 .. k |-> buf[Wire(e + i - 1)].num]
             l == Len(queue)
             all == queue \o run
  <1>1. last \in Nat /\ last <= Half /\ Half \in Nat /\ Wire(last) = last /\ last \in Seqs
        /\ e \in Nat /\ e <= last
    BY WireSame, Ranges
  <1>2. last \notin DOMAIN buf /\ DOMAIN buf \in SUBSET Seqs /\ e \in Seqs
    <2>1. \A s \in 0 .. last : s \in 0 .. Half
      BY <1>1
    <2>2. 0 .. last \in SUBSET Seqs
      BY <2>1, WireSame
    <2>3. \A s \in DOMAIN buf : s \in 0 .. last
      BY <1>1
    <2> QED BY <1>1, <2>2, <2>3
  <1>3. k \in Nat /\ \A i \in 0 .. (k - 1) : Wire(e + i) \in DOMAIN buf
    BY <1>1, <1>2, RunExists
  <1> HIDE DEF k
  <1>4. e + k <= last
    <2> SUFFICES ASSUME e + k > last PROVE FALSE
      BY <1>1, <1>3
    <2>1. last - e \in 0 .. (k - 1) /\ e + (last - e) = last
      BY <1>1, <1>3
    <2>2. Wire(e + (last - e)) \in DOMAIN buf
      BY <1>3, <2>1
    <2> QED BY <1>1, <1>2, <2>1, <2>2
  <1>5. \A i \in 0 .. k : Wire(e + i) = e + i
    <2> SUFFICES ASSUME NEW i \in 0 .. k PROVE Wire(e + i) = e + i
      OBVIOUS
    <2>1. e + i \in 0 .. Half
      BY <1>1, <1>3, <1>4
    <2> QED BY <2>1, WireSame
  <1>6. \A i \in 1 .. k : buf[Wire(e + i - 1)].num = e + i - 1
    <2> SUFFICES ASSUME NEW i \in 1 .. k PROVE buf[Wire(e + i - 1)].num = e + i - 1
      OBVIOUS
    <2>1. i - 1 \in 0 .. (k - 1) /\ i - 1 \in 0 .. k /\ e + i - 1 = e + (i - 1)
      BY <1>1, <1>3
    <2>2. Wire(e + (i - 1)) = e + (i - 1) /\ Wire(e + (i - 1)) \in DOMAIN buf
      BY <1>3, <1>5, <2>1
    <2> QED BY <2>1, <2>2
  <1>7. /\ expectedSeq' = e + k /\ delivered' = all
        /\ orderedBuffer' = Without(buf, {Wire(e + i) : i \in 0 .. (k - 1)})
    <2>1. expectedSeq' = Wire(e + k) /\ delivered' = all
          /\ orderedBuffer' = Without(buf, {Wire(e + i) : i \in 0 .. (k - 1)})
      BY DEF FlushConsecutive, k
    <2>2. k \in 0 .. k
      BY <1>3
    <2> QED BY <1>5, <2>1, <2>2
  <1>8. run \in Seq(Nat) /\ Len(run) = k /\ \A i \in 1 .. k : run[i] = e + i - 1
    <2>1. \A i \in 1 .. k : run[i] = e + i - 1 /\ run[i] \in Nat
      <3>1. \A i \in 1 .. k : run[i] = e + i - 1
        BY <1>6
      <3>2. \A i \in 1 .. k : e + i - 1 \in Nat
        BY <1>1, <1>3
      <3> QED BY <3>1, <3>2, Zenon
    <2>2. run \in [1 .. k -> Nat]
      BY <2>1
    <2> HIDE DEF run
    <2> QED BY <1>3, <2>1, <2>2, OfLength
  <1> HIDE DEF run
  <1>9. /\ all \in Seq(Nat) /\ l \in Nat /\ Len(all) = l + k /\ DOMAIN all = 1 .. l + k
        /\ \A i \in 1 .. l : all[i] = queue[i] /\ i \in DOMAIN queue
        /\ \A i \in l + 1 .. l + k : all[i] = e + (i - l) - 1
    <2>1. /\ all \in Seq(Nat) /\ l \in Nat /\ Len(all) = l + k
          /\ \A i \in 1 .. l : all[i] = queue[i]
          /\ \A i \in 1 .. k : all[l + i] = run[i]
      <3>1. /\ queue \o run \in Seq(Nat) /\ Len(queue \o run) = Len(queue) + Len(run)
            /\ \A i \in 1 .. Len(queue) : (queue \o run)[i] = queue[i]
            /\ \A i \in 1 .. Len(run) : (queue \o run)[Len(queue) + i] = run[i]
        <4>1. run \in Seq(Nat) /\ queue \in Seq(Nat)
          BY <1>8
        <4>2. queue \o run \in Seq(Nat) /\ Len(queue \o run) = Len(queue) + Len(run)
          BY <4>1, JoinedIs
        <4>3. \A i \in 1 .. Len(queue) : (queue \o run)[i] = queue[i]
          BY <4>1, JoinedIs
        <4>4. \A i \in 1 .. Len(run) : (queue \o run)[Len(queue) + i] = run[i]
          BY <4>1, JoinedIs
        <4> QED BY <4>2, <4>3, <4>4
      <3>2. Len(queue) \in Nat
        OBVIOUS
      <3> QED BY <1>8, <3>1, <3>2
    <2>2. \A i \in l + 1 .. l + k : i - l \in 1 .. k /\ l + (i - l) = i
      BY <1>3, <2>1
    <2>3. \A i \in l + 1 .. l + k : all[i] = e + (i - l) - 1
      BY <1>8, <2>1, <2>2
    <2> HIDE DEF all
    <2> QED BY <2>1, <2>3
  <1> HIDE DEF all
  <1>10. \A i \in DOMAIN all : \/ i \in 1 .. l
                               \/ i \in l + 1 .. l + k
    BY <1>3, <1>9
  <1>11. \A i \in 1 .. l : all[i] < e /\ all[i] \in Nat
    <2>1. \A i \in DOMAIN queue : queue[i] \in Nat
      OBVIOUS
    <2> HIDE DEF l
    <2> QED BY <1>9, <2>1
  <1>12. \A i \in l + 1 .. l + k : all[i] >= e /\ all[i] < e + k /\ all[i] \in Nat
    BY <1>1, <1>3, <1>9
  <1>13. \A i \in DOMAIN all : all[i] < e + k
    BY <1>1, <1>3, <1>10, <1>11, <1>12
  <1>14. ASSUME NEW i \in DOMAIN all, NEW j \in DOMAIN all, i # j PROVE all[i] # all[j]
    <2>1. CASE i \in 1 .. l /\ j \in 1 .. l
      BY <1>9, <1>14, <2>1
    <2>2. CASE i \in 1 .. l /\ j \in l + 1 .. l + k
      BY <1>1, <1>11, <1>12, <2>2
    <2>3. CASE j \in 1 .. l /\ i \in l + 1 .. l + k
      BY <1>1, <1>11, <1>12, <2>3
    <2>4. CASE i \in l + 1 .. l + k /\ j \in l + 1 .. l + k
      BY <1>1, <1>3, <1>9, <1>14, <2>4
    <2> QED BY <1>10, <2>1, <2>2, <2>3, <2>4
  <1>15. ASSUME NEW s \in DOMAIN orderedBuffer'
         PROVE  /\ s \in DOMAIN buf /\ orderedBuffer'[s] = buf[s]
                /\ \A i \in DOMAIN all : all[i] # s
    <2>1. s \in DOMAIN buf /\ orderedBuffer'[s] = buf[s] /\ \A i \in 0 .. (k - 1) : s # Wire(e + i)
      BY <1>7 DEF Without
    <2>2. \A i \in 1 .. l : all[i] # s
      BY <1>9, <2>1
    <2>3. ASSUME NEW i \in l + 1 .. l + k PROVE all[i] # s
      <3>1. i - l - 1 \in 0 .. (k - 1) /\ i - l - 1 \in 0 .. k /\ e + (i - l) - 1 = e + (i - l - 1)
        BY <1>1, <1>3, <1>9
      <3> QED BY <1>5, <1>9, <2>1, <3>1
    <2> QED BY <1>10, <2>1, <2>2, <2>3
  <1>16. all = queue \/ Longer(queue, all)
    <2>1. CASE k = 0
      <3>1. run = <<>>
        BY <1>8, <2>1
      <3> QED BY <3>1 DEF all
    <2>2. CASE k # 0
      <3>1. l < Len(all)
        BY <1>3, <1>9, <2>2
      <3> QED BY <1>9, <3>1 DEF Longer
    <2> QED BY <2>1, <2>2
  <1>17. e + k \in 0 .. last
    BY <1>1, <1>3, <1>4
  <1> QED BY <1>7, <1>9, <1>13, <1>14, <1>15, <1>16, <1>17

-----------------------------------------------------------------------------
\* What arrives leaves of that.
LEMMA ReceptionDeals ==
    ASSUME MaxMessages <= Half, BufferInv, DealtInv, mode = "ReliableOrdered",
           NEW n \in Nat, n < sent, OnMessageReceived(n) \/ IgnoreMessage, UNCHANGED <<mode, sent>>
    PROVE  /\ DealtInv' /\ gaveUp' = gaveUp
           /\ delivered' = delivered \/ Longer(delivered, delivered')
  <1>1. /\ sent \in 0 .. Half /\ delivered \in Seq(Nat) /\ expectedSeq \notin DOMAIN orderedBuffer
        /\ n \in 0 .. Half /\ n + 1 \in 0 .. sent /\ expectedSeq \in Nat /\ DOMAIN orderedBuffer \in SUBSET Nat
        /\ Append(delivered, n) \in Seq(Nat)
    <2>1. sent \in 0 .. MaxMessages /\ expectedSeq \in Seqs /\ DOMAIN orderedBuffer \in SUBSET Seqs
          /\ delivered \in Seq(Nat) /\ expectedSeq \notin DOMAIN orderedBuffer
      BY DEF BufferInv, NumbersInv, HeldInv, Held
    <2>2. sent \in 0 .. Half /\ n \in 0 .. Half /\ n + 1 \in 0 .. sent
      BY <2>1, Ranges
    <2>3. \A x \in Seqs : x \in Nat
      BY Ranges DEF Seqs
    <2> QED BY <2>1, <2>2, <2>3
  <1>2. /\ expectedSeq <= sent
        /\ \A i \in DOMAIN delivered : delivered[i] < expectedSeq
        /\ \A i, j \in DOMAIN delivered : i # j => delivered[i] # delivered[j]
        /\ \A s \in DOMAIN orderedBuffer :
               s < sent /\ orderedBuffer[s].num = s /\ \A i \in DOMAIN delivered : delivered[i] # s
    BY DEF DealtInv
  <1>3. Wire(n) = n
    BY <1>1, WireSame
  <1>4. CASE UNCHANGED recvVars
    <2>1. DealtInv'
      BY <1>4 DEF DealtInv, recvVars
    <2> QED BY <1>4, <2>1 DEF recvVars
  <1>5. CASE ReceiveOrdered(n)
    <2>1. CASE /\ n = expectedSeq /\ FlushConsecutive(NextSeq(n), orderedBuffer, Append(delivered, n))
               /\ UNCHANGED <<recvSeq, recvSeen, gaveUp>>
      <3> DEFINE queue == Append(delivered, n)
                 l == Len(delivered)
      <3>1. NextSeq(n) = n + 1
        <4>1. n + 1 \in 0 .. Half
          BY <1>1, Ranges
        <4> QED BY <4>1, WireSame DEF NextSeq, Wire
      <3>2. /\ l \in Nat /\ DOMAIN queue = 1 .. l + 1 /\ DOMAIN delivered = 1 .. l
            /\ \A i \in 1 .. l : queue[i] = delivered[i]
            /\ queue[l + 1] = n /\ Len(queue) = l + 1
            /\ \A i \in 1 .. l : delivered[i] \in Nat
        BY <1>1
      <3> HIDE DEF queue, l
      <3>3. \A i \in 1 .. l + 1 : i \in 1 .. l \/ i = l + 1
        BY <3>2
      <3>4. \A i \in DOMAIN queue : queue[i] < n + 1
        <4>1. \A i \in 1 .. l : delivered[i] < n /\ delivered[i] \in Nat
          BY <1>2, <2>1, <3>2
        <4>2. \A i \in 1 .. l : queue[i] < n + 1
          BY <3>2, <4>1
        <4> QED BY <3>2, <3>3, <4>2
      <3>5. ASSUME NEW i \in DOMAIN queue, NEW j \in DOMAIN queue, i # j PROVE queue[i] # queue[j]
        <4>1. \A x \in 1 .. l : queue[x] # n
          BY <1>2, <2>1, <3>2, SMTT(30)
        <4> QED BY <1>2, <3>2, <3>3, <3>5, <4>1
      <3>6. ASSUME NEW s \in DOMAIN orderedBuffer, NEW i \in DOMAIN queue PROVE queue[i] # s
        BY <1>1, <1>2, <2>1, <3>2, <3>3
      <3>7. \A s \in DOMAIN orderedBuffer : s \in 0 .. sent - 1 /\ orderedBuffer[s].num = s
        BY <1>1, <1>2
      <3>8. FlushConsecutive(n + 1, orderedBuffer, queue)
        BY <2>1, <3>1 DEF queue
      <3>9. queue \in Seq(Nat)
        BY <1>1 DEF queue
      <3>10. /\ expectedSeq' \in 0 .. sent
             /\ delivered' \in Seq(Nat) /\ (delivered' = queue \/ Longer(queue, delivered'))
             /\ \A i \in DOMAIN delivered' : delivered'[i] < expectedSeq'
             /\ \A i, j \in DOMAIN delivered' : i # j => delivered'[i] # delivered'[j]
             /\ \A s \in DOMAIN orderedBuffer' :
                    /\ s \in DOMAIN orderedBuffer /\ orderedBuffer'[s] = orderedBuffer[s]
                    /\ \A i \in DOMAIN delivered' : delivered'[i] # s
        BY <1>1, <3>4, <3>5, <3>6, <3>7, <3>8, <3>9, FlushDeals
      <3>11. expectedSeq' <= sent'
        BY <1>1, <3>10
      <3>12. DealtInv'
        BY <1>2, <3>10, <3>11 DEF DealtInv
      <3>13. Longer(delivered, delivered')
        <4>1. Len(delivered') >= l + 1 /\ \A i \in 1 .. l + 1 : delivered'[i] = queue[i]
          <5>1. CASE delivered' = queue
            BY <3>2, <5>1
          <5>2. CASE Longer(queue, delivered')
            BY <3>2, <3>10, <5>2 DEF Longer
          <5> QED BY <3>10, <5>1, <5>2
        <4>2. Len(delivered') \in Nat
          BY <3>10
        <4>3. l < Len(delivered') /\ \A i \in 1 .. l : i \in 1 .. l + 1
          BY <3>2, <4>1, <4>2
        <4> QED BY <3>2, <4>1, <4>3 DEF Longer, l
      <3> QED BY <2>1, <3>12, <3>13
    <2>2. CASE /\ SeqGt(n, expectedSeq)
               /\ orderedBuffer' = With(orderedBuffer, n, [num |-> n, age |-> 0])
               /\ UNCHANGED <<recvSeq, expectedSeq, recvSeen, delivered, gaveUp>>
      <3>1. n > expectedSeq
        BY <1>1, <1>2, <2>2, Ranges DEF SeqGt
      <3>2. \A i \in DOMAIN delivered : delivered[i] # n
        <4>1. \A i \in DOMAIN delivered : delivered[i] \in Nat /\ delivered[i] < expectedSeq
          BY <1>1, <1>2
        <4> QED BY <1>1, <3>1, <4>1
      <3>3. \A s \in DOMAIN orderedBuffer' :
               s < sent /\ orderedBuffer'[s].num = s /\ \A i \in DOMAIN delivered : delivered[i] # s
        BY <1>2, <2>2, <3>2 DEF With
      <3>4. DealtInv'
        BY <1>2, <2>2, <3>3 DEF DealtInv
      <3> QED BY <2>2, <3>4
    <2> QED BY <1>3, <1>4, <1>5, <2>1, <2>2 DEF ReceiveOrdered, Expected, IgnoreMessage
  <1> QED
    BY <1>4, <1>5 DEF OnMessageReceived, ReceiveUnreliable, ReceiveSequenced, ReceiveUnordered,
                      isSequenced, IgnoreMessage

\* So does the receiver's clock, when it gives up and when it does not.
LEMMA TickDeals ==
    ASSUME MaxMessages <= Half, BufferInv, DealtInv, mode = "ReliableOrdered",
           NEW d \in Frames, ReceiverTick(d)
    PROVE  /\ DealtInv' /\ UNCHANGED <<mode, sent>>
           /\ \/ UNCHANGED <<delivered, gaveUp>>
              \/ gaveUp' = TRUE /\ Longer(delivered, delivered')
  <1> DEFINE aged  == Aged(orderedBuffer, d)
             late  == {s \in DOMAIN aged : Late(aged[s])}
             order == Ascending(late)
             highest == order[Len(order)]
             after == IF SeqGt(NextSeq(highest), expectedSeq) THEN NextSeq(highest) ELSE expectedSeq
             kept  == Without(aged, late)
             queue == delivered \o [i \in DOMAIN order |-> aged[order[i]].num]
  <1>1. /\ sent \in 0 .. Half /\ sent \in Nat /\ sent <= Half /\ Half \in Nat
        /\ delivered \in Seq(Nat) /\ expectedSeq \in Nat
        /\ DOMAIN orderedBuffer \in SUBSET Seqs /\ DOMAIN orderedBuffer \in SUBSET Nat
    <2>1. sent \in 0 .. MaxMessages /\ expectedSeq \in Seqs /\ DOMAIN orderedBuffer \in SUBSET Seqs
          /\ delivered \in Seq(Nat)
      BY DEF BufferInv, NumbersInv, HeldInv, Held
    <2>2. sent \in 0 .. Half /\ sent \in Nat /\ sent <= Half /\ Half \in Nat
      BY <2>1, Ranges
    <2>3. \A x \in Seqs : x \in Nat
      BY Ranges DEF Seqs
    <2> QED BY <2>1, <2>2, <2>3
  <1>2. /\ expectedSeq <= sent
        /\ \A i \in DOMAIN delivered : delivered[i] < expectedSeq
        /\ \A i, j \in DOMAIN delivered : i # j => delivered[i] # delivered[j]
        /\ \A s \in DOMAIN orderedBuffer :
               s < sent /\ orderedBuffer[s].num = s /\ \A i \in DOMAIN delivered : delivered[i] # s
    BY DEF DealtInv
  <1>3. /\ DOMAIN aged = DOMAIN orderedBuffer
        /\ \A s \in DOMAIN orderedBuffer : aged[s].num = orderedBuffer[s].num
    BY AgedSame DEF BufferInv, HeldInv, Held
  <1>4. /\ UNCHANGED <<mode, sent>>
        /\ IF late = {}
           THEN orderedBuffer' = aged /\ UNCHANGED <<expectedSeq, delivered, gaveUp>>
           ELSE FlushConsecutive(after, kept, queue) /\ gaveUp' = TRUE
    BY DEF ReceiverTick, FlushTimedOut, config, sendVars
  <1>5. late \in SUBSET DOMAIN orderedBuffer
    BY <1>3
  <1> HIDE DEF aged, late
  <1>6. CASE late = {}
    <2>1. DealtInv'
      BY <1>2, <1>3, <1>4, <1>6 DEF DealtInv
    <2> QED BY <1>4, <1>6, <2>1
  <1>7. CASE late # {}
    <2> DEFINE N == Cardinality(late)
               l == Len(delivered)
    <2>1. late \in SUBSET Nat /\ late \in SUBSET Int /\ IsFiniteSet(late)
      <3>1. late \in SUBSET Seqs /\ late \in SUBSET Nat
        BY <1>1, <1>5
      <3>2. late \in SUBSET Int
        BY <3>1
      <3> QED BY <3>1, <3>2, SeqsFinite
    <2>2. /\ N \in Nat /\ order \in [1 .. N -> late]
          /\ \A i, j \in 1 .. N : i < j => order[i] < order[j]
          /\ \A s \in late : \E i \in 1 .. N : order[i] = s
      BY <2>1, AscendingIs
    <2>3. N # 0
      BY <1>7, <2>1, FS_EmptySet
    <2> HIDE DEF order, N
    <2>4. Len(order) = N /\ DOMAIN order = 1 .. N /\ N \in 1 .. N
      BY <2>2, <2>3, OfLength
    <2>5. highest \in late /\ \A i \in 1 .. N : order[i] <= highest /\ order[i] \in late
      <3>1. \A i \in 1 .. N : order[i] \in late /\ order[i] \in Nat
        BY <2>1, <2>2
      <3>2. \A i \in 1 .. N : i = N \/ i < N
        BY <2>2
      <3>3. highest = order[N]
        BY <2>4
      <3>4. ASSUME NEW i \in 1 .. N PROVE order[i] <= order[N]
        <4>1. CASE i = N
          BY <2>4, <3>1, <4>1
        <4>2. CASE i < N
          <5>1. order[i] < order[N] /\ order[i] \in Nat /\ order[N] \in Nat
            BY <2>2, <2>4, <3>1, <4>2
          <5> QED BY <5>1
        <4> QED BY <3>2, <4>1, <4>2
      <3> QED BY <2>4, <3>1, <3>3, <3>4
    <2> HIDE DEF highest
    <2>6. highest \in Nat /\ highest < sent /\ highest + 1 \in 0 .. Half
      BY <1>1, <1>2, <1>5, <2>1, <2>5
    <2>7. NextSeq(highest) = highest + 1
      BY <2>6, WireSame DEF NextSeq, Wire
    <2>8. after \in 0 .. sent /\ highest < after /\ expectedSeq <= after
      <3>1. SeqGt(highest + 1, expectedSeq) <=> highest + 1 > expectedSeq
        BY <1>1, <1>2, <2>6, Ranges DEF SeqGt
      <3>2. after = IF highest + 1 > expectedSeq THEN highest + 1 ELSE expectedSeq
        BY <2>7, <3>1
      <3> HIDE DEF after
      <3> QED BY <1>1, <1>2, <2>6, <3>2
    <2> HIDE DEF after
    <2>9. \A i \in 1 .. N : aged[order[i]].num = order[i] /\ order[i] \in Nat
      BY <1>2, <1>3, <1>5, <2>1, <2>5
    <2> DEFINE q == [i \in 1 .. N |-> aged[order[i]].num]
    <2>10. q \in Seq(Nat) /\ Len(q) = N /\ \A i \in 1 .. N : q[i] = order[i]
      <3>1. \A i \in 1 .. N : q[i] = order[i] /\ q[i] \in Nat
        BY <2>9
      <3>2. q \in [1 .. N -> Nat]
        BY <3>1
      <3> HIDE DEF q
      <3> QED BY <2>2, <3>1, <3>2, OfLength
    <2>11. queue = delivered \o q
      BY <2>4
    <2> HIDE DEF q, queue
    <2>12. /\ queue \in Seq(Nat) /\ l \in Nat /\ DOMAIN delivered = 1 .. l
           /\ Len(queue) = l + N /\ DOMAIN queue = 1 .. l + N
      <3>1. queue \in Seq(Nat) /\ Len(queue) = Len(delivered) + Len(q)
        BY <1>1, <2>10, <2>11, JoinedIs
      <3>2. l \in Nat /\ DOMAIN delivered = 1 .. l
        BY <1>1
      <3> QED BY <2>10, <3>1, <3>2
    <2>13. \A i \in 1 .. l : queue[i] = delivered[i]
      BY <1>1, <2>10, <2>11, JoinedIs
    <2>14. \A i \in 1 .. N : queue[l + i] = order[i]
      <3>1. \A i \in 1 .. Len(q) : queue[Len(delivered) + i] = q[i]
        BY <1>1, <2>10, <2>11, JoinedIs
      <3> QED BY <2>10, <3>1
    <2> HIDE DEF l
    <2>15. \A i \in DOMAIN queue : i \in 1 .. l \/ \E j \in 1 .. N : i = l + j
      <3> SUFFICES ASSUME NEW i \in DOMAIN queue, ~(i \in 1 .. l)
                   PROVE  \E j \in 1 .. N : i = l + j
        OBVIOUS
      <3>1. i - l \in 1 .. N /\ i = l + (i - l)
        BY <2>2, <2>12
      <3> QED BY <3>1
    <2>16. \A i \in 1 .. l : delivered[i] \in Nat /\ i \in DOMAIN delivered
      BY <1>1, <2>12
    <2>17. \A i \in DOMAIN queue : queue[i] < after
      <3>1. \A i \in 1 .. l : queue[i] < after
        BY <1>1, <1>2, <2>8, <2>13, <2>16
      <3>2. \A j \in 1 .. N : queue[l + j] < after
        BY <1>1, <2>5, <2>6, <2>8, <2>9, <2>14
      <3> QED BY <2>15, <3>1, <3>2
    <2>18. \A i \in 1 .. l, j \in 1 .. N : delivered[i] # order[j]
      BY <1>2, <1>5, <2>5, <2>16
    <2>19. \A i, j \in 1 .. N : i # j => order[i] # order[j]
      <3>1. \A i, j \in 1 .. N : i # j => i < j \/ j < i
        BY <2>2
      <3>2. \A i, j \in 1 .. N : i < j => order[i] # order[j]
        BY <2>2, <2>9
      <3> QED BY <3>1, <3>2
    <2>20. ASSUME NEW i \in DOMAIN queue, NEW j \in DOMAIN queue, i # j PROVE queue[i] # queue[j]
      <3>1. CASE i \in 1 .. l /\ j \in 1 .. l
        BY <1>2, <2>13, <2>16, <2>20, <3>1
      <3>2. ASSUME NEW a \in 1 .. N, j = l + a, i \in 1 .. l PROVE queue[i] # queue[j]
        BY <2>13, <2>14, <2>18, <3>2
      <3>3. ASSUME NEW a \in 1 .. N, i = l + a, j \in 1 .. l PROVE queue[i] # queue[j]
        BY <2>13, <2>14, <2>18, <3>3
      <3>4. ASSUME NEW a \in 1 .. N, NEW b \in 1 .. N, i = l + a, j = l + b
            PROVE  queue[i] # queue[j]
        <4>1. a # b
          BY <2>20, <3>4
        <4> QED BY <2>14, <2>19, <3>4, <4>1
      <3> QED BY <2>15, <3>1, <3>2, <3>3, <3>4
    <2>21. \A s \in DOMAIN kept : s \in DOMAIN orderedBuffer /\ s \notin late /\ kept[s] = aged[s]
      BY <1>3 DEF Without
    <2> HIDE DEF kept
    <2>22. \A s \in DOMAIN kept : s \in 0 .. sent - 1 /\ kept[s].num = s
      BY <1>1, <1>2, <1>3, <2>21
    <2>23. \A s \in DOMAIN kept : \A i \in DOMAIN queue : queue[i] # s
      <3>1. \A s \in DOMAIN kept : \A i \in 1 .. l : queue[i] # s
        BY <1>2, <2>13, <2>16, <2>21
      <3>2. \A s \in DOMAIN kept : \A j \in 1 .. N : queue[l + j] # s
        BY <2>5, <2>14, <2>21
      <3> QED BY <2>15, <3>1, <3>2
    <2>24. FlushConsecutive(after, kept, queue) /\ gaveUp' = TRUE
      BY <1>4, <1>7
    <2>25. /\ expectedSeq' \in 0 .. sent
           /\ delivered' \in Seq(Nat) /\ (delivered' = queue \/ Longer(queue, delivered'))
           /\ \A i \in DOMAIN delivered' : delivered'[i] < expectedSeq'
           /\ \A i, j \in DOMAIN delivered' : i # j => delivered'[i] # delivered'[j]
           /\ \A s \in DOMAIN orderedBuffer' :
                  /\ s \in DOMAIN kept /\ orderedBuffer'[s] = kept[s]
                  /\ \A i \in DOMAIN delivered' : delivered'[i] # s
      BY <1>1, <2>8, <2>12, <2>17, <2>20, <2>22, <2>23, <2>24, FlushDeals
    <2>26. \A s \in DOMAIN orderedBuffer' : s < sent /\ orderedBuffer'[s].num = s
      BY <1>1, <2>22, <2>25
    <2>27. DealtInv'
      BY <1>1, <1>4, <2>25, <2>26 DEF DealtInv
    <2>28. Longer(delivered, delivered')
      <3>1. Len(delivered') >= l + N /\ \A i \in 1 .. l + N : delivered'[i] = queue[i]
        <4>1. CASE delivered' = queue
          BY <2>2, <2>12, <4>1
        <4>2. CASE Longer(queue, delivered')
          BY <2>12, <2>25, <4>2 DEF Longer
        <4> QED BY <2>25, <4>1, <4>2
      <3>2. Len(delivered') \in Nat
        BY <2>25
      <3>3. l < Len(delivered') /\ \A i \in 1 .. l : i \in 1 .. l + N
        BY <2>2, <2>3, <2>12, <3>1, <3>2
      <3> QED BY <2>13, <3>1, <3>3 DEF Longer, l
    <2> QED BY <1>4, <2>24, <2>27, <2>28
  <1> QED BY <1>6, <1>7

LEMMA DealtInit == NumbersLast /\ Init => DealtInv
  <1> SUFFICES ASSUME NumbersLast, Init, mode = "ReliableOrdered" PROVE DealtInv
    BY DEF DealtInv
  <1>1. Start \in 0 .. Half /\ Start \in Nat
    BY Ranges DEF NumbersLast, Init
  <1>2. expectedSeq = Start /\ sent = Start /\ DOMAIN orderedBuffer = {}
        /\ delivered = [i \in 1 .. Start |-> i - 1]
    BY <1>1, WireSame DEF Init, Empty
  <1> QED BY <1>1, <1>2 DEF DealtInv

\* A step of an ordered channel delivers more, or changes nothing of what Delivery shows.
Steps == /\ mode' = mode
         /\ \/ sent' > sent /\ UNCHANGED <<delivered, gaveUp>>
            \/ sent' = sent /\ UNCHANGED <<delivered, gaveUp>>
            \/ sent' = sent /\ gaveUp' \in {gaveUp, TRUE} /\ Longer(delivered, delivered')

LEMMA DealtStep ==
    ASSUME NumbersLast, BufferInv, DealtInv, mode = "ReliableOrdered", [Next]_vars
    PROVE  DealtInv' /\ Steps
  <1>1. /\ MaxMessages <= Half /\ sent \in Nat /\ Pieces \in Nat
        /\ large \in SUBSET (0 .. (sent - 1)) /\ DOMAIN copies \in SUBSET Nat
        /\ \A n \in DOMAIN copies : copies[n] > 0 => n < sent
    BY Ranges DEF NumbersLast, BufferInv, NumbersInv
  <1>2. CASE Send \/ SendLarge
    <2>1. sent' > sent /\ mode' = mode /\ UNCHANGED recvVars
      <3>1. CASE Send
        BY <1>1, <3>1 DEF Send, config
      <3>2. CASE SendLarge
        <4>1. sent' = sent + Pieces + 1 /\ mode' = mode /\ UNCHANGED recvVars
          BY <3>2 DEF SendLarge, config
        <4> QED BY <1>1, <4>1
      <3> QED BY <1>2, <3>1, <3>2
    <2>2. /\ expectedSeq <= sent /\ expectedSeq \in Nat
          /\ \A i \in DOMAIN delivered : delivered[i] < expectedSeq
          /\ \A i, j \in DOMAIN delivered : i # j => delivered[i] # delivered[j]
          /\ \A s \in DOMAIN orderedBuffer : s \in Nat /\ s < sent /\ orderedBuffer[s].num = s
                                             /\ \A i \in DOMAIN delivered : delivered[i] # s
      <3>1. expectedSeq \in Seqs /\ DOMAIN orderedBuffer \in SUBSET Seqs
        BY DEF BufferInv, HeldInv, Held
      <3>2. \A x \in Seqs : x \in Nat
        BY Ranges DEF Seqs
      <3> QED BY <3>1, <3>2 DEF DealtInv
    <2>3. sent' \in Nat
      <3>1. CASE Send
        BY <1>1, <3>1 DEF Send
      <3>2. CASE SendLarge
        BY <1>1, <3>2 DEF SendLarge
      <3> QED BY <1>2, <3>1, <3>2
    <2>4. expectedSeq <= sent' /\ \A s \in DOMAIN orderedBuffer : s < sent'
      BY <1>1, <2>1, <2>2, <2>3
    <2>5. DealtInv'
      BY <2>1, <2>2, <2>4 DEF DealtInv, recvVars
    <2> QED BY <2>1, <2>5 DEF Steps, recvVars
  <1>3. ASSUME NEW n \in large, NEW piece, ReceivePiece(n, piece) PROVE DealtInv' /\ Steps
    <2>1. n \in Nat /\ n < sent /\ UNCHANGED <<mode, sent>> /\ (OnMessageReceived(n) \/ IgnoreMessage)
      <3>1. UNCHANGED <<mode, sent>> /\ (OnMessageReceived(n) \/ IgnoreMessage)
        BY <1>3 DEF ReceivePiece, config, sendVars
      <3> QED BY <1>1, <3>1
    <2> QED BY <1>1, <2>1, ReceptionDeals DEF Steps
  <1>4. ASSUME NEW n \in DOMAIN copies, Receive(n) PROVE DealtInv' /\ Steps
    <2>1. n \in Nat /\ n < sent /\ UNCHANGED <<mode, sent>> /\ OnMessageReceived(n)
      BY <1>1, <1>4 DEF Receive, config, sendVars
    <2> QED BY <1>1, <2>1, ReceptionDeals DEF Steps
  <1>5. CASE \/ \E n \in arrived : Acknowledge(n)
             \/ \E d \in Frames : SenderTick(d)
             \/ UNCHANGED vars
    <2>1. UNCHANGED <<mode, sent, recvVars>>
      BY <1>5 DEF Acknowledge, SenderTick, vars, config, sendVars
    <2>2. DealtInv'
      BY <2>1 DEF DealtInv, recvVars
    <2> QED BY <2>1, <2>2 DEF Steps, recvVars
  <1>6. ASSUME NEW d \in Frames, ReceiverTick(d) PROVE DealtInv' /\ Steps
    BY <1>1, <1>6, TickDeals DEF Steps
  <1> QED BY <1>2, <1>3, <1>4, <1>5, <1>6 DEF Next

-----------------------------------------------------------------------------
(* The promise. *)

\* What is longer has the shorter for a prefix.
LEMMA LongerPrefix ==
    ASSUME NEW d \in Seq(Nat), NEW e \in Seq(Nat), Longer(d, e)
    PROVE  IsStrictPrefix(d, e)
  <1> DEFINE l == Len(d)
  <1>1. l \in Nat /\ Len(e) \in Nat /\ l < Len(e) /\ \A i \in 1 .. l : e[i] = d[i]
    BY DEF Longer
  <1>2. \A i \in 1 .. l : e[i] \in Nat /\ d[i] \in Nat
    <2>1. \A i \in 1 .. l : d[i] \in Nat
      OBVIOUS
    <2> HIDE DEF l
    <2> QED BY <1>1, <2>1
  <1> HIDE DEF l
  <1>3. /\ SubSeq(d, 1, l) \in Seq(Nat) /\ Len(SubSeq(d, 1, l)) = l
        /\ \A i \in 1 .. l : SubSeq(d, 1, l)[i] = d[i]
    BY <1>1, <1>2, SubSeqFull DEF l
  <1>4. /\ SubSeq(e, 1, l) \in Seq(Nat) /\ Len(SubSeq(e, 1, l)) = l
        /\ \A i \in 1 .. l : SubSeq(e, 1, l)[i] = e[i]
    <2>1. /\ SubSeq(e, 1, l) \in Seq(Nat)
          /\ Len(SubSeq(e, 1, l)) = IF 1 <= l THEN l - 1 + 1 ELSE 0
          /\ \A i \in 1 .. l - 1 + 1 : SubSeq(e, 1, l)[i] = e[1 + i - 1]
      BY <1>1, <1>2, SubSeqProperties
    <2> QED BY <1>1, <2>1
  <1>5. SubSeq(d, 1, l) = SubSeq(e, 1, l)
    BY <1>1, <1>3, <1>4, SeqEqual
  <1>6. l <= Len(e) /\ d # e
    BY <1>1 DEF l
  <1> QED BY <1>5, <1>6 DEF IsStrictPrefix, IsPrefix, l

\* A message more is a longer prefix.
LEMMA AppendPrefix ==
    ASSUME NEW d \in Seq(Nat), NEW n \in Nat
    PROVE  IsStrictPrefix(d, Append(d, n))
  <1> DEFINE e == Append(d, n)
  <1>1. e \in Seq(Nat) /\ Len(d) \in Nat /\ Len(e) = Len(d) + 1 /\ \A i \in 1 .. Len(d) : e[i] = d[i]
    OBVIOUS
  <1> HIDE DEF e
  <1>2. Longer(d, e)
    BY <1>1 DEF Longer
  <1> QED BY <1>1, <1>2, LongerPrefix DEF e

\* Outside the ordered mode, a message is delivered at once or not at all, and nothing
\* else is delivered.
LEMMA OneAtATime ==
    ASSUME mode # "ReliableOrdered", NEW n, OnMessageReceived(n)
    PROVE  gaveUp' = gaveUp /\ delivered' \in {delivered, Append(delivered, n)}
BY DEF OnMessageReceived, ReceiveUnreliable, ReceiveSequenced, ReceiveUnordered, ReceiveOrdered,
       IgnoreMessage, recvVars

LEMMA ImmediateStep ==
    ASSUME SpanFits, NumbersLast, ChannelInv, ChannelInv', mode # "ReliableOrdered", [Next]_vars
    PROVE  [Promise!Next]_<<mode, sent, delivered, gaveUp>>
  <1>1. /\ mode # "ReliableOrdered" /\ mode' = mode /\ mode \in Modes
        /\ LinkInv /\ ReceiverInv /\ ReceiverInv'
    BY FirmBefore DEF ChannelInv, Firm
  <1>2. delivered \in Seq(Nat) /\ \A i \in DOMAIN delivered' : delivered'[i] < sent'
    BY <1>1 DEF ReceiverInv
  <1>3. Promise!Kept(delivered', gaveUp')
    <2>1. CASE isSequenced
      <3>1. Sequenced'
        BY <1>1, <2>1 DEF ReceiverInv, isSequenced
      <3>2. Promise!Increasing(delivered')
        BY <3>1 DEF Sequenced, Promise!Increasing
      <3>3. Promise!isSequenced(mode) /\ mode # "ReliableUnordered" /\ ~Promise!isOrdered(mode)
        BY <2>1 DEF isSequenced, Promise!isSequenced, Promise!isOrdered
      <3> QED BY <3>2, <3>3 DEF Promise!Kept
    <2>2. CASE mode = "ReliableUnordered"
      <3>1. Once'
        BY <1>1, <2>2 DEF ReceiverInv, NumbersLast
      <3>2. Promise!AtMostOnce(delivered')
        BY <3>1 DEF Once, Promise!AtMostOnce, Promise!IsInjective
      <3>3. ~Promise!isSequenced(mode) /\ ~Promise!isOrdered(mode)
        BY <2>2 DEF Promise!isSequenced, Promise!isOrdered
      <3> QED BY <2>2, <3>2, <3>3 DEF Promise!Kept
    <2>3. CASE mode = "Unreliable"
      BY <2>3 DEF Promise!Kept, Promise!isSequenced, Promise!isOrdered
    <2> QED BY <1>1, <2>1, <2>2, <2>3, Ranges DEF DeliveryModes, isSequenced
  <1>4. ASSUME NEW n \in Nat, OnMessageReceived(n), sent' = sent
        PROVE  [Promise!Next]_<<mode, sent, delivered, gaveUp>>
    <2>1. gaveUp' = gaveUp /\ delivered' \in {delivered, Append(delivered, n)}
      BY <1>1, <1>4, OneAtATime
    <2>2. CASE delivered' = delivered
      BY <1>1, <1>4, <2>1, <2>2
    <2>3. CASE delivered' = Append(delivered, n)
      <3>1. Promise!IsStrictPrefix(delivered, delivered')
        BY <1>2, <2>3, AppendPrefix DEF IsStrictPrefix, IsPrefix, Promise!IsStrictPrefix,
                                        Promise!IsPrefix
      <3> QED BY <1>1, <1>2, <1>3, <1>4, <2>1, <3>1 DEF Promise!Next, Promise!Deliver
    <2> QED BY <2>1, <2>2, <2>3
  <1>5. CASE Send \/ SendLarge
    <2>1. sent' > sent /\ UNCHANGED recvVars
      <3>1. sent \in Nat /\ Pieces \in Nat
        BY <1>1, Ranges DEF LinkInv
      <3>2. CASE Send
        BY <3>1, <3>2 DEF Send
      <3>3. CASE SendLarge
        <4>1. sent' = sent + Pieces + 1 /\ UNCHANGED recvVars
          BY <3>3 DEF SendLarge
        <4> QED BY <3>1, <4>1
      <3> QED BY <1>5, <3>2, <3>3
    <2> QED BY <1>1, <2>1 DEF recvVars, Promise!Next, Promise!Send
  <1>6. ASSUME NEW n \in large, NEW piece, ReceivePiece(n, piece)
        PROVE  [Promise!Next]_<<mode, sent, delivered, gaveUp>>
    <2>1. n \in Nat /\ sent' = sent /\ (OnMessageReceived(n) \/ IgnoreMessage)
      BY <1>1, <1>6 DEF LinkInv, ReceivePiece, sendVars
    <2> QED BY <1>1, <1>4, <2>1 DEF IgnoreMessage, recvVars
  <1>7. ASSUME NEW n \in DOMAIN copies, Receive(n)
        PROVE  [Promise!Next]_<<mode, sent, delivered, gaveUp>>
    <2>1. n \in Nat /\ sent' = sent /\ OnMessageReceived(n)
      BY <1>1, <1>7 DEF LinkInv, Receive, sendVars
    <2> QED BY <1>4, <2>1
  <1>8. CASE \/ \E n \in arrived : Acknowledge(n)
             \/ \E d \in Frames : SenderTick(d)
             \/ UNCHANGED vars
    <2>1. sent' = sent /\ UNCHANGED recvVars
      BY <1>8 DEF Acknowledge, SenderTick, vars, sendVars
    <2> QED BY <1>1, <2>1 DEF recvVars
  <1>9. ASSUME NEW d \in Frames, ReceiverTick(d)
        PROVE  [Promise!Next]_<<mode, sent, delivered, gaveUp>>
    <2>1. sent' = sent /\ FlushTimedOut(Aged(orderedBuffer, d))
      BY <1>9 DEF ReceiverTick, sendVars
    <2>2. DOMAIN Aged(orderedBuffer, d) = {}
      BY <1>1 DEF ReceiverInv, Aged
    <2>3. UNCHANGED <<delivered, gaveUp>>
      BY <2>1, <2>2 DEF FlushTimedOut
    <2> QED BY <1>1, <2>1, <2>3
  <1> QED BY <1>5, <1>6, <1>7, <1>8, <1>9 DEF Next

LEMMA OrderedStep ==
    ASSUME NumbersLast, BufferInv, BufferInv', DealtInv, ChannelInv', mode = "ReliableOrdered", [Next]_vars
    PROVE  [Promise!Next]_<<mode, sent, delivered, gaveUp>>
  <1>1. DealtInv' /\ Steps /\ mode' = "ReliableOrdered"
    BY DealtStep DEF Steps
  <1>2. Promise!isOrdered(mode) /\ ~Promise!isSequenced(mode) /\ mode # "ReliableUnordered"
    BY DEF Promise!isOrdered, Promise!isSequenced
  <1>3. Promise!Kept(delivered', gaveUp')
    <2>1. Promise!AtMostOnce(delivered')
      BY <1>1 DEF DealtInv, Promise!AtMostOnce, Promise!IsInjective
    <2>2. CASE ~gaveUp'
      <3>1. InOrder'
        BY <1>1, <2>2 DEF ChannelInv, Firm, ReceiverInv
      <3>2. Promise!GapFree(delivered')
        BY <3>1 DEF InOrder, Promise!GapFree
      <3> QED BY <1>2, <2>2, <3>2 DEF Promise!Kept
    <2>3. CASE gaveUp'
      BY <1>2, <2>1, <2>3 DEF Promise!Kept
    <2> QED BY <2>2, <2>3
  <1>4. CASE sent' > sent /\ UNCHANGED <<delivered, gaveUp>>
    BY <1>1, <1>4 DEF Steps, Promise!Next, Promise!Send
  <1>5. CASE sent' = sent /\ gaveUp' \in {gaveUp, TRUE} /\ Longer(delivered, delivered')
    <2>1. delivered \in Seq(Nat) /\ delivered' \in Seq(Nat)
      BY DEF BufferInv, HeldInv
    <2>2. Promise!IsStrictPrefix(delivered, delivered')
      BY <1>5, <2>1, LongerPrefix DEF IsStrictPrefix, IsPrefix, Promise!IsStrictPrefix, Promise!IsPrefix
    <2>3. \A i \in DOMAIN delivered' : delivered'[i] < sent
      <3>1. /\ expectedSeq' <= sent /\ \A i \in DOMAIN delivered' : delivered'[i] < expectedSeq'
        BY <1>1, <1>5 DEF DealtInv
      <3>2. expectedSeq' \in Nat /\ sent \in Nat
        <4>1. expectedSeq' \in Seqs /\ sent \in 0 .. MaxMessages
          BY DEF BufferInv, HeldInv, NumbersInv
        <4> QED BY <4>1, Ranges DEF Seqs
      <3>3. \A i \in DOMAIN delivered' : delivered'[i] \in Nat
        BY <2>1
      <3> QED BY <3>1, <3>2, <3>3
    <2> QED BY <1>1, <1>2, <1>3, <1>5, <2>2, <2>3 DEF Steps, Promise!Next, Promise!Deliver
  <1> QED BY <1>1, <1>4, <1>5 DEF Steps

\* Channels of all five modes keep the promise of their mode: what the application is
\* given was sent, in the order or as often as the mode says, and is never taken back;
\* an ordered channel also after it gave up, when it releases what it held back out of
\* order and stray copies still arrive (onMessageReceived, flushTimedOutOrdered and all
\* that channelUpdate and the sender do meanwhile).
THEOREM Promised == SpanFits /\ NumbersLast => (Spec => KeepsPromise)
  <1> SUFFICES ASSUME SpanFits, NumbersLast PROVE Spec => KeepsPromise
    OBVIOUS
  <1>1. Init => Promise!Init
    BY Ranges DEF Init, Promise!Init, DeliveryModes, Promise!DeliveryModes
  <1>2. Init => DealtInv
    BY DealtInit
  <1>3. BufferInv /\ DealtInv /\ [Next]_vars => DealtInv'
    <2> SUFFICES ASSUME BufferInv, DealtInv, [Next]_vars PROVE DealtInv'
      OBVIOUS
    <2>1. mode' = mode
      BY FirmBefore
    <2> QED BY <2>1, DealtStep DEF DealtInv
  <1>4. ChannelInv /\ ChannelInv' /\ BufferInv /\ BufferInv' /\ DealtInv /\ [Next]_vars
            => [Promise!Next]_<<mode, sent, delivered, gaveUp>>
    BY ImmediateStep, OrderedStep
  <1> QED
    BY <1>1, <1>2, <1>3, <1>4, ChannelAlways, BufferInit, BufferStep, PTL DEF Spec, KeepsPromise, Promise!Spec

-----------------------------------------------------------------------------
(* What becomes of a message that is acknowledged. *)

\* A receiver's step forgets nothing that it delivered or held back.
Keeps ==
    /\ mode' = mode /\ (gaveUp => gaveUp')
    /\ delivered \in Seq(Nat) /\ delivered' \in Seq(Nat)
    /\ Len(delivered) <= Len(delivered')
    /\ \A i \in DOMAIN delivered : delivered'[i] = delivered[i]
    /\ \A s \in DOMAIN orderedBuffer :
           \/ \E t \in DOMAIN orderedBuffer' : orderedBuffer'[t].num = orderedBuffer[s].num
           \/ \E i \in DOMAIN delivered' : delivered'[i] = orderedBuffer[s].num

LEMMA SettledStays ==
    ASSUME Keeps, NEW n, Settled(n)
    PROVE  Settled(n)'
  <1>1. \A i \in DOMAIN delivered : i \in DOMAIN delivered' /\ delivered'[i] = delivered[i]
    <2>1. DOMAIN delivered = 1 .. Len(delivered) /\ DOMAIN delivered' = 1 .. Len(delivered')
          /\ Len(delivered) \in Nat /\ Len(delivered') \in Nat /\ Len(delivered) <= Len(delivered')
      BY DEF Keeps
    <2> QED BY <2>1 DEF Keeps
  <1>2. CASE \E i \in DOMAIN delivered : delivered[i] = n
    BY <1>1, <1>2 DEF Settled
  <1>3. CASE \E s \in DOMAIN orderedBuffer : orderedBuffer[s].num = n
    <2>1. \/ \E t \in DOMAIN orderedBuffer' : orderedBuffer'[t].num = n
          \/ \E i \in DOMAIN delivered' : delivered'[i] = n
      BY <1>3 DEF Keeps
    <2> QED BY <2>1 DEF Settled
  <1>4. CASE isSequenced /\ \E i \in DOMAIN delivered : delivered[i] > n
    <2>1. isSequenced'
      BY <1>4 DEF Keeps, isSequenced
    <2> QED BY <1>1, <1>4, <2>1 DEF Settled
  <1>5. CASE gaveUp
    BY <1>5 DEF Keeps, Settled
  <1> QED BY <1>2, <1>3, <1>4, <1>5 DEF Settled

\* w is d, then n, then q.
Joined(w, d, n, q) ==
    /\ w \in Seq(Nat) /\ Len(w) = Len(d) + 1 + Len(q)
    /\ \A i \in 1 .. Len(d) : w[i] = d[i]
    /\ w[Len(d) + 1] = n
    /\ \A i \in 1 .. Len(q) : w[Len(d) + 1 + i] = q[i]

LEMMA AppendKeeps ==
    \A d \in Seq(Nat), n \in Nat, q \in Seq(Nat) : Joined(Append(d, n) \o q, d, n, q)
  <1> SUFFICES ASSUME NEW d \in Seq(Nat), NEW n \in Nat, NEW q \in Seq(Nat)
               PROVE  Joined(Append(d, n) \o q, d, n, q)
    OBVIOUS
  <1> DEFINE p == Append(d, n)
             l == Len(d)
             m == Len(q)
             e == p \o q
  <1>1. p \in Seq(Nat) /\ Len(p) = l + 1 /\ l \in Nat /\ m \in Nat /\ p[l + 1] = n /\ \A i \in 1 .. l : p[i] = d[i]
    OBVIOUS
  <1> HIDE DEF p, l
  <1>2. e \in Seq(Nat) /\ Len(e) = l + 1 + m
    <2>1. e \in Seq(Nat)
      BY <1>1
    <2>2. Len(e) = Len(p) + Len(q)
      BY <1>1, ConcatProperties
    <2> HIDE DEF e
    <2> QED BY <1>1, <2>1, <2>2
  <1>3. \A i \in 1 .. l + 1 : e[i] = p[i]
    BY <1>1
  <1>4. \A i \in 1 .. m : e[l + 1 + i] = q[i]
    BY <1>1
  <1> HIDE DEF e, m
  <1>5. l + 1 \in 1 .. l + 1 /\ \A i \in 1 .. l : i \in 1 .. l + 1
    BY <1>1
  <1> QED BY <1>1, <1>2, <1>3, <1>4, <1>5 DEF l, m, e, p, Joined

LEMMA ReceptionForgetsNone ==
    ASSUME HeldInv, NEW n \in Nat, OnMessageReceived(n) \/ IgnoreMessage, mode' = mode
    PROVE  Keeps
  <1>1. delivered \in Seq(Nat) /\ Held(orderedBuffer) /\ expectedSeq \in Seqs
        /\ expectedSeq \notin DOMAIN orderedBuffer /\ Len(delivered) \in Nat
    BY DEF HeldInv
  <1>2. CASE UNCHANGED <<delivered, orderedBuffer, gaveUp>>
    BY <1>1, <1>2 DEF Keeps
  <1>3. CASE delivered' = Append(delivered, n) /\ UNCHANGED <<orderedBuffer, gaveUp>>
    <2>1. /\ delivered' \in Seq(Nat) /\ Len(delivered') = Len(delivered) + 1
          /\ \A i \in 1 .. Len(delivered) : delivered'[i] = delivered[i]
      BY <1>1, <1>3
    <2> QED BY <1>1, <1>3, <2>1 DEF Keeps
  <1>4. CASE ReceiveOrdered(n)
    <2> DEFINE s == Wire(n)
               e == NextSeq(s)
               k == RunLength(e, orderedBuffer)
               run == [i \in 1 .. k |-> orderedBuffer[Wire(e + i - 1)].num]
               gone == {Wire(e + i) : i \in 0 .. (k - 1)}
               row == [num |-> n, age |-> 0]
    <2>1. CASE FlushConsecutive(e, orderedBuffer, Append(delivered, n)) /\ gaveUp' = gaveUp
      <3>1. e \in Seqs
        <4>1. s + 1 \in Nat
          BY WireType, Ranges DEF Seqs
        <4> QED BY <4>1, WireType DEF NextSeq, Wire
      <3> HIDE DEF e
      <3>2. k \in Nat /\ \A i \in 0 .. (k - 1) : Wire(e + i) \in DOMAIN orderedBuffer
        BY <1>1, <3>1, RunExists DEF Held
      <3>3. delivered' = Append(delivered, n) \o run /\ orderedBuffer' = Without(orderedBuffer, gone)
        BY <2>1 DEF FlushConsecutive
      <3> HIDE DEF k
      <3>4. run \in [1 .. k -> Nat]
        <4>1. ASSUME NEW i \in 1 .. k PROVE orderedBuffer[Wire(e + i - 1)].num \in Nat
          <5>1. i - 1 \in 0 .. (k - 1) /\ e + (i - 1) = e + i - 1
            BY <3>1, <3>2, Ranges DEF Seqs
          <5>2. Wire(e + i - 1) \in DOMAIN orderedBuffer
            BY <3>2, <5>1
          <5> QED BY <1>1, <5>2 DEF Held, OooEntries
        <4> QED BY <4>1
      <3>5. \A i \in 1 .. k : run[i] = orderedBuffer[Wire(e + i - 1)].num
        OBVIOUS
      <3> HIDE DEF run
      <3>6. run \in Seq(Nat) /\ Len(run) = k
        BY <3>2, <3>4, OfLength
      <3>7. /\ delivered' \in Seq(Nat) /\ Len(delivered') = Len(delivered) + 1 + k
            /\ \A i \in 1 .. Len(delivered) : delivered'[i] = delivered[i]
            /\ \A i \in 1 .. k : delivered'[Len(delivered) + 1 + i] = run[i]
        <4>0. delivered \in Seq(Nat) /\ run \in Seq(Nat) /\ n \in Nat
          BY <1>1, <3>6
        <4>1. Joined(Append(delivered, n) \o run, delivered, n, run)
          BY <4>0, AppendKeeps, Zenon
        <4>2. Joined(delivered', delivered, n, run)
          BY <3>3, <4>1
        <4> QED BY <3>6, <4>2 DEF Joined
      <3>8. ASSUME NEW t \in DOMAIN orderedBuffer
            PROVE  \/ \E r \in DOMAIN orderedBuffer' : orderedBuffer'[r].num = orderedBuffer[t].num
                   \/ \E i \in DOMAIN delivered' : delivered'[i] = orderedBuffer[t].num
        <4>1. CASE t \notin gone
          <5>1. t \in DOMAIN orderedBuffer' /\ orderedBuffer'[t] = orderedBuffer[t]
            BY <3>3, <4>1 DEF Without
          <5> QED BY <5>1
        <4>2. CASE t \in gone
          <5>1. PICK i \in 0 .. (k - 1) : t = Wire(e + i)
            BY <4>2
          <5> DEFINE j == i + 1
          <5>2. j \in 1 .. k /\ e + j - 1 = e + i
            BY <3>1, <3>2, Ranges DEF Seqs
          <5>3. run[j] = orderedBuffer[t].num
            BY <3>5, <5>1, <5>2
          <5> HIDE DEF j
          <5>4. Len(delivered) + 1 + j \in DOMAIN delivered'
            BY <1>1, <3>2, <3>7, <5>2, SMTT(30)
          <5> QED BY <3>7, <5>2, <5>3, <5>4
        <4> QED BY <4>1, <4>2
      <3>9. Len(delivered) <= Len(delivered')
        BY <1>1, <3>2, <3>7
      <3>10. \A i \in DOMAIN delivered : delivered'[i] = delivered[i]
        <4>1. DOMAIN delivered = 1 .. Len(delivered)
          BY <1>1
        <4> QED BY <3>7, <4>1
      <3>11. delivered' \in Seq(Nat)
        BY <3>7
      <3> QED BY <1>1, <2>1, <3>8, <3>9, <3>10, <3>11 DEF Keeps
    <2>2. CASE /\ s \notin DOMAIN orderedBuffer /\ orderedBuffer' = With(orderedBuffer, s, row)
               /\ UNCHANGED <<delivered, gaveUp>>
      <3>1. \A t \in DOMAIN orderedBuffer : t \in DOMAIN orderedBuffer' /\ orderedBuffer'[t] = orderedBuffer[t]
        BY <2>2 DEF With
      <3> QED BY <1>1, <2>2, <3>1 DEF Keeps
    <2> QED BY <1>2, <1>4, <2>1, <2>2 DEF ReceiveOrdered, IgnoreMessage, recvVars
  <1> QED BY <1>2, <1>3, <1>4 DEF OnMessageReceived, ReceiveUnreliable, ReceiveSequenced,
                                  ReceiveUnordered, IgnoreMessage, recvVars

LEMMA TickForgetsNone ==
    ASSUME ChannelInv, HeldInv, NEW d \in Frames, ReceiverTick(d), Firm'
    PROVE  Keeps /\ delivered' = delivered
  <1> DEFINE aged == Aged(orderedBuffer, d)
             late == {s \in DOMAIN aged : Late(aged[s])}
  <1>0. mode' = mode
    BY DEF ReceiverTick, config
  <1>1. late = {}
    <2>1. CASE mode = "ReliableOrdered"
      <3>1. ~gaveUp'
        BY <1>0, <2>1 DEF Firm
      <3> QED BY <3>1 DEF ReceiverTick, FlushTimedOut
    <2>2. CASE mode # "ReliableOrdered"
      <3>1. DOMAIN orderedBuffer = {}
        BY <2>2 DEF ChannelInv, ReceiverInv, Firm
      <3> QED BY <3>1 DEF Aged
    <2> QED BY <2>1, <2>2
  <1>2. orderedBuffer' = aged /\ UNCHANGED <<delivered, gaveUp>>
    BY <1>1 DEF ReceiverTick, FlushTimedOut
  <1>3. /\ DOMAIN aged = DOMAIN orderedBuffer
        /\ \A s \in DOMAIN orderedBuffer : aged[s].num = orderedBuffer[s].num
    BY AgedSame DEF HeldInv, Held
  <1>4. delivered \in Seq(Nat) /\ Len(delivered) \in Nat
    BY DEF HeldInv
  <1> HIDE DEF aged
  <1> QED BY <1>0, <1>2, <1>3, <1>4 DEF Keeps

-----------------------------------------------------------------------------
\* The newest message delivered is the one that receiveSequenced compares with.
Newest ==
    \E i \in DOMAIN delivered : recvSeq = Wire(delivered[i]) /\ sent - delivered[i] <= MaxSpan + 1

\* Every number in the set of numbers seen is that of a message delivered.
SeenDelivered == \A s \in recvSeen : \E i \in DOMAIN delivered : s = Wire(delivered[i])

\* Large messages do not share a piece.
LargeApart ==
    /\ gathered \in SUBSET (0 .. (sent - 1))
    /\ \A m \in large : m + Pieces < sent
    /\ \A m, l \in large : m < l => m + Pieces < l

HandsInv ==
    /\ isReliable \/ (arrived = {} /\ acked = {})
    /\ LargeApart
    /\ isReliable /\ Firm =>
           /\ \A n \in arrived \cup acked : Settled(n) \/ n \in gathered
           /\ \A m \in large : Whole(m, gathered) => Settled(m)
           /\ mode = "ReliableUnordered" => SeenDelivered
           /\ isSequenced => Newest

\* The first message of a sequenced channel has to be behind it (receiveSequenced takes
\* it for an old one), numbers must not be met again in the set of numbers seen, and the
\* ordered buffer must have room for what can be ahead.
HandsFree ==
    /\ SpanFits
    /\ "ReliableOrdered" \in Modes => OrderedBufferSize + 1 >= MaxSpan
    /\ "ReliableUnordered" \in Modes => MaxMessages <= SeqSpace
    /\ "ReliableSequenced" \in Modes => Start > 0

LEMMA SequencedSettles ==
    ASSUME SpanFits, LinkInv, ReceiverInv, isSequenced, Newest,
           NEW n, Within(n, sent, MaxSpan + Pieces), ReceiveSequenced(n),
           UNCHANGED <<config, sent>>
    PROVE  Settled(n)' /\ Newest'
  <1>1. PICK i \in DOMAIN delivered : recvSeq = Wire(delivered[i]) /\ sent - delivered[i] <= MaxSpan + 1
    BY DEF Newest
  <1> DEFINE m == delivered[i]
  <1>2. /\ m \in Nat /\ m < sent /\ sent \in Nat /\ n \in Nat /\ n < sent /\ sent' = sent
        /\ sent - n <= MaxSpan + Pieces /\ delivered \in Seq(Nat) /\ Len(delivered) \in Nat
    BY <1>1 DEF Within, LinkInv, ReceiverInv
  <1> HIDE DEF m
  <1>3. SeqGt(Wire(n), Wire(m)) <=> n > m
    <2>1. n - m < Half /\ m - n < Half
      BY <1>1, <1>2, Ranges DEF SpanFits, m
    <2> QED BY <1>2, <2>1, WindowOrder
  <1>4. CASE Newer(Wire(n)) /\ recvSeq' = Wire(n) /\ delivered' = Append(delivered, n)
    <2>1. Len(delivered) + 1 \in DOMAIN delivered' /\ delivered'[Len(delivered) + 1] = n
      BY <1>2, <1>4
    <2>2. sent' - n <= MaxSpan + 1
      <3>1. n > m
        BY <1>1, <1>3, <1>4 DEF Newer, m
      <3> QED BY <1>1, <1>2, <3>1, Ranges DEF m
    <2> QED BY <1>4, <2>1, <2>2 DEF Settled, Newest
  <1>5. CASE ~Newer(Wire(n)) /\ UNCHANGED recvVars
    <2>1. n <= m
      BY <1>1, <1>2, <1>3, <1>5 DEF Newer, m
    <2>2. delivered' = delivered /\ recvSeq' = recvSeq /\ isSequenced'
      BY <1>5 DEF recvVars, config, isSequenced
    <2>3. Newest'
      BY <1>1, <1>2, <2>2 DEF Newest
    <2>4. delivered'[i] = n \/ delivered'[i] > n
      BY <1>2, <2>1, <2>2 DEF m
    <2> QED BY <1>1, <2>2, <2>3, <2>4 DEF Settled
  <1> QED BY <1>4, <1>5 DEF ReceiveSequenced, IgnoreMessage

LEMMA UnorderedSettles ==
    ASSUME MaxMessages <= SeqSpace, LinkInv, ReceiverInv, SeenDelivered,
           NEW n \in Nat, n < sent, ReceiveUnordered(n)
    PROVE  Settled(n)' /\ SeenDelivered'
  <1>1. delivered \in Seq(Nat) /\ Len(delivered) \in Nat /\ sent \in Nat /\ sent <= MaxMessages
        /\ DOMAIN delivered = 1 .. Len(delivered)
        /\ \A i \in DOMAIN delivered : delivered[i] \in Nat /\ delivered[i] < sent
    BY DEF ReceiverInv, LinkInv
  <1>2. CASE recvSeen' = recvSeen \cup {Wire(n)} /\ delivered' = Append(delivered, n)
    <2>1. /\ DOMAIN delivered' = 1 .. Len(delivered) + 1
          /\ \A i \in DOMAIN delivered : delivered'[i] = delivered[i]
          /\ delivered'[Len(delivered) + 1] = n
      BY <1>1, <1>2
    <2>2. Len(delivered) + 1 \in DOMAIN delivered' /\ \A i \in DOMAIN delivered : i \in DOMAIN delivered'
      BY <1>1, <2>1
    <2> QED BY <1>2, <2>1, <2>2 DEF Settled, SeenDelivered
  <1>3. CASE Wire(n) \in recvSeen /\ UNCHANGED recvVars
    <2>1. PICK i \in DOMAIN delivered : Wire(n) = Wire(delivered[i])
      BY <1>3 DEF SeenDelivered
    <2> DEFINE m == delivered[i]
    <2>2. m \in Nat /\ m < SeqSpace /\ n < SeqSpace /\ SeqSpace \in Nat \ {0} /\ n % SeqSpace = m % SeqSpace
      <3>1. m \in Nat /\ m < sent /\ MaxMessages \in Nat /\ SeqSpace \in Nat \ {0}
        BY <1>1, Ranges
      <3>2. n % SeqSpace = m % SeqSpace
        BY <2>1 DEF Wire
      <3> HIDE DEF m
      <3> QED BY <1>1, <3>1, <3>2
    <2> HIDE DEF m
    <2>3. n = m \/ n >= m + SeqSpace \/ m >= n + SeqSpace
      BY <2>2, Congruent
    <2>4. n = m
      BY <2>2, <2>3
    <2>5. delivered' = delivered /\ recvSeen' = recvSeen
      BY <1>3 DEF recvVars
    <2> QED BY <2>4, <2>5 DEF Settled, SeenDelivered, m
  <1> QED BY <1>2, <1>3 DEF ReceiveUnordered, IgnoreMessage

\* What is held back are messages that were sent after the one awaited, so few of them
\* leave room for another.
LEMMA RoomAhead ==
    ASSUME LinkInv, InOrder, delivered \in Seq(Nat), NEW n \in Nat,
           Len(delivered) < n, n < sent, OrderedBufferSize + 1 >= MaxSpan,
           \A s \in DOMAIN orderedBuffer : orderedBuffer[s].num # n
    PROVE  Cardinality(DOMAIN orderedBuffer) < OrderedBufferSize
  <1> DEFINE D == DOMAIN orderedBuffer
             L == Len(delivered)
             R == (L + 1) .. (sent - 1)
             T == R \ {n}
             f == [s \in D |-> orderedBuffer[s].num]
  <1>1. L \in Nat /\ sent \in Nat /\ OrderedBufferSize \in Nat /\ MaxSpan \in Nat /\ sent - L <= MaxSpan
    BY Ranges, ChannelAssumption DEF LinkInv, InOrder
  <1>2. \A s \in D : f[s] \in Nat /\ s = Wire(f[s]) /\ L < f[s] /\ f[s] < sent /\ f[s] # n
    BY DEF InOrder
  <1> HIDE DEF f, D, L
  <1>3. IsFiniteSet(R) /\ Cardinality(R) = sent - 1 - L /\ n \in R
    <2>1. L + 1 \in Int /\ sent - 1 \in Int /\ L + 1 <= sent - 1
      BY <1>1 DEF L
    <2>2. IsFiniteSet(R) /\ Cardinality(R) = (sent - 1) - (L + 1) + 1
      BY <2>1, FS_Interval
    <2>3. n \in R
      BY <1>1 DEF L
    <2> HIDE DEF R
    <2> QED BY <1>1, <2>2, <2>3
  <1> HIDE DEF R
  <1>4. IsFiniteSet(T) /\ Cardinality(T) = sent - 2 - L
    <2>1. Cardinality(T) = Cardinality(R) - 1 /\ IsFiniteSet(T)
      BY <1>3, FS_RemoveElement
    <2> HIDE DEF T
    <2> QED BY <1>1, <1>3, <2>1
  <1>5. f \in Injection(D, T)
    <2>1. \A s \in D : f[s] \in R
      BY <1>1, <1>2 DEF R
    <2>2. \A s \in D : f[s] \in T
      BY <1>2, <2>1
    <2>3. f \in [D -> T]
      BY <2>2 DEF f
    <2>4. \A s, t \in D : f[s] = f[t] => s = t
      BY <1>2
    <2> QED BY <2>3, <2>4 DEF Injection, IsInjective
  <1>6. Cardinality(D) <= Cardinality(T) /\ Cardinality(D) \in Nat
    BY <1>4, <1>5, FS_Injection, FS_CardinalityType
  <1> HIDE DEF T
  <1> QED BY <1>1, <1>4, <1>6 DEF D

LEMMA OrderedSettles ==
    ASSUME SpanFits, LinkInv, ReceiverInv, mode = "ReliableOrdered", HeldInv,
           OrderedBufferSize + 1 >= MaxSpan,
           NEW n, Within(n, sent, MaxSpan + Pieces), ReceiveOrdered(n),
           UNCHANGED <<config, sent>>
    PROVE  Settled(n)'
  <1> DEFINE L == Len(delivered)
             s == Wire(n)
             num(t) == orderedBuffer[t].num
             D == DOMAIN orderedBuffer
             row == [num |-> n, age |-> 0]
  <1>1. /\ L \in Nat /\ DOMAIN delivered = 1 .. L /\ delivered \in Seq(Nat) /\ InOrder
        /\ \A i \in DOMAIN delivered : delivered[i] = i - 1
        /\ expectedSeq = Wire(L) /\ L <= sent /\ sent - L <= MaxSpan /\ sent \in Nat
        /\ \A t \in D : num(t) \in Nat /\ t = Wire(num(t)) /\ L < num(t) /\ num(t) < sent
    BY DEF InOrder, ReceiverInv, LinkInv
  <1>2. n \in Nat /\ n < sent /\ n - L < Half /\ L - n < Half
    BY <1>1, Ranges DEF Within, SpanFits
  <1> HIDE DEF L, num, D
  <1>3. SeqGt(s, expectedSeq) <=> n > L
    BY <1>1, <1>2, WindowOrder
  <1>4. CASE FlushConsecutive(NextSeq(s), orderedBuffer, Append(delivered, n)) /\ Expected(s)
    <2> DEFINE k == RunLength(NextSeq(s), orderedBuffer)
               run == [i \in 1 .. k |-> orderedBuffer[Wire(NextSeq(s) + i - 1)].num]
    <2>1. delivered' = Append(delivered, n) \o run
      BY <1>4 DEF FlushConsecutive
    <2>2. k \in Nat /\ \A i \in 0 .. (k - 1) : Wire(NextSeq(s) + i) \in D
      <3>1. NextSeq(s) \in Seqs
        <4>1. s + 1 \in Nat
          BY <1>2, WireType, Ranges DEF Seqs
        <4> QED BY <4>1, WireType DEF NextSeq, Wire
      <3> QED BY <3>1, RunExists DEF HeldInv, Held, D
    <2> HIDE DEF k
    <2>3. run \in [1 .. k -> Nat]
      <3>1. ASSUME NEW i \in 1 .. k PROVE orderedBuffer[Wire(NextSeq(s) + i - 1)].num \in Nat
        <4> DEFINE z == NextSeq(s)
        <4>1. z \in Nat
          <5>1. s + 1 \in Nat
            BY <1>2, WireType, Ranges DEF Seqs
          <5>2. z \in Seqs
            BY <5>1, WireType DEF NextSeq, Wire
          <5> QED BY <5>2, Ranges DEF Seqs
        <4> HIDE DEF z
        <4>2. i - 1 \in 0 .. (k - 1) /\ z + (i - 1) = z + i - 1
          BY <2>2, <4>1
        <4>3. Wire(z + (i - 1)) \in D
          BY <2>2, <4>2 DEF z
        <4>4. Wire(z + i - 1) \in D
          BY <4>2, <4>3
        <4> QED BY <1>1, <4>4 DEF z, num
      <3> QED BY <3>1
    <2> HIDE DEF run
    <2>4. run \in Seq(Nat) /\ Len(run) \in Nat
      BY <2>2, <2>3, OfLength
    <2>5. delivered \in Seq(Nat) /\ run \in Seq(Nat) /\ n \in Nat
      BY <1>1, <1>2, <2>4
    <2>6. Joined(Append(delivered, n) \o run, delivered, n, run)
      BY <2>5, AppendKeeps, Zenon
    <2>7. delivered' \in Seq(Nat) /\ Len(delivered') = L + 1 + Len(run) /\ delivered'[L + 1] = n
      BY <2>1, <2>6 DEF Joined, L
    <2>8. L + 1 \in DOMAIN delivered'
      BY <1>1, <2>4, <2>7
    <2> QED BY <2>7, <2>8 DEF Settled
  <1>5. CASE orderedBuffer' = With(orderedBuffer, s, row)
    <2>1. s \in DOMAIN orderedBuffer' /\ orderedBuffer'[s] = row /\ row.num = n
      BY <1>5 DEF With
    <2> HIDE DEF row, s
    <2> QED BY <2>1 DEF Settled
  <1>6. CASE /\ s # expectedSeq /\ UNCHANGED recvVars
             /\ ~(/\ SeqGt(s, expectedSeq) /\ s \notin D
                  /\ Cardinality(D) < OrderedBufferSize)
    <2>1. delivered' = delivered /\ orderedBuffer' = orderedBuffer
      BY <1>6 DEF recvVars
    <2>2. n # L
      BY <1>1, <1>6
    <2>3. CASE n < L
      <3>1. n + 1 \in DOMAIN delivered /\ delivered[n + 1] = n
        BY <1>1, <1>2, <2>3, SMTT(30)
      <3> QED BY <2>1, <3>1 DEF Settled
    <2>4. CASE n > L
      <3>1. s \in D \/ ~(Cardinality(D) < OrderedBufferSize)
        BY <1>3, <1>6, <2>4
      <3>2. CASE \E t \in D : num(t) = n
        BY <2>1, <3>2 DEF Settled, D, num
      <3>3. CASE \A t \in D : num(t) # n
        <4>1. s \notin D
          <5>1. ASSUME s \in D PROVE FALSE
            <6>0. num(s) \in Nat /\ s = Wire(num(s)) /\ L < num(s) /\ num(s) < sent
              BY <1>1, <5>1
            <6>1. num(s) \in Nat /\ Wire(n) = Wire(num(s)) /\ num(s) - n < Half /\ n - num(s) < Half
              <7>1. Wire(n) = Wire(num(s))
                BY <6>0
              <7> DEFINE a == num(s)
              <7>2. a \in Nat /\ L < a /\ a < sent
                BY <6>0
              <7> HIDE DEF a
              <7>3. a - n < Half /\ n - a < Half
                BY <1>1, <1>2, <2>4, <7>2, Ranges DEF SpanFits
              <7> QED BY <6>0, <7>1, <7>3 DEF a
            <6>2. n = num(s)
              BY <1>2, <6>1, WireInjective
            <6> QED BY <3>3, <5>1, <6>2
          <5> QED BY <5>1
        <4>2. Cardinality(D) < OrderedBufferSize
          BY <1>1, <1>2, <2>4, <3>3, RoomAhead DEF D, L, num
        <4> QED BY <3>1, <4>1, <4>2
      <3> QED BY <3>2, <3>3
    <2> QED BY <1>1, <1>2, <2>2, <2>3, <2>4
  <1> QED BY <1>4, <1>5, <1>6 DEF ReceiveOrdered, Expected, IgnoreMessage, D

-----------------------------------------------------------------------------
\* Whatever the receiver does with a message, the message is in good hands afterwards.
LEMMA Settles ==
    ASSUME HandsFree, ChannelInv, HeldInv, HandsInv, Firm, isReliable,
           NEW n, Within(n, sent, MaxSpan + Pieces), OnMessageReceived(n),
           UNCHANGED <<config, sent>>
    PROVE  /\ Settled(n)'
           /\ mode' = "ReliableUnordered" => SeenDelivered'
           /\ isSequenced' => Newest'
  <1>1. /\ LinkInv /\ ReceiverInv /\ mode \in Modes /\ mode' = mode /\ n \in Nat /\ n < sent
        /\ isSequenced' = isSequenced
    BY DEF ChannelInv, config, isSequenced, Within
  <1>2. CASE mode = "ReliableUnordered"
    <2>1. ReceiveUnordered(n) /\ SeenDelivered /\ MaxMessages <= SeqSpace /\ ~isSequenced'
      BY <1>1, <1>2 DEF OnMessageReceived, ReceiveUnreliable, ReceiveSequenced, ReceiveOrdered,
                        isSequenced, HandsInv, HandsFree
    <2> QED BY <1>1, <2>1, UnorderedSettles
  <1>3. CASE mode = "ReliableSequenced"
    <2>1. isSequenced /\ ReceiveSequenced(n) /\ Newest /\ SpanFits
      BY <1>1, <1>3 DEF OnMessageReceived, ReceiveUnreliable, ReceiveUnordered, ReceiveOrdered,
                        isSequenced, HandsInv, HandsFree
    <2> QED BY <1>1, <1>3, <2>1, SequencedSettles
  <1>4. CASE mode = "ReliableOrdered"
    <2>1. ReceiveOrdered(n) /\ OrderedBufferSize + 1 >= MaxSpan /\ ~isSequenced' /\ SpanFits
      BY <1>1, <1>4 DEF OnMessageReceived, ReceiveUnreliable, ReceiveUnordered, ReceiveSequenced,
                        isSequenced, HandsFree
    <2> QED BY <1>1, <1>4, <2>1, OrderedSettles
  <1> QED BY <1>2, <1>3, <1>4 DEF isReliable

LEMMA HandsInit == HandsFree /\ Init => HandsInv
  <1> SUFFICES ASSUME HandsFree, Init PROVE HandsInv
    OBVIOUS
  <1>1. /\ sent = Start /\ acked = {} /\ arrived = {} /\ large = {} /\ gathered = {}
        /\ delivered = [i \in 1 .. Start |-> i - 1] /\ mode \in Modes
    BY DEF Init
  <1>2. Start \in Nat /\ MaxSpan \in Nat
    BY Ranges
  <1>3. LargeApart
    BY <1>1 DEF LargeApart
  <1>4. ASSUME mode = "ReliableUnordered" PROVE SeenDelivered
    <2>1. recvSeen = {Wire(n) : n \in 0 .. (Start - 1)}
      BY <1>4 DEF Init
    <2>2. ASSUME NEW n \in 0 .. (Start - 1) PROVE \E i \in DOMAIN delivered : Wire(n) = Wire(delivered[i])
      <3>1. n + 1 \in 1 .. Start /\ n + 1 - 1 = n
        BY <1>2
      <3>2. n + 1 \in DOMAIN delivered /\ delivered[n + 1] = n
        BY <1>1, <3>1
      <3> QED BY <3>2
    <2> QED BY <2>1, <2>2 DEF SeenDelivered
  <1>5. ASSUME isSequenced, isReliable PROVE Newest
    <2>1. Start > 0
      BY <1>1, <1>5 DEF isSequenced, isReliable, HandsFree
    <2>2. recvSeq = Wire(Start - 1)
      BY <1>5, <2>1 DEF Init
    <2>3. Start \in DOMAIN delivered /\ delivered[Start] = Start - 1
      BY <1>1, <1>2, <2>1
    <2>4. sent - (Start - 1) <= MaxSpan + 1
      BY <1>1, <1>2
    <2> QED BY <2>2, <2>3, <2>4 DEF Newest
  <1> QED BY <1>1, <1>3, <1>4, <1>5 DEF HandsInv

\* The sender's steps that take numbers
LEMMA HandsSend ==
    ASSUME HandsFree, ChannelInv, BufferInv, HandsInv, Send \/ SendLarge
    PROVE  HandsInv'
  <1>1. /\ sent \in Nat /\ sent' \in Nat /\ sent < sent' /\ Pieces \in Nat
        /\ UNCHANGED <<config, acked, arrived, gathered, recvVars>>
        /\ \/ large' = large
           \/ large' = large \cup {sent} /\ sent' = sent + Pieces + 1 /\ Pieces > 0
    BY Ranges DEF BufferInv, NumbersInv, Send, SendLarge, fragVars
  <1>0. PICK k \in Nat : CanSend(k) /\ sent' = sent + k /\ k > 0
    <2>1. CASE Send
      BY <2>1 DEF Send
    <2>2. CASE SendLarge
      <3>1. CanSend(Pieces + 1) /\ sent' = sent + Pieces + 1
        BY <2>2 DEF SendLarge
      <3>2. Pieces + 1 \in Nat /\ sent' = sent + (Pieces + 1)
        BY <1>1, <3>1
      <3> QED BY <1>1, <3>1, <3>2
    <2> QED BY <2>1, <2>2
  <1>2. /\ mode' = mode /\ isReliable' = isReliable /\ isSequenced' = isSequenced /\ Firm' = Firm
        /\ UNCHANGED <<recvSeq, recvSeen, orderedBuffer, delivered, gaveUp>>
    BY <1>1 DEF config, recvVars, isReliable, isSequenced, Firm
  <1>3. \A n : Settled(n)' = Settled(n)
    BY <1>2 DEF Settled
  <1>4. large \in SUBSET Nat /\ \A m \in large : m < sent
    BY DEF BufferInv, NumbersInv
  <1>5. LargeApart'
    <2>1. /\ gathered \in SUBSET (0 .. (sent - 1))
          /\ \A m \in large : m + Pieces < sent
          /\ \A m, l \in large : m < l => m + Pieces < l
      BY DEF HandsInv, LargeApart
    <2>2. gathered' \in SUBSET (0 .. (sent' - 1))
      <3>1. 0 .. (sent - 1) \in SUBSET (0 .. (sent' - 1))
        BY <1>1, <1>0
      <3>2. gathered' = gathered
        BY <1>1
      <3> QED BY <2>1, <3>1, <3>2, Zenon
    <2>3. ASSUME NEW m \in large' PROVE m + Pieces < sent'
      <3>1. CASE m \in large
        BY <1>0, <1>1, <1>4, <2>1, <3>1
      <3>2. CASE m = sent /\ sent' = sent + Pieces + 1
        BY <1>1, <3>2
      <3> QED BY <1>1, <3>1, <3>2
    <2>4. ASSUME NEW m \in large', NEW l \in large', m < l PROVE m + Pieces < l
      <3>1. m \in Nat /\ l \in Nat /\ (m \in large \/ m = sent) /\ (l \in large \/ l = sent)
        BY <1>1, <1>4
      <3>2. m \in large
        BY <1>1, <1>4, <2>4, <3>1
      <3> QED BY <2>1, <2>4, <3>1, <3>2
    <2> QED BY <2>2, <2>3, <2>4 DEF LargeApart
  <1>6. ASSUME isReliable, Firm, NEW m \in large', Whole(m, gathered) PROVE Settled(m)
    <2>1. CASE m \in large
      BY <1>6, <2>1 DEF HandsInv
    <2>2. CASE m = sent /\ Pieces > 0
      <3>1. sent + 1 \in PiecesOf(sent)
        BY <1>1, <2>2 DEF PiecesOf
      <3>2. sent + 1 \in gathered
        BY <1>6, <2>2, <3>1 DEF Whole
      <3> QED BY <1>1, <3>2 DEF HandsInv, LargeApart
    <2> QED BY <1>1, <2>1, <2>2
  <1>7. ASSUME isReliable, Firm, isSequenced PROVE Newest'
    <2>1. PICK i \in DOMAIN delivered : recvSeq = Wire(delivered[i]) /\ sent - delivered[i] <= MaxSpan + 1
      BY <1>7 DEF HandsInv, Newest
    <2>2. LinkInv /\ ReceiverInv /\ SpanFits
      BY <1>7 DEF ChannelInv, HandsFree
    <2>3. delivered[i] \in Nat /\ delivered[i] < sent
      BY <2>2 DEF ReceiverInv
    <2>5. sent - delivered[i] + k <= MaxSpan
      BY <1>0, <1>1, <1>7, <2>1, <2>2, <2>3, BehindIs
    <2>6. sent' - delivered[i] <= MaxSpan + 1
      BY <1>0, <1>1, <2>3, <2>5, Ranges
    <2> QED BY <1>2, <2>1, <2>6 DEF Newest
  <1>8. SeenDelivered' = SeenDelivered
    BY <1>2 DEF SeenDelivered
  <1>9. arrived' = arrived /\ acked' = acked /\ gathered' = gathered
    BY <1>1
  <1>10. ASSUME NEW m PROVE Whole(m, gathered)' = Whole(m, gathered)
    BY <1>9 DEF Whole, PiecesOf
  <1> QED BY <1>2, <1>3, <1>5, <1>6, <1>7, <1>8, <1>9, <1>10 DEF HandsInv

LEMMA HandsReceive ==
    ASSUME HandsFree, ChannelInv, BufferInv, HandsInv, NEW n \in DOMAIN copies, Receive(n)
    PROVE  HandsInv'
  <1>1. /\ UNCHANGED <<config, sent, acked, large, gathered>>
        /\ arrived' = IF isReliable THEN arrived \cup {n} ELSE arrived
        /\ copies[n] > 0 /\ OnMessageReceived(n)
    BY DEF Receive, WillBeAcknowledged, sendVars, fragVars
  <1>2. n \in Nat
    BY DEF BufferInv, NumbersInv
  <1>3. /\ mode' = mode /\ isReliable' = isReliable /\ isSequenced' = isSequenced
    BY <1>1 DEF config, isReliable, isSequenced
  <1>4. Keeps
    BY <1>1, <1>2, <1>3, ReceptionForgetsNone DEF BufferInv
  <1>5. LargeApart'
    BY <1>1 DEF HandsInv, LargeApart
  <1>6. ASSUME isReliable, Firm'
        PROVE  /\ \A m \in arrived' \cup acked' : Settled(m)' \/ m \in gathered'
               /\ \A m \in large' : Whole(m, gathered') => Settled(m)'
               /\ mode' = "ReliableUnordered" => SeenDelivered'
               /\ isSequenced' => Newest'
    <2>1. Firm
      BY <1>3, <1>4, <1>6 DEF Firm, Keeps
    <2>2. Within(n, sent, MaxSpan + Pieces)
      <3>1. Within(n, sent, MaxSpan) /\ sent \in Nat
        BY <1>1, <2>1 DEF ChannelInv, LinkInv
      <3> QED BY <3>1, Ranges DEF Within
    <2>3. /\ Settled(n)' /\ (mode' = "ReliableUnordered" => SeenDelivered')
          /\ (isSequenced' => Newest')
      BY <1>1, <1>6, <2>1, <2>2, Settles DEF BufferInv
    <2>4. ASSUME NEW m \in arrived' \cup acked' PROVE Settled(m)' \/ m \in gathered'
      <3>1. m = n \/ m \in arrived \cup acked
        BY <1>1
      <3>2. ASSUME m \in arrived \cup acked PROVE Settled(m) \/ m \in gathered'
        BY <1>1, <1>6, <2>1, <3>2 DEF HandsInv
      <3> QED BY <1>4, <2>3, <3>1, <3>2, SettledStays
    <2>5. ASSUME NEW m \in large', Whole(m, gathered') PROVE Settled(m)'
      <3>1. Settled(m)
        BY <1>1, <1>6, <2>1, <2>5 DEF HandsInv
      <3> QED BY <1>4, <3>1, SettledStays
    <2> QED BY <2>3, <2>4, <2>5
  <1>7. ASSUME ~isReliable PROVE arrived' = {} /\ acked' = {}
    BY <1>1, <1>7 DEF HandsInv
  <1>8. HandsInv' <=>
          /\ isReliable' \/ (arrived' = {} /\ acked' = {})
          /\ LargeApart'
          /\ isReliable' /\ Firm' =>
               /\ \A m \in arrived' \cup acked' : Settled(m)' \/ m \in gathered'
               /\ \A m \in large' : Whole(m, gathered') => Settled(m)'
               /\ mode' = "ReliableUnordered" => SeenDelivered'
               /\ isSequenced' => Newest'
    BY DEF HandsInv, Whole, PiecesOf
  <1> QED BY <1>3, <1>5, <1>6, <1>7, <1>8

\* A piece is with the assembler; with the last one the message itself arrives.
LEMMA HandsReceivePiece ==
    ASSUME HandsFree, ChannelInv, BufferInv, HandsInv, NEW n \in large, NEW piece \in marked,
           ReceivePiece(n, piece)
    PROVE  HandsInv'
  <1>1. /\ UNCHANGED <<config, sent, acked, large>> /\ gathered' = gathered \cup {piece}
        /\ arrived' = IF isReliable THEN arrived \cup {piece} ELSE arrived
        /\ piece \in PiecesOf(n)
        /\ IF Whole(n, gathered') THEN OnMessageReceived(n) ELSE IgnoreMessage
    BY DEF ReceivePiece, WillBeAcknowledged, sendVars
  <1>2. n \in Nat /\ piece \in 0 .. (sent - 1) /\ large \in SUBSET Nat
    BY DEF BufferInv, NumbersInv
  <1>3. /\ mode' = mode /\ isReliable' = isReliable /\ isSequenced' = isSequenced
    BY <1>1 DEF config, isReliable, isSequenced
  <1>4. Keeps
    BY <1>1, <1>2, <1>3, ReceptionForgetsNone DEF BufferInv
  <1>5. LargeApart'
    BY <1>1, <1>2 DEF HandsInv, LargeApart
  <1>6. ASSUME isReliable, Firm'
        PROVE  /\ \A m \in arrived' \cup acked' : Settled(m)' \/ m \in gathered'
               /\ \A m \in large' : Whole(m, gathered') => Settled(m)'
               /\ mode' = "ReliableUnordered" => SeenDelivered'
               /\ isSequenced' => Newest'
    <2>1. Firm
      BY <1>3, <1>4, <1>6 DEF Firm, Keeps
    <2>2. Within(n, sent, MaxSpan + Pieces)
      <3>1. Within(piece, sent, MaxSpan) /\ sent \in Nat
        BY <2>1 DEF ChannelInv, LinkInv
      <3>2. piece \in n + 1 .. n + Pieces
        BY <1>1 DEF PiecesOf
      <3> QED BY <1>2, <3>1, <3>2, Ranges DEF Within
    <2>3. Whole(n, gathered') => Settled(n)'
      BY <1>1, <1>6, <2>1, <2>2, Settles DEF BufferInv
    <2>4. /\ (mode' = "ReliableUnordered" => SeenDelivered')
          /\ (isSequenced' => Newest')
      <3>1. CASE Whole(n, gathered')
        BY <1>1, <1>6, <2>1, <2>2, <3>1, Settles DEF BufferInv
      <3>2. CASE IgnoreMessage
        BY <1>1, <1>3, <1>6, <2>1, <3>2 DEF HandsInv, IgnoreMessage, recvVars, SeenDelivered, Newest
      <3> QED BY <1>1, <3>1, <3>2
    <2>5. ASSUME NEW m \in arrived' \cup acked' PROVE Settled(m)' \/ m \in gathered'
      <3>1. m = piece \/ m \in arrived \cup acked
        BY <1>1
      <3>2. ASSUME m \in arrived \cup acked PROVE Settled(m) \/ m \in gathered'
        BY <1>1, <1>6, <2>1, <3>2 DEF HandsInv
      <3>3. piece \in gathered'
        BY <1>1
      <3> QED BY <1>4, <3>1, <3>2, <3>3, SettledStays
    <2>6. ASSUME NEW m \in large', Whole(m, gathered') PROVE Settled(m)'
      <3>1. CASE m = n
        BY <2>3, <2>6, <3>1
      <3>2. CASE m # n
        <4>1. piece \notin PiecesOf(m)
          <5>1. m \in Nat /\ (m < n \/ n < m) /\ Pieces \in Nat
            BY <1>1, <1>2, <3>2, Ranges
          <5>2. (m < n => m + Pieces < n) /\ (n < m => n + Pieces < m)
            BY <1>1 DEF HandsInv, LargeApart
          <5> QED BY <1>1, <1>2, <5>1, <5>2 DEF PiecesOf
        <4>2. Whole(m, gathered)
          BY <1>1, <2>6, <4>1 DEF Whole
        <4>3. Settled(m)
          BY <1>1, <1>6, <2>1, <4>2 DEF HandsInv
        <4> QED BY <1>4, <4>3, SettledStays
      <3> QED BY <3>1, <3>2
    <2> QED BY <2>4, <2>5, <2>6
  <1>7. ASSUME ~isReliable PROVE arrived' = {} /\ acked' = {}
    BY <1>1, <1>7 DEF HandsInv
  <1>8. HandsInv' <=>
          /\ isReliable' \/ (arrived' = {} /\ acked' = {})
          /\ LargeApart'
          /\ isReliable' /\ Firm' =>
               /\ \A m \in arrived' \cup acked' : Settled(m)' \/ m \in gathered'
               /\ \A m \in large' : Whole(m, gathered') => Settled(m)'
               /\ mode' = "ReliableUnordered" => SeenDelivered'
               /\ isSequenced' => Newest'
    BY DEF HandsInv, Whole, PiecesOf
  <1> QED BY <1>3, <1>5, <1>6, <1>7, <1>8

LEMMA HandsTick ==
    ASSUME HandsInv, ChannelInv, BufferInv, NEW d \in Frames, ReceiverTick(d)
    PROVE  HandsInv'
  <1>1. UNCHANGED <<config, recvSeq, sent, acked, arrived, large, gathered>>
        /\ recvSeen' \in SUBSET recvSeen
    BY DEF ReceiverTick, sendVars, linkVars, fragVars, CleanedDedupSet
  <1>2. mode' = mode /\ isReliable' = isReliable /\ isSequenced' = isSequenced
    BY <1>1 DEF config, isReliable, isSequenced
  <1>3. LargeApart'
    BY <1>1 DEF HandsInv, LargeApart
  <1>4. CASE ~Firm'
    BY <1>1, <1>2, <1>3, <1>4 DEF HandsInv
  <1>5. CASE Firm'
    <2>1. Keeps /\ delivered' = delivered
      BY <1>5, TickForgetsNone DEF BufferInv
    <2>2. Firm
      BY <1>2, <1>5, <2>1 DEF Firm, Keeps
    <2>3. ASSUME isReliable, NEW m \in arrived' \cup acked' PROVE Settled(m)' \/ m \in gathered'
      <3>1. Settled(m) \/ m \in gathered
        BY <1>1, <2>2, <2>3 DEF HandsInv
      <3> QED BY <1>1, <2>1, <3>1, SettledStays
    <2>4. ASSUME isReliable, NEW m \in large', Whole(m, gathered') PROVE Settled(m)'
      <3>1. Settled(m)
        BY <1>1, <2>2, <2>4 DEF HandsInv
      <3> QED BY <2>1, <3>1, SettledStays
    <2>5. ASSUME isReliable
          PROVE  /\ mode' = "ReliableUnordered" => SeenDelivered'
                 /\ isSequenced' => Newest'
      BY <1>1, <1>2, <2>1, <2>2, <2>5 DEF HandsInv, SeenDelivered, Newest
    <2>6. ASSUME ~isReliable PROVE arrived' = {} /\ acked' = {}
      BY <1>1, <2>6 DEF HandsInv
    <2>7. HandsInv' <=>
            /\ isReliable' \/ (arrived' = {} /\ acked' = {})
            /\ LargeApart'
            /\ isReliable' /\ Firm' =>
                 /\ \A m \in arrived' \cup acked' : Settled(m)' \/ m \in gathered'
                 /\ \A m \in large' : Whole(m, gathered') => Settled(m)'
                 /\ mode' = "ReliableUnordered" => SeenDelivered'
                 /\ isSequenced' => Newest'
      BY DEF HandsInv, Whole, PiecesOf
    <2> QED BY <1>2, <1>3, <2>3, <2>4, <2>5, <2>6, <2>7
  <1> QED BY <1>4, <1>5

LEMMA HandsStep == HandsFree /\ ChannelInv /\ BufferInv /\ HandsInv /\ [Next]_vars => HandsInv'
  <1> SUFFICES ASSUME HandsFree, ChannelInv, BufferInv, HandsInv, [Next]_vars PROVE HandsInv'
    OBVIOUS
  <1>1. ASSUME UNCHANGED <<config, sent, recvVars, fragVars>>,
               arrived' \cup acked' \in SUBSET (arrived \cup acked)
        PROVE  HandsInv'
    BY <1>1 DEF config, recvVars, fragVars, HandsInv, LargeApart, isReliable, isSequenced, Firm, Settled,
                Whole, PiecesOf, SeenDelivered, Newest
  <1>2. CASE Send \/ SendLarge
    BY <1>2, HandsSend
  <1>3. ASSUME NEW n \in large, NEW piece \in marked, ReceivePiece(n, piece) PROVE HandsInv'
    BY <1>3, HandsReceivePiece
  <1>4. ASSUME NEW n \in arrived, Acknowledge(n) PROVE HandsInv'
    BY <1>1, <1>4 DEF Acknowledge
  <1>5. ASSUME NEW n \in DOMAIN copies, Receive(n) PROVE HandsInv'
    BY <1>5, HandsReceive
  <1>6. ASSUME NEW d \in Frames, SenderTick(d) PROVE HandsInv'
    BY <1>1, <1>6 DEF SenderTick
  <1>7. ASSUME NEW d \in Frames, ReceiverTick(d) PROVE HandsInv'
    BY <1>7, HandsTick
  <1>8. CASE UNCHANGED vars
    BY <1>1, <1>8 DEF vars, sendVars, linkVars
  <1> QED BY <1>2, <1>3, <1>4, <1>5, <1>6, <1>7, <1>8 DEF Next

\* What the sender forgets because it was acknowledged is in good hands, for every size of
\* the buffers and every loss, duplication and delay (the packet is acknowledged whatever
\* onMessageReceived did with the message), given what HandsFree asks: the numbers under
\* way can be told apart, the ordered buffer has room for what is ahead, an unordered
\* channel does not come round its circle of numbers, and a sequenced channel has its
\* first message behind it.  Without one of these the acknowledged message can be lost.
THEOREM AcknowledgedIsSettled == HandsFree => (Spec => []AckedIsSettled)
  <1> SUFFICES ASSUME HandsFree PROVE Spec => []AckedIsSettled
    OBVIOUS
  <1>1. ChannelInv /\ HandsInv => AckedIsSettled
    <2> SUFFICES ASSUME HandsInv, NEW n \in acked
                 PROVE  \/ Settled(n)
                        \/ /\ n \in gathered
                           /\ \A m \in large : n \in PiecesOf(m) /\ Whole(m, gathered) => Settled(m)
      BY DEF AckedIsSettled
    <2>1. CASE ~Firm
      BY <2>1 DEF Firm, Settled
    <2>2. CASE Firm
      BY <2>2 DEF HandsInv
    <2> QED BY <2>1, <2>2
  <1>2. SpanFits
    BY DEF HandsFree
  <1>3. Spec => []ChannelInv
    BY <1>2, ChannelAlways
  <1>4. HandsFree /\ Init => HandsInv
    BY HandsInit
  <1>5. Init => HandsInv
    BY <1>4
  <1>6. ChannelInv /\ BufferInv /\ HandsInv /\ [Next]_vars => HandsInv'
    BY HandsStep
  <1> QED BY <1>1, <1>3, <1>5, <1>6, BufferInit, BufferStep, PTL DEF Spec
=============================================================================

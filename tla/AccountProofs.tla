--------------------------- MODULE AccountProofs ----------------------------
(***************************************************************************)
(* Theorems about the parts that keep accounts: of the fragments of a      *)
(* message, of bytes in flight and transferred, of requests, tokens and    *)
(* moves, of the packets in the networks the tests run on, and of the      *)
(* snapshots a delta is taken from.                                        *)
(***************************************************************************)
EXTENDS Fragment, Cwnd, RateLimiter, TokenValidator, Bandwidth, Migration, Simulator, TestNet, Delta,
        CommonProofs

-----------------------------------------------------------------------------
(* The assembler: what it hands on is what was sent, for messages of any size, any
   link and any limits. *)

\* A fragment of a message that was sent, as splitMessage makes it.
Genuine(f) ==
    /\ f.id \in SentMessages
    /\ f.idx \in 0 .. (FragCount(MessageSize(f.id)) - 1)
    /\ f.cnt = FragCount(MessageSize(f.id))
    /\ f.len = SliceLen(MessageSize(f.id), f.idx)

\* A buffer that holds slices of its own message only, each at its index.
Holds(k, b) ==
    /\ DOMAIN b.fragments \subseteq 0 .. (FragCount(MessageSize(k)) - 1)
    /\ b = [fragments |-> [i \in DOMAIN b.fragments |-> SliceLen(MessageSize(k), i)],
            count |-> FragCount(MessageSize(k)), age |-> b.age, totalSize |-> b.totalSize]

Whole(m) == /\ m.id \in SentMessages
            /\ m.data = [i \in 0 .. (FragCount(MessageSize(m.id)) - 1)
                            |-> SliceLen(MessageSize(m.id), i)]

\* The inductive invariant.  Nothing in it is about time, memory or the order
\* of arrival: buffers may come and go as they like.
AssemblerInv ==
    /\ messages \in Seq(MessageSizes)
    /\ \A f \in DOMAIN link : Genuine(f)
    /\ \A k \in DOMAIN buffers : k \in SentMessages /\ Holds(k, buffers[k])
    /\ \A m \in assembled : Whole(m)

LEMMA FragCountNat == \A size \in Nat \ {0} : FragCount(size) \in Nat \ {0}
<1> SUFFICES ASSUME NEW size \in Nat \ {0} PROVE FragCount(size) \in Nat \ {0}
  OBVIOUS
<1>1. MaxFragPayload \in Nat \ {0}
  BY FragmentAssumption
<1> QED
  BY <1>1 DEF FragCount

LEMMA SizeNat ==
    ASSUME messages \in Seq(MessageSizes), NEW n \in SentMessages
    PROVE  MessageSize(n) \in Nat \ {0}
<1>1. n + 1 \in 1 .. Len(messages)
  BY DEF SentMessages
<1>2. messages[n + 1] \in MessageSizes
  BY <1>1
<1> QED
  BY <1>2, FragmentAssumption DEF MessageSize

\* As many distinct indices as there are fragments are all of them.
LEMMA CompleteIsWhole ==
    ASSUME messages \in Seq(MessageSizes), NEW k \in SentMessages,
           NEW b, Holds(k, b), Complete(b)
    PROVE  b.fragments = [i \in 0 .. (FragCount(MessageSize(k)) - 1)
                             |-> SliceLen(MessageSize(k), i)]
<1> DEFINE c == FragCount(MessageSize(k))
           D == DOMAIN b.fragments
<1>1. c \in Nat \ {0}
  BY SizeNat, FragCountNat
<1>2. /\ D \subseteq 0 .. (c - 1)
      /\ b.fragments = [i \in D |-> SliceLen(MessageSize(k), i)]
      /\ b.count = c
  BY DEF Holds
<1>3. Cardinality(D) = c
  BY <1>2 DEF Complete
<1>4. IsFiniteSet(0 .. (c - 1)) /\ Cardinality(0 .. (c - 1)) = c
  <2> HIDE DEF c
  <2>1. 0 \in Int /\ c - 1 \in Int /\ ~(0 > c - 1) /\ (c - 1) - 0 + 1 = c
    BY <1>1
  <2> QED
    BY <2>1, FS_Interval, Zenon
<1>5. D = 0 .. (c - 1)
  BY <1>2, <1>3, <1>4, FS_Subset
<1> QED
  BY <1>2, <1>5

LEMMA AssemblerInit == FragmentInit => AssemblerInv
BY DEF FragmentInit, AssemblerInv, NoBuffers

\* Sending adds a message and leaves the sizes of the others alone.
LEMMA SendKeeps ==
    ASSUME AssemblerInv, NEW size \in MessageSizes, SendFragmented(size)
    PROVE  AssemblerInv'
<1> DEFINE n == Len(messages)
<1>1. messages \in Seq(MessageSizes) /\ messages' = Append(messages, size)
  BY DEF AssemblerInv, SendFragmented
<1>2. messages' \in Seq(MessageSizes) /\ Len(messages') = n + 1 /\ n \in Nat
  BY <1>1
<1>3. \A k \in SentMessages : k \in SentMessages' /\ MessageSize(k)' = MessageSize(k)
  BY <1>1, <1>2 DEF SentMessages, MessageSize
<1>4. \A k : k = n => k \in SentMessages' /\ MessageSize(k)' = size
  <2> SUFFICES ASSUME NEW k, k = n PROVE k \in SentMessages' /\ MessageSize(k)' = size
    OBVIOUS
  <2>1. k \in 0 .. (Len(messages') - 1) /\ messages'[k + 1] = size
    BY <1>1, <1>2
  <2> QED
    BY <2>1 DEF SentMessages, MessageSize
<1>5. \A f \in DOMAIN link : Genuine(f)'
  <2> SUFFICES ASSUME NEW f \in DOMAIN link PROVE Genuine(f)'
    OBVIOUS
  <2>1. Genuine(f)
    BY DEF AssemblerInv
  <2> QED
    BY <2>1, <1>3 DEF Genuine
<1>6. \A f \in Split(n, size) : Genuine(f)'
  <2> SUFFICES ASSUME NEW f \in Split(n, size) PROVE Genuine(f)'
    OBVIOUS
  <2>1. PICK i \in 0 .. (FragCount(size) - 1) :
          f = [id |-> n, idx |-> i, cnt |-> FragCount(size), len |-> SliceLen(size, i)]
    BY DEF Split
  <2>2. f.id = n /\ f.idx = i /\ f.cnt = FragCount(size) /\ f.len = SliceLen(size, i)
    BY <2>1
  <2>3. f.id \in SentMessages' /\ MessageSize(f.id)' = size
    BY <2>2, <1>4
  <2> QED
    BY <2>2, <2>3 DEF Genuine
<1>7. \A f \in (DOMAIN link)' : Genuine(f)'
  <2>1. (DOMAIN link)' = DOMAIN link \cup Split(n, size)
    BY DEF SendFragmented
  <2> QED
    BY <2>1, <1>5, <1>6
<1>8. \A k \in (DOMAIN buffers)' : (k \in SentMessages /\ Holds(k, buffers[k]))'
  <2> SUFFICES ASSUME NEW k \in DOMAIN buffers
               PROVE  (k \in SentMessages /\ Holds(k, buffers[k]))'
    BY DEF SendFragmented
  <2>1. k \in SentMessages /\ Holds(k, buffers[k])
    BY DEF AssemblerInv
  <2>2. buffers' = buffers
    BY DEF SendFragmented
  <2> QED
    BY <2>1, <2>2, <1>3 DEF Holds
<1>9. \A m \in assembled' : Whole(m)'
  <2> SUFFICES ASSUME NEW m \in assembled PROVE Whole(m)'
    BY DEF SendFragmented
  <2>1. Whole(m)
    BY DEF AssemblerInv
  <2> QED
    BY <2>1, <1>3 DEF Whole
<1> QED
  BY <1>2, <1>7, <1>8, <1>9 DEF AssemblerInv

\* A genuine fragment keeps the buffer it is put into its message's own.
LEMMA BufferHolds ==
    ASSUME AssemblerInv, NEW f, Genuine(f), ~Ignored(f)
    PROVE  Holds(f.id, Buffer(f))
<1> DEFINE size == MessageSize(f.id)
<1>1. CASE f.id \in DOMAIN buffers
  <2> DEFINE b == buffers[f.id]
  <2>1. Holds(f.id, b)
    BY <1>1 DEF AssemblerInv
  <2>2. b.count = FragCount(size) /\ b.fragments = [i \in DOMAIN b.fragments |-> SliceLen(size, i)]
    BY <2>1 DEF Holds
  <2>3. Buffer(f) = [fragments |-> Put(b.fragments, f.idx, f.len), count |-> b.count,
                     age |-> b.age, totalSize |-> b.totalSize + f.len]
    BY <1>1 DEF Buffer
  <2>5. Put(b.fragments, f.idx, f.len)
          = [i \in DOMAIN b.fragments \cup {f.idx} |-> SliceLen(size, i)]
    <3>1. b.fragments = [i \in DOMAIN b.fragments |-> SliceLen(size, i)]
      BY <2>2
    <3>2. f.len = SliceLen(size, f.idx)
      BY DEF Genuine
    <3>3. \A i \in DOMAIN b.fragments : b.fragments[i] = SliceLen(size, i)
      BY <3>1
    <3> QED
      BY <3>2, <3>3 DEF Put
  <2>6. DOMAIN b.fragments \cup {f.idx} \subseteq 0 .. (FragCount(size) - 1)
    BY <2>1 DEF Holds, Genuine
  <2> DEFINE G == [i \in DOMAIN b.fragments \cup {f.idx} |-> SliceLen(size, i)]
             a == b.age
             t == b.totalSize + f.len
  <2>7. Buffer(f) = [fragments |-> G, count |-> FragCount(size), age |-> a, totalSize |-> t]
    BY <2>2, <2>3, <2>5
  <2>8. DOMAIN G = DOMAIN b.fragments \cup {f.idx}
    OBVIOUS
  <2> QED
    BY <2>6, <2>7, <2>8 DEF Holds
<1>2. CASE f.id \notin DOMAIN buffers
  <2>1. Buffer(f) = NewBuffer(f)
    BY <1>2 DEF Buffer
  <2>2. f.idx \in 0 .. (FragCount(size) - 1) /\ f.cnt = FragCount(size)
        /\ f.len = SliceLen(size, f.idx)
    BY DEF Genuine
  <2>3. NewBuffer(f) = [fragments |-> [i \in {f.idx} |-> SliceLen(size, i)],
                        count |-> FragCount(size), age |-> 0, totalSize |-> f.len]
    BY <2>2 DEF NewBuffer
  <2> QED
    BY <2>1, <2>2, <2>3 DEF Holds
<1> QED
  BY <1>1, <1>2

LEMMA InsertKeeps ==
    ASSUME AssemblerInv, NEW f, Genuine(f), ~Ignored(f), Insert(f), messages' = messages
    PROVE  /\ \A k \in (DOMAIN buffers)' : k \in SentMessages /\ Holds(k, buffers'[k])
           /\ \A m \in assembled' : Whole(m)
<1> DEFINE grown   == Put(buffers, f.id, Buffer(f))
           evicted == Evicted(grown, currentSize + f.len)
           kept    == Without(grown, evicted)
           done    == {k \in DOMAIN kept : k = f.id /\ Complete(kept[k])}
<1>1. \A k \in DOMAIN grown : k \in SentMessages /\ Holds(k, grown[k])
  <2>1. Holds(f.id, Buffer(f)) /\ f.id \in SentMessages
    BY BufferHolds DEF Genuine
  <2> QED
    BY <2>1 DEF AssemblerInv, Put
<1>2. DOMAIN kept \subseteq DOMAIN grown /\ \A k \in DOMAIN kept : kept[k] = grown[k]
  <2> HIDE DEF grown, evicted
  <2> QED
    BY DEF Without
<1>3. /\ buffers' = Without(kept, done)
      /\ assembled' = assembled \cup {[id |-> k, data |-> kept[k].fragments] : k \in done}
  BY DEF Insert
<1>4. \A k \in DOMAIN kept : k \in SentMessages /\ Holds(k, kept[k])
  <2> HIDE DEF grown, kept
  <2> QED
    BY <1>1, <1>2
<1>5. \A k \in (DOMAIN buffers)' : k \in SentMessages /\ Holds(k, buffers'[k])
  <2> HIDE DEF kept, done
  <2> QED
    BY <1>3, <1>4 DEF Without
<1>6. \A m \in assembled' : Whole(m)
  <2> SUFFICES ASSUME NEW m \in assembled' PROVE Whole(m)
    OBVIOUS
  <2>1. CASE m \in assembled
    BY <2>1 DEF AssemblerInv
  <2>2. CASE m \notin assembled
    <3>1. PICK k \in done : m = [id |-> k, data |-> kept[k].fragments]
      <4> HIDE DEF kept, done
      <4> QED
        BY <2>2, <1>3
    <3>2. k \in DOMAIN kept /\ Complete(kept[k])
      <4> HIDE DEF kept
      <4> QED
        BY <3>1
    <3>3. k \in SentMessages /\ Holds(k, kept[k])
      <4> HIDE DEF kept, done
      <4> QED
        BY <3>2, <1>4
    <3>4. messages \in Seq(MessageSizes)
      BY DEF AssemblerInv
    <3>5. kept[k].fragments = [i \in 0 .. (FragCount(MessageSize(k)) - 1)
                                  |-> SliceLen(MessageSize(k), i)]
      <4> HIDE DEF kept, done
      <4> QED
        BY <3>2, <3>3, <3>4, CompleteIsWhole
    <3> HIDE DEF kept, done
    <3> QED
      BY <3>1, <3>3, <3>5 DEF Whole
  <2> QED
    BY <2>1, <2>2
<1> QED
  BY <1>5, <1>6

LEMMA AssemblerStep == AssemblerInv /\ [FragmentNext]_fragmentVars => AssemblerInv'
<1> SUFFICES ASSUME AssemblerInv, [FragmentNext]_fragmentVars PROVE AssemblerInv'
  OBVIOUS
<1>1. ASSUME NEW size \in MessageSizes, SendFragmented(size) PROVE AssemblerInv'
  BY <1>1, SendKeeps
<1>2. ASSUME NEW f \in DOMAIN link, ReceiveFragment(f) PROVE AssemblerInv'
  <2>1. messages' = messages /\ (DOMAIN link)' \subseteq DOMAIN link
    BY <1>2 DEF ReceiveFragment, Without
  <2>2. Genuine(f)
    BY DEF AssemblerInv
  <2>3. messages' \in Seq(MessageSizes) /\ \A g \in (DOMAIN link)' : Genuine(g)'
    BY <2>1 DEF AssemblerInv, Genuine, SentMessages, MessageSize
  <2>4. /\ \A k \in (DOMAIN buffers)' : k \in SentMessages /\ Holds(k, buffers'[k])
        /\ \A m \in assembled' : Whole(m)
    <3>1. CASE Ignored(f) /\ UNCHANGED <<buffers, assembled>>
      BY <3>1 DEF AssemblerInv
    <3>2. CASE ~Ignored(f) /\ Insert(f)
      BY <3>2, <2>1, <2>2, InsertKeeps
    <3> QED
      BY <1>2, <3>1, <3>2 DEF ReceiveFragment
  <2>5. \A k \in (DOMAIN buffers)' : (k \in SentMessages /\ Holds(k, buffers[k]))'
    BY <2>1, <2>4 DEF Holds, SentMessages, MessageSize
  <2>6. \A m \in assembled' : Whole(m)'
    BY <2>1, <2>4 DEF Whole, SentMessages, MessageSize
  <2> QED
    BY <2>3, <2>5, <2>6 DEF AssemblerInv
<1>3. CASE AssemblerUpdate
  <2>1. messages' = messages /\ link' = link /\ assembled' = assembled
    BY <1>3 DEF AssemblerUpdate
  <2>2. DOMAIN buffers' \subseteq DOMAIN buffers
        /\ \A k \in DOMAIN buffers' : buffers'[k] = Aged[k]
    BY <1>3 DEF AssemblerUpdate, Without, Aged
  <2>3. \A k \in DOMAIN buffers : Holds(k, Aged[k])
    <3> SUFFICES ASSUME NEW k \in DOMAIN buffers PROVE Holds(k, Aged[k])
      OBVIOUS
    <3> DEFINE b == buffers[k]
               t == IF b.age < FragmentTimeout THEN b.age + 1 ELSE b.age
    <3>1. Holds(k, b)
      BY DEF AssemblerInv
    <3>2. Aged[k] = [b EXCEPT !.age = t]
      BY DEF Aged
    <3>3. b = [fragments |-> [i \in DOMAIN b.fragments |-> SliceLen(MessageSize(k), i)],
               count |-> FragCount(MessageSize(k)), age |-> b.age, totalSize |-> b.totalSize]
      BY <3>1 DEF Holds
    <3>4. Aged[k] = [fragments |-> b.fragments, count |-> FragCount(MessageSize(k)),
                     age |-> t, totalSize |-> b.totalSize]
      BY <3>2, <3>3
    <3>5. DOMAIN b.fragments \subseteq 0 .. (FragCount(MessageSize(k)) - 1)
          /\ b.fragments = [i \in DOMAIN b.fragments |-> SliceLen(MessageSize(k), i)]
      BY <3>1 DEF Holds
    <3> QED
      BY <3>4, <3>5 DEF Holds
  <2>4. \A k \in (DOMAIN buffers)' : k \in SentMessages /\ Holds(k, buffers'[k])
    BY <2>2, <2>3 DEF AssemblerInv
  <2>5. \A k \in (DOMAIN buffers)' : (k \in SentMessages /\ Holds(k, buffers[k]))'
    BY <2>1, <2>4 DEF Holds, SentMessages, MessageSize
  <2> QED
    BY <2>1, <2>5 DEF AssemblerInv, Genuine, Whole, SentMessages, MessageSize
<1>4. CASE UNCHANGED fragmentVars
  BY <1>4 DEF fragmentVars, AssemblerInv, Genuine, Holds, Whole, SentMessages, MessageSize
<1> QED
  BY <1>1, <1>2, <1>3, <1>4 DEF FragmentNext

THEOREM AssemblerInvariance == FragmentSpec => []AssemblerInv
BY AssemblerInit, AssemblerStep, PTL DEF FragmentSpec

-----------------------------------------------------------------------------
\* What the assembler hands on is a message that was sent, whole and in order,
\* whatever was lost, repeated, evicted or timed out on the way.
THEOREM WholeMessages == FragmentSpec => []AssembledWhole
<1>1. AssemblerInv => AssembledWhole
  BY DEF AssemblerInv, Whole, AssembledWhole
<1> QED
  BY <1>1, AssemblerInvariance, PTL

-----------------------------------------------------------------------------
(* The congestion window. *)

\* A controller that is where its phase says, with room for the bytes that are tracked.
Controllers == [phase : {"slow start", "avoidance", "recovery"}, window : Nat, ssthresh : Nat,
                inFlight : Nat, recoverySeq : Seqs]
Sound(c) ==
    /\ c \in Controllers /\ c.window >= Floor /\ c.ssthresh >= Floor
    /\ c.phase = "slow start" => c.window < c.ssthresh
    /\ c.phase = "avoidance"  => c.window >= c.ssthresh
    /\ c.phase = "recovery"   => c.window = c.ssthresh

LEMMA WindowEnds ==
    /\ Mss \in Nat \ {0} /\ Floor \in Nat \ {0} /\ InitialMss * Mss \in Nat
    /\ InitialMss * Mss >= Floor /\ DefaultThreshold \in Nat /\ InitialMss * Mss < DefaultThreshold
    /\ IdleAfter \in Nat \ {0} /\ AckBits \in Nat /\ NackThreshold \in Nat /\ MaxPackets \in Nat
<1>1. Mss \in Nat \ {0} /\ MinMss \in Nat \ {0} /\ InitialMss \in Nat /\ MinMss <= InitialMss
      /\ DefaultThreshold \in Nat /\ InitialMss * Mss < DefaultThreshold
      /\ IdleAfter \in Nat \ {0} /\ AckBits \in Nat /\ NackThreshold \in Nat /\ MaxPackets \in Nat
  BY CwndAssumption
<1>2. \A a, b \in Nat \ {0} : a * b \in Nat \ {0}
  BY Z3
<1>3. \A a, b \in Nat : a * b \in Nat
  BY Z3
<1>4. \A a, b, c \in Nat : a <= b => a * c <= b * c
  BY Z3
<1>5. MinMss * Mss \in Nat \ {0}
  BY <1>1, <1>2
<1>6. InitialMss * Mss \in Nat
  BY <1>1, <1>3
<1>7. MinMss * Mss <= InitialMss * Mss
  BY <1>1, <1>4
<1> QED
  BY <1>1, <1>5, <1>6, <1>7 DEF Floor

LEMMA SoundIs ==
    ASSUME NEW c \in Controllers, NEW p, NEW w, NEW s, c.phase = p, c.window = w, c.ssthresh = s,
           w >= Floor, s >= Floor,
           p = "slow start" => w < s, p = "avoidance" => w >= s, p = "recovery" => w = s
    PROVE  Sound(c)
BY Zenon DEF Sound

\* What an acknowledgement adds to the window.
LEMMA OnAckSound ==
    ASSUME NEW c, Sound(c), NEW bytes \in Nat
    PROVE  Sound(OnAck(c, bytes)) /\ OnAck(c, bytes).inFlight = c.inFlight
<1>1. c \in Controllers /\ c.window \in Nat \ {0} /\ c.window >= Floor /\ Floor \in Nat
  <2>1. c \in Controllers /\ c.window >= Floor
    BY DEF Sound
  <2>2. c.window \in Nat
    BY <2>1 DEF Controllers
  <2>3. Floor \in Nat \ {0}
    BY WindowEnds
  <2> HIDE DEF Floor
  <2> QED
    BY <2>1, <2>2, <2>3
<1>2. (Mss * bytes) \div c.window \in Nat
  <2>1. Mss * bytes \in Nat
    <3>1. \A a, b \in Nat : a * b \in Nat
      BY Z3
    <3> QED
      BY <3>1, WindowEnds
  <2>2. \A a \in Nat, b \in Nat \ {0} : a \div b \in Nat
    BY Z3
  <2> QED
    BY <1>1, <2>1, <2>2
<1> DEFINE g == Grown(c, bytes)
<1>3. g \in Nat /\ g >= c.window
      /\ (c.phase = "recovery" => g = c.window)
  <2> DEFINE add == (Mss * bytes) \div c.window
  <2> HIDE DEF add
  <2>1. Grown(c, bytes) = IF c.phase = "slow start" THEN c.window + bytes
                          ELSE IF c.phase = "avoidance" THEN c.window + add ELSE c.window
    BY DEF Grown, add
  <2>2. add \in Nat
    BY <1>2 DEF add
  <2>3. g = c.window + bytes \/ g = c.window + add \/ g = c.window
    BY <2>1
  <2>4. c.phase = "recovery" => g = c.window
    BY <2>1
  <2> HIDE DEF g
  <2> QED
    BY <1>1, <2>2, <2>3, <2>4
<1> HIDE DEF g
<1>4. AtLeast(g, Floor) = g
  BY <1>1, <1>3 DEF AtLeast
<1> DEFINE p == IF c.phase = "slow start" /\ g >= c.ssthresh THEN "avoidance" ELSE c.phase
<1>5. OnAck(c, bytes) = [c EXCEPT !.window = g, !.phase = p]
  <2>1. AtLeast(Grown(c, bytes), Floor) = g
    BY <1>4 DEF g
  <2> QED
    BY <2>1 DEF OnAck, g
<1>6. p \in {"slow start", "avoidance", "recovery"}
  BY <1>1 DEF Controllers
<1>7. /\ p = "slow start" => g < c.ssthresh
      /\ p = "avoidance"  => g >= c.ssthresh
      /\ p = "recovery"   => g = c.ssthresh
  <2>1. c.ssthresh \in Nat /\ c.window \in Nat /\ c.phase \in {"slow start", "avoidance", "recovery"}
    BY <1>1 DEF Controllers
  <2>2. CASE c.phase = "slow start"
    <3>1. CASE g >= c.ssthresh
      <4>1. p = "avoidance" /\ p # "slow start" /\ p # "recovery"
        BY <2>2, <3>1
      <4> HIDE DEF p
      <4> QED
        BY <3>1, <4>1, Zenon
    <3>2. CASE ~ (g >= c.ssthresh)
      <4>1. p = "slow start" /\ p # "avoidance" /\ p # "recovery"
        BY <2>2, <3>2
      <4> HIDE DEF p
      <4>2. g < c.ssthresh
        <5>1. g \in Nat /\ c.ssthresh \in Nat
          BY <1>3, <2>1
        <5>2. \A a, b \in Nat : ~ (a >= b) => a < b
          OBVIOUS
        <5> QED
          BY <3>2, <5>1, <5>2, Zenon
      <4> QED
        BY <4>1, <4>2, Zenon
    <3> QED
      BY <3>1, <3>2
  <2>3. CASE c.phase = "avoidance"
    <3>1. p = "avoidance" /\ p # "slow start" /\ p # "recovery"
      BY <2>3
    <3>2. c.window >= c.ssthresh
      BY <2>3 DEF Sound
    <3> HIDE DEF p
    <3>3. g >= c.ssthresh
      <4>1. \A a, b, e \in Nat : a >= b /\ b >= e => a >= e
        OBVIOUS
      <4> QED
        BY <1>3, <2>1, <3>2, <4>1
    <3> QED
      BY <3>1, <3>3, Zenon
  <2>4. CASE c.phase = "recovery"
    <3>1. p = "recovery" /\ p # "slow start" /\ p # "avoidance"
      BY <2>4
    <3>2. c.window = c.ssthresh /\ g = c.window
      BY <2>4, <1>3 DEF Sound
    <3> HIDE DEF p
    <3> QED
      BY <3>1, <3>2, Zenon
  <2> QED
    BY <2>1, <2>2, <2>3, <2>4
<1> HIDE DEF p
<1> DEFINE d == [c EXCEPT !.window = g, !.phase = p]
<1>8. d \in Controllers /\ d.window = g /\ d.phase = p /\ d.ssthresh = c.ssthresh /\ d.inFlight = c.inFlight
  BY <1>1, <1>3, <1>6 DEF Controllers
<1> HIDE DEF d
<1>9. g >= Floor
  BY <1>1, <1>3
<1>10. Sound(d)
  BY <1>7, <1>8, <1>9 DEF Sound
<1> QED
  BY <1>5, <1>8, <1>10 DEF d

LEMMA OnAckSeqSound ==
    ASSUME NEW c, Sound(c), NEW seq, NEW bytes \in Nat
    PROVE  /\ Sound(OnAckSeq(c, seq, bytes))
           /\ OnAckSeq(c, seq, bytes).inFlight = IF c.inFlight >= bytes THEN c.inFlight - bytes ELSE 0
<1> DEFINE p == IF c.phase = "recovery" /\ SeqGt(seq, c.recoverySeq) THEN "avoidance" ELSE c.phase
           f == AtLeast(c.inFlight - bytes, 0)
           d == [c EXCEPT !.inFlight = f, !.phase = p]
<1>1. OnAckSeq(c, seq, bytes) = d
  BY DEF OnAckSeq
<1>2. c \in Controllers /\ c.inFlight \in Nat /\ c.window \in Nat /\ c.ssthresh \in Nat
      /\ c.phase \in {"slow start", "avoidance", "recovery"}
  BY DEF Sound, Controllers
<1>3. f \in Nat /\ f = IF c.inFlight >= bytes THEN c.inFlight - bytes ELSE 0
  <2>1. \A a \in Nat : AtLeast(a - bytes, 0) \in Nat
                      /\ AtLeast(a - bytes, 0) = IF a >= bytes THEN a - bytes ELSE 0
    BY DEF AtLeast
  <2> QED
    BY <1>2, <2>1
<1>4. p \in {"slow start", "avoidance", "recovery"} /\ (p = c.phase \/ (c.phase = "recovery" /\ p = "avoidance"))
  BY <1>2
<1> HIDE DEF p, f
<1>5. d \in Controllers /\ d.window = c.window /\ d.phase = p /\ d.ssthresh = c.ssthresh /\ d.inFlight = f
  BY <1>2, <1>3, <1>4 DEF Controllers
<1> HIDE DEF d
<1>6. Sound(d)
  <2>1. CASE p = c.phase
    BY <1>5, <2>1 DEF Sound
  <2>2. CASE c.phase = "recovery" /\ p = "avoidance"
    <3>1. p # "slow start" /\ p # "recovery"
      BY <2>2
    <3>2. c.window = c.ssthresh /\ c.window >= Floor /\ c.ssthresh >= Floor
      BY <2>2 DEF Sound
    <3>3. c.window >= c.ssthresh
      <4>1. \A a \in Nat : a >= a
        OBVIOUS
      <4> QED
        BY <1>2, <3>2, <4>1, Zenon
    <3> QED
      BY <1>5, <3>1, <3>2, <3>3, SoundIs, Zenon
  <2> QED
    BY <1>4, <2>1, <2>2
<1> QED
  BY <1>1, <1>3, <1>5, <1>6

LEMMA OnLossSound ==
    ASSUME NEW c, Sound(c), NEW seq \in Seqs
    PROVE  Sound(OnLoss(c, seq)) /\ OnLoss(c, seq).inFlight = c.inFlight
<1> DEFINE w == HalfWindow(c.window)
           d == [c EXCEPT !.ssthresh = w, !.window = w, !.phase = "recovery", !.recoverySeq = seq]
<1>1. c \in Controllers /\ c.window \in Nat
  BY DEF Sound, Controllers
<1>2. w \in Nat /\ w >= Floor
  <2>1. c.window \div 2 \in Nat /\ Floor \in Nat
    BY <1>1, WindowEnds
  <2> QED
    BY <2>1 DEF HalfWindow, AtLeast
<1> HIDE DEF w
<1>3. d \in Controllers /\ d.window = w /\ d.phase = "recovery" /\ d.ssthresh = w /\ d.inFlight = c.inFlight
  BY <1>1, <1>2 DEF Controllers
<1> HIDE DEF d
<1>4. Sound(d)
  <2>1. d.phase # "slow start" /\ d.phase # "avoidance"
    BY <1>3
  <2> QED
    BY <1>2, <1>3, <2>1 DEF Sound
<1>5. OnLoss(c, seq) = c \/ OnLoss(c, seq) = d
  BY DEF OnLoss, d, w
<1> QED
  BY <1>3, <1>4, <1>5

LEMMA CheckIdleSound ==
    ASSUME NEW c, Sound(c), NEW age
    PROVE  Sound(CheckIdle(c, age)) /\ CheckIdle(c, age).inFlight = c.inFlight
<1> DEFINE w == InitialMss * Mss
           d == [c EXCEPT !.phase = "slow start", !.window = w, !.ssthresh = DefaultThreshold]
<1>1. c \in Controllers
  BY DEF Sound
<1>2. w \in Nat /\ w >= Floor /\ w < DefaultThreshold /\ DefaultThreshold \in Nat /\ Floor \in Nat
  BY WindowEnds
<1> HIDE DEF w
<1>3. d \in Controllers /\ d.window = w /\ d.phase = "slow start" /\ d.ssthresh = DefaultThreshold /\ d.inFlight = c.inFlight
  BY <1>1, <1>2 DEF Controllers
<1> HIDE DEF d
<1>4. Sound(d)
  <2>1. "slow start" # "avoidance" /\ "slow start" # "recovery"
    OBVIOUS
  <2>2. DefaultThreshold >= Floor
    BY <1>2
  <2> QED
    BY <1>2, <1>3, <2>1, <2>2, SoundIs, Zenon
<1>5. CheckIdle(c, age) = c \/ CheckIdle(c, age) = d
  BY DEF CheckIdle, d, w
<1> QED
  BY <1>3, <1>4, <1>5

-----------------------------------------------------------------------------
\* The bytes of tracked packets: those of the numbers in S, when q are the
\* sizes sent.
TotalBytes(q, S) == SumFunctionOnSet([n \in S |-> q[n + 1]], S)

LEMMA SizesNat ==
    ASSUME NEW q \in Seq(PacketSizes)
    PROVE  /\ Len(q) \in Nat
           /\ \A n \in 0 .. (Len(q) - 1) : n \in Nat /\ n < Len(q) /\ q[n + 1] \in Nat /\ q[n + 1] \in Int
<1>1. Len(q) \in Nat /\ \A n \in 0 .. (Len(q) - 1) : n + 1 \in 1 .. Len(q) /\ n \in Nat /\ n < Len(q)
  OBVIOUS
<1>2. \A n \in 0 .. (Len(q) - 1) : q[n + 1] \in PacketSizes
  BY <1>1
<1>3. PacketSizes \subseteq Nat
  BY CwndAssumption
<1>4. \A x \in PacketSizes : x \in Nat /\ x \in Int
  BY <1>3
<1>5. \A n \in 0 .. (Len(q) - 1) : q[n + 1] \in Nat /\ q[n + 1] \in Int
  BY <1>2, <1>4, Zenon
<1> QED
  BY <1>1, <1>5, Zenon

LEMMA SentFinite ==
    ASSUME NEW q \in Seq(PacketSizes), NEW S \in SUBSET (0 .. (Len(q) - 1))
    PROVE  IsFiniteSet(S)
<1>1. Len(q) \in Nat
  OBVIOUS
<1>2. IsFiniteSet(0 .. (Len(q) - 1))
  BY <1>1, FS_Interval
<1> QED
  BY <1>2, FS_Subset

Divides(f, g, k, S, R) ==
    /\ IsFiniteSet(S) /\ R \in SUBSET S
    /\ \A n \in S : f[n] \in Nat
    /\ \A n \in R : g[n] = f[n]
    /\ \A n \in S \ R : k[n] = f[n]

LEMMA SumOfParts ==
    ASSUME NEW f, NEW g, NEW k, NEW S, NEW R, Divides(f, g, k, S, R)
    PROVE  /\ SumFunctionOnSet(f, S) = SumFunctionOnSet(g, R) + SumFunctionOnSet(k, S \ R)
           /\ SumFunctionOnSet(g, R) \in Nat /\ SumFunctionOnSet(k, S \ R) \in Nat
<1>0. /\ IsFiniteSet(S) /\ R \in SUBSET S
      /\ \A n \in S : f[n] \in Nat
      /\ \A n \in R : g[n] = f[n]
      /\ \A n \in S \ R : k[n] = f[n]
  BY DEF Divides
<1>1. IsFiniteSet(R) /\ IsFiniteSet(S \ R)
  BY <1>0, FS_Subset
<1>2. /\ \A n \in S : f[n] \in Int
      /\ \A n \in R : f[n] \in Int /\ g[n] \in Nat
      /\ \A n \in S \ R : f[n] \in Int /\ k[n] \in Nat
  BY <1>0
<1>4. SumFunctionOnSet(f, S) = SumFunctionOnSet(f, R) + SumFunctionOnSet(f, S \ R)
  BY <1>0, <1>2, SumSplit
<1>5. SumFunctionOnSet(f, R) = SumFunctionOnSet(g, R)
  BY <1>0, <1>1, <1>2, SumAgrees
<1>6. SumFunctionOnSet(f, S \ R) = SumFunctionOnSet(k, S \ R)
  BY <1>0, <1>1, <1>2, SumAgrees
<1>7. SumFunctionOnSet(g, R) \in Nat /\ SumFunctionOnSet(k, S \ R) \in Nat
  BY <1>0, <1>1, <1>2, SumType
<1> QED
  BY <1>4, <1>5, <1>6, <1>7

\* Released bytes are bytes of the tracked packets, and the rest stays tracked.
LEMMA BytesSplit ==
    ASSUME NEW q \in Seq(PacketSizes), NEW S \in SUBSET (0 .. (Len(q) - 1)), NEW R \in SUBSET S
    PROVE  TotalBytes(q, S) = TotalBytes(q, R) + TotalBytes(q, S \ R) /\ TotalBytes(q, R) \in Nat /\ TotalBytes(q, S \ R) \in Nat
<1> DEFINE f == [n \in S |-> q[n + 1]]
           g == [n \in R |-> q[n + 1]]
           k == [n \in S \ R |-> q[n + 1]]
<1>1. IsFiniteSet(S)
  BY SentFinite
<1>2. /\ \A n \in S : f[n] \in Nat
      /\ \A n \in R : g[n] = f[n]
      /\ \A n \in S \ R : k[n] = f[n]
  BY SizesNat
<1>3. TotalBytes(q, S) = SumFunctionOnSet(f, S) /\ TotalBytes(q, R) = SumFunctionOnSet(g, R)
      /\ TotalBytes(q, S \ R) = SumFunctionOnSet(k, S \ R)
  BY DEF TotalBytes
<1> HIDE DEF f, g, k
<1>4. /\ SumFunctionOnSet(f, S) = SumFunctionOnSet(g, R) + SumFunctionOnSet(k, S \ R)
      /\ SumFunctionOnSet(g, R) \in Nat /\ SumFunctionOnSet(k, S \ R) \in Nat
  <2>1. Divides(f, g, k, S, R)
    BY <1>1, <1>2 DEF Divides
  <2> QED
    BY <2>1, SumOfParts, Zenon
<1> QED
  BY <1>3, <1>4, Zenon

\* A packet sent leaves the sizes of the earlier ones, and adds its own if it is tracked.
LEMMA BytesAppended ==
    ASSUME NEW q \in Seq(PacketSizes), NEW size \in PacketSizes, NEW S \in SUBSET (0 .. (Len(q) - 1))
    PROVE  /\ TotalBytes(Append(q, size), S) = TotalBytes(q, S)
           /\ TotalBytes(Append(q, size), S \cup {Len(q)}) = TotalBytes(q, S) + size
           /\ TotalBytes(q, S) \in Nat
<1> DEFINE n == Len(q)
           a == Append(q, size)
           f == [k \in S |-> q[k + 1]]
           g == [k \in S |-> a[k + 1]]
           T == S \cup {n}
           u == [k \in T |-> a[k + 1]]
<1>1. n \in Nat /\ n \notin S /\ size \in Nat
  BY CwndAssumption
<1>2. \A k \in S : a[k + 1] = q[k + 1] /\ q[k + 1] \in Nat
  <2> SUFFICES ASSUME NEW k \in S PROVE a[k + 1] = q[k + 1] /\ q[k + 1] \in Nat
    OBVIOUS
  <2>1. k + 1 \in 1 .. Len(q)
    OBVIOUS
  <2>2. Append(q, size)[k + 1] = q[k + 1]
    BY <2>1
  <2> QED
    BY <2>2, SizesNat
<1>3. a[n + 1] = size
  OBVIOUS
<1>4. IsFiniteSet(S) /\ IsFiniteSet(T)
  BY SentFinite, FS_AddElement
<1> HIDE DEF n, a
<1>5. /\ \A k \in S : f[k] \in Int /\ f[k] \in Nat /\ g[k] = f[k] /\ u[k] = f[k] /\ g[k] \in Int /\ u[k] \in Int
      /\ \A k \in T : u[k] \in Int
      /\ u[n] = size /\ T \ {n} = S /\ n \in T
  BY <1>1, <1>2, <1>3
<1>6. TotalBytes(q, S) = SumFunctionOnSet(f, S) /\ TotalBytes(a, S) = SumFunctionOnSet(g, S)
      /\ TotalBytes(a, S \cup {n}) = SumFunctionOnSet(u, T)
  BY DEF TotalBytes
<1> HIDE DEF f, g, u, T
<1>8. SumFunctionOnSet(g, S) = SumFunctionOnSet(f, S)
  BY <1>4, <1>5, SumAgrees, ZenonT(30)
<1>9. SumFunctionOnSet(u, T) = u[n] + SumFunctionOnSet(u, T \ {n})
  BY <1>4, <1>5, SumTakes
<1>10. SumFunctionOnSet(f, S) = SumFunctionOnSet(u, S) /\ SumFunctionOnSet(f, S) \in Nat
  <2>1. SumFunctionOnSet(f, S) = SumFunctionOnSet(u, S)
    BY <1>4, <1>5, SumAgrees, ZenonT(30)
  <2>2. SumFunctionOnSet(f, S) \in Nat
    BY <1>4, <1>5, SumType, ZenonT(30)
  <2> QED
    BY <2>1, <2>2
<1>11. SumFunctionOnSet(u, T) = SumFunctionOnSet(f, S) + size
  <2>1. u[n] = size /\ T \ {n} = S
    BY <1>5
  <2>2. SumFunctionOnSet(u, T) = size + SumFunctionOnSet(f, S)
    BY <1>9, <1>10, <2>1
  <2> QED
    BY <1>1, <1>10, <2>2
<1> QED
  BY <1>6, <1>8, <1>10, <1>11 DEF n, a

-----------------------------------------------------------------------------
\* The controller in the invariant, with the bytes of the tracked packets.
WindowInv ==
    /\ Sound(cwnd) /\ idle \in 0 .. IdleAfter /\ measured \in BOOLEAN
    /\ packets \in Seq(PacketSizes) /\ Len(packets) <= MaxPackets
    /\ DOMAIN records \subseteq 0 .. (Len(packets) - 1) /\ arrived \subseteq 0 .. (Len(packets) - 1)
    /\ TotalBytes(packets, DOMAIN records) <= cwnd.inFlight

LEMMA WindowImplies == WindowInv => CwndTypeOK /\ PhaseAgrees /\ NeverUndercounts
<1> SUFFICES ASSUME WindowInv PROVE CwndTypeOK /\ PhaseAgrees /\ NeverUndercounts
  OBVIOUS
<1>1. cwnd \in Controllers
  BY DEF WindowInv, Sound
<1>2. /\ cwnd.phase \in {"slow start", "avoidance", "recovery"} /\ cwnd.window \in Nat
      /\ cwnd.ssthresh \in Nat /\ cwnd.inFlight \in Nat /\ cwnd.recoverySeq \in Seqs
  BY <1>1 DEF Controllers
<1>3. CwndTypeOK
  BY <1>2 DEF WindowInv, CwndTypeOK, Sound, SentPackets
<1>4. PhaseAgrees
  BY DEF WindowInv, Sound, PhaseAgrees
<1>5. NeverUndercounts
  BY DEF WindowInv, NeverUndercounts, TotalBytes, Bytes, PacketSize
<1> QED
  BY <1>3, <1>4, <1>5

LEMMA WindowInit == CwndInit => WindowInv
<1> SUFFICES ASSUME CwndInit PROVE WindowInv
  OBVIOUS
<1> DEFINE w == InitialMss * Mss
<1>1. w \in Nat /\ w >= Floor /\ w < DefaultThreshold /\ DefaultThreshold \in Nat /\ Floor \in Nat
      /\ IdleAfter \in Nat /\ MaxPackets \in Nat
  BY WindowEnds
<1>2. cwnd = [phase |-> "slow start", window |-> w,
               ssthresh |-> DefaultThreshold, inFlight |-> 0, recoverySeq |-> 0]
  BY DEF CwndInit
<1> HIDE DEF w
<1>3. 0 \in Seqs
  BY HalfAssumption DEF Seqs, SeqSpace
<1>4. cwnd \in Controllers /\ cwnd.phase = "slow start" /\ cwnd.window = w /\ cwnd.ssthresh = DefaultThreshold
      /\ cwnd.inFlight = 0
  BY <1>1, <1>2, <1>3 DEF Controllers
<1>5. Sound(cwnd)
  <2>1. "slow start" # "avoidance" /\ "slow start" # "recovery"
    OBVIOUS
  <2>2. DefaultThreshold >= Floor
    BY <1>1
  <2> QED
    BY <1>1, <1>4, <2>1, <2>2, SoundIs, Zenon
<1>6. packets = <<>> /\ DOMAIN records = {} /\ arrived = {} /\ idle = 0 /\ measured = FALSE
  BY DEF CwndInit
<1>7. TotalBytes(packets, DOMAIN records) = 0
  BY <1>6, SumEmpty DEF TotalBytes
<1>8. packets \in Seq(PacketSizes) /\ Len(packets) = 0
  BY <1>6
<1>9. /\ idle \in 0 .. IdleAfter /\ measured \in BOOLEAN
      /\ Len(packets) <= MaxPackets
      /\ DOMAIN records \subseteq 0 .. (Len(packets) - 1) /\ arrived \subseteq 0 .. (Len(packets) - 1)
  <2>1. 0 \in 0 .. IdleAfter /\ 0 <= MaxPackets
    BY <1>1
  <2> QED
    BY <1>6, <1>8, <2>1
<1>10. TotalBytes(packets, DOMAIN records) <= cwnd.inFlight
  <2>1. 0 <= 0
    OBVIOUS
  <2> QED
    BY <1>4, <1>7, <2>1, Zenon
<1> QED
  BY <1>5, <1>8, <1>9, <1>10 DEF WindowInv

\* A frame in which a packet leaves.
LEMMA PacketKeeps ==
    ASSUME WindowInv, NEW size \in PacketSizes, NEW reliable \in BOOLEAN, SendPacket(size, reliable)
    PROVE  WindowInv'
<1> DEFINE c == CheckIdle(cwnd, idle)
           n == Len(packets)
           S == DOMAIN records
           T == S \cup (IF reliable THEN {n} ELSE {})
           d == [c EXCEPT !.inFlight = @ + size]
<1>1. Sound(c) /\ c.inFlight = cwnd.inFlight
  BY CheckIdleSound DEF WindowInv
<1>2. cwnd' = d /\ n < MaxPackets /\ idle' = 0 /\ packets' = Append(packets, size)
      /\ DOMAIN records' = T /\ measured' = measured /\ arrived' = arrived
  BY DEF SendPacket
<1>3. packets \in Seq(PacketSizes) /\ n \in Nat /\ S \in SUBSET (0 .. (n - 1)) /\ MaxPackets \in Nat
      /\ arrived \in SUBSET (0 .. (n - 1))
  BY WindowEnds DEF WindowInv
<1>4. size \in Nat
  BY CwndAssumption
<1>5. packets' \in Seq(PacketSizes) /\ Len(packets') = n + 1
  BY <1>2, <1>3
<1>6. /\ TotalBytes(packets', S) = TotalBytes(packets, S)
      /\ TotalBytes(packets', S \cup {n}) = TotalBytes(packets, S) + size
      /\ TotalBytes(packets, S) \in Nat
  BY <1>2, <1>3, BytesAppended
<1>7. T = S \/ T = S \cup {n}
  OBVIOUS
<1>8. c \in Controllers /\ c.inFlight \in Nat /\ TotalBytes(packets, S) <= c.inFlight
  BY <1>1 DEF Sound, Controllers, WindowInv
<1> HIDE DEF c, T
<1>9. d \in Controllers /\ d.phase = c.phase /\ d.window = c.window /\ d.ssthresh = c.ssthresh
      /\ d.inFlight = c.inFlight + size
  <2> DEFINE k == c.inFlight + size
  <2>1. k \in Nat
    BY <1>4, <1>8
  <2>2. d = [c EXCEPT !.inFlight = k]
    OBVIOUS
  <2> HIDE DEF d
  <2>3. d.inFlight = k
    <3> HIDE DEF k
    <3> QED
      BY <1>8, <2>2 DEF Controllers
  <2> HIDE DEF k
  <2>4. d \in Controllers /\ d.phase = c.phase /\ d.window = c.window /\ d.ssthresh = c.ssthresh
    BY <1>8, <2>1, <2>2 DEF Controllers
  <2> QED
    BY <2>3, <2>4 DEF k
<1>10. Sound(d)
  <2> HIDE DEF d
  <2> QED
    BY <1>1, <1>9, SoundIs, Zenon DEF Sound
<1> HIDE DEF d
<1>11. TotalBytes(packets', T) <= d.inFlight
  <2> DEFINE b == TotalBytes(packets, S)  k == c.inFlight
  <2>1. TotalBytes(packets', T) = b \/ TotalBytes(packets', T) = b + size
    BY <1>6, <1>7
  <2>2. b \in Nat /\ k \in Nat /\ b <= k /\ d.inFlight = k + size
    BY <1>6, <1>8, <1>9
  <2> HIDE DEF b, k
  <2> QED
    BY <1>4, <2>1, <2>2
<1>12. T \subseteq 0 .. n /\ arrived \subseteq 0 .. n /\ (n + 1) - 1 = n
  BY <1>3, <1>7
<1>13. n + 1 <= MaxPackets
  BY <1>2, <1>3
<1>14. idle' \in 0 .. IdleAfter /\ measured' \in BOOLEAN
  BY <1>2, WindowEnds DEF WindowInv
<1> QED
  BY <1>2, <1>5, <1>10, <1>11, <1>12, <1>13, <1>14 DEF WindowInv

\* A frame in which nothing leaves.
LEMMA PassKeeps ==
    ASSUME WindowInv, PassTime
    PROVE  WindowInv'
<1>1. \A age : Sound(CheckIdle(cwnd, age)) /\ CheckIdle(cwnd, age).inFlight = cwnd.inFlight
  BY CheckIdleSound DEF WindowInv
<1>2. cwnd' = CheckIdle(cwnd, idle') /\ measured' = measured /\ packets' = packets /\ records' = records
      /\ arrived' = arrived /\ idle' = IF idle < IdleAfter THEN idle + 1 ELSE idle
  BY DEF PassTime
<1>3. Sound(cwnd') /\ cwnd'.inFlight = cwnd.inFlight
  BY <1>1, <1>2
<1>4. idle' \in 0 .. IdleAfter
  BY <1>2, WindowEnds DEF WindowInv
<1> QED
  BY <1>2, <1>3, <1>4 DEF WindowInv

LEMMA ArriveKeeps ==
    ASSUME WindowInv, NEW n \in SentPackets \ arrived, Arrive(n)
    PROVE  WindowInv'
BY DEF WindowInv, Arrive, SentPackets

\* A header: what it releases leaves the count of bytes in flight.
LEMMA HeaderKeeps ==
    ASSUME WindowInv, NEW high, NEW got, Header(high, got)
    PROVE  WindowInv'
<1> DEFINE S        == DOMAIN records
           R        == S \cap (got \cup {high})
           missing  == (S \cap Window(high)) \ got
           nacks    == [n \in S |-> IF n \in missing THEN AtMost(records[n] + 1, NackThreshold) ELSE records[n]]
           b        == Bytes(R)
           a        == OnAck(cwnd, b)
           c        == OnAckSeq(a, Wire(high), b)
           q        == RetransmitSeq(nacks, missing)
<1>1. /\ cwnd' = (IF missing = {} THEN c ELSE OnLoss(c, q))
      /\ idle' = (IF missing # {} /\ c.phase # "recovery" THEN 0 ELSE idle)
      /\ measured' = (measured \/ high \in S)
      /\ DOMAIN records' = S \ R
      /\ packets' = packets /\ arrived' = arrived
  BY DEF Header, Released
<1>2. packets \in Seq(PacketSizes) /\ S \in SUBSET (0 .. (Len(packets) - 1)) /\ R \in SUBSET S
      /\ Sound(cwnd) /\ cwnd.inFlight \in Nat /\ TotalBytes(packets, S) <= cwnd.inFlight
  BY DEF WindowInv, Sound, Controllers
<1>3. b = TotalBytes(packets, R)
  BY DEF Bytes, TotalBytes, PacketSize
<1>4. TotalBytes(packets, S) = b + TotalBytes(packets, S \ R) /\ b \in Nat /\ TotalBytes(packets, S \ R) \in Nat
  <2>1. TotalBytes(packets, S) = TotalBytes(packets, R) + TotalBytes(packets, S \ R)
        /\ TotalBytes(packets, R) \in Nat /\ TotalBytes(packets, S \ R) \in Nat
    <3> HIDE DEF S, R
    <3> QED
      BY <1>2, BytesSplit
  <2> QED
    BY <1>3, <2>1
<1>5. q \in Seqs
  <2> DEFINE fast == {n \in missing : nacks[n] >= NackThreshold}
  <2>1. q = IF fast = {} THEN 0 ELSE Wire(Min(fast))
    BY DEF RetransmitSeq
  <2>2. missing \in SUBSET (0 .. (Len(packets) - 1)) /\ fast \in SUBSET missing
    BY <1>2
  <2> HIDE DEF missing, nacks, q
  <2>3. IsFiniteSet(fast) /\ fast \in SUBSET Int /\ fast \in SUBSET Nat
    <3>1. \A n \in 0 .. (Len(packets) - 1) : n \in Int /\ n \in Nat
      BY <1>2
    <3> QED
      BY <1>2, <2>2, <3>1, SentFinite
  <2> HIDE DEF fast
  <2>4. 0 \in Seqs
    BY HalfAssumption DEF Seqs, SeqSpace
  <2>5. ASSUME fast # {} PROVE Wire(Min(fast)) \in Seqs
    <3>1. \E x \in fast : \A y \in fast : x <= y
      BY <2>3, <2>5, LeastInt
    <3>2. Min(fast) \in fast
      BY <3>1 DEF Min
    <3>3. Min(fast) \in Nat
      BY <2>3, <3>2
    <3> QED
      BY <3>3, WireType
  <2> QED
    BY <2>1, <2>4, <2>5
<1> HIDE DEF b, q
<1>6. Sound(a) /\ a.inFlight = cwnd.inFlight
  BY <1>2, <1>4, OnAckSound
<1> HIDE DEF a
<1>7. Sound(c) /\ c.inFlight = IF cwnd.inFlight >= b THEN cwnd.inFlight - b ELSE 0
  BY <1>4, <1>6, OnAckSeqSound
<1> HIDE DEF c
<1>8. Sound(OnLoss(c, q)) /\ OnLoss(c, q).inFlight = c.inFlight
  BY <1>5, <1>7, OnLossSound
<1>9. Sound(cwnd') /\ cwnd'.inFlight = c.inFlight
  BY <1>1, <1>7, <1>8
<1>10. TotalBytes(packets, S \ R) <= c.inFlight
  BY <1>2, <1>4, <1>7
<1>11. S \ R \subseteq S
  OBVIOUS
<1> HIDE DEF S, R, missing
<1>12. idle' \in 0 .. IdleAfter /\ measured' \in BOOLEAN
  BY <1>1, WindowEnds DEF WindowInv
<1>13. DOMAIN records' \subseteq 0 .. (Len(packets') - 1)
  BY <1>1, <1>2, <1>11
<1>14. TotalBytes(packets', DOMAIN records') <= cwnd'.inFlight
  BY <1>1, <1>9, <1>10
<1> QED
  BY <1>1, <1>9, <1>12, <1>13, <1>14 DEF WindowInv

LEMMA WindowStep == WindowInv /\ [CwndNext]_cwndVars => WindowInv'
<1> SUFFICES ASSUME WindowInv, [CwndNext]_cwndVars PROVE WindowInv'
  OBVIOUS
<1>1. CASE \E size \in PacketSizes, reliable \in BOOLEAN : SendPacket(size, reliable)
  BY <1>1, PacketKeeps
<1>2. CASE PassTime
  BY <1>2, PassKeeps
<1>3. CASE \E n \in SentPackets \ arrived : Arrive(n)
  BY <1>3, ArriveKeeps
<1>4. CASE \E u \in Headers : Header(u[1], u[2])
  BY <1>4, HeaderKeeps
<1>5. CASE UNCHANGED cwndVars
  BY <1>5 DEF WindowInv, cwndVars
<1> QED
  BY <1>1, <1>2, <1>3, <1>4, <1>5 DEF CwndNext

\* The phase of the window controller of nn_congestion.c always says where the
\* window stands to the threshold, and the bytes it counts in flight cover the
\* tracked packets that are unacknowledged, whatever is sent, arrives, is
\* acknowledged or is reported missing, for every size of the constants.
THEOREM WindowAgrees == CwndSpec => [](CwndTypeOK /\ PhaseAgrees /\ NeverUndercounts)
<1>1. CwndInit => WindowInv
  BY WindowInit
<1>2. WindowInv /\ [CwndNext]_cwndVars => WindowInv'
  BY WindowStep
<1>3. WindowInv => CwndTypeOK /\ PhaseAgrees /\ NeverUndercounts
  BY WindowImplies
<1> QED
  BY <1>1, <1>2, <1>3, PTL DEF CwndSpec

-----------------------------------------------------------------------------
(* The rate limiter. *)

Ages == Seq(0 .. Second)

\* The inductive invariant: what the limiter still counts of a source's requests is what
\* was admitted of it in the last second, however much of the rest it has cleaned up.
LimiterInv ==
    /\ DOMAIN requests \subseteq Sources /\ sinceCleanup \in 0 .. CleanupInterval
    /\ requests = [s \in DOMAIN requests |-> requests[s]]
    /\ \A s \in DOMAIN requests : requests[s] \in Ages
    /\ admitted \in [Sources -> Seq(0 .. Second)]
    /\ \A s \in Sources : admitted[s] = Stored(s) /\ Len(admitted[s]) <= MaxPerSecond
    /\ refused \subseteq Sources /\ \A s \in refused : Len(admitted[s]) = MaxPerSecond

RecentAt(ages) == {i \in DOMAIN ages : Recent(ages[i])}

\* What is recent is a part, and its entries are recent.
LEMMA FilterIs ==
    ASSUME NEW q \in Ages
    PROVE  /\ FilterRecent(q) \in Ages /\ Len(FilterRecent(q)) <= Len(q)
           /\ \A i \in DOMAIN FilterRecent(q) : Recent(FilterRecent(q)[i])
<1>1. RecentAt(q) \in SUBSET DOMAIN q
  BY DEF RecentAt
<1>2. FilterRecent(q) = Picked(q, RecentAt(q))
  BY DEF FilterRecent, RecentAt
<1>3. q \in Seq(0 .. Second) /\ DOMAIN q = 1 .. Len(q) /\ Len(q) \in Nat
  BY DEF Ages
<1>4. /\ Picked(q, RecentAt(q)) \in Seq(0 .. Second)
      /\ Len(Picked(q, RecentAt(q))) = Cardinality(RecentAt(q))
      /\ DOMAIN Picked(q, RecentAt(q)) = 1 .. Cardinality(RecentAt(q))
      /\ \A i \in 1 .. Cardinality(RecentAt(q)) :
            Ascending(RecentAt(q))[i] \in RecentAt(q) /\ Picked(q, RecentAt(q))[i] = q[Ascending(RecentAt(q))[i]]
  BY <1>1, <1>3, PickedIs
<1>5. Cardinality(RecentAt(q)) <= Len(q)
  <2>1. IsFiniteSet(1 .. Len(q)) /\ Cardinality(1 .. Len(q)) = Len(q)
    BY <1>3, OneTo
  <2> QED
    BY <1>1, <1>3, <2>1, FS_Subset
<1>6. \A i \in RecentAt(q) : Recent(q[i])
  BY DEF RecentAt
<1> QED
  BY <1>2, <1>4, <1>5, <1>6 DEF Ages

\* Where all is recent all stays.
LEMMA FilterKeeps ==
    ASSUME NEW q \in Ages, \A i \in DOMAIN q : Recent(q[i])
    PROVE  FilterRecent(q) = q
<1>1. {i \in DOMAIN q : Recent(q[i])} = DOMAIN q
  OBVIOUS
<1>2. Picked(q, DOMAIN q) = q
  BY PickedAll DEF Ages
<1> QED
  BY <1>1, <1>2 DEF FilterRecent

\* A second passes for the recent ones as for all.
LEMMA FilterGrown ==
    ASSUME NEW q \in Ages
    PROVE  /\ GrowAll(q) \in Ages /\ Len(GrowAll(q)) = Len(q)
           /\ FilterRecent(GrowAll(FilterRecent(q))) = FilterRecent(GrowAll(q))
<1> DEFINE A == 0 .. Second
           S == RecentAt(q)
           p == Picked(q, S)
           R == RecentAt(GrowAll(p))
           T == RecentAt(GrowAll(q))
           I == {Ascending(S)[i] : i \in R}
<1>1. Second \in Nat \ {0}
  BY RateLimiterAssumption
<1>2. \A x \in A : Grow(x) \in A /\ (Recent(Grow(x)) => Recent(x))
  BY <1>1 DEF Grow, Recent
<1>3. \A r \in Ages : GrowAll(r) \in Ages /\ Len(GrowAll(r)) = Len(r) /\ DOMAIN GrowAll(r) = DOMAIN r
                      /\ \A i \in DOMAIN r : GrowAll(r)[i] = Grow(r[i])
  <2> SUFFICES ASSUME NEW r \in Ages
               PROVE  GrowAll(r) \in Ages /\ Len(GrowAll(r)) = Len(r) /\ DOMAIN GrowAll(r) = DOMAIN r
                      /\ \A i \in DOMAIN r : GrowAll(r)[i] = Grow(r[i])
    OBVIOUS
  <2>1. r \in Seq(A) /\ DOMAIN r = 1 .. Len(r) /\ Len(r) \in Nat /\ \A i \in 1 .. Len(r) : r[i] \in A
    <3>1. r \in Seq(A)
      BY DEF Ages
    <3> HIDE DEF A
    <3> QED
      BY <3>1
  <2>2. GrowAll(r) \in [1 .. Len(r) -> A]
    BY <2>1, <1>2 DEF GrowAll
  <2> QED
    BY <2>1, <2>2 DEF GrowAll, Ages
<1>4. S \in SUBSET DOMAIN q /\ q \in Seq(A)
  BY DEF RecentAt, Ages
<1>5. /\ p \in Seq(A) /\ DOMAIN p = 1 .. Cardinality(S)
      /\ \A i \in 1 .. Cardinality(S) : Ascending(S)[i] \in S /\ p[i] = q[Ascending(S)[i]]
      /\ \A s \in S : \E i \in 1 .. Cardinality(S) : Ascending(S)[i] = s
  BY <1>4, PickedIs
<1>6. p \in Ages
  BY <1>5 DEF Ages
<1>7. DOMAIN GrowAll(p) = 1 .. Cardinality(S) /\ \A i \in 1 .. Cardinality(S) : GrowAll(p)[i] = Grow(q[Ascending(S)[i]])
  <2> HIDE DEF p, S
  <2>1. DOMAIN GrowAll(p) = DOMAIN p /\ \A i \in DOMAIN p : GrowAll(p)[i] = Grow(p[i])
    BY <1>3, <1>6
  <2> QED
    BY <1>5, <2>1
<1>8. R \in SUBSET (1 .. Cardinality(S))
  BY <1>7 DEF RecentAt
<1>9. T \in SUBSET S
  <2> SUFFICES ASSUME NEW i \in T PROVE i \in S
    OBVIOUS
  <2>1. i \in DOMAIN q /\ Recent(Grow(q[i])) /\ q[i] \in A
    <3>1. DOMAIN GrowAll(q) = DOMAIN q /\ \A j \in DOMAIN q : GrowAll(q)[j] = Grow(q[j])
      BY <1>3
    <3>2. i \in DOMAIN GrowAll(q) /\ Recent(GrowAll(q)[i])
      BY DEF RecentAt
    <3> HIDE DEF A
    <3> QED
      BY <1>4, <3>1, <3>2
  <2> QED
    BY <1>2, <2>1 DEF RecentAt
<1>10. I = T
  <2>1. ASSUME NEW i \in R PROVE Ascending(S)[i] \in T
    <3>1. i \in 1 .. Cardinality(S) /\ Recent(GrowAll(p)[i])
      BY <1>8 DEF RecentAt
    <3>2. Ascending(S)[i] \in DOMAIN q /\ GrowAll(p)[i] = Grow(q[Ascending(S)[i]])
      BY <1>4, <1>5, <1>7, <3>1
    <3>3. GrowAll(q)[Ascending(S)[i]] = Grow(q[Ascending(S)[i]]) /\ DOMAIN GrowAll(q) = DOMAIN q
      BY <1>3, <3>2
    <3> QED
      BY <3>1, <3>2, <3>3 DEF RecentAt
  <2>2. ASSUME NEW s \in T PROVE \E i \in R : Ascending(S)[i] = s
    <3>1. PICK i \in 1 .. Cardinality(S) : Ascending(S)[i] = s
      BY <1>5, <1>9
    <3>2. Recent(GrowAll(q)[s]) /\ s \in DOMAIN q /\ GrowAll(q)[s] = Grow(q[s])
      BY <1>3, <1>4, <1>9 DEF RecentAt
    <3>3. i \in R
      BY <1>7, <3>1, <3>2 DEF RecentAt
    <3> QED
      BY <3>1, <3>3
  <2> HIDE DEF R, T, S
  <2> QED
    BY <2>1, <2>2
<1>11. Picked(GrowAll(p), R) = Picked(GrowAll(q), I)
  <2>1. GrowAll(p) = Picked(GrowAll(q), S)
    <3>1. \A i \in 1 .. Cardinality(S) : GrowAll(q)[Ascending(S)[i]] = Grow(q[Ascending(S)[i]])
      <4> HIDE DEF S
      <4> QED
        BY <1>3, <1>4, <1>5
    <3>2. Picked(GrowAll(q), S) = [i \in 1 .. Cardinality(S) |-> Grow(q[Ascending(S)[i]])]
      <4> HIDE DEF S
      <4> QED
        BY <3>1 DEF Picked
    <3>3. GrowAll(p) = [i \in 1 .. Cardinality(S) |-> Grow(q[Ascending(S)[i]])]
      <4>1. GrowAll(p) = [i \in 1 .. Cardinality(S) |-> Grow(p[i])]
        <5> HIDE DEF p
        <5> QED
          BY <1>5 DEF GrowAll
      <4> HIDE DEF p, S
      <4> QED
        BY <1>5, <4>1
    <3> QED
      BY <3>2, <3>3
  <2>2. GrowAll(q) \in Seq(A) /\ S \in SUBSET DOMAIN GrowAll(q)
    <3>1. GrowAll(q) \in Ages /\ DOMAIN GrowAll(q) = DOMAIN q
      BY <1>3
    <3> QED
      BY <3>1, <1>4 DEF Ages
  <2> HIDE DEF S, R, p, A
  <2>3. Picked(Picked(GrowAll(q), S), R) = Picked(GrowAll(q), {Ascending(S)[i] : i \in R})
    BY <1>8, <2>2, PickedTwice
  <2> QED
    BY <2>1, <2>3
<1>12. FilterRecent(q) = p /\ FilterRecent(GrowAll(p)) = Picked(GrowAll(p), R)
       /\ FilterRecent(GrowAll(q)) = Picked(GrowAll(q), T)
  BY DEF FilterRecent, RecentAt
<1> HIDE DEF p, R, T, I
<1>13. FilterRecent(GrowAll(FilterRecent(q))) = FilterRecent(GrowAll(q))
  BY <1>10, <1>11, <1>12
<1> QED
  BY <1>3, <1>13

LEMMA LimiterStarts == LimiterInit => LimiterInv
<1> SUFFICES ASSUME LimiterInit PROVE LimiterInv
  OBVIOUS
<1>1. DOMAIN requests = {} /\ requests = [s \in DOMAIN requests |-> requests[s]]
  BY DEF LimiterInit
<1>2. <<>> \in Seq(0 .. Second) /\ Len(<<>>) = 0
  OBVIOUS
<1>3. \A s \in Sources : admitted[s] = <<>> /\ Stored(s) = <<>>
  BY <1>1 DEF LimiterInit, Stored
<1>4. admitted \in [Sources -> Seq(0 .. Second)]
  BY <1>2 DEF LimiterInit
<1>5. MaxPerSecond \in Nat /\ 0 \in 0 .. CleanupInterval
  BY RateLimiterAssumption
<1> QED
  BY <1>1, <1>2, <1>3, <1>4, <1>5 DEF LimiterInv, LimiterInit

\* Time passes.
LEMMA LaterKeeps == LimiterInv /\ LimiterLater => LimiterInv'
<1> SUFFICES ASSUME LimiterInv, LimiterLater PROVE LimiterInv'
  OBVIOUS
<1>1. /\ DOMAIN requests' = DOMAIN requests
      /\ \A s \in DOMAIN requests : requests'[s] = GrowAll(requests[s]) /\ requests[s] \in Ages
      /\ requests' = [s \in DOMAIN requests' |-> requests'[s]]
  BY DEF LimiterLater, LimiterInv
<1>2. sinceCleanup' \in 0 .. CleanupInterval /\ DOMAIN requests \subseteq Sources
  BY RateLimiterAssumption DEF LimiterLater, LimiterInv
<1>3. \A s \in Sources : admitted[s] \in Ages /\ admitted[s] = Stored(s) /\ Len(admitted[s]) <= MaxPerSecond
  BY DEF LimiterInv, Ages
<1>4. \A s \in Sources : admitted'[s] = FilterRecent(GrowAll(admitted[s]))
  BY DEF LimiterLater
<1>5. ASSUME NEW s \in Sources
      PROVE  admitted'[s] \in Ages /\ Len(admitted'[s]) <= MaxPerSecond
  <2>1. admitted[s] \in Ages
    BY <1>3
  <2>2. GrowAll(admitted[s]) \in Ages /\ Len(GrowAll(admitted[s])) = Len(admitted[s])
    BY <2>1, FilterGrown
  <2>3. FilterRecent(GrowAll(admitted[s])) \in Ages
        /\ Len(FilterRecent(GrowAll(admitted[s]))) <= Len(GrowAll(admitted[s]))
    BY <2>2, FilterIs
  <2>4. Len(admitted'[s]) \in Nat /\ Len(admitted[s]) \in Nat /\ MaxPerSecond \in Nat
    BY <1>4, <2>1, <2>3, RateLimiterAssumption DEF Ages
  <2> QED
    BY <1>3, <1>4, <2>2, <2>3, <2>4
<1>6. ASSUME NEW s \in Sources
      PROVE  admitted'[s] = Stored(s)'
  <2>1. CASE s \in DOMAIN requests
    <3>1. Stored(s) = FilterRecent(requests[s]) /\ Stored(s)' = FilterRecent(GrowAll(requests[s]))
      BY <1>1, <2>1 DEF Stored
    <3>2. requests[s] \in Ages
      BY <1>1, <2>1
    <3> QED
      BY <1>3, <1>4, <3>1, <3>2, FilterGrown
  <2>2. CASE s \notin DOMAIN requests
    <3>1. Stored(s) = <<>> /\ Stored(s)' = <<>>
      BY <1>1, <2>2 DEF Stored
    <3>2. admitted[s] = <<>>
      BY <1>3, <3>1
    <3>3. admitted'[s] \in Ages /\ GrowAll(admitted[s]) = <<>>
      BY <1>5, <3>2 DEF GrowAll
    <3>4. <<>> \in Ages /\ DOMAIN (<<>>) = {}
      BY DEF Ages
    <3>5. FilterRecent(<<>>) = <<>>
      BY <3>4, FilterKeeps
    <3> QED
      BY <1>4, <3>1, <3>3, <3>5
  <2> QED
    BY <2>1, <2>2
<1>7. admitted' \in [Sources -> Seq(0 .. Second)]
  BY <1>5 DEF LimiterLater, Ages
<1>8. \A s \in DOMAIN requests' : requests'[s] \in Ages
  BY <1>1, FilterGrown
<1>9. refused' = {}
  BY DEF LimiterLater
<1> QED
  BY <1>1, <1>2, <1>5, <1>6, <1>7, <1>8, <1>9 DEF LimiterInv

\* A request arrives.
LEMMA AllowKeeps == ASSUME NEW s \in Sources PROVE LimiterInv /\ Allow(s) => LimiterInv'
<1> SUFFICES ASSUME LimiterInv, Allow(s) PROVE LimiterInv'
  OBVIOUS
<1> DEFINE allowed == Len(Stored(s)) < MaxPerSecond
           stamps  == IF allowed THEN <<0>> \o Stored(s) ELSE Stored(s)
           reqs    == [x \in DOMAIN requests \cup {s} |-> IF x = s THEN stamps ELSE requests[x]]
<1>1. /\ MaybeCleanup(reqs)
      /\ admitted' = [admitted EXCEPT ![s] = IF allowed THEN <<0>> \o @ ELSE @]
      /\ refused' = IF allowed THEN {} ELSE {s}
  BY DEF Allow
<1>2. /\ DOMAIN requests \subseteq Sources /\ sinceCleanup \in 0 .. CleanupInterval
      /\ \A x \in DOMAIN requests : requests[x] \in Ages
      /\ admitted \in [Sources -> Seq(0 .. Second)]
      /\ \A x \in Sources : admitted[x] \in Ages /\ admitted[x] = Stored(x) /\ Len(admitted[x]) <= MaxPerSecond
  BY DEF LimiterInv, Ages
<1>3. Second \in Nat \ {0} /\ MaxPerSecond \in Nat /\ CleanupInterval \in Nat
  BY RateLimiterAssumption
<1>4. Stored(s) \in Ages /\ \A i \in DOMAIN Stored(s) : Recent(Stored(s)[i])
  <2>1. CASE s \in DOMAIN requests
    <3>1. requests[s] \in Ages
      BY <1>2, <2>1
    <3> QED
      BY <2>1, <3>1, FilterIs DEF Stored
  <2>2. CASE s \notin DOMAIN requests
    BY <2>2 DEF Stored, Ages
  <2> QED
    BY <2>1, <2>2
<1>5. stamps \in Ages /\ \A i \in DOMAIN stamps : Recent(stamps[i])
  <2>1. <<0>> \o Stored(s) \in Ages /\ \A i \in DOMAIN (<<0>> \o Stored(s)) : Recent((<<0>> \o Stored(s))[i])
    <3> DEFINE r == Stored(s)
    <3>1. r \in Seq(0 .. Second) /\ DOMAIN r = 1 .. Len(r) /\ Len(r) \in Nat /\ \A i \in 1 .. Len(r) : Recent(r[i])
      BY <1>4 DEF Ages
    <3>2. <<0>> \in Seq(0 .. Second) /\ Len(<<0>>) = 1 /\ <<0>>[1] = 0 /\ Recent(0)
      BY <1>3 DEF Recent
    <3> HIDE DEF r
    <3>3. <<0>> \o r \in Seq(0 .. Second) /\ DOMAIN (<<0>> \o r) = 1 .. (1 + Len(r))
      BY <3>1, <3>2
    <3>4. ASSUME NEW i \in 1 .. (1 + Len(r)) PROVE Recent((<<0>> \o r)[i])
      <4>1. CASE i = 1
        <5>1. (<<0>> \o r)[i] = 0
          BY <3>1, <4>1
        <5> QED
          BY <5>1, <3>2
      <4>2. CASE i # 1
        <5>1. i - 1 \in 1 .. Len(r) /\ (<<0>> \o r)[i] = r[i - 1]
          BY <3>1, <4>2
        <5> QED
          BY <5>1, <3>1
      <4> QED
        BY <4>1, <4>2
    <3> QED
      BY <3>3, <3>4 DEF Ages, r
  <2> QED
    BY <1>4, <2>1
<1>6. FilterRecent(stamps) = stamps
  <2> HIDE DEF stamps
  <2> QED
    BY <1>5, FilterKeeps
<1>7. admitted'[s] = stamps /\ \A x \in Sources \ {s} : admitted'[x] = admitted[x]
  BY <1>1, <1>2
<1>8. Len(stamps) <= MaxPerSecond
  <2>1. Len(Stored(s)) \in Nat /\ Len(Stored(s)) <= MaxPerSecond /\ Stored(s) \in Seq(0 .. Second)
    BY <1>2, <1>4 DEF Ages
  <2>2. Len(<<0>> \o Stored(s)) = 1 + Len(Stored(s))
    BY <2>1
  <2> QED
    BY <1>3, <2>1, <2>2
<1>9. DOMAIN reqs = DOMAIN requests \cup {s} /\ reqs[s] = stamps /\ \A x \in DOMAIN requests \ {s} : reqs[x] = requests[x]
  OBVIOUS
<1> HIDE DEF stamps, reqs
<1>10. \A x \in DOMAIN reqs : reqs[x] \in Ages
  BY <1>2, <1>5, <1>9
<1> DEFINE rest(x) == IF x \in DOMAIN reqs THEN FilterRecent(reqs[x]) ELSE <<>>
<1>11. \A x \in Sources : rest(x) = admitted'[x]
  <2>1. rest(s) = stamps
    BY <1>6, <1>9
  <2>2. ASSUME NEW x \in Sources \ {s} PROVE rest(x) = admitted'[x]
    <3>1. rest(x) = Stored(x)
      BY <1>9 DEF Stored
    <3> QED
      BY <1>2, <1>7, <3>1
  <2> QED
    BY <1>7, <2>1, <2>2
<1>12. /\ DOMAIN requests' \subseteq DOMAIN reqs /\ requests' = [x \in DOMAIN requests' |-> requests'[x]]
       /\ \A x \in DOMAIN requests' : requests'[x] \in Ages
       /\ \A x \in Sources : Stored(x)' = rest(x)
       /\ sinceCleanup' \in 0 .. CleanupInterval
  <2>1. CASE NotYetDue
    <3>1. requests' = reqs /\ sinceCleanup' = sinceCleanup
      BY <1>1, <2>1 DEF MaybeCleanup
    <3>2. reqs = [x \in DOMAIN reqs |-> reqs[x]]
      BY <1>9 DEF reqs
    <3> QED
      BY <1>2, <1>10, <3>1, <3>2 DEF Stored
  <2>2. CASE ~NotYetDue
    <3>1. requests' = Cleaned(reqs) /\ sinceCleanup' = 0
      BY <1>1, <2>2 DEF MaybeCleanup
    <3>2. DOMAIN requests' = {x \in DOMAIN reqs : FilterRecent(reqs[x]) # <<>>}
          /\ (\A x \in DOMAIN requests' : requests'[x] = FilterRecent(reqs[x]))
          /\ requests' = [x \in DOMAIN requests' |-> requests'[x]]
      BY <3>1 DEF Cleaned
    <3>3. \A x \in DOMAIN reqs : FilterRecent(reqs[x]) \in Ages /\ FilterRecent(FilterRecent(reqs[x])) = FilterRecent(reqs[x])
      BY <1>10, FilterIs, FilterKeeps
    <3>4. ASSUME NEW x \in Sources PROVE Stored(x)' = rest(x)
      <4>1. CASE x \in DOMAIN requests'
        BY <3>2, <3>3, <4>1 DEF Stored
      <4>2. CASE x \notin DOMAIN requests'
        BY <3>2, <4>2 DEF Stored
      <4> QED
        BY <4>1, <4>2
    <3> QED
      BY <1>3, <3>1, <3>2, <3>3, <3>4
  <2> QED
    BY <2>1, <2>2
<1>13. \A x \in Sources : admitted'[x] \in Ages /\ Len(admitted'[x]) <= MaxPerSecond
  BY <1>2, <1>5, <1>7, <1>8
<1>14. admitted' \in [Sources -> Seq(0 .. Second)]
  BY <1>1, <1>2, <1>13 DEF Ages
<1>15. refused' \subseteq Sources /\ \A x \in refused' : Len(admitted'[x]) = MaxPerSecond
  <2>1. CASE allowed
    BY <1>1, <2>1
  <2>2. CASE ~allowed
    <3>1. refused' = {s} /\ Len(Stored(s)) \in Nat
      BY <1>1, <1>4, <2>2 DEF Ages
    <3>2. stamps = Stored(s)
      BY <2>2 DEF stamps
    <3> QED
      BY <1>3, <1>7, <1>8, <2>2, <3>1, <3>2
  <2> QED
    BY <2>1, <2>2
<1>16. DOMAIN requests' \subseteq Sources
  BY <1>2, <1>9, <1>12
<1> HIDE DEF rest
<1> QED
  BY <1>11, <1>12, <1>13, <1>14, <1>15, <1>16 DEF LimiterInv

LEMMA LimiterKeeps == LimiterInv /\ [LimiterNext]_limiterVars => LimiterInv'
<1> SUFFICES ASSUME LimiterInv, [LimiterNext]_limiterVars PROVE LimiterInv'
  OBVIOUS
<1>1. CASE LimiterLater
  BY <1>1, LaterKeeps
<1>2. ASSUME NEW s \in Sources, Allow(s) PROVE LimiterInv'
  BY <1>2, AllowKeeps
<1>3. CASE UNCHANGED limiterVars
  BY <1>3 DEF limiterVars, LimiterInv, Stored
<1> QED
  BY <1>1, <1>2, <1>3 DEF LimiterNext

\* rateLimiterAllow lets through no more than the limit in any second, and refuses no
\* source that has not had that many.
THEOREM LimitExact == LimiterSpec => [](LimitIsExact /\ LimiterTypeOK)
<1>1. LimiterInv => LimitIsExact /\ LimiterTypeOK
  <2> SUFFICES ASSUME LimiterInv PROVE LimitIsExact /\ LimiterTypeOK
    OBVIOUS
  <2>1. \A q \in Ages : \A i \in DOMAIN q : q[i] \in 0 .. Second
    <3>1. ASSUME NEW A, NEW q \in Seq(A), NEW i \in DOMAIN q PROVE q[i] \in A
      OBVIOUS
    <3> QED
      BY <3>1 DEF Ages
  <2>2. \A s \in DOMAIN requests : \A i \in DOMAIN requests[s] : requests[s][i] \in 0 .. Second
    BY <2>1 DEF LimiterInv
  <2> QED
    BY <2>2 DEF LimiterInv, LimitIsExact, LimiterTypeOK
<1> QED
  BY <1>1, LimiterStarts, LimiterKeeps, PTL DEF LimiterSpec

-----------------------------------------------------------------------------
(* Connect tokens. *)

Timed(f) ==
    /\ DOMAIN f \subseteq Clients /\ IsFiniteSet(DOMAIN f)
    /\ \A c \in DOMAIN f : f[c] \in 0 .. TokenLifetime

Tokens == [client : Clients, expires : Expiries, age : Nat]

\* The inductive invariant: what is remembered is the last use, and the memory is finite.
TokenInv ==
    /\ Timed(usedTokens) /\ Timed(lastTaken)
    /\ usedTokens = [c \in DOMAIN usedTokens |-> usedTokens[c]]
    /\ DOMAIN usedTokens \subseteq DOMAIN lastTaken
    /\ \A c \in DOMAIN usedTokens : usedTokens[c] = lastTaken[c]
    /\ Cardinality(DOMAIN usedTokens) <= MaxTracked
    /\ tokens \in Seq(Tokens) /\ Len(tokens) <= MaxTokens
    /\ RemembersRecent

\* evictOldest finds one.
LEMMA OldestIs ==
    ASSUME NEW used, Timed(used), DOMAIN used # {}
    PROVE  /\ OldestUse(used) \in DOMAIN used
           /\ \A d \in DOMAIN used : used[d] <= used[OldestUse(used)]
<1> DEFINE T == TokenLifetime
           Lag == {T - used[c] : c \in DOMAIN used}
<1>1. T \in Nat /\ Clients \subseteq Int
  BY TokenAssumption
<1>2. \A c \in DOMAIN used : used[c] \in 0 .. T /\ c \in Int
  BY <1>1 DEF Timed
<1>3. Lag \in SUBSET Nat /\ Lag # {}
  <2>1. \A c \in DOMAIN used : T - used[c] \in Nat
    BY <1>1, <1>2
  <2> QED
    BY <2>1
<1>4. PICK l \in Lag : \A m \in Lag : l <= m
  <2> HIDE DEF Lag
  <2> QED
    BY <1>3, Least
<1>5. PICK e \in DOMAIN used : l = T - used[e]
  OBVIOUS
<1>6. \A d \in DOMAIN used : used[d] <= used[e]
  <2> SUFFICES ASSUME NEW d \in DOMAIN used PROVE used[d] <= used[e]
    OBVIOUS
  <2>1. T - used[d] \in Lag
    OBVIOUS
  <2>2. T - used[e] <= T - used[d]
    BY <1>4, <1>5, <2>1
  <2> QED
    BY <1>1, <1>2, <2>2
<1> DEFINE S == {d \in DOMAIN used : used[d] = used[e]}
<1>7. S \in SUBSET Int /\ S # {} /\ IsFiniteSet(S)
  BY <1>2, FS_Subset DEF Timed
<1>8. PICK o \in S : \A t \in S : o <= t
  <2> HIDE DEF S
  <2> QED
    BY <1>7, LeastInt
<1>9. o \in DOMAIN used /\ \A d \in DOMAIN used : used[o] > used[d] \/ (used[o] = used[d] /\ o <= d)
  <2>1. o \in DOMAIN used /\ used[o] = used[e]
    OBVIOUS
  <2>2. ASSUME NEW d \in DOMAIN used PROVE used[o] > used[d] \/ (used[o] = used[d] /\ o <= d)
    <3>1. CASE used[d] = used[e]
      BY <1>8, <2>1, <3>1
    <3>2. CASE used[d] # used[e]
      <4>1. used[d] <= used[e] /\ used[d] \in Int /\ used[e] \in Int
        BY <1>2, <1>6
      <4> QED
        BY <2>1, <3>2, <4>1
    <3> QED
      BY <3>1, <3>2
  <2> QED
    BY <2>1, <2>2
<1> DEFINE r == OldestUse(used)
<1>10. r \in DOMAIN used /\ \A d \in DOMAIN used : used[r] > used[d] \/ (used[r] = used[d] /\ r <= d)
  BY <1>9 DEF OldestUse
<1> HIDE DEF r
<1>11. \A d \in DOMAIN used : used[d] <= used[r]
  BY <1>2, <1>10
<1> QED
  BY <1>10, <1>11 DEF r

\* The clients whose token was lately no earlier than c's.
Since(f, c) == {d \in DOMAIN f \ {c} : f[d] <= f[c]}

LEMMA TokensStart == TokenInit => TokenInv
<1> SUFFICES ASSUME TokenInit PROVE TokenInv
  OBVIOUS
<1>1. DOMAIN usedTokens = {} /\ DOMAIN lastTaken = {} /\ DOMAIN tokens = {}
      /\ usedTokens = [c \in DOMAIN usedTokens |-> usedTokens[c]]
      /\ tokens \in Seq(Tokens) /\ Len(tokens) = 0
  BY DEF TokenInit
<1>2. IsFiniteSet({}) /\ Cardinality({}) = 0
  BY FS_EmptySet
<1>3. MaxTracked \in Nat /\ MaxTokens \in Nat
  BY TokenAssumption
<1> QED
  BY <1>1, <1>2, <1>3 DEF TokenInv, Timed, RemembersRecent

\* Some of the used tokens may be forgotten if each has outlived its token or leaves as
\* many that are younger,
MayForget(used, lately, gone) ==
    /\ gone \in SUBSET DOMAIN used /\ Timed(used) /\ Timed(lately)
    /\ DOMAIN used \subseteq DOMAIN lately /\ \A c \in DOMAIN used : used[c] = lately[c]
    /\ \A c \in DOMAIN lately : lately[c] < TokenLifetime /\ (c \in gone \/ c \notin DOMAIN used)
           => Cardinality(Since(lately, c)) >= MaxTracked

\* and then the rest is as good as all of them.
Remembers(used, lately) ==
    /\ Timed(used) /\ used = [c \in DOMAIN used |-> used[c]]
    /\ DOMAIN used \subseteq DOMAIN lately /\ \A c \in DOMAIN used : used[c] = lately[c]
    /\ \A c \in DOMAIN lately : lately[c] < TokenLifetime /\ c \notin DOMAIN used
           => Cardinality(Since(lately, c)) >= MaxTracked

LEMMA Forgetting ==
    ASSUME NEW used, NEW lately, NEW gone, MayForget(used, lately, gone)
    PROVE  Remembers(Kept(used, gone), lately) /\ DOMAIN Kept(used, gone) = DOMAIN used \ gone
<1>1. DOMAIN Kept(used, gone) = DOMAIN used \ gone /\ \A c \in DOMAIN used \ gone : Kept(used, gone)[c] = used[c]
  BY DEF Kept
<1>2. IsFiniteSet(DOMAIN used \ gone)
  BY FS_Subset DEF Timed, MayForget
<1>3. Timed(Kept(used, gone))
  BY <1>1, <1>2 DEF Timed, MayForget
<1>4. Kept(used, gone) = [c \in DOMAIN Kept(used, gone) |-> Kept(used, gone)[c]]
  BY DEF Kept
<1> DEFINE k == Kept(used, gone)
<1> HIDE DEF k
<1>5. DOMAIN k \subseteq DOMAIN lately /\ \A c \in DOMAIN k : k[c] = lately[c]
  BY <1>1 DEF k, MayForget
<1>6. \A c \in DOMAIN lately : lately[c] < TokenLifetime /\ c \notin DOMAIN k
         => Cardinality(Since(lately, c)) >= MaxTracked
  BY <1>1 DEF k, MayForget
<1>7. Remembers(k, lately)
  BY <1>3, <1>4, <1>5, <1>6 DEF Remembers, k
<1> QED
  BY <1>1, <1>7 DEF k

LEMMA RemembersSince ==
    RemembersRecent <=> \A c \in DOMAIN lastTaken :
        lastTaken[c] < TokenLifetime /\ c \notin DOMAIN usedTokens
            => Cardinality(Since(lastTaken, c)) >= MaxTracked
BY DEF RemembersRecent, Since

\* A token is lately.
LEMMA ValidateKeeps == ASSUME NEW t \in DOMAIN tokens PROVE TokenInv /\ Validate(t) => TokenInv'
<1> SUFFICES ASSUME TokenInv, Validate(t) PROVE TokenInv'
  OBVIOUS
<1> DEFINE client == tokens[t].client
           used   == Taken(usedTokens, client)
           lately  == Taken(lastTaken, client)
           gone    == OverLimit(used)
           cleaned == Kept(used, Outlived(used))
<1>1. client \notin DOMAIN usedTokens /\ usedTokens' = Kept(used, gone) /\ lastTaken' = lately /\ tokens' = tokens
  BY DEF Validate
<1>2. TokenLifetime \in Nat \ {0} /\ MaxTracked \in Nat \ {0}
  BY TokenAssumption
<1>3. client \in Clients
  <2>1. tokens[t] \in Tokens
    BY DEF TokenInv
  <2> QED
    BY <2>1 DEF Tokens
<1> HIDE DEF client
<1>4. /\ DOMAIN used = DOMAIN usedTokens \cup {client} /\ used[client] = 0
      /\ \A c \in DOMAIN usedTokens : used[c] = usedTokens[c]
  BY <1>1 DEF Taken
<1>5. /\ DOMAIN lately = DOMAIN lastTaken \cup {client} /\ lately[client] = 0
      /\ \A c \in DOMAIN lastTaken \ {client} : lately[c] = lastTaken[c]
  BY DEF Taken
<1> HIDE DEF used, lately
<1>6. Timed(used) /\ Timed(lately)
  <2>1. IsFiniteSet(DOMAIN used) /\ IsFiniteSet(DOMAIN lately)
    BY <1>4, <1>5, FS_AddElement DEF TokenInv, Timed
  <2> QED
    BY <1>2, <1>3, <1>4, <1>5, <2>1 DEF TokenInv, Timed
<1>7. DOMAIN used \subseteq DOMAIN lately /\ \A c \in DOMAIN used : used[c] = lately[c]
  BY <1>1, <1>4, <1>5 DEF TokenInv
<1>8. Cardinality(DOMAIN used) <= MaxTracked + 1
  <2>1. Cardinality(DOMAIN used) = Cardinality(DOMAIN usedTokens) + 1
    <3>1. IsFiniteSet(DOMAIN usedTokens)
      BY DEF TokenInv, Timed
    <3>2. Cardinality(DOMAIN usedTokens \cup {client}) = Cardinality(DOMAIN usedTokens) + 1
      BY <1>1, <3>1, FS_AddElement
    <3> QED
      BY <1>4, <3>2
  <2>2. Cardinality(DOMAIN usedTokens) \in Nat /\ Cardinality(DOMAIN usedTokens) <= MaxTracked
    BY FS_CardinalityType DEF TokenInv, Timed
  <2> QED
    BY <1>2, <2>1, <2>2
<1>9. /\ DOMAIN cleaned = DOMAIN used \ Outlived(used) /\ Outlived(used) \in SUBSET DOMAIN used
      /\ \A c \in DOMAIN cleaned : cleaned[c] = used[c]
  BY DEF Kept, Outlived
<1>10. Timed(cleaned)
  <2>1. IsFiniteSet(DOMAIN cleaned)
    BY <1>6, <1>9, FS_Subset DEF Timed
  <2> QED
    BY <1>6, <1>9, <2>1 DEF Timed
<1>11. gone = Outlived(used) \cup (IF Cardinality(DOMAIN cleaned) <= MaxTracked THEN {} ELSE {OldestUse(cleaned)})
  BY DEF OverLimit
<1> HIDE DEF cleaned, gone
<1>12. Cardinality(DOMAIN cleaned) \in Nat /\ Cardinality(DOMAIN cleaned) <= Cardinality(DOMAIN used)
       /\ Cardinality(DOMAIN used) \in Nat
  BY <1>6, <1>9, <1>10, FS_Subset, FS_CardinalityType DEF Timed
<1> DEFINE o == OldestUse(cleaned)
<1>13. Cardinality(DOMAIN cleaned) > MaxTracked =>
          o \in DOMAIN cleaned /\ \A d \in DOMAIN cleaned : cleaned[d] <= cleaned[o]
  <2> SUFFICES ASSUME Cardinality(DOMAIN cleaned) > MaxTracked
               PROVE  o \in DOMAIN cleaned /\ \A d \in DOMAIN cleaned : cleaned[d] <= cleaned[o]
    OBVIOUS
  <2>1. DOMAIN cleaned # {}
    <3>1. Cardinality({}) = 0
      BY FS_EmptySet
    <3> QED
      BY <1>2, <3>1
  <2> QED
    BY <1>10, <2>1, OldestIs
<1> HIDE DEF o
<1>14. gone \in SUBSET DOMAIN used /\ Cardinality(DOMAIN used \ gone) <= MaxTracked
  <2>1. CASE Cardinality(DOMAIN cleaned) <= MaxTracked
    <3>1. gone = Outlived(used)
      BY <1>11, <2>1
    <3> QED
      BY <1>9, <2>1, <3>1
  <2>2. CASE ~(Cardinality(DOMAIN cleaned) <= MaxTracked)
    <3>1. o \in DOMAIN cleaned /\ gone = Outlived(used) \cup {o}
      BY <1>2, <1>11, <1>12, <1>13, <2>2 DEF o
    <3>2. DOMAIN used \ gone = DOMAIN cleaned \ {o}
      BY <1>9, <3>1
    <3>3. Cardinality(DOMAIN cleaned \ {o}) = Cardinality(DOMAIN cleaned) - 1
      BY <1>10, <3>1, FS_RemoveElement DEF Timed
    <3>4. Cardinality(DOMAIN cleaned) - 1 <= MaxTracked
      BY <1>2, <1>8, <1>12
    <3> QED
      BY <1>9, <3>1, <3>2, <3>3, <3>4
  <2> QED
    BY <2>1, <2>2
\* Whoever was forgotten before is forgotten with as many others used since.
<1>15. ASSUME NEW c \in DOMAIN lately \ DOMAIN used, lately[c] < TokenLifetime
       PROVE  Cardinality(Since(lately, c)) >= MaxTracked
  <2>1. c \in DOMAIN lastTaken \ DOMAIN usedTokens /\ c # client /\ lately[c] = lastTaken[c]
    BY <1>4, <1>5, <1>15
  <2>2. Cardinality(Since(lastTaken, c)) >= MaxTracked
    BY <1>15, <2>1, RemembersSince DEF TokenInv
  <2>3. Since(lastTaken, c) \subseteq Since(lately, c)
    <3> SUFFICES ASSUME NEW d \in Since(lastTaken, c) PROVE d \in Since(lately, c)
      OBVIOUS
    <3>1. d \in DOMAIN lastTaken \ {c} /\ lastTaken[d] <= lastTaken[c] /\ lastTaken[c] \in Nat
      BY <2>1, <1>2 DEF Since, TokenInv, Timed
    <3>2. CASE d = client
      <4>1. d \in DOMAIN lately \ {c} /\ lately[d] = 0 /\ 0 <= lately[c]
        BY <1>5, <2>1, <3>1, <3>2
      <4> QED
        BY <4>1 DEF Since
    <3>3. CASE d # client
      BY <1>5, <2>1, <3>1, <3>3 DEF Since
    <3> QED
      BY <3>2, <3>3
  <2>4. IsFiniteSet(Since(lately, c))
    BY <1>6, FS_Subset DEF Since, Timed
  <2>5. Cardinality(Since(lastTaken, c)) <= Cardinality(Since(lately, c))
        /\ Cardinality(Since(lately, c)) \in Nat /\ Cardinality(Since(lastTaken, c)) \in Nat
    BY <2>3, <2>4, FS_Subset, FS_CardinalityType
  <2> QED
    BY <1>2, <2>2, <2>5
\* Whoever makes room leaves as many.
<1>16. ASSUME NEW c \in gone, used[c] < TokenLifetime
       PROVE  Cardinality(Since(lately, c)) >= MaxTracked
  <2>1. c \notin Outlived(used)
    <3>1. used[c] \in Nat \/ c \notin DOMAIN used
      BY <1>2, <1>6 DEF Timed
    <3> QED
      BY <1>2, <1>16, <3>1 DEF Outlived
  <2>2. Cardinality(DOMAIN cleaned) > MaxTracked /\ c = o
    BY <1>2, <1>11, <1>12, <2>1 DEF o
  <2>3. c \in DOMAIN cleaned /\ \A d \in DOMAIN cleaned : cleaned[d] <= cleaned[c]
    BY <1>13, <2>2
  <2>4. DOMAIN cleaned \ {c} \subseteq Since(lately, c)
    BY <1>7, <1>9, <2>3 DEF Since
  <2>5. IsFiniteSet(Since(lately, c))
    BY <1>6, FS_Subset DEF Since, Timed
  <2>6. Cardinality(DOMAIN cleaned \ {c}) = Cardinality(DOMAIN cleaned) - 1
    BY <1>10, <2>3, FS_RemoveElement DEF Timed
  <2>7. Cardinality(DOMAIN cleaned \ {c}) <= Cardinality(Since(lately, c)) /\ Cardinality(Since(lately, c)) \in Nat
    BY <2>4, <2>5, FS_Subset, FS_CardinalityType
  <2> QED
    BY <1>2, <1>12, <2>2, <2>6, <2>7
<1>17. Remembers(usedTokens', lately) /\ DOMAIN usedTokens' = DOMAIN used \ gone
  <2>1. MayForget(used, lately, gone)
    BY <1>6, <1>7, <1>14, <1>15, <1>16 DEF MayForget
  <2> QED
    BY <1>1, <2>1, Forgetting
<1>18. RemembersRecent'
  BY <1>1, <1>17 DEF RemembersRecent, Since, Remembers
<1>19. Timed(lastTaken)'
  BY <1>1, <1>6 DEF Timed
<1>20. Timed(usedTokens)'
  BY <1>17 DEF Timed, Remembers
<1> QED
  BY <1>1, <1>14, <1>17, <1>18, <1>19, <1>20 DEF TokenInv, Remembers

\* What has outlived its token is forgotten.
LEMMA CleanupKeeps == TokenInv /\ ValidatorCleanup => TokenInv'
<1> SUFFICES ASSUME TokenInv, ValidatorCleanup PROVE TokenInv'
  OBVIOUS
<1> DEFINE gone == Outlived(usedTokens)
<1>1. usedTokens' = Kept(usedTokens, gone) /\ lastTaken' = lastTaken /\ tokens' = tokens
  BY DEF ValidatorCleanup
<1>2. TokenLifetime \in Nat \ {0} /\ MaxTracked \in Nat \ {0}
  BY TokenAssumption
<1>3. gone \in SUBSET DOMAIN usedTokens /\ \A c \in gone : ~(usedTokens[c] < TokenLifetime)
  BY <1>2 DEF Outlived, TokenInv, Timed
<1> HIDE DEF gone
<1>4. \A c \in DOMAIN lastTaken \ DOMAIN usedTokens :
          lastTaken[c] < TokenLifetime => Cardinality(Since(lastTaken, c)) >= MaxTracked
  BY RemembersSince DEF TokenInv
<1>5. Timed(usedTokens) /\ Timed(lastTaken) /\ DOMAIN usedTokens \subseteq DOMAIN lastTaken
      /\ \A c \in DOMAIN usedTokens : usedTokens[c] = lastTaken[c]
  BY DEF TokenInv
<1>6. Remembers(usedTokens', lastTaken) /\ DOMAIN usedTokens' = DOMAIN usedTokens \ gone
  <2>1. MayForget(usedTokens, lastTaken, gone)
    BY <1>3, <1>4, <1>5 DEF MayForget
  <2> QED
    BY <1>1, <2>1, Forgetting
<1>7. Cardinality(DOMAIN usedTokens') <= MaxTracked
  <2>1. IsFiniteSet(DOMAIN usedTokens) /\ Cardinality(DOMAIN usedTokens) <= MaxTracked
    BY DEF TokenInv, Timed
  <2>2. Cardinality(DOMAIN usedTokens') <= Cardinality(DOMAIN usedTokens)
        /\ Cardinality(DOMAIN usedTokens') \in Nat /\ Cardinality(DOMAIN usedTokens) \in Nat
    BY <1>6, <2>1, FS_Subset, FS_CardinalityType
  <2> QED
    BY <1>2, <2>1, <2>2
<1>8. RemembersRecent'
  BY <1>1, <1>6 DEF RemembersRecent, Since, Remembers
<1>9. Timed(lastTaken)' /\ Timed(usedTokens)'
  BY <1>1, <1>5, <1>6 DEF Timed, Remembers
<1> QED
  BY <1>1, <1>6, <1>7, <1>8, <1>9 DEF TokenInv, Remembers

\* Time passes; who is younger stays younger.
LEMMA AgeKeeps == TokenInv /\ TokensAge => TokenInv'
<1> SUFFICES ASSUME TokenInv, TokensAge PROVE TokenInv'
  OBVIOUS
<1>1. usedTokens' = AllOlder(usedTokens) /\ lastTaken' = AllOlder(lastTaken)
  BY DEF TokensAge
<1>2. TokenLifetime \in Nat \ {0} /\ MaxTracked \in Nat \ {0}
  BY TokenAssumption
<1>3. Timed(usedTokens) /\ Timed(lastTaken) /\ DOMAIN usedTokens \subseteq DOMAIN lastTaken
      /\ \A c \in DOMAIN usedTokens : usedTokens[c] = lastTaken[c]
  BY DEF TokenInv
<1> DEFINE OneOlder(a) == IF a < TokenLifetime THEN a + 1 ELSE a
<1>4. /\ \A a \in 0 .. TokenLifetime : OneOlder(a) \in 0 .. TokenLifetime /\ (OneOlder(a) < TokenLifetime => a < TokenLifetime)
      /\ \A a, b \in 0 .. TokenLifetime : a <= b => OneOlder(a) <= OneOlder(b)
  BY <1>2
<1>5. /\ DOMAIN usedTokens' = DOMAIN usedTokens /\ \A c \in DOMAIN usedTokens : usedTokens'[c] = OneOlder(usedTokens[c])
      /\ DOMAIN lastTaken' = DOMAIN lastTaken /\ \A c \in DOMAIN lastTaken : lastTaken'[c] = OneOlder(lastTaken[c])
      /\ usedTokens' = [c \in DOMAIN usedTokens' |-> usedTokens'[c]]
  BY <1>1 DEF AllOlder
<1> HIDE DEF OneOlder
<1>6. Timed(usedTokens)' /\ Timed(lastTaken)'
  BY <1>3, <1>4, <1>5 DEF Timed
<1>7. ASSUME NEW c \in DOMAIN lastTaken, lastTaken'[c] < TokenLifetime, c \notin DOMAIN usedTokens
      PROVE  Cardinality(Since(lastTaken', c)) >= MaxTracked
  <2>1. \A d \in DOMAIN lastTaken : lastTaken[d] \in 0 .. TokenLifetime
    BY <1>3 DEF Timed
  <2>2. Cardinality(Since(lastTaken, c)) >= MaxTracked
    BY <1>4, <1>5, <1>7, <2>1, RemembersSince DEF TokenInv
  <2>3. Since(lastTaken, c) \subseteq Since(lastTaken', c)
    BY <1>4, <1>5, <2>1 DEF Since
  <2>4. IsFiniteSet(Since(lastTaken', c))
    BY <1>3, <1>5, FS_Subset DEF Since, Timed
  <2>5. Cardinality(Since(lastTaken, c)) <= Cardinality(Since(lastTaken', c))
        /\ Cardinality(Since(lastTaken', c)) \in Nat /\ Cardinality(Since(lastTaken, c)) \in Nat
    BY <2>3, <2>4, FS_Subset, FS_CardinalityType
  <2> QED
    BY <1>2, <2>2, <2>5
<1>8. RemembersRecent'
  BY <1>5, <1>7 DEF RemembersRecent, Since
<1>9. tokens' \in Seq(Tokens) /\ Len(tokens') <= MaxTokens
  <2>1. tokens \in Seq(Tokens) /\ Len(tokens) <= MaxTokens /\ Len(tokens) \in Nat /\ DOMAIN tokens = 1 .. Len(tokens)
    BY DEF TokenInv
  <2>2. \A t \in 1 .. Len(tokens) : [tokens[t] EXCEPT !.age = IF IsExpired(t) THEN @ ELSE @ + 1] \in Tokens
    <3> SUFFICES ASSUME NEW t \in 1 .. Len(tokens)
                 PROVE  [tokens[t] EXCEPT !.age = IF IsExpired(t) THEN @ ELSE @ + 1] \in Tokens
      OBVIOUS
    <3>1. tokens[t] \in Tokens
      BY <2>1
    <3> QED
      BY <3>1 DEF Tokens
  <2>3. tokens' = [t \in 1 .. Len(tokens) |-> [tokens[t] EXCEPT !.age = IF IsExpired(t) THEN @ ELSE @ + 1]]
    BY <2>1 DEF TokensAge
  <2>4. tokens' \in [1 .. Len(tokens) -> Tokens]
    BY <2>2, <2>3
  <2> QED
    BY <2>1, <2>4
<1>10. /\ DOMAIN usedTokens' \subseteq DOMAIN lastTaken'
       /\ \A c \in DOMAIN usedTokens' : usedTokens'[c] = lastTaken'[c]
       /\ Cardinality(DOMAIN usedTokens') <= MaxTracked
  BY <1>3, <1>5 DEF TokenInv
<1> QED
  BY <1>5, <1>6, <1>8, <1>9, <1>10 DEF TokenInv

LEMMA TokensKeep == TokenInv /\ [TokenNext]_tokenVars => TokenInv'
<1> SUFFICES ASSUME TokenInv, [TokenNext]_tokenVars PROVE TokenInv'
  OBVIOUS
<1>1. ASSUME NEW client \in Clients, NEW expiry \in Expiries, NewToken(client, expiry)
      PROVE  TokenInv'
  <2>1. /\ Len(tokens) < MaxTokens /\ usedTokens' = usedTokens /\ lastTaken' = lastTaken
        /\ tokens' = Append(tokens, [client |-> client, expires |-> expiry, age |-> 0])
    BY <1>1 DEF NewToken
  <2>2. [client |-> client, expires |-> expiry, age |-> 0] \in Tokens
    BY DEF Tokens
  <2>3. tokens' \in Seq(Tokens) /\ Len(tokens') = Len(tokens) + 1
    BY <2>1, <2>2 DEF TokenInv
  <2>4. Len(tokens) \in Nat /\ MaxTokens \in Nat
    BY TokenAssumption DEF TokenInv
  <2>5. RemembersRecent'
    BY <2>1 DEF TokenInv, RemembersRecent
  <2> QED
    BY <2>1, <2>3, <2>4, <2>5 DEF TokenInv, Timed
<1>2. ASSUME NEW t \in DOMAIN tokens, Validate(t) PROVE TokenInv'
  BY <1>2, ValidateKeeps
<1>3. CASE ValidatorCleanup
  BY <1>3, CleanupKeeps
<1>4. CASE TokensAge
  BY <1>4, AgeKeeps
<1>5. CASE UNCHANGED tokenVars
  BY <1>5 DEF tokenVars, TokenInv, Timed, RemembersRecent
<1> QED
  BY <1>1, <1>2, <1>3, <1>4, <1>5 DEF TokenNext

\* validateToken remembers a client as long as its token lives, unless as many others as
\* it has room for were lately since, whichever it evicts.
THEOREM RecentRemembered == TokenSpec => []RemembersRecent
<1>1. TokenInv => RemembersRecent
  BY DEF TokenInv
<1> QED
  BY <1>1, TokensStart, TokensKeep, PTL DEF TokenSpec

\* The state of the validator is well typed, its memory within its bound.
THEOREM TokensTyped == TokenSpec => []TokenTypeOK
<1>1. TokenInv => TokenTypeOK
  <2> SUFFICES ASSUME TokenInv PROVE TokenTypeOK
    OBVIOUS
  <2>1. \A t \in DOMAIN tokens : tokens[t].client \in Clients
    <3> SUFFICES ASSUME NEW t \in DOMAIN tokens PROVE tokens[t].client \in Clients
      OBVIOUS
    <3>1. tokens[t] \in Tokens
      BY DEF TokenInv
    <3> QED
      BY <3>1 DEF Tokens
  <2> QED
    BY <2>1 DEF TokenInv, Timed, TokenTypeOK
<1> QED
  BY <1>1, TokensStart, TokensKeep, PTL DEF TokenSpec

-----------------------------------------------------------------------------
(* The bandwidth tracker. *)

Transfers == [time : Nat, size : Nat]

\* The inductive invariant: each of the latest transfers is at its place in the ring, and
\* time does not run backwards.
BandwidthInv ==
    /\ transfers \in Seq(Transfers) /\ moment \in Nat
    /\ ring \in [AllSlots -> Transfers]
    /\ head = Len(transfers)
    /\ sampleCount = IF Len(transfers) < MaxSamples THEN Len(transfers) ELSE MaxSamples
    /\ \A i \in 1 .. Len(transfers) :
           i > Len(transfers) - MaxSamples => ring[(i - 1) % MaxSamples] = transfers[i]
    /\ \A i \in 1 .. Len(transfers) : transfers[i].time <= moment
    /\ \A i, j \in 1 .. Len(transfers) : i < j => transfers[i].time <= transfers[j].time

LEMMA BandwidthStarts == BandwidthInit => BandwidthInv
<1> SUFFICES ASSUME BandwidthInit PROVE BandwidthInv
  OBVIOUS
<1>1. transfers = <<>> /\ Len(transfers) = 0 /\ transfers \in Seq(Transfers) /\ 1 .. Len(transfers) = {}
  BY DEF BandwidthInit
<1>2. ring \in [AllSlots -> Transfers]
  <2>1. [time |-> 0, size |-> 0] \in Transfers
    BY DEF Transfers
  <2> QED
    BY <2>1 DEF BandwidthInit, AllSlots
<1>3. MaxSamples \in Nat \ {0}
  BY BandwidthAssumption
<1> QED
  BY <1>1, <1>2, <1>3 DEF BandwidthInv, BandwidthInit

LEMMA TransferKeeps ==
    ASSUME BandwidthInv, NEW size \in TransferSizes, BandwidthRecord(size)
    PROVE  BandwidthInv'
<1> DEFINE M == MaxSamples  n == Len(transfers)  k == n % M  t == [time |-> moment, size |-> size]
<1>1. M \in Nat \ {0} /\ n \in Nat /\ head = n /\ moment \in Nat /\ size \in Nat
  BY BandwidthAssumption DEF BandwidthInv
<1>2. k \in 0 .. (M - 1) /\ AllSlots = 0 .. (M - 1)
  BY <1>1, PlaceInRing DEF AllSlots
<1>3. transfers' = Append(transfers, t) /\ ring' = [ring EXCEPT ![k] = t] /\ head' = n + 1 /\ moment' = moment
      /\ sampleCount' = IF sampleCount < M THEN sampleCount + 1 ELSE sampleCount
  BY <1>1 DEF BandwidthRecord
<1>4. t \in Transfers /\ t.time = moment
  BY <1>1 DEF Transfers
<1> HIDE DEF t
<1>5. transfers' \in Seq(Transfers) /\ Len(transfers') = n + 1 /\ transfers'[n + 1] = t
      /\ \A i \in 1 .. n : transfers'[i] = transfers[i]
  BY <1>1, <1>3, <1>4 DEF BandwidthInv
<1>6. ring' \in [AllSlots -> Transfers] /\ ring'[k] = t /\ \A j \in AllSlots : j # k => ring'[j] = ring[j]
  BY <1>2, <1>3, <1>4 DEF BandwidthInv
<1>7. sampleCount' = IF n + 1 < M THEN n + 1 ELSE M
  BY <1>1, <1>3 DEF BandwidthInv
<1>8. \A i \in 1 .. (n + 1) : i > n + 1 - M => ring'[(i - 1) % M] = transfers'[i]
  <2> SUFFICES ASSUME NEW i \in 1 .. (n + 1), i > n + 1 - M
               PROVE  ring'[(i - 1) % M] = transfers'[i]
    OBVIOUS
  <2>1. CASE i = n + 1
    BY <1>1, <1>5, <1>6, <2>1
  <2>2. CASE i # n + 1
    <3>1. i \in 1 .. n /\ i > n - M /\ i - 1 \in Nat /\ i - 1 < n /\ n - (i - 1) < M
      BY <1>1, <2>2
    <3>2. (i - 1) % M # k
      BY <1>1, <3>1, PlacesApart
    <3>3. (i - 1) % M \in AllSlots
      BY <1>1, <1>2, <3>1, PlaceInRing
    <3>4. ring[(i - 1) % M] = transfers[i]
      BY <3>1 DEF BandwidthInv
    <3> QED
      BY <1>5, <1>6, <3>1, <3>2, <3>3, <3>4
  <2> QED
    BY <2>1, <2>2
<1>9. \A i \in 1 .. (n + 1) : i = n + 1 \/ i \in 1 .. n
  BY <1>1
<1>10. \A i \in 1 .. (n + 1) : transfers'[i].time <= moment
  BY <1>1, <1>4, <1>5, <1>9 DEF BandwidthInv
<1>11. \A i, j \in 1 .. (n + 1) : i < j => transfers'[i].time <= transfers'[j].time
  <2> SUFFICES ASSUME NEW i \in 1 .. (n + 1), NEW j \in 1 .. (n + 1), i < j
               PROVE  transfers'[i].time <= transfers'[j].time
    OBVIOUS
  <2>1. i \in 1 .. n /\ (j = n + 1 \/ j \in 1 .. n)
    BY <1>1
  <2> QED
    BY <1>4, <1>5, <2>1 DEF BandwidthInv
<1>12. n + 1 = Len(transfers') /\ AllSlots' = AllSlots
  BY <1>5 DEF AllSlots
<1>13. /\ \A i \in 1 .. Len(transfers') : i > Len(transfers') - M => ring'[(i - 1) % M] = transfers'[i]
       /\ \A i \in 1 .. Len(transfers') : transfers'[i].time <= moment'
       /\ \A i, j \in 1 .. Len(transfers') : i < j => transfers'[i].time <= transfers'[j].time
       /\ head' = Len(transfers') /\ sampleCount' = IF Len(transfers') < M THEN Len(transfers') ELSE M
  <2> HIDE DEF n, M
  <2>1. \A i \in 1 .. Len(transfers') : i > Len(transfers') - M => ring'[(i - 1) % M] = transfers'[i]
    BY <1>1, <1>8, <1>12
  <2>2. \A i \in 1 .. Len(transfers') : transfers'[i].time <= moment'
    BY <1>3, <1>10, <1>12
  <2>3. \A i, j \in 1 .. Len(transfers') : i < j => transfers'[i].time <= transfers'[j].time
    BY <1>11, <1>12
  <2>4. head' = Len(transfers') /\ sampleCount' = IF Len(transfers') < M THEN Len(transfers') ELSE M
    BY <1>3, <1>7, <1>12
  <2> QED
    BY <2>1, <2>2, <2>3, <2>4
<1> HIDE DEF n
<1> QED
  BY <1>1, <1>3, <1>5, <1>6, <1>12, <1>13, Zenon DEF BandwidthInv

LEMMA MomentKeeps == BandwidthInv /\ MomentPasses => BandwidthInv'
<1> SUFFICES ASSUME BandwidthInv, MomentPasses PROVE BandwidthInv'
  OBVIOUS
<1>1. moment \in Nat /\ moment' = moment + 1 /\ ring' = ring /\ head' = head /\ sampleCount' = sampleCount
      /\ transfers' = transfers
  BY DEF BandwidthInv, MomentPasses
<1>2. \A i \in 1 .. Len(transfers) : transfers[i].time <= moment + 1
  <2> SUFFICES ASSUME NEW i \in 1 .. Len(transfers) PROVE transfers[i].time <= moment + 1
    OBVIOUS
  <2>1. transfers[i] \in Transfers /\ transfers[i].time <= moment
    BY DEF BandwidthInv
  <2>2. transfers[i].time \in Nat
    BY <2>1 DEF Transfers
  <2> QED
    BY <1>1, <2>1, <2>2
<1> QED
  BY <1>1, <1>2 DEF BandwidthInv, AllSlots

LEMMA BandwidthKeeps == BandwidthInv /\ [BandwidthNext]_bandwidthVars => BandwidthInv'
<1> SUFFICES ASSUME BandwidthInv, [BandwidthNext]_bandwidthVars PROVE BandwidthInv'
  OBVIOUS
<1>1. CASE \E size \in TransferSizes : BandwidthRecord(size)
  BY <1>1, TransferKeeps
<1>2. CASE MomentPasses
  BY <1>2, MomentKeeps
<1>3. CASE UNCHANGED bandwidthVars
  BY <1>3 DEF BandwidthInv, bandwidthVars, AllSlots
<1> QED
  BY <1>1, <1>2, <1>3 DEF BandwidthNext

\* The places in use are those of the latest transfers.
LEMMA PlacesInUse ==
    ASSUME BandwidthInv
    PROVE  InUse = {(i - 1) % MaxSamples : i \in {j \in 1 .. Len(transfers) : j > Len(transfers) - MaxSamples}}
<1> DEFINE M == MaxSamples  n == Len(transfers)  c == sampleCount
           L == {j \in 1 .. n : j > n - M}
<1>1. M \in Nat \ {0} /\ n \in Nat /\ head = n /\ c = (IF n < M THEN n ELSE M) /\ c \in Nat
  BY BandwidthAssumption DEF BandwidthInv
<1>2. \A i \in 0 .. (c - 1) : n - c + i + 1 \in L /\ (n - c + i + 1) - 1 = n - c + i
  <2> SUFFICES ASSUME NEW i \in 0 .. (c - 1) PROVE n - c + i + 1 \in L /\ (n - c + i + 1) - 1 = n - c + i
    OBVIOUS
  <2>1. c \in Nat /\ n \in Nat /\ c <= n /\ c <= M /\ M \in Nat
    BY <1>1
  <2> HIDE DEF c, n, M
  <2>2. n - c + i + 1 \in 1 .. n /\ n - c + i + 1 > n - M
    BY <2>1
  <2> QED
    BY <2>1, <2>2
<1>3. \A j \in L : j - 1 - (n - c) \in 0 .. (c - 1) /\ n - c + (j - 1 - (n - c)) = j - 1
  <2> SUFFICES ASSUME NEW j \in L PROVE j - 1 - (n - c) \in 0 .. (c - 1) /\ n - c + (j - 1 - (n - c)) = j - 1
    OBVIOUS
  <2>1. c \in Nat /\ n \in Nat /\ c = (IF n < M THEN n ELSE M) /\ M \in Nat /\ j \in 1 .. n /\ j > n - M
    BY <1>1
  <2> HIDE DEF c, n, M, L
  <2>2. j - 1 - (n - c) \in 0 .. (c - 1)
    BY <2>1
  <2> QED
    BY <2>1, <2>2
<1>4. InUse = {(n - c + i) % M : i \in 0 .. (c - 1)}
  BY <1>1 DEF InUse
<1> HIDE DEF n, c, L, M
<1>5. ASSUME NEW x \in InUse PROVE x \in {(j - 1) % M : j \in L}
  <2>1. PICK i \in 0 .. (c - 1) : x = (n - c + i) % M
    BY <1>4
  <2> DEFINE j == n - c + i + 1
  <2>2. j \in L /\ j - 1 = n - c + i
    BY <1>2
  <2> HIDE DEF j
  <2> QED
    BY <2>1, <2>2
<1>6. ASSUME NEW x \in {(j - 1) % M : j \in L} PROVE x \in InUse
  <2>1. PICK j \in L : x = (j - 1) % M
    OBVIOUS
  <2> DEFINE i == j - 1 - (n - c)
  <2>2. i \in 0 .. (c - 1) /\ n - c + i = j - 1
    BY <1>3
  <2> HIDE DEF i
  <2> QED
    BY <1>4, <2>1, <2>2
<1>7. InUse = {(j - 1) % M : j \in L}
  BY <1>5, <1>6
<1> QED
  BY <1>7 DEF L, n, M

LEMMA RateExact == BandwidthInv => RateIsExact
<1> SUFFICES ASSUME BandwidthInv PROVE RateIsExact
  OBVIOUS
<1> DEFINE M == MaxSamples  n == Len(transfers)
           L == {j \in 1 .. n : j > n - M}
           latest == {i \in DOMAIN transfers : i > n - M /\ transfers[i].time >= moment - WindowMs}
           m == [i \in latest |-> (i - 1) % M]
           f == [i \in latest |-> transfers[i].size]
           g == [i \in InWindow |-> ring[i].size]
<1>1. M \in Nat \ {0} /\ n \in Nat /\ moment \in Nat /\ WindowMs \in Nat /\ DOMAIN transfers = 1 .. n
  BY BandwidthAssumption DEF BandwidthInv
<1>2. latest = {i \in L : transfers[i].time >= moment - WindowMs} /\ L \in SUBSET Nat /\ latest \in SUBSET L
  BY <1>1
<1>3. \A i \in L : /\ transfers[i] \in Transfers /\ transfers[i].time \in Nat /\ transfers[i].size \in Nat
                   /\ transfers[i].time <= moment /\ ring[(i - 1) % M] = transfers[i]
                   /\ i - 1 \in Nat /\ i \in 1 .. n
  <2> SUFFICES ASSUME NEW i \in L
               PROVE  /\ transfers[i] \in Transfers /\ transfers[i].time \in Nat /\ transfers[i].size \in Nat
                      /\ transfers[i].time <= moment /\ ring[(i - 1) % M] = transfers[i]
                      /\ i - 1 \in Nat /\ i \in 1 .. n
    OBVIOUS
  <2>1. i \in 1 .. n /\ i > n - M /\ i - 1 \in Nat
    BY <1>1
  <2>2. transfers[i] \in Transfers
    BY <2>1 DEF BandwidthInv
  <2> QED
    BY <2>1, <2>2 DEF BandwidthInv, Transfers
<1>4. \A i, j \in L : (i - 1) % M = (j - 1) % M => i = j
  <2>1. ASSUME NEW i \in L, NEW j \in L, i < j PROVE (i - 1) % M # (j - 1) % M
    <3>1. i - 1 \in Nat /\ j - 1 \in Nat /\ i - 1 < j - 1 /\ (j - 1) - (i - 1) < M
      BY <1>1, <1>3, <2>1
    <3> QED
      BY <1>1, <3>1, PlacesApart
  <2>2. \A i, j \in L : i < j \/ j < i \/ i = j
    BY <1>1
  <2> QED
    BY <2>1, <2>2
<1>5. \A t \in Nat : t >= Cutoff <=> t >= moment - WindowMs
  BY <1>1 DEF Cutoff
<1>6. InUse = {(i - 1) % M : i \in L}
  BY PlacesInUse
<1> HIDE DEF L, latest, n, M
<1>7. InWindow = {(i - 1) % M : i \in latest}
  <2>1. ASSUME NEW x \in InWindow PROVE x \in {(i - 1) % M : i \in latest}
    <3>1. x \in InUse /\ ring[x].time >= Cutoff
      BY <2>1 DEF InWindow
    <3>2. PICK i \in L : x = (i - 1) % M
      BY <1>6, <3>1
    <3>3. transfers[i].time >= Cutoff /\ transfers[i].time \in Nat
      BY <1>3, <3>1, <3>2
    <3>4. i \in latest
      BY <1>2, <1>5, <3>3
    <3> QED
      BY <3>2, <3>4
  <2>2. ASSUME NEW i \in latest PROVE (i - 1) % M \in InWindow
    <3>1. i \in L /\ transfers[i].time >= moment - WindowMs
      BY <1>2
    <3>2. transfers[i].time >= Cutoff /\ ring[(i - 1) % M] = transfers[i]
      BY <1>3, <1>5, <3>1
    <3>3. (i - 1) % M \in InUse
      BY <1>6, <3>1
    <3> QED
      BY <3>2, <3>3 DEF InWindow
  <2> QED
    BY <2>1, <2>2
<1>8. IsFiniteSet(latest) /\ latest \in SUBSET Int /\ latest \in SUBSET Nat
  <2>1. IsFiniteSet(1 .. n)
    BY <1>1, FS_Interval
  <2>2. latest \subseteq 1 .. n
    BY <1>2, <1>3
  <2>3. IsFiniteSet(latest)
    BY <2>1, <2>2, FS_Subset
  <2>4. \A i \in latest : i \in Nat /\ i \in Int
    BY <1>1, <2>2
  <2> QED
    BY <2>3, <2>4
<1>f. IsFiniteSet(latest)
  BY <1>8
<1>9. BandwidthBps.bytes = Volume(transfers, latest)
  <2>1. {m[i] : i \in latest} = InWindow
    BY <1>7
  <2>2. \A i \in latest : f[i] \in Int /\ g[m[i]] = f[i]
    <3> SUFFICES ASSUME NEW i \in latest PROVE f[i] \in Int /\ g[m[i]] = f[i]
      OBVIOUS
    <3>1. i \in L /\ m[i] \in InWindow /\ m[i] = (i - 1) % M
      BY <1>2, <2>1
    <3> QED
      BY <1>3, <3>1
  <2>3. \A i, j \in latest : m[i] = m[j] => i = j
    BY <1>2, <1>4
  <2>4. Volume(ring, InWindow) = SumFunctionOnSet(g, InWindow) /\ Volume(transfers, latest) = SumFunctionOnSet(f, latest)
    BY DEF Volume
  <2>5. BandwidthBps.bytes = Volume(ring, InWindow)
    BY DEF BandwidthBps
  <2> HIDE DEF f, g, m
  <2>6. SumFunctionOnSet(f, latest) = SumFunctionOnSet(g, {m[i] : i \in latest})
    BY <1>f, <2>2, <2>3, SumRenamed
  <2> QED
    BY <2>1, <2>4, <2>5, <2>6
<1>10. ASSUME latest # {}
       PROVE  LET since == moment - transfers[Min(latest)].time
              IN  BandwidthBps.over = IF since = 0 THEN 1 ELSE since
  <2> DEFINE a == Min(latest)  t == transfers[a].time
             T == {ring[i].time : i \in InWindow} \cup {moment}
  <2>1. \E x \in latest : \A y \in latest : x <= y
    BY <1>8, <1>10, LeastInt
  <2>2. a \in latest /\ \A y \in latest : a <= y
    BY <2>1 DEF Min
  <2>3. t \in Nat /\ t <= moment
    BY <1>2, <1>3, <2>2
  <2>4. T = {transfers[i].time : i \in latest} \cup {moment}
    <3>1. \A i \in latest : ring[(i - 1) % M].time = transfers[i].time
      BY <1>2, <1>3
    <3> HIDE DEF a
    <3>2. {ring[i].time : i \in InWindow} = {transfers[i].time : i \in latest}
      BY <1>7, <3>1
    <3> QED
      BY <3>2
  <2>5. \A i \in latest : t <= transfers[i].time
    <3> SUFFICES ASSUME NEW i \in latest PROVE t <= transfers[i].time
      OBVIOUS
    <3>1. a \in 1 .. n /\ i \in 1 .. n /\ a <= i
      BY <1>2, <1>3, <2>2
    <3> HIDE DEF a
    <3>2. CASE a = i
      BY <2>3, <3>2
    <3>3. CASE a < i
      BY <3>1, <3>3 DEF BandwidthInv, n
    <3> QED
      BY <1>1, <3>1, <3>2, <3>3
  <2> HIDE DEF a
  <2>6. t \in T /\ \A u \in T : t <= u
    BY <2>2, <2>3, <2>4, <2>5
  <2>7. \A u \in T : u \in Int
    BY <1>1, <1>2, <1>3, <2>4
  <2> HIDE DEF T, t
  <2>8. Min(T) = t
    <3>1. Min(T) \in T /\ \A u \in T : Min(T) <= u
      BY <2>6 DEF Min
    <3> QED
      BY <2>6, <2>7, <3>1
  <2>9. BandwidthBps.over = IF moment - Min(T) < 1 THEN 1 ELSE moment - Min(T)
    BY DEF BandwidthBps, T
  <2>10. BandwidthBps.over = IF moment - t = 0 THEN 1 ELSE moment - t
    BY <1>1, <2>3, <2>8, <2>9
  <2> QED
    BY <2>10 DEF t, a
<1> QED
  BY <1>9, <1>10 DEF RateIsExact, latest, n, M

\* RateIsExact: however many transfers the ring has overwritten, nn_bandwidth_bps counts
\* those of the latest that are within the window, over the time since the first of them.
THEOREM RateOfTransfers == BandwidthSpec => []RateIsExact
<1> QED
  BY BandwidthStarts, BandwidthKeeps, RateExact, PTL DEF BandwidthSpec

-----------------------------------------------------------------------------
(* Migration. *)

\* The inductive invariant: no two places have the same connection, and a connection that
\* moved within the cool-down is remembered as cooling down.
MigrationInv ==
    /\ DOMAIN places \subseteq Addresses
    /\ \A a \in DOMAIN places : places[a] \in Salts
    /\ \A a, b \in DOMAIN places : places[a] = places[b] => a = b
    /\ localSeq \in [Salts -> Seqs] /\ source \in [Salts -> Addresses]
    /\ DOMAIN cooldowns \subseteq Salts
    /\ \A s \in DOMAIN cooldowns : cooldowns[s] = sinceMove[s]
    /\ sinceMove \in [Salts -> 0 .. MigrationCooldown]
    /\ \A s \in Salts : sinceMove[s] < MigrationCooldown => s \in DOMAIN cooldowns

LEMMA MigrationTyped == MigrationInv => MigrationTypeOK
BY DEF MigrationInv, MigrationTypeOK, Established

\* There are addresses enough for every client to have one of its own.
LEMMA AddressesEnough ==
    \E f \in [Salts -> Addresses] : \A s, t \in Salts : f[s] = f[t] => s = t
<1> DEFINE n == Cardinality(Salts)  m == Cardinality(Addresses)
<1>1. n \in Nat /\ m \in Nat /\ n <= m /\ ExistsBijection(1 .. n, Salts) /\ ExistsBijection(1 .. m, Addresses)
  BY MigrationAssumption, FS_CardinalityType
<1> HIDE DEF n, m
<1>2. PICK p : p \in Bijection(1 .. n, Salts)
  BY <1>1 DEF ExistsBijection
<1>3. PICK q : q \in Bijection(1 .. m, Addresses)
  BY <1>1 DEF ExistsBijection
<1>4. /\ p \in [1 .. n -> Salts] /\ \A s \in Salts : \E i \in 1 .. n : p[i] = s
      /\ q \in [1 .. m -> Addresses] /\ \A i, j \in 1 .. m : q[i] = q[j] => i = j
  <2>1. \A S, T, g : g \in Bijection(S, T) => g \in [S -> T] /\ (\A t \in T : \E x \in S : g[x] = t)
    BY DEF Bijection, Surjection
  <2>2. \A S, T, g : g \in Bijection(S, T) => g \in [S -> T] /\ (\A x, y \in S : g[x] = g[y] => x = y)
    BY DEF Bijection, Injection, IsInjective
  <2>3. p \in [1 .. n -> Salts] /\ (\A s \in Salts : \E i \in 1 .. n : p[i] = s)
    BY <1>2 DEF Bijection, Surjection
  <2>4. q \in [1 .. m -> Addresses] /\ (\A i, j \in 1 .. m : q[i] = q[j] => i = j)
    BY <1>3, <2>2, Zenon
  <2> QED
    BY <2>3, <2>4
<1> DEFINE k == [s \in Salts |-> CHOOSE i \in 1 .. n : p[i] = s]
           f == [s \in Salts |-> q[k[s]]]
<1>5. \A s \in Salts : k[s] \in 1 .. n /\ p[k[s]] = s /\ k[s] \in 1 .. m
  <2> SUFFICES ASSUME NEW s \in Salts PROVE k[s] \in 1 .. n /\ p[k[s]] = s /\ k[s] \in 1 .. m
    OBVIOUS
  <2>1. k[s] \in 1 .. n /\ p[k[s]] = s
    BY <1>4
  <2> HIDE DEF k
  <2> QED
    BY <1>1, <2>1
<1> HIDE DEF k
<1>6. f \in [Salts -> Addresses]
  BY <1>4, <1>5
<1>7. \A s, t \in Salts : f[s] = f[t] => s = t
  <2> SUFFICES ASSUME NEW s \in Salts, NEW t \in Salts, f[s] = f[t] PROVE s = t
    OBVIOUS
  <2>1. k[s] = k[t]
    BY <1>4, <1>5
  <2> QED
    BY <1>5, <2>1
<1> QED
  BY <1>6, <1>7

LEMMA MigrationStarts == MigrationInit => MigrationInv
<1> SUFFICES ASSUME MigrationInit PROVE MigrationInv
  OBVIOUS
<1>1. source \in [Salts -> Addresses]
  BY AddressesEnough DEF MigrationInit
<1>2. DOMAIN places = {source[s] : s \in Salts}
      /\ \A a \in DOMAIN places : places[a] = CHOOSE s \in Salts : source[s] = a
  BY DEF MigrationInit
<1>3. \A a \in DOMAIN places : places[a] \in Salts /\ source[places[a]] = a
  <2> SUFFICES ASSUME NEW a \in DOMAIN places PROVE places[a] \in Salts /\ source[places[a]] = a
    OBVIOUS
  <2>1. \E s \in Salts : source[s] = a
    BY <1>2
  <2> QED
    BY <1>2 DEF Bijection, Surjection
<1>4. DOMAIN places \subseteq Addresses /\ \A a, b \in DOMAIN places : places[a] = places[b] => a = b
  BY <1>1, <1>2, <1>3
<1>5. MigrationCooldown \in Nat \ {0} /\ initialSeq \in Seqs
  BY MigrationAssumption, HalfAssumption DEF initialSeq, Seqs, SeqSpace
<1>6. localSeq \in [Salts -> Seqs] /\ DOMAIN cooldowns = {} /\ sinceMove = [s \in Salts |-> MigrationCooldown]
  BY <1>5 DEF MigrationInit
<1>7. sinceMove \in [Salts -> 0 .. MigrationCooldown] /\ \A s \in Salts : ~ (sinceMove[s] < MigrationCooldown)
  BY <1>5, <1>6
<1> QED
  BY <1>1, <1>3, <1>4, <1>6, <1>7 DEF MigrationInv

\* findMigrationCandidate finds one.
LEMMA CandidateFound ==
    ASSUME MigrationInv, NEW pkt, Candidates(pkt) # {}
    PROVE  FindMigrationCandidate(pkt) \in Candidates(pkt)
<1> DEFINE S == Candidates(pkt)
<1>1. S \in SUBSET Addresses
  BY DEF Candidates, MigrationInv
<1>2. IsFiniteSet(S) /\ S \in SUBSET Int
  BY <1>1, MigrationAssumption, FS_Subset
<1> HIDE DEF S
<1>3. \E a \in S : \A b \in S : a <= b
  BY <1>2, LeastInt DEF S
<1> QED
  BY <1>3 DEF FindMigrationCandidate, S

\* A connection moves: what the other places have stays.
LEMMA MoveIs ==
    ASSUME MigrationInv, NEW pkt, pkt.from \in Addresses, MigrateConnection(pkt)
    PROVE  \E old \in DOMAIN places :
              /\ pkt.from \notin DOMAIN places /\ old # pkt.from /\ ~IsCoolingDown(places[old])
              /\ DOMAIN places' = (DOMAIN places \cup {pkt.from}) \ {old}
              /\ places'[pkt.from] = places[old]
              /\ \A a \in DOMAIN places \ {old} : places'[a] = places[a]
              /\ cooldowns' = [s \in DOMAIN cooldowns \cup {places[old]} |->
                                  IF s = places[old] THEN 0 ELSE cooldowns[s]]
              /\ sinceMove' = [sinceMove EXCEPT ![places[old]] = 0]
              /\ UNCHANGED <<localSeq, source>>
<1> DEFINE o == FindMigrationCandidate(pkt)  at == pkt.from
<1>1. pkt.from \notin DOMAIN places /\ Candidates(pkt) # {}
  BY DEF MigrateConnection
<1>2. o \in DOMAIN places /\ o # at /\ ~IsCoolingDown(places[o])
  BY <1>1, CandidateFound DEF Candidates
<1>3. /\ places' = [a \in (DOMAIN places \cup {at}) \ {o} |-> IF a = at THEN places[o] ELSE places[a]]
      /\ cooldowns' = [s \in DOMAIN cooldowns \cup {places[o]} |->
                           IF s = places[o] THEN 0 ELSE cooldowns[s]]
      /\ sinceMove' = [sinceMove EXCEPT ![places[o]] = 0]
      /\ UNCHANGED <<localSeq, source>>
  BY DEF MigrateConnection
<1> HIDE DEF o
<1>4. DOMAIN places' = (DOMAIN places \cup {at}) \ {o} /\ places'[at] = places[o]
      /\ \A a \in DOMAIN places \ {o} : places'[a] = places[a]
  BY <1>1, <1>2, <1>3
<1> QED
  BY <1>1, <1>2, <1>3, <1>4

LEMMA MoveKeeps ==
    ASSUME MigrationInv, NEW pkt, pkt.from \in Addresses, MigrateConnection(pkt)
    PROVE  MigrationInv'
<1> DEFINE at == pkt.from
<1>1. PICK old \in DOMAIN places :
              /\ at \notin DOMAIN places /\ old # at /\ ~IsCoolingDown(places[old])
              /\ DOMAIN places' = (DOMAIN places \cup {at}) \ {old}
              /\ places'[at] = places[old]
              /\ \A a \in DOMAIN places \ {old} : places'[a] = places[a]
              /\ cooldowns' = [s \in DOMAIN cooldowns \cup {places[old]} |->
                                  IF s = places[old] THEN 0 ELSE cooldowns[s]]
              /\ sinceMove' = [sinceMove EXCEPT ![places[old]] = 0]
              /\ UNCHANGED <<localSeq, source>>
  BY MoveIs
<1> DEFINE salt == places[old]
<1>2. salt \in Salts /\ DOMAIN places \subseteq Addresses /\ at \in Addresses
      /\ (\A a \in DOMAIN places : places[a] \in Salts)
      /\ (\A a, b \in DOMAIN places : places[a] = places[b] => a = b)
      /\ DOMAIN cooldowns \subseteq Salts /\ (\A s \in DOMAIN cooldowns : cooldowns[s] = sinceMove[s])
      /\ sinceMove \in [Salts -> 0 .. MigrationCooldown]
      /\ (\A s \in Salts : sinceMove[s] < MigrationCooldown => s \in DOMAIN cooldowns)
      /\ localSeq \in [Salts -> Seqs] /\ source \in [Salts -> Addresses]
  BY DEF MigrationInv
<1>3. MigrationCooldown \in Nat \ {0}
  BY MigrationAssumption
<1> HIDE DEF salt, at
<1>4. DOMAIN places' \subseteq Addresses
  BY <1>1, <1>2
<1>5. \A a \in DOMAIN places' : (a = at /\ places'[a] = salt) \/ (a \in DOMAIN places /\ a # old /\ places'[a] = places[a])
  BY <1>1 DEF salt
<1>6. \A a \in DOMAIN places' : places'[a] \in Salts
  BY <1>2, <1>5
<1>7. \A a, b \in DOMAIN places' : places'[a] = places'[b] => a = b
  BY <1>1, <1>2, <1>5 DEF salt
<1>8. DOMAIN cooldowns' = DOMAIN cooldowns \cup {salt} /\ cooldowns'[salt] = 0
      /\ \A s \in DOMAIN cooldowns \ {salt} : cooldowns'[s] = cooldowns[s]
  BY <1>1 DEF salt
<1>9. sinceMove' \in [Salts -> 0 .. MigrationCooldown] /\ sinceMove'[salt] = 0
      /\ \A s \in Salts \ {salt} : sinceMove'[s] = sinceMove[s]
  BY <1>1, <1>2, <1>3 DEF salt
<1>10. \A s \in DOMAIN cooldowns' : cooldowns'[s] = sinceMove'[s]
  BY <1>2, <1>8, <1>9
<1>11. \A s \in Salts : sinceMove'[s] < MigrationCooldown => s \in DOMAIN cooldowns'
  BY <1>2, <1>8, <1>9
<1> QED
  BY <1>1, <1>2, <1>4, <1>6, <1>7, <1>8, <1>9, <1>10, <1>11 DEF MigrationInv

LEMMA AgingKeeps == MigrationInv /\ PlacesAge => MigrationInv'
<1> SUFFICES ASSUME MigrationInv, PlacesAge PROVE MigrationInv'
  OBVIOUS
<1>1. MigrationCooldown \in Nat \ {0}
  BY MigrationAssumption
<1>2. \A x \in 0 .. MigrationCooldown : Cooler(x) \in 0 .. MigrationCooldown
                                         /\ (Cooler(x) < MigrationCooldown => x < MigrationCooldown)
  BY <1>1 DEF Cooler
<1>3. DOMAIN cooldowns' = DOMAIN cooldowns /\ (\A s \in DOMAIN cooldowns : cooldowns'[s] = Cooler(cooldowns[s]))
      /\ sinceMove' = [s \in Salts |-> Cooler(sinceMove[s])] /\ UNCHANGED <<places, localSeq, source>>
  BY DEF PlacesAge
<1> QED
  BY <1>2, <1>3 DEF MigrationInv

LEMMA ForgettingKeeps == MigrationInv /\ ForgetCooldowns => MigrationInv'
<1> SUFFICES ASSUME MigrationInv, ForgetCooldowns PROVE MigrationInv'
  OBVIOUS
<1>1. MigrationCooldown \in Nat \ {0}
  BY MigrationAssumption
<1>2. DOMAIN cooldowns' = {t \in DOMAIN cooldowns : cooldowns[t] < MigrationCooldown}
      /\ (\A s \in DOMAIN cooldowns' : cooldowns'[s] = cooldowns[s])
      /\ UNCHANGED <<places, localSeq, source, sinceMove>>
  BY DEF ForgetCooldowns
<1> QED
  BY <1>2 DEF MigrationInv

\* The packets that may arrive come from addresses.
SentFromAddresses == \A pkt \in uplink : pkt.from \in Addresses

LEMMA MigrationKeeps ==
    MigrationInv /\ SentFromAddresses /\ [MigrationNext]_migrationVars => MigrationInv' /\ SentFromAddresses'
<1> SUFFICES ASSUME MigrationInv, SentFromAddresses, [MigrationNext]_migrationVars
             PROVE  MigrationInv' /\ SentFromAddresses'
  OBVIOUS
<1>1. ASSUME NEW s \in Salts, ClientSends(s) PROVE MigrationInv' /\ SentFromAddresses'
  <2>1. source[s] \in Addresses
    BY DEF MigrationInv
  <2>2. SentFromAddresses'
    BY <1>1, <2>1 DEF ClientSends, SentFromAddresses
  <2> QED
    BY <1>1, <2>2 DEF ClientSends, MigrationInv
<1>2. ASSUME NEW s \in Salts, ConnectionSends(s) PROVE MigrationInv' /\ SentFromAddresses'
  <2>1. \A q \in Seqs : NextSeq(q) \in Seqs
    <3>1. \A m \in Nat \ {0}, k \in Nat : k % m \in 0 .. (m - 1)
      BY Z3
    <3>2. SeqSpace \in Nat \ {0}
      BY HalfAssumption DEF SeqSpace
    <3>3. \A q \in Seqs : q + 1 \in Nat
      BY <3>2 DEF Seqs
    <3> QED
      BY <3>1, <3>2, <3>3 DEF NextSeq, Seqs
  <2>2. localSeq' \in [Salts -> Seqs]
    BY <1>2, <2>1 DEF ConnectionSends, MigrationInv
  <2> QED
    BY <1>2, <2>2 DEF ConnectionSends, MigrationInv, SentFromAddresses
<1>3. ASSUME NEW s \in Salts, NEW a \in Addresses, Roam(s, a) PROVE MigrationInv' /\ SentFromAddresses'
  BY <1>3 DEF Roam, MigrationInv, SentFromAddresses
<1>4. ASSUME NEW pkt \in uplink, MigrateConnection(pkt) PROVE MigrationInv' /\ SentFromAddresses'
  <2>1. pkt.from \in Addresses
    BY DEF SentFromAddresses
  <2>2. MigrationInv'
    BY <1>4, <2>1, MoveKeeps
  <2> QED
    BY <1>4, <2>2 DEF MigrateConnection, SentFromAddresses
<1>5. ASSUME NEW a \in DOMAIN places, PlaceLost(a) PROVE MigrationInv' /\ SentFromAddresses'
  BY <1>5 DEF PlaceLost, MigrationInv, SentFromAddresses
<1>6. CASE ForgetCooldowns
  BY <1>6, ForgettingKeeps DEF ForgetCooldowns, SentFromAddresses
<1>7. CASE PlacesAge
  BY <1>7, AgingKeeps DEF PlacesAge, SentFromAddresses
<1>8. CASE UNCHANGED migrationVars
  BY <1>8 DEF migrationVars, MigrationInv, SentFromAddresses
<1> QED
  BY <1>1, <1>2, <1>3, <1>4, <1>5, <1>6, <1>7, <1>8 DEF MigrationNext

LEMMA OnePlace ==
    ASSUME NEW f, \A a, b \in DOMAIN f : f[a] = f[b] => a = b, NEW s \in {f[a] : a \in DOMAIN f}
    PROVE  Cardinality({a \in DOMAIN f : f[a] = s}) = 1
<1>1. PICK a \in DOMAIN f : f[a] = s
  OBVIOUS
<1>2. {x \in DOMAIN f : f[x] = s} = {a}
  BY <1>1
<1> QED
  BY <1>2, FS_Singleton

LEMMA OnePlaceNext == MigrationInv' => \A s \in Established' : Cardinality(At(s)') = 1
<1> SUFFICES ASSUME MigrationInv', NEW s \in Established' PROVE Cardinality(At(s)') = 1
  OBVIOUS
<1>1. \A a, b \in DOMAIN places' : places'[a] = places'[b] => a = b
  BY DEF MigrationInv
<1>2. s \in {places'[a] : a \in DOMAIN places'}
  BY DEF Established
<1>3. At(s)' = {a \in DOMAIN places' : places'[a] = s}
  BY DEF At
<1> QED
  BY <1>1, <1>2, <1>3, OnePlace

\* What a step may do to the places.
MoveKept ==
    /\ \A s \in Established \cap Established' :
          /\ Cardinality(At(s)') = 1
          /\ At(s)' # At(s) => sinceMove[s] >= MigrationCooldown
    /\ Established' # Established => DOMAIN places' \subseteq DOMAIN places

LEMMA StaysPut ==
    ASSUME places' = places, MigrationInv'
    PROVE  MoveKept
<1>1. Established' = Established /\ \A s : At(s)' = At(s)
  BY DEF Established, At
<1> QED
  BY <1>1, OnePlaceNext DEF MoveKept

LEMMA LossKept ==
    ASSUME MigrationInv, MigrationInv', NEW a \in DOMAIN places, PlaceLost(a)
    PROVE  MoveKept
<1>1. DOMAIN places' = DOMAIN places \ {a} /\ \A b \in DOMAIN places' : places'[b] = places[b]
  BY DEF PlaceLost
<1>2. \A s \in Established' : At(s)' = At(s)
  <2> SUFFICES ASSUME NEW s \in Established' PROVE At(s)' = At(s)
    OBVIOUS
  <2>1. PICK c \in DOMAIN places' : places'[c] = s
    BY DEF Established
  <2>2. places[a] # s
    BY <1>1, <2>1 DEF MigrationInv
  <2>3. At(s)' = {b \in DOMAIN places' : places'[b] = s}
    BY DEF At
  <2>4. At(s) = {b \in DOMAIN places : places[b] = s}
    BY DEF At
  <2> QED
    BY <1>1, <2>2, <2>3, <2>4
<1> QED
  BY <1>1, <1>2, OnePlaceNext DEF MoveKept

LEMMA RelocationKept ==
    ASSUME MigrationInv, MigrationInv', NEW pkt, pkt.from \in Addresses, MigrateConnection(pkt)
    PROVE  MoveKept
<1> DEFINE at == pkt.from
<1>1. PICK old \in DOMAIN places :
              /\ at \notin DOMAIN places /\ old # at /\ ~IsCoolingDown(places[old])
              /\ DOMAIN places' = (DOMAIN places \cup {at}) \ {old}
              /\ places'[at] = places[old]
              /\ \A a \in DOMAIN places \ {old} : places'[a] = places[a]
  BY MoveIs
<1> HIDE DEF at
<1>2. \A s : At(s)' = {b \in DOMAIN places' : places'[b] = s} /\ At(s) = {b \in DOMAIN places : places[b] = s}
  BY DEF At
<1>3. \A s : s # places[old] => At(s)' = At(s)
  BY <1>1, <1>2
<1>4. sinceMove[places[old]] >= MigrationCooldown
  <2>1. places[old] \in Salts /\ sinceMove[places[old]] \in Nat /\ MigrationCooldown \in Nat
    BY MigrationAssumption DEF MigrationInv
  <2>2. CASE places[old] \in DOMAIN cooldowns
    BY <1>1, <2>1, <2>2 DEF MigrationInv, IsCoolingDown
  <2>3. CASE places[old] \notin DOMAIN cooldowns
    BY <2>1, <2>3 DEF MigrationInv
  <2> QED
    BY <2>2, <2>3
<1>5. Established' = Established
  <2>1. Established = {places[a] : a \in DOMAIN places} /\ Established' = {places'[a] : a \in DOMAIN places'}
    BY DEF Established
  <2>2. \A a \in DOMAIN places : \E b \in DOMAIN places' : places'[b] = places[a]
    BY <1>1
  <2>3. \A a \in DOMAIN places' : \E b \in DOMAIN places : places[b] = places'[a]
    BY <1>1
  <2> QED
    BY <2>1, <2>2, <2>3
<1> QED
  BY <1>3, <1>4, <1>5, OnePlaceNext DEF MoveKept

LEMMA MovesAreKept ==
    MigrationInv /\ MigrationInv' /\ SentFromAddresses /\ [MigrationNext]_migrationVars => [MoveKept]_migrationVars
<1> SUFFICES ASSUME MigrationInv, MigrationInv', SentFromAddresses, MigrationNext PROVE MoveKept
  OBVIOUS
<1>1. CASE places' = places
  BY <1>1, StaysPut
<1>2. ASSUME NEW pkt \in uplink, MigrateConnection(pkt) PROVE MoveKept
  <2>1. pkt.from \in Addresses
    BY DEF SentFromAddresses
  <2> QED
    BY <1>2, <2>1, RelocationKept
<1>3. ASSUME NEW a \in DOMAIN places, PlaceLost(a) PROVE MoveKept
  BY <1>3, LossKept
<1>4. \/ places' = places
      \/ \E pkt \in uplink : MigrateConnection(pkt)
      \/ \E a \in DOMAIN places : PlaceLost(a)
  BY DEF MigrationNext, ClientSends, ConnectionSends, Roam, ForgetCooldowns, PlacesAge
<1> QED
  BY <1>1, <1>2, <1>3, <1>4

LEMMA UplinkStarts == MigrationInit => SentFromAddresses
BY DEF MigrationInit, SentFromAddresses

\* The types of the connections' places, whichever addresses the clients roam to.
THEOREM PlacesTyped == MigrationSpec => []MigrationTypeOK
<1> QED
  BY MigrationStarts, UplinkStarts, MigrationKeeps, MigrationTyped, PTL DEF MigrationSpec

\* migrateConnection keeps every connection in one place and displaces none, and late
\* packets from where a connection was do not move it back within the cool-down.
THEOREM MovesKept == MigrationSpec => MovesKeepConnections
<1>1. [MoveKept]_migrationVars =>
         [/\ \A s \in Established \cap Established' :
                /\ Cardinality(At(s)') = 1
                /\ At(s)' # At(s) => sinceMove[s] >= MigrationCooldown
          /\ Established' # Established => DOMAIN places' \subseteq DOMAIN places]_migrationVars
  BY DEF MoveKept
<1> QED
  BY <1>1, MigrationStarts, UplinkStarts, MigrationKeeps, MovesAreKept, PTL DEF MigrationSpec, MovesKeepConnections

-----------------------------------------------------------------------------
(* The network simulator. *)

Waiting  == [packet : Nat, left : Nat]
Counts   == [due : Nat, delivered : Nat]
\* The copies of packet n.
CopyOf(n) == {x \in Waiting : x.packet = n}

\* The inductive invariant: the accounts of bytes and of copies, and that nothing waits
\* that was not offered.
SimInv ==
    /\ SimTypeOK /\ passed \in Nat /\ BandwidthHeld
    /\ delayed \in Seq(Waiting) /\ \A i \in DOMAIN delayed : delayed[i].packet <= offered
    /\ out \in Seq(Counts)
    /\ \A n \in DOMAIN out : out[n].due = out[n].delivered + Hits(delayed, CopyOf(n))

LEMMA CopiesAreHits ==
    ASSUME NEW pkts \in Seq(Waiting), NEW n
    PROVE  CopiesOf(pkts, n) = Hits(pkts, CopyOf(n))
<1>1. \A i \in DOMAIN pkts : pkts[i] \in Waiting
  OBVIOUS
<1>2. {i \in DOMAIN pkts : pkts[i].packet = n} = Places(pkts, CopyOf(n))
  BY <1>1 DEF Places, CopyOf
<1> QED
  BY <1>2 DEF CopiesOf, Hits

LEMMA SimImplies == SimInv => SimTypeOK /\ BandwidthHeld /\ CopiesConserved
BY CopiesAreHits DEF SimInv, CopiesConserved

\* The bucket: what is in it fits, and with what it is refilled covers no more than the time.
LEMMA TokensRefilled ==
    ASSUME SimInv
    PROVE  /\ RefilledBucket \in 0 .. BytesPerUnit * PerSecond
           /\ BytesPerUnit > 0 => passed + RefilledBucket <= clock * BytesPerUnit
<1> DEFINE B == BytesPerUnit  e == sinceRefill * B  top == B * PerSecond  a == (clock - sinceRefill) * B
           c == clock * B  r == RefilledBucket
<1>1. B \in Nat /\ PerSecond \in Nat /\ sinceRefill \in Nat /\ clock \in Nat /\ sinceRefill <= clock /\ passed \in Nat
      /\ bucket \in 0 .. top
  BY SimulatorAssumption DEF SimInv, SimTypeOK
<1>2. e \in Nat /\ top \in Nat /\ a \in Nat /\ c \in Nat /\ a + e = c
  <2>1. \A x, y \in Nat : x * y \in Nat
    BY Z3
  <2>2. \A x, y, z \in Nat : y <= x => (x - y) * z + y * z = x * z /\ x - y \in Nat
    BY Z3
  <2> QED
    BY <1>1, <2>1, <2>2
<1>3. B > 0 => passed + bucket <= a
  BY DEF SimInv, BandwidthHeld
<1>4. r = IF bucket + e > top THEN top ELSE bucket + e
  BY DEF RefilledBucket
<1> HIDE DEF B, e, top, a, c, r
<1>5. r \in 0 .. top /\ (B > 0 => passed + r <= c)
  BY <1>1, <1>2, <1>3, <1>4
<1> QED
  BY <1>5 DEF B, r, top, c

\* A refilled bucket, out of which no more is spent than passes.
LEMMA BucketKept ==
    ASSUME SimInv, NEW spent \in Nat, spent <= RefilledBucket, BytesPerUnit > 0,
           sinceRefill' = 0, clock' = clock, bucket' = RefilledBucket - spent, passed' = passed + spent
    PROVE  /\ bucket' \in 0 .. BytesPerUnit * PerSecond /\ sinceRefill' \in 0 .. clock' /\ passed' \in Nat
           /\ BandwidthHeld'
<1> DEFINE top == BytesPerUnit * PerSecond  r == RefilledBucket  c == clock * BytesPerUnit
<1>1. r \in 0 .. top /\ passed + r <= c /\ passed \in Nat /\ clock \in Nat /\ BytesPerUnit \in Nat
  BY TokensRefilled, SimulatorAssumption DEF SimInv, SimTypeOK
<1>2. (clock' - sinceRefill') * BytesPerUnit = c
  <2>1. clock' - sinceRefill' = clock
    BY <1>1
  <2> QED
    BY <2>1
<1>3. top \in Int /\ c \in Int
  <2>1. \A x, y \in Nat : x * y \in Nat
    BY Z3
  <2> QED
    BY <1>1, <2>1, SimulatorAssumption
<1> HIDE DEF r, c, top
<1>4. bucket' = r - spent /\ spent <= r
  BY DEF r
<1>5. bucket' \in 0 .. top /\ passed' + bucket' <= c /\ passed' \in Nat /\ sinceRefill' \in 0 .. clock'
  BY <1>1, <1>3, <1>4
<1> QED
  BY <1>2, <1>5 DEF BandwidthHeld, top

\* A packet is offered: what is already waiting keeps its account, and the new copies are
\* those that are due.
LEMMA OfferedKept ==
    ASSUME SimInv, offered < MaxSimPackets, offered' = offered + 1, clock' = clock,
           bucket' \in 0 .. BytesPerUnit * PerSecond, sinceRefill' \in 0 .. clock', passed' \in Nat,
           BandwidthHeld',
           NEW more \in Seq(CopyOf(offered + 1)), delayed' = delayed \o more,
           NEW count \in Counts, out' = Append(out, count), count.due = count.delivered + Len(more)
    PROVE  SimInv'
<1> DEFINE n == offered + 1
<1>1. offered \in Nat /\ n \in Nat /\ n <= MaxSimPackets /\ Len(out) = offered /\ MaxSimPackets \in Nat
      /\ clock \in 0 .. MaxSimTime /\ out \in Seq(Counts) /\ delayed \in Seq(Waiting)
  BY SimulatorAssumption DEF SimInv, SimTypeOK
<1>2. out' \in Seq(Counts) /\ Len(out') = n /\ out'[n] = count /\ \A k \in 1 .. offered : out'[k] = out[k]
  BY <1>1
<1>3. CopyOf(n) \in SUBSET Waiting /\ more \in Seq(Waiting)
  <2>1. CopyOf(n) \in SUBSET Waiting
    BY DEF CopyOf
  <2> QED
    BY <2>1
<1>4. \A M : Hits(delayed', M) = Hits(delayed, M) + Hits(more, M)
  BY <1>1, <1>3, HitsConcat
<1>5. \A k \in 1 .. offered : Hits(more, CopyOf(k)) = 0
  <2> SUFFICES ASSUME NEW k \in 1 .. offered PROVE Hits(more, CopyOf(k)) = 0
    OBVIOUS
  <2>1. \A i \in DOMAIN more : more[i].packet = n
    BY DEF CopyOf
  <2>2. k # n
    BY <1>1
  <2>3. \A i \in DOMAIN more : more[i] \notin CopyOf(k)
    BY <2>1, <2>2 DEF CopyOf
  <2> QED
    BY <2>3, HitsNone
<1>6. Hits(delayed, CopyOf(n)) = 0
  <2>1. \A i \in DOMAIN delayed : delayed[i].packet # n
    <3> SUFFICES ASSUME NEW i \in DOMAIN delayed PROVE delayed[i].packet # n
      OBVIOUS
    <3>1. delayed[i] \in Waiting /\ delayed[i].packet <= offered
      BY <1>1 DEF SimInv
    <3>2. delayed[i].packet \in Nat
      BY <3>1 DEF Waiting
    <3> QED
      BY <1>1, <3>1, <3>2
  <2>2. \A i \in DOMAIN delayed : delayed[i] \notin CopyOf(n)
    BY <2>1 DEF CopyOf
  <2> QED
    BY <2>2, HitsNone
<1>7. Hits(more, CopyOf(n)) = Len(more)
  <2>1. Places(more, CopyOf(n)) = 1 .. Len(more)
    BY DEF Places
  <2>2. Len(more) \in Nat
    OBVIOUS
  <2> QED
    BY <2>1, <2>2, OneTo DEF Hits
<1> HIDE DEF n
<1>8. \A k \in DOMAIN out' : out'[k].due = out'[k].delivered + Hits(delayed', CopyOf(k))
  <2> SUFFICES ASSUME NEW k \in DOMAIN out' PROVE out'[k].due = out'[k].delivered + Hits(delayed', CopyOf(k))
    OBVIOUS
  <2>1. k = n \/ k \in 1 .. offered
    BY <1>1, <1>2 DEF n
  <2>2. CASE k = n
    <3>1. Hits(delayed', CopyOf(k)) = 0 + Len(more)
      BY <1>4, <1>6, <1>7, <2>2
    <3>2. Len(more) \in Nat
      OBVIOUS
    <3> QED
      BY <1>2, <2>2, <3>1, <3>2
  <2>3. CASE k \in 1 .. offered
    <3>1. out[k].due = out[k].delivered + Hits(delayed, CopyOf(k))
      BY <1>1, <2>3 DEF SimInv
    <3>2. Hits(delayed, CopyOf(k)) \in Nat
      BY <1>1, HitsNat DEF Hits
    <3>3. Hits(delayed', CopyOf(k)) = Hits(delayed, CopyOf(k))
      BY <1>4, <1>5, <2>3, <3>2
    <3> QED
      BY <1>2, <2>3, <3>1, <3>3
  <2> QED
    BY <2>1, <2>2, <2>3
<1>9. delayed' \in Seq(Waiting)
  BY <1>1, <1>3
<1>10. \A i \in DOMAIN delayed' : delayed'[i].packet <= offered'
  <2> SUFFICES ASSUME NEW i \in DOMAIN delayed' PROVE delayed'[i].packet <= offered'
    OBVIOUS
  <2>1. delayed'[i] \in {delayed[j] : j \in DOMAIN delayed} \/ delayed'[i] \in {more[j] : j \in DOMAIN more}
    <3> DEFINE l == Len(delayed)
    <3>1. l \in Nat /\ Len(more) \in Nat /\ i \in 1 .. (l + Len(more)) /\ DOMAIN delayed = 1 .. l /\ DOMAIN more = 1 .. Len(more)
      BY <1>1
    <3>2. CASE i <= l
      BY <1>1, <3>1, <3>2
    <3>3. CASE ~ (i <= l)
      <4>1. delayed'[i] = more[i - l] /\ i - l \in 1 .. Len(more)
        BY <1>1, <3>1, <3>3
      <4> QED
        BY <3>1, <4>1
    <3> QED
      BY <3>2, <3>3
  <2>2. \A j \in DOMAIN delayed : delayed[j].packet \in Nat /\ delayed[j].packet <= offered
    <3>1. \A j \in DOMAIN delayed : delayed[j] \in Waiting /\ delayed[j].packet <= offered
      BY <1>1 DEF SimInv
    <3> QED
      BY <3>1 DEF Waiting
  <2>3. \A j \in DOMAIN more : more[j].packet = n
    BY DEF CopyOf, n
  <2>4. CASE delayed'[i] \in {delayed[j] : j \in DOMAIN delayed}
    <3>1. PICK j \in DOMAIN delayed : delayed'[i] = delayed[j]
      BY <2>4
    <3>2. delayed[j].packet \in Nat /\ delayed[j].packet <= offered
      BY <2>2
    <3> QED
      BY <1>1, <3>1, <3>2
  <2>5. CASE delayed'[i] \in {more[j] : j \in DOMAIN more}
    BY <1>1, <2>3, <2>5 DEF n
  <2> QED
    BY <2>1, <2>4, <2>5
<1>11. SimTypeOK'
  BY <1>1, <1>2 DEF SimTypeOK, n
<1> QED
  BY <1>2, <1>8, <1>9, <1>10, <1>11 DEF SimInv
LEMMA SimStarts == SimInit => SimInv
<1> SUFFICES ASSUME SimInit PROVE SimInv
  OBVIOUS
<1>1. delayed = <<>> /\ out = <<>> /\ bucket = 0 /\ sinceRefill = 0 /\ clock = 0 /\ offered = 0 /\ passed = 0
  BY DEF SimInit
<1>2. BytesPerUnit * PerSecond \in Nat
  <2>1. \A x, y \in Nat : x * y \in Nat
    BY Z3
  <2> QED
    BY <2>1, SimulatorAssumption
<1>3. SimTypeOK
  BY <1>1, <1>2, SimulatorAssumption DEF SimTypeOK
<1>4. BandwidthHeld
  BY <1>1, SimulatorAssumption DEF BandwidthHeld
<1> QED
  BY <1>1, <1>3, <1>4 DEF SimInv

LEMMA Dropped ==
    ASSUME SimInv, offered < MaxSimPackets, offered' = offered + 1, clock' = clock,
           bucket' \in 0 .. BytesPerUnit * PerSecond, sinceRefill' \in 0 .. clock', passed' \in Nat,
           BandwidthHeld', delayed' = delayed, out' = Append(out, NoCopies)
    PROVE  SimInv'
<1>1. <<>> \in Seq(CopyOf(offered + 1)) /\ Len(<<>>) = 0
  OBVIOUS
<1>2. delayed \in Seq(Waiting)
  BY DEF SimInv
<1>3. delayed' = delayed \o <<>>
  BY <1>2
<1>4. NoCopies \in Counts /\ NoCopies.due = NoCopies.delivered + Len(<<>>)
  BY DEF NoCopies, Counts
<1> QED
  BY <1>1, <1>3, <1>4, OfferedKept

LEMMA NoBudgetSpent ==
    ASSUME SimInv, UNCHANGED <<bucket, sinceRefill, clock>>, passed' = passed \/ (BytesPerUnit = 0 /\ passed' \in Nat)
    PROVE  /\ bucket' \in 0 .. BytesPerUnit * PerSecond /\ sinceRefill' \in 0 .. clock' /\ passed' \in Nat
           /\ BandwidthHeld'
BY SimulatorAssumption DEF SimInv, SimTypeOK, BandwidthHeld

LEMMA PassKept ==
    ASSUME SimInv, offered < MaxSimPackets, offered' = offered + 1, clock' = clock,
           NEW size \in SimSizes, NEW delay \in SimDelays,
           NEW extra \in {<<>>} \cup {<<e>> : e \in DuplicateDelays},
           Pass(size, delay, extra)
    PROVE  SimInv'
<1> DEFINE n == offered + 1
           first == IF delay = 0 THEN <<>> ELSE <<[packet |-> n, left |-> delay]>>
           second == [i \in DOMAIN extra |-> [packet |-> n, left |-> delay + extra[i]]]
           count == [due |-> 1 + Len(extra), delivered |-> IF delay = 0 THEN 1 ELSE 0]
<1>1. offered \in Nat /\ n \in Nat /\ delay \in Nat /\ size \in Nat /\ DuplicateDelays \subseteq Nat
  BY SimulatorAssumption DEF SimInv, SimTypeOK
<1>2. /\ bucket' \in 0 .. BytesPerUnit * PerSecond /\ sinceRefill' \in 0 .. clock' /\ passed' \in Nat
      /\ BandwidthHeld'
  <2>1. CASE BytesPerUnit = 0
    <3>1. UNCHANGED <<bucket, sinceRefill, clock>> /\ passed' = passed + size
      BY <2>1 DEF Pass, Spent
    <3>2. passed' \in Nat
      BY <1>1, <3>1 DEF SimInv
    <3> QED
      BY <2>1, <3>1, <3>2, NoBudgetSpent
  <2>2. CASE BytesPerUnit # 0
    <3>1. ~ (RefilledBucket < size) /\ sinceRefill' = 0 /\ bucket' = RefilledBucket - size /\ passed' = passed + size
      BY <2>2 DEF Pass, Spent, OverBandwidth
    <3>2. RefilledBucket \in 0 .. BytesPerUnit * PerSecond
      BY TokensRefilled
    <3>3. BytesPerUnit * PerSecond \in Nat
      <4>1. \A x, y \in Nat : x * y \in Nat
        BY Z3
      <4> QED
        BY <4>1, SimulatorAssumption
    <3>4. size <= RefilledBucket
      <4> DEFINE r == RefilledBucket  top == BytesPerUnit * PerSecond
      <4>1. r \in 0 .. top /\ top \in Nat /\ ~ (r < size)
        BY <3>1, <3>2, <3>3
      <4> HIDE DEF r, top
      <4>2. size <= r
        BY <1>1, <4>1
      <4> QED
        BY <4>2 DEF r
    <3>5. BytesPerUnit > 0
      BY <2>2, SimulatorAssumption
    <3> QED
      BY <1>1, <3>1, <3>4, <3>5, BucketKept
  <2> QED
    BY <2>1, <2>2
<1>3. first \in Seq(CopyOf(n)) /\ Len(first) = IF delay = 0 THEN 0 ELSE 1
  <2>1. [packet |-> n, left |-> delay] \in CopyOf(n)
    BY <1>1 DEF CopyOf, Waiting
  <2>2. CASE delay = 0
    <3>1. first = <<>>
      BY <2>2
    <3> QED
      BY <2>2, <3>1
  <2>3. CASE delay # 0
    <3>1. first = <<[packet |-> n, left |-> delay]>>
      BY <2>3
    <3> HIDE DEF first
    <3> QED
      BY <2>1, <2>3, <3>1
  <2> QED
    BY <2>2, <2>3
<1>4. second \in Seq(CopyOf(n)) /\ Len(second) = Len(extra) /\ Len(extra) \in Nat
  <2>1. CASE extra = <<>>
    <3>1. second = <<>>
      BY <2>1
    <3> QED
      BY <2>1, <3>1
  <2>2. CASE \E e \in DuplicateDelays : extra = <<e>>
    <3>1. PICK e \in DuplicateDelays : extra = <<e>>
      BY <2>2
    <3>2. DOMAIN extra = 1 .. 1 /\ extra[1] = e /\ Len(extra) = 1 /\ e \in Nat
      BY <1>1, <3>1
    <3>3. \A i \in DOMAIN extra : [packet |-> n, left |-> delay + extra[i]] \in CopyOf(n)
      <4>1. \A i \in DOMAIN extra : extra[i] = e
        BY <3>2
      <4>2. delay + e \in Nat
        BY <1>1, <3>2
      <4> QED
        BY <1>1, <4>1, <4>2 DEF CopyOf, Waiting
    <3>4. second \in [1 .. 1 -> CopyOf(n)]
      BY <3>2, <3>3
    <3> HIDE DEF second
    <3>5. second \in Seq(CopyOf(n)) /\ Len(second) = 1
      BY <3>4, OfLength
    <3> QED
      BY <3>2, <3>5
  <2> QED
    BY <2>1, <2>2
<1>5. delayed' = delayed \o first \o second /\ out' = Append(out, count)
  BY DEF Pass
<1> HIDE DEF first, second
<1>6. first \o second \in Seq(CopyOf(n)) /\ Len(first \o second) = Len(first) + Len(second)
  BY <1>3, <1>4, ConcatProperties, Zenon
<1>7. delayed' = delayed \o (first \o second)
  <2>1. delayed \in Seq(Waiting)
    BY DEF SimInv
  <2>2. CopyOf(n) \subseteq Waiting
    BY DEF CopyOf
  <2>3. first \in Seq(Waiting) /\ second \in Seq(Waiting)
    BY <1>3, <1>4, <2>2
  <2>4. (delayed \o first) \o second = delayed \o (first \o second)
    BY <2>1, <2>3, ConcatAssociative
  <2> QED
    BY <1>5, <2>4
<1>8. count \in Counts /\ count.due = count.delivered + Len(first \o second)
  <2>1. Len(first \o second) = (IF delay = 0 THEN 0 ELSE 1) + Len(extra)
    BY <1>3, <1>4, <1>6
  <2> QED
    BY <1>4, <2>1 DEF Counts
<1> HIDE DEF count
<1> QED
  BY <1>2, <1>5, <1>6, <1>7, <1>8, OfferedKept

LEMMA ProcessKept ==
    ASSUME SimInv, NEW size \in SimSizes, ProcessSend(size)
    PROVE  SimInv'
<1>1. offered < MaxSimPackets /\ offered' = offered + 1 /\ clock' = clock
  BY DEF ProcessSend
<1>2. CASE LosePacket
  <2>1. UNCHANGED <<bucket, sinceRefill, clock>> /\ passed' = passed /\ delayed' = delayed /\ out' = Append(out, NoCopies)
    BY <1>1, <1>2 DEF LosePacket
  <2> QED
    BY <1>1, <2>1, NoBudgetSpent, Dropped
<1>3. CASE Drop(size)
  <2>1. BytesPerUnit # 0 /\ sinceRefill' = 0 /\ bucket' = RefilledBucket /\ passed' = passed
        /\ delayed' = delayed /\ out' = Append(out, NoCopies)
    BY <1>3 DEF Drop, OverBandwidth
  <2>2. BytesPerUnit * PerSecond \in Nat /\ BytesPerUnit > 0
    <3>1. \A x, y \in Nat : x * y \in Nat
      BY Z3
    <3> QED
      BY <2>1, <3>1, SimulatorAssumption
  <2>3. RefilledBucket \in 0 .. BytesPerUnit * PerSecond
    BY TokensRefilled
  <2>4. 0 <= RefilledBucket /\ bucket' = RefilledBucket - 0 /\ passed' = passed + 0
    <3> DEFINE r == RefilledBucket  top == BytesPerUnit * PerSecond
    <3>1. r \in 0 .. top /\ top \in Nat /\ bucket' = r /\ passed' = passed /\ passed \in Nat
      BY <2>1, <2>2, <2>3 DEF SimInv
    <3> HIDE DEF r, top
    <3>2. 0 <= r /\ bucket' = r - 0 /\ passed' = passed + 0
      BY <3>1
    <3> QED
      BY <3>2 DEF r
  <2>5. /\ bucket' \in 0 .. BytesPerUnit * PerSecond /\ sinceRefill' \in 0 .. clock' /\ passed' \in Nat
        /\ BandwidthHeld'
    BY <1>1, <2>1, <2>2, <2>4, BucketKept
  <2> QED
    BY <1>1, <2>1, <2>5, Dropped
<1>4. CASE \E delay \in SimDelays, extra \in {<<>>} \cup {<<e>> : e \in DuplicateDelays} : Pass(size, delay, extra)
  BY <1>1, <1>4, PassKept
<1> QED
  BY <1>2, <1>3, <1>4 DEF ProcessSend

LEMMA ReadyKept == ASSUME SimInv, ReceiveReady PROVE SimInv'
<1> DEFINE ready == Picked(delayed, IsDue)  later == {x \in Waiting : x.left # 0}  now == Waiting \ later
<1>1. delayed \in Seq(Waiting) /\ out \in Seq(Counts)
  BY DEF SimInv
<1>2. \A i \in DOMAIN delayed : delayed[i] \in Waiting
  BY <1>1
<1>3. IsDue = {i \in DOMAIN delayed : delayed[i] \in now}
  BY <1>2 DEF IsDue
<1>4. StillDelayed = {i \in DOMAIN delayed : delayed[i] \in later}
  BY <1>2 DEF IsDue, StillDelayed
<1>5. ready \in Seq(Waiting) /\ delayed' \in Seq(Waiting)
  <2>1. IsDue \in SUBSET DOMAIN delayed /\ StillDelayed \in SUBSET DOMAIN delayed
    BY DEF IsDue, StillDelayed
  <2> QED
    BY <1>1, <2>1, PickedIs DEF ReceiveReady
<1> HIDE DEF now, later
<1>6. \A M : Hits(ready, M) = Hits(delayed, M \cap now) /\ Hits(delayed', M) = Hits(delayed, M \cap later)
  <2>1. delayed' = Picked(delayed, StillDelayed)
    BY DEF ReceiveReady
  <2>2. \A M : Hits(Picked(delayed, IsDue), M) = Hits(delayed, M \cap now)
    <3>1. \A M : Hits(Picked(delayed, {i \in DOMAIN delayed : delayed[i] \in now}), M) = Hits(delayed, M \cap now)
      <4>1. delayed \in Seq(Waiting)
        BY <1>1
      <4> QED
        BY <4>1, HitsPicked, Zenon
    <3> QED
      BY <1>3, <3>1
  <2>3. \A M : Hits(Picked(delayed, StillDelayed), M) = Hits(delayed, M \cap later)
    <3>1. delayed \in Seq(Waiting)
      BY <1>1
    <3>2. \A M : Hits(Picked(delayed, {i \in DOMAIN delayed : delayed[i] \in later}), M) = Hits(delayed, M \cap later)
      BY <3>1, HitsPicked, Zenon
    <3> QED
      BY <1>4, <3>2
  <2> QED
    BY <2>1, <2>2, <2>3, Zenon
<1>7. \A n : CopiesOf(ready, n) = Hits(ready, CopyOf(n)) /\ Hits(ready, CopyOf(n)) \in Nat
             /\ Hits(delayed', CopyOf(n)) \in Nat /\ Hits(delayed, CopyOf(n)) \in Nat
  BY <1>1, <1>5, CopiesAreHits, HitsNat
<1>8. \A n : Hits(delayed, CopyOf(n)) = Hits(ready, CopyOf(n)) + Hits(delayed', CopyOf(n))
  <2> SUFFICES ASSUME NEW n PROVE Hits(delayed, CopyOf(n)) = Hits(ready, CopyOf(n)) + Hits(delayed', CopyOf(n))
    OBVIOUS
  <2>1. Hits(delayed, CopyOf(n)) = Hits(delayed, CopyOf(n) \cap now) + Hits(delayed, CopyOf(n) \ now)
    <3>1. delayed \in Seq(Waiting)
      BY <1>1
    <3>2. \A M, A : Hits(delayed, M) = Hits(delayed, M \cap A) + Hits(delayed, M \ A)
      BY <3>1, HitsSplit, Zenon
    <3> QED
      BY <3>2, Zenon
  <2>2. CopyOf(n) \ now = CopyOf(n) \cap later
    BY DEF CopyOf, now, later
  <2> QED
    BY <1>6, <2>1, <2>2
<1>9. DOMAIN out' = DOMAIN out /\ \A n \in DOMAIN out : out[n] \in Counts /\ out'[n] = [out[n] EXCEPT !.delivered = @ + CopiesOf(ready, n)]
  BY <1>1 DEF ReceiveReady
<1> HIDE DEF ready
<1>10. \A n \in DOMAIN out : out'[n] \in Counts /\ out'[n].due = out[n].due
                              /\ out'[n].delivered = out[n].delivered + Hits(ready, CopyOf(n))
  BY <1>7, <1>9 DEF Counts
<1>11. out' \in Seq(Counts) /\ Len(out') = Len(out)
  <2>1. out' = [n \in DOMAIN out |-> [out[n] EXCEPT !.delivered = @ + CopiesOf(ready, n)]]
    BY DEF ReceiveReady, ready
  <2>2. DOMAIN out = 1 .. Len(out) /\ Len(out) \in Nat
    BY <1>1
  <2>3. out' = [n \in 1 .. Len(out) |-> out'[n]] /\ \A n \in 1 .. Len(out) : out'[n] \in Counts
    BY <1>10, <2>1, <2>2
  <2>4. out' \in [1 .. Len(out) -> Counts]
    BY <2>3
  <2> QED
    BY <2>2, <2>4
<1>12. \A n \in DOMAIN out' : out'[n].due = out'[n].delivered + Hits(delayed', CopyOf(n))
  <2> SUFFICES ASSUME NEW n \in DOMAIN out PROVE out'[n].due = out'[n].delivered + Hits(delayed', CopyOf(n))
    BY <1>9
  <2>1. out[n].due = out[n].delivered + Hits(delayed, CopyOf(n))
    BY DEF SimInv
  <2>2. out[n].delivered \in Nat
    BY <1>9 DEF Counts
  <2>3. out'[n].due = out[n].due /\ out'[n].delivered = out[n].delivered + Hits(ready, CopyOf(n))
    BY <1>10
  <2> QED
    BY <1>7, <1>8, <2>1, <2>2, <2>3
<1>13. \A i \in DOMAIN delayed' : delayed'[i].packet <= offered'
  <2> SUFFICES ASSUME NEW i \in DOMAIN delayed' PROVE delayed'[i].packet <= offered'
    OBVIOUS
  <2>1. PICK j \in DOMAIN delayed : delayed'[i] = delayed[j]
    <3>1. StillDelayed \in SUBSET DOMAIN delayed /\ delayed' = Picked(delayed, StillDelayed)
      BY DEF StillDelayed, ReceiveReady
    <3>2. Ascending(StillDelayed)[i] \in StillDelayed /\ delayed'[i] = delayed[Ascending(StillDelayed)[i]]
      BY <1>1, <3>1, PickedIs
    <3> QED
      BY <3>1, <3>2
  <2> QED
    BY <2>1 DEF SimInv, ReceiveReady
<1>14. SimTypeOK' /\ BandwidthHeld' /\ passed' \in Nat
  BY <1>11 DEF SimInv, SimTypeOK, BandwidthHeld, ReceiveReady
<1> QED
  BY <1>5, <1>11, <1>12, <1>13, <1>14 DEF SimInv

LEMMA SimTimeKept == ASSUME SimInv, SimTime PROVE SimInv'
<1>1. delayed \in Seq(Waiting) /\ out \in Seq(Counts) /\ out' = out /\ offered' = offered /\ passed' = passed
  BY DEF SimInv, SimTime
<1>2. DOMAIN delayed' = DOMAIN delayed /\ \A i \in DOMAIN delayed : delayed[i] \in Waiting
          /\ delayed'[i] = [delayed[i] EXCEPT !.left = IF @ = 0 THEN 0 ELSE @ - 1]
  BY <1>1 DEF SimTime
<1>3. \A x \in Nat : (IF x = 0 THEN 0 ELSE x - 1) \in Nat
  OBVIOUS
<1>4. \A i \in DOMAIN delayed : delayed'[i] \in Waiting /\ delayed'[i].packet = delayed[i].packet
  BY <1>2, <1>3 DEF Waiting
<1>5. delayed' \in Seq(Waiting) /\ Len(delayed') = Len(delayed)
  <2>1. delayed' \in [1 .. Len(delayed) -> Waiting] /\ Len(delayed) \in Nat
    <3>1. delayed' = [i \in DOMAIN delayed |-> [delayed[i] EXCEPT !.left = IF @ = 0 THEN 0 ELSE @ - 1]]
      BY DEF SimTime
    <3> QED
      BY <1>1, <1>4, <3>1
  <2> QED
    BY <2>1
<1>6. \A n : Hits(delayed', CopyOf(n)) = Hits(delayed, CopyOf(n))
  <2> SUFFICES ASSUME NEW n PROVE Hits(delayed', CopyOf(n)) = Hits(delayed, CopyOf(n))
    OBVIOUS
  <2>1. \A i \in DOMAIN delayed : delayed'[i] \in CopyOf(n) <=> delayed[i] \in CopyOf(n)
    BY <1>2, <1>4 DEF CopyOf
  <2>2. Places(delayed', CopyOf(n)) = Places(delayed, CopyOf(n))
    BY <1>2, <2>1 DEF Places
  <2> QED
    BY <2>2 DEF Hits
<1>7. SimTypeOK' /\ BandwidthHeld'
  <2>1. sinceRefill' = sinceRefill + 1 /\ clock' = clock + 1 /\ clock < MaxSimTime /\ bucket' = bucket
    BY DEF SimTime
  <2>2. sinceRefill \in Nat /\ clock \in Nat /\ sinceRefill <= clock
    BY SimulatorAssumption DEF SimInv, SimTypeOK
  <2>3. clock' - sinceRefill' = clock - sinceRefill
    BY <2>1, <2>2
  <2> QED
    BY <1>1, <2>1, <2>2, <2>3, SimulatorAssumption DEF SimInv, SimTypeOK, BandwidthHeld
<1>8. \A i \in DOMAIN delayed' : delayed'[i].packet <= offered'
  BY <1>1, <1>2, <1>4 DEF SimInv
<1>9. \A n \in DOMAIN out' : out'[n].due = out'[n].delivered + Hits(delayed', CopyOf(n))
  BY <1>1, <1>6 DEF SimInv
<1> QED
  BY <1>1, <1>5, <1>7, <1>8, <1>9 DEF SimInv

LEMMA SimStep == SimInv /\ [SimNext]_simVars => SimInv'
<1> SUFFICES ASSUME SimInv, [SimNext]_simVars PROVE SimInv'
  OBVIOUS
<1>1. CASE UNCHANGED simVars
  BY <1>1 DEF simVars, SimInv, SimTypeOK, BandwidthHeld
<1>2. CASE SimNext
  BY <1>2, ProcessKept, ReadyKept, SimTimeKept DEF SimNext
<1> QED
  BY <1>1, <1>2

\* The simulator never lets through more bytes than its bandwidth allows for the time since
\* it was made, and every copy of a packet that is due was delivered or still waits, for
\* every limit, every set of delays and however many packets (checkBandwidth,
\* simulatorProcessSend, simulatorReceiveReady).
THEOREM SimulatorKeepsAccounts == SimSpec => [](SimTypeOK /\ BandwidthHeld /\ CopiesConserved)
<1>1. SimSpec => []SimInv
  BY SimStarts, SimStep, PTL DEF SimSpec
<1> QED
  BY <1>1, SimImplies, PTL

-----------------------------------------------------------------------------
(* The test network. *)

Flying == [packet : Nat, from : Members, to : Members, left : Nat]
Boxed  == [packet : Nat, from : Members]
Routes == [from : Members, to : Members, age : Nat]

\* What is in flight as its route rs[n] says, and that of one sender; the same of what is
\* in an inbox.
Truly(rs) ==
    {x \in Flying : /\ x.packet \in DOMAIN rs /\ rs[x.packet].from = x.from
                    /\ rs[x.packet].to = x.to /\ x.left + rs[x.packet].age >= Latency}
Flown(p, rs) == {x \in Truly(rs) : x.from = p}
Come(q, rs)  ==
    {y \in Boxed : /\ y.packet \in DOMAIN rs /\ rs[y.packet].to = q
                   /\ rs[y.packet].from = y.from /\ rs[y.packet].age >= Latency}

\* The copies of packet n.
FlyingOf(n) == {x \in Flying : x.packet = n}
BoxedOf(n)  == {y \in Boxed : y.packet = n}
LandingOf(n) == {x \in FlyingOf(n) : x.left = 0}

\* The inductive invariant: packets in flight are with their senders, and those in an inbox
\* with the peer they were sent to, so the copies of a packet need to be counted there only.
WorldInv ==
    /\ WorldTypeOK
    /\ routes \in Seq(Routes) /\ copies \in Seq(Nat) /\ taken \in Seq(Nat)
    /\ DOMAIN inFlight = Members /\ DOMAIN inbox = Members
    /\ \A p \in Members : inFlight[p] \in Seq(Flown(p, routes)) /\ inbox[p] \in Seq(Come(p, routes))
    /\ \A n \in DOMAIN routes :
          copies[n] = taken[n] + Hits(inFlight[routes[n].from], FlyingOf(n))
                               + Hits(inbox[routes[n].to], BoxedOf(n))

LEMMA FlownIs ==
    ASSUME NEW rs, NEW p, NEW q
    PROVE  /\ Flown(p, rs) \in SUBSET Truly(rs) /\ Truly(rs) \in SUBSET Flying
           /\ Come(q, rs) \in SUBSET Boxed
BY DEF Flown, Truly, Come

\* Packets in flight at peers, put together: those of a packet are its sender's.
LEMMA AtItsSender ==
    ASSUME NEW rs \in Seq(Routes), NEW flights, DOMAIN flights = Members,
           \A p \in Members : flights[p] \in Seq(Flown(p, rs)),
           NEW n \in DOMAIN rs, NEW M \in SUBSET FlyingOf(n)
    PROVE  /\ FlattenSeq([p \in Members |-> flights[p]]) \in Seq(Truly(rs))
           /\ rs[n].from \in Members
           /\ Hits(FlattenSeq([p \in Members |-> flights[p]]), M) = Hits(flights[rs[n].from], M)
<1> DEFINE seqs == [p \in Members |-> flights[p]]  c == rs[n].from
<1>1. WorldPeers \in Nat
  BY TestNetAssumption
<1>2. c \in Members
  <2>1. rs[n] \in Routes
    OBVIOUS
  <2> QED
    BY <2>1 DEF Routes
<1>3. \A p \in Members : seqs[p] \in Seq(Truly(rs)) /\ seqs[p] \in Seq(Flown(p, rs))
  <2> SUFFICES ASSUME NEW p \in Members PROVE seqs[p] \in Seq(Truly(rs)) /\ seqs[p] \in Seq(Flown(p, rs))
    OBVIOUS
  <2>1. seqs[p] \in Seq(Flown(p, rs)) /\ Flown(p, rs) \in SUBSET Truly(rs)
    BY FlownIs
  <2> HIDE DEF seqs
  <2> QED
    BY <2>1, SeqWider
<1>4. seqs \in [1 .. WorldPeers -> Seq(Truly(rs))]
  <2>1. \A p \in Members : flights[p] \in Seq(Truly(rs))
    BY <1>3
  <2> QED
    BY <2>1 DEF Members
<1>5. DOMAIN seqs = Members
  OBVIOUS
<1> HIDE DEF seqs
<1>6. seqs \in Seq(Seq(Truly(rs))) /\ Len(seqs) = WorldPeers
  BY <1>1, <1>4, OfLength
<1>7. \A i \in 1 .. Len(seqs) : i # c => Hits(seqs[i], M) = 0
  <2> SUFFICES ASSUME NEW i \in Members, i # c PROVE Hits(seqs[i], M) = 0
    BY <1>6 DEF Members
  <2>1. \A k \in DOMAIN seqs[i] : seqs[i][k] \in Flown(i, rs)
    BY <1>3
  <2>2. \A x \in Flown(i, rs) : x \notin M
    BY DEF Flown, Truly, FlyingOf
  <2> QED
    BY <2>1, <2>2, HitsNone
<1>8. c \in 1 .. Len(seqs)
  BY <1>2, <1>6 DEF Members
<1> HIDE DEF c
<1>9. FlattenSeq(seqs) \in Seq(Truly(rs))
  BY <1>6, FlattenIs
<1>10. Hits(FlattenSeq(seqs), M) = Hits(seqs[c], M)
  BY <1>6, <1>7, <1>8, FlattenHits
<1>11. seqs[c] = flights[c]
  BY <1>2 DEF seqs, c
<1> QED
  BY <1>2, <1>9, <1>10, <1>11 DEF seqs, c

LEMMA AtItsReceiver ==
    ASSUME NEW rs \in Seq(Routes), NEW boxes, DOMAIN boxes = Members,
           \A q \in Members : boxes[q] \in Seq(Come(q, rs)), NEW n \in DOMAIN rs
    PROVE  /\ FlattenSeq([q \in Members |-> boxes[q]]) \in Seq(Boxed)
           /\ rs[n].to \in Members
           /\ Hits(FlattenSeq([q \in Members |-> boxes[q]]), BoxedOf(n)) = Hits(boxes[rs[n].to], BoxedOf(n))
<1> DEFINE seqs == [q \in Members |-> boxes[q]]  c == rs[n].to
<1>1. WorldPeers \in Nat
  BY TestNetAssumption
<1>2. c \in Members
  <2>1. rs[n] \in Routes
    OBVIOUS
  <2> QED
    BY <2>1 DEF Routes
<1>3. \A q \in Members : seqs[q] \in Seq(Boxed) /\ seqs[q] \in Seq(Come(q, rs))
  <2> SUFFICES ASSUME NEW q \in Members PROVE seqs[q] \in Seq(Boxed) /\ seqs[q] \in Seq(Come(q, rs))
    OBVIOUS
  <2>1. seqs[q] \in Seq(Come(q, rs)) /\ Come(q, rs) \in SUBSET Boxed
    BY FlownIs
  <2> HIDE DEF seqs
  <2> QED
    BY <2>1, SeqWider
<1>4. seqs \in [1 .. WorldPeers -> Seq(Boxed)]
  <2>1. \A q \in Members : boxes[q] \in Seq(Boxed)
    BY <1>3
  <2> QED
    BY <2>1 DEF Members
<1>5. DOMAIN seqs = Members
  OBVIOUS
<1> HIDE DEF seqs
<1>6. seqs \in Seq(Seq(Boxed)) /\ Len(seqs) = WorldPeers
  BY <1>1, <1>4, OfLength
<1>7. \A i \in 1 .. Len(seqs) : i # c => Hits(seqs[i], BoxedOf(n)) = 0
  <2> SUFFICES ASSUME NEW i \in Members, i # c PROVE Hits(seqs[i], BoxedOf(n)) = 0
    BY <1>6 DEF Members
  <2>1. \A k \in DOMAIN seqs[i] : seqs[i][k] \in Come(i, rs)
    BY <1>3
  <2>2. \A x \in Come(i, rs) : x \notin BoxedOf(n)
    BY DEF Come, BoxedOf
  <2> QED
    BY <2>1, <2>2, HitsNone
<1>8. c \in 1 .. Len(seqs)
  BY <1>2, <1>6 DEF Members
<1> HIDE DEF c
<1>9. FlattenSeq(seqs) \in Seq(Boxed)
  BY <1>6, FlattenIs
<1>10. Hits(FlattenSeq(seqs), BoxedOf(n)) = Hits(seqs[c], BoxedOf(n))
  BY <1>6, <1>7, <1>8, FlattenHits
<1>11. seqs[c] = boxes[c]
  BY <1>2 DEF seqs, c
<1> QED
  BY <1>2, <1>9, <1>10, <1>11 DEF seqs, c

LEMMA OccurrencesAreHits ==
    /\ \A n : \A pkts \in Seq(Flying) : Occurrences(pkts, n) = Hits(pkts, FlyingOf(n))
    /\ \A n : \A pkts \in Seq(Boxed) : Occurrences(pkts, n) = Hits(pkts, BoxedOf(n))
<1>1. ASSUME NEW pkts \in Seq(Flying), NEW n PROVE Occurrences(pkts, n) = Hits(pkts, FlyingOf(n))
  <2>1. {i \in DOMAIN pkts : pkts[i].packet = n} = Places(pkts, FlyingOf(n))
    BY DEF Places, FlyingOf
  <2> QED
    BY <2>1 DEF Occurrences, Hits
<1>2. ASSUME NEW pkts \in Seq(Boxed), NEW n PROVE Occurrences(pkts, n) = Hits(pkts, BoxedOf(n))
  <2>1. {i \in DOMAIN pkts : pkts[i].packet = n} = Places(pkts, BoxedOf(n))
    BY DEF Places, BoxedOf
  <2> QED
    BY <2>1 DEF Occurrences, Hits
<1> QED
  BY <1>1, <1>2

LEMMA WorldImplies == WorldInv => WorldTypeOK /\ DeliveredAsSent
<1> SUFFICES ASSUME WorldInv PROVE DeliveredAsSent
  BY DEF WorldInv
<1> DEFINE air == FlattenSeq([p \in Members |-> inFlight[p]])  mail == FlattenSeq([p \in Members |-> inbox[p]])
<1>1. routes \in Seq(Routes) /\ DOMAIN inFlight = Members /\ DOMAIN inbox = Members
      /\ (\A p \in Members : inFlight[p] \in Seq(Flown(p, routes))) /\ \A p \in Members : inbox[p] \in Seq(Come(p, routes))
  BY DEF WorldInv
<1>2. ASSUME NEW n \in DOMAIN routes PROVE copies[n] = taken[n] + Occurrences(air, n) + Occurrences(mail, n)
  <2>0. FlyingOf(n) \in SUBSET FlyingOf(n)
    OBVIOUS
  <2>1. air \in Seq(Truly(routes)) /\ Hits(air, FlyingOf(n)) = Hits(inFlight[routes[n].from], FlyingOf(n))
    BY <1>1, <2>0, AtItsSender
  <2>2. mail \in Seq(Boxed) /\ Hits(mail, BoxedOf(n)) = Hits(inbox[routes[n].to], BoxedOf(n))
    BY <1>1, AtItsReceiver
  <2> HIDE DEF air, mail
  <2>3. air \in Seq(Flying)
    BY <2>1, FlownIs, SeqWider
  <2>4. Occurrences(air, n) = Hits(air, FlyingOf(n)) /\ Occurrences(mail, n) = Hits(mail, BoxedOf(n))
    BY <2>2, <2>3, OccurrencesAreHits
  <2> QED
    BY <2>1, <2>2, <2>4 DEF WorldInv
<1>3. ASSUME NEW q \in Members, NEW i \in DOMAIN inbox[q]
      PROVE  /\ routes[inbox[q][i].packet].to = q /\ routes[inbox[q][i].packet].from = inbox[q][i].from
             /\ routes[inbox[q][i].packet].age >= Latency
  <2>1. inbox[q][i] \in Come(q, routes)
    BY <1>1
  <2> QED
    BY <2>1 DEF Come
<1> QED
  BY <1>2, <1>3 DEF DeliveredAsSent

LEMMA WorldStarts == WorldInit => WorldInv
<1> SUFFICES ASSUME WorldInit PROVE WorldInv
  OBVIOUS
<1>1. routes = <<>> /\ copies = <<>> /\ taken = <<>> /\ closed = {}
      /\ inFlight = [p \in Members |-> <<>>] /\ inbox = [p \in Members |-> <<>>]
  BY DEF WorldInit
<1>2. \A S : <<>> \in Seq(S)
  BY EmptySeq
<1>3. \A p \in Members : inFlight[p] \in Seq(Flown(p, routes)) /\ inbox[p] \in Seq(Come(p, routes))
  BY <1>1, <1>2, Zenon
<1>4. WorldTypeOK
  BY <1>1, TestNetAssumption DEF WorldTypeOK
<1> QED
  BY <1>1, <1>3, <1>4 DEF WorldInv

\* A route that is added changes nothing for the packets before.
LEMMA RouteAdded ==
    ASSUME NEW rs \in Seq(Routes), NEW r \in Routes
    PROVE  /\ Append(rs, r) \in Seq(Routes) /\ Len(rs) \in Nat
           /\ DOMAIN Append(rs, r) = 1 .. Len(rs) + 1 /\ Append(rs, r)[Len(rs) + 1] = r
           /\ \A k \in 1 .. Len(rs) : Append(rs, r)[k] = rs[k]
           /\ \A p : Flown(p, rs) \in SUBSET Flown(p, Append(rs, r))
           /\ \A p : Come(p, rs) \in SUBSET Come(p, Append(rs, r))
<1> DEFINE ss == Append(rs, r)
<1>1. ss \in Seq(Routes) /\ Len(rs) \in Nat /\ DOMAIN ss = 1 .. Len(rs) + 1 /\ ss[Len(rs) + 1] = r
      /\ (\A k \in 1 .. Len(rs) : ss[k] = rs[k]) /\ DOMAIN rs = 1 .. Len(rs)
  OBVIOUS
<1> HIDE DEF ss
<1>2. DOMAIN rs \in SUBSET DOMAIN ss
  BY <1>1
<1>3. \A k \in DOMAIN rs : k \in DOMAIN ss /\ ss[k] = rs[k]
  BY <1>1, <1>2
<1>4. \A p : Flown(p, rs) \in SUBSET Flown(p, ss)
  BY <1>3 DEF Flown, Truly
<1>5. \A p : Come(p, rs) \in SUBSET Come(p, ss)
  BY <1>3 DEF Come
<1> QED
  BY <1>1, <1>4, <1>5 DEF ss

LEMMA SentKept ==
    ASSUME WorldInv, NEW p \in Members, NEW q \in Members, NEW delays \in Schedules, NetSend(p, q, delays)
    PROVE  WorldInv'
<1> DEFINE n == Len(routes) + 1  r == [from |-> p, to |-> q, age |-> 0]
           more == [i \in DOMAIN delays |-> [packet |-> n, from |-> p, to |-> q, left |-> delays[i]]]
<1>1. /\ routes \in Seq(Routes) /\ copies \in Seq(Nat) /\ taken \in Seq(Nat)
      /\ DOMAIN inFlight = Members /\ DOMAIN inbox = Members
      /\ Len(copies) = Len(routes) /\ Len(taken) = Len(routes) /\ closed \in SUBSET Members
      /\ \A c \in Members : inFlight[c] \in Seq(Flown(c, routes)) /\ inbox[c] \in Seq(Come(c, routes))
  BY DEF WorldInv, WorldTypeOK
<1>2. /\ n <= MaxWorldPackets
      /\ inFlight' = [inFlight EXCEPT ![p] = @ \o more]
      /\ routes' = Append(routes, r)
      /\ copies' = Append(copies, Len(delays)) /\ taken' = Append(taken, 0)
      /\ inbox' = inbox /\ closed' = closed
  BY DEF NetSend
<1>3. delays \in Seq(Nat) /\ \A i \in DOMAIN delays : delays[i] \in Nat /\ delays[i] >= Latency
  <2>1. Latency \in Nat /\ \A d \in ExtraDelays : d \in Nat
    BY TestNetAssumption
  <2>2. CASE delays = <<>>
    BY <2>2
  <2>3. CASE \E d \in ExtraDelays : delays = <<Latency + d>>
    <3>1. PICK d \in ExtraDelays : delays = <<Latency + d>>
      BY <2>3
    <3> QED
      BY <2>1, <3>1
  <2>4. CASE \E d, e \in ExtraDelays : delays = <<Latency + d, Latency + d + e>>
    <3>1. PICK d \in ExtraDelays, e \in ExtraDelays : delays = <<Latency + d, Latency + d + e>>
      BY <2>4
    <3>2. Latency + d \in Nat /\ Latency + d + e \in Nat /\ Latency + d >= Latency /\ Latency + d + e >= Latency
      BY <2>1
    <3> DEFINE a == Latency + d  b == Latency + d + e
    <3>3. a \in Nat /\ b \in Nat /\ a >= Latency /\ b >= Latency /\ delays = <<a, b>>
      BY <3>1, <3>2
    <3> HIDE DEF a, b
    <3> QED
      BY <3>3
  <2> QED
    BY <2>2, <2>3, <2>4 DEF Schedules
<1>4. r \in Routes
  BY DEF Routes
<1>5. /\ routes' \in Seq(Routes) /\ Len(routes) \in Nat /\ DOMAIN routes' = 1 .. n /\ routes'[n] = r
      /\ (\A k \in 1 .. Len(routes) : routes'[k] = routes[k])
      /\ \A c : Flown(c, routes) \in SUBSET Flown(c, routes') /\ Come(c, routes) \in SUBSET Come(c, routes')
  BY <1>1, <1>2, <1>4, RouteAdded
<1>6. n \in Nat /\ n \in DOMAIN routes' /\ DOMAIN routes = 1 .. Len(routes) /\ Len(routes') = n
  BY <1>1, <1>2, <1>5
<1>7. more \in Seq(Flown(p, routes') \cap FlyingOf(n)) /\ Len(more) = Len(delays) /\ Len(delays) \in Nat
  <2>1. \A d \in Nat : d >= Latency => [packet |-> n, from |-> p, to |-> q, left |-> d] \in Flown(p, routes') \cap FlyingOf(n)
    <3> SUFFICES ASSUME NEW d \in Nat, d >= Latency
                 PROVE  [packet |-> n, from |-> p, to |-> q, left |-> d] \in Flown(p, routes') \cap FlyingOf(n)
      OBVIOUS
    <3> DEFINE x == [packet |-> n, from |-> p, to |-> q, left |-> d]
    <3>1. x \in Flying /\ x.packet = n /\ x.from = p /\ x.to = q /\ x.left = d
      BY <1>6 DEF Flying
    <3>2. routes'[n].from = p /\ routes'[n].to = q /\ routes'[n].age = 0
      BY <1>5
    <3> HIDE DEF n, x
    <3>3. x \in FlyingOf(n)
      BY <3>1 DEF FlyingOf
    <3>4. d + 0 >= Latency
      OBVIOUS
    <3>5. x \in Truly(routes')
      BY <1>6, <3>1, <3>2, <3>4 DEF Truly
    <3> QED
      BY <3>1, <3>3, <3>5 DEF Flown, x
  <2>2. DOMAIN delays = 1 .. Len(delays) /\ Len(delays) \in Nat
    BY <1>3
  <2>3. more \in [1 .. Len(delays) -> Flown(p, routes') \cap FlyingOf(n)]
    BY <1>3, <2>1, <2>2
  <2> HIDE DEF more
  <2> QED
    BY <2>2, <2>3, OfLength
<1> HIDE DEF more, n, r
<1>8. inFlight'[p] = inFlight[p] \o more /\ (\A c \in Members : c # p => inFlight'[c] = inFlight[c]) /\ DOMAIN inFlight' = Members
  BY <1>1, <1>2
<1>9. \A c \in Members : inFlight[c] \in Seq(Flown(c, routes')) /\ inbox'[c] \in Seq(Come(c, routes'))
  BY <1>1, <1>2, <1>5, SeqWider
<1>10. more \in Seq(Flown(p, routes'))
  <2>1. Flown(p, routes') \cap FlyingOf(n) \in SUBSET Flown(p, routes')
    OBVIOUS
  <2> QED
    BY <1>7, <2>1, SeqWider
<1>11. \A c \in Members : inFlight'[c] \in Seq(Flown(c, routes'))
  <2>1. inFlight'[p] \in Seq(Flown(p, routes'))
    BY <1>8, <1>9, <1>10, ConcatProperties
  <2> QED
    BY <1>8, <1>9, <2>1
<1>12. ASSUME NEW M PROVE Hits(inFlight'[p], M) = Hits(inFlight[p], M) + Hits(more, M)
  BY <1>8, <1>9, <1>10, HitsConcat
<1>13. /\ \A k \in 1 .. Len(routes) : Hits(more, FlyingOf(k)) = 0
       /\ Hits(more, FlyingOf(n)) = Len(delays)
  <2>1. \A i \in DOMAIN more : more[i] \in FlyingOf(n)
    BY <1>7
  <2>2. \A k \in 1 .. Len(routes) : k # n
    BY <1>5 DEF n
  <2>3. ASSUME NEW k \in 1 .. Len(routes) PROVE Hits(more, FlyingOf(k)) = 0
    <3>1. \A i \in DOMAIN more : more[i] \notin FlyingOf(k)
      BY <2>1, <2>2 DEF FlyingOf
    <3> QED
      BY <3>1, HitsNone
  <2>4. Places(more, FlyingOf(n)) = 1 .. Len(delays)
    BY <1>7, <2>1 DEF Places
  <2>5. Hits(more, FlyingOf(n)) = Len(delays)
    BY <1>7, <2>4, OneTo DEF Hits
  <2> QED
    BY <2>3, <2>5
<1>14. /\ Hits(inFlight[p], FlyingOf(n)) = 0 /\ Hits(inbox[q], BoxedOf(n)) = 0
  <2>1. \A i \in DOMAIN inFlight[p] : inFlight[p][i] \in Flown(p, routes)
    BY <1>1
  <2>2. \A i \in DOMAIN inbox[q] : inbox[q][i] \in Come(q, routes)
    BY <1>1
  <2>3. n \notin DOMAIN routes
    BY <1>5, <1>6 DEF n
  <2>4. \A x : (x \in Flown(p, routes) => x \notin FlyingOf(n)) /\ (x \in Come(q, routes) => x \notin BoxedOf(n))
    BY <2>3 DEF Flown, Truly, Come, FlyingOf, BoxedOf
  <2> QED
    BY <2>1, <2>2, <2>4, HitsNone
<1>15. /\ copies'[n] = Len(delays) /\ taken'[n] = 0 /\ copies' \in Seq(Nat) /\ taken' \in Seq(Nat)
       /\ Len(copies') = n /\ Len(taken') = n
       /\ \A k \in 1 .. Len(routes) : copies'[k] = copies[k] /\ taken'[k] = taken[k]
  BY <1>1, <1>2, <1>7, SMTT(30) DEF n
<1>16. ASSUME NEW k \in DOMAIN routes'
       PROVE  copies'[k] = taken'[k] + Hits(inFlight'[routes'[k].from], FlyingOf(k)) + Hits(inbox'[routes'[k].to], BoxedOf(k))
  <2>1. k = n \/ k \in 1 .. Len(routes)
    BY <1>5 DEF n
  <2>2. CASE k = n
    <3>1. routes'[k].from = p /\ routes'[k].to = q
      BY <1>5, <2>2 DEF r
    <3>2. Hits(inFlight'[p], FlyingOf(n)) = 0 + Len(delays)
      BY <1>12, <1>13, <1>14
    <3>3. Hits(inbox'[q], BoxedOf(n)) = 0
      BY <1>2, <1>14
    <3> QED
      BY <1>7, <1>15, <2>2, <3>1, <3>2, <3>3
  <2>3. CASE k \in 1 .. Len(routes)
    <3>1. routes'[k] = routes[k] /\ copies'[k] = copies[k] /\ taken'[k] = taken[k] /\ inbox' = inbox /\ k \in DOMAIN routes
      BY <1>2, <1>5, <1>6, <1>15, <2>3
    <3>2. Hits(inFlight'[routes[k].from], FlyingOf(k)) = Hits(inFlight[routes[k].from], FlyingOf(k))
      <4>1. routes[k].from \in Members
        <5>1. routes[k] \in Routes
          BY <1>1, <3>1
        <5> QED
          BY <5>1 DEF Routes
      <4>2. CASE routes[k].from = p
        <5>1. Hits(inFlight[p], FlyingOf(k)) \in Nat
          BY <1>1, HitsNat
        <5>2. Hits(inFlight'[p], FlyingOf(k)) = Hits(inFlight[p], FlyingOf(k)) + 0
          BY <1>12, <1>13, <2>3
        <5> QED
          BY <4>2, <5>1, <5>2
      <4>3. CASE routes[k].from # p
        BY <1>8, <4>1, <4>3
      <4> QED
        BY <4>2, <4>3
    <3>3. copies[k] = taken[k] + Hits(inFlight[routes[k].from], FlyingOf(k)) + Hits(inbox[routes[k].to], BoxedOf(k))
      BY <3>1 DEF WorldInv
    <3> QED
      BY <3>1, <3>2, <3>3
  <2> QED
    BY <2>1, <2>2, <2>3
<1>17. WorldTypeOK'
  BY <1>1, <1>2, <1>6, <1>15 DEF WorldTypeOK, Members
<1>18. DOMAIN inbox' = Members
  BY <1>1, <1>2
<1> QED
  BY <1>5, <1>8, <1>9, <1>11, <1>15, <1>16, <1>17, <1>18 DEF WorldInv

LEMMA TakenKept ==
    ASSUME WorldInv, NEW p \in Members, NetRecv(p)
    PROVE  WorldInv'
<1> DEFINE m == Head(inbox[p]).packet
<1>1. /\ routes \in Seq(Routes) /\ copies \in Seq(Nat) /\ taken \in Seq(Nat)
      /\ DOMAIN inFlight = Members /\ DOMAIN inbox = Members
      /\ Len(copies) = Len(routes) /\ Len(taken) = Len(routes)
      /\ \A c \in Members : inFlight[c] \in Seq(Flown(c, routes)) /\ inbox[c] \in Seq(Come(c, routes))
  BY DEF WorldInv, WorldTypeOK
<1>2. /\ inbox[p] # <<>> /\ inbox' = [inbox EXCEPT ![p] = Tail(@)]
      /\ taken' = [taken EXCEPT ![m] = @ + 1]
      /\ routes' = routes /\ inFlight' = inFlight /\ copies' = copies /\ closed' = closed
  BY DEF NetRecv
<1>3. Tail(inbox[p]) \in Seq(Come(p, routes)) /\ Head(inbox[p]) \in Come(p, routes)
  BY <1>1, <1>2, HitsTail
<1>4. m \in DOMAIN routes /\ routes[m].to = p /\ \A k : Head(inbox[p]) \in BoxedOf(k) <=> k = m
  BY <1>3 DEF Come, BoxedOf
<1>5. \A M : Hits(inbox[p], M) = (IF Head(inbox[p]) \in M THEN 1 ELSE 0) + Hits(Tail(inbox[p]), M)
  BY <1>1, <1>2, HitsTail
<1>6. \A M : Hits(Tail(inbox[p]), M) \in Nat
  BY <1>3, HitsNat
<1>7. DOMAIN taken = DOMAIN routes /\ \A k \in DOMAIN routes : taken[k] \in Nat
  BY <1>1
<1> HIDE DEF m
<1>8. inbox'[p] = Tail(inbox[p]) /\ DOMAIN inbox' = Members /\ \A c \in Members : c # p => inbox'[c] = inbox[c]
  BY <1>1, <1>2
<1>9. taken'[m] = taken[m] + 1 /\ \A k \in DOMAIN routes : k # m => taken'[k] = taken[k]
  BY <1>2, <1>4, <1>7
<1>10. taken' \in Seq(Nat) /\ Len(taken') = Len(taken)
  <2>1. m \in 1 .. Len(taken) /\ taken[m] + 1 \in Nat
    BY <1>1, <1>4, <1>7
  <2> QED
    BY <1>1, <1>2, <2>1, ExceptSeq
<1>11. \A c \in Members : inbox'[c] \in Seq(Come(c, routes))
  BY <1>1, <1>3, <1>8
<1>12. ASSUME NEW k \in DOMAIN routes
       PROVE  copies[k] = taken'[k] + Hits(inFlight[routes[k].from], FlyingOf(k)) + Hits(inbox'[routes[k].to], BoxedOf(k))
  <2>1. copies[k] = taken[k] + Hits(inFlight[routes[k].from], FlyingOf(k)) + Hits(inbox[routes[k].to], BoxedOf(k))
    BY DEF WorldInv
  <2>2. routes[k].from \in Members /\ routes[k].to \in Members
    <3>1. routes[k] \in Routes
      BY <1>1
    <3> QED
      BY <3>1 DEF Routes
  <2>3. Hits(inFlight[routes[k].from], FlyingOf(k)) \in Nat
    BY <1>1, <2>2, HitsNat
  <2>4. CASE k = m
    <3>1. Hits(inbox[p], BoxedOf(k)) = 1 + Hits(inbox'[p], BoxedOf(k)) /\ Hits(inbox'[p], BoxedOf(k)) \in Nat
      BY <1>4, <1>5, <1>6, <1>8, <2>4
    <3>2. routes[k].to = p /\ taken'[k] = taken[k] + 1 /\ taken[k] \in Nat
      BY <1>4, <1>7, <1>9, <2>4
    <3> QED
      BY <2>1, <2>3, <3>1, <3>2
  <2>5. CASE k # m
    <3>1. Hits(inbox'[routes[k].to], BoxedOf(k)) = Hits(inbox[routes[k].to], BoxedOf(k))
      <4>1. CASE routes[k].to = p
        <5>1. Hits(inbox[p], BoxedOf(k)) = 0 + Hits(Tail(inbox[p]), BoxedOf(k))
          BY <1>4, <1>5, <2>5
        <5>2. Hits(Tail(inbox[p]), BoxedOf(k)) \in Nat
          BY <1>6
        <5>3. Hits(inbox[p], BoxedOf(k)) = Hits(Tail(inbox[p]), BoxedOf(k))
          BY <5>1, <5>2
        <5> QED
          BY <1>8, <4>1, <5>3, Zenon
      <4>2. CASE routes[k].to # p
        BY <1>8, <2>2, <4>2
      <4> QED
        BY <4>1, <4>2
    <3> QED
      BY <1>9, <2>1, <2>5, <3>1
  <2> QED
    BY <2>4, <2>5
<1>13. WorldTypeOK'
  BY <1>1, <1>2, <1>10 DEF WorldInv, WorldTypeOK
<1> QED
  BY <1>1, <1>2, <1>8, <1>10, <1>11, <1>12, <1>13 DEF WorldInv


Nearer(x, d) == [x EXCEPT !.left = IF @ < d THEN 0 ELSE @ - d]
Letter(x)    == [packet |-> x.packet, from |-> x.from]
RoutesAfter(rs, d) ==
    [n \in DOMAIN rs |-> [rs[n] EXCEPT !.age = IF @ + d < Latency THEN @ + d ELSE Latency]]

\* Time passes: what is left of the delay and the age of the route make up for each other.
LEMMA FlownLater ==
    ASSUME NEW rs \in Seq(Routes), NEW d \in Nat, NEW ss, ss = RoutesAfter(rs, d)
    PROVE  /\ ss \in Seq(Routes) /\ Len(ss) = Len(rs) /\ DOMAIN ss = DOMAIN rs
           /\ \A n \in DOMAIN rs : ss[n].from = rs[n].from /\ ss[n].to = rs[n].to
           /\ \A q : Come(q, rs) \in SUBSET Come(q, ss)
           /\ \A p : \A x \in Flown(p, rs) :
                 Nearer(x, d) \in Flown(p, ss) /\ Nearer(x, d).packet = x.packet
           /\ \A x \in Truly(ss) : x.left = 0 =>
                 \A q : x.to = q => Letter(x) \in Come(q, ss)
<1> DEFINE older(a) == IF a + d < Latency THEN a + d ELSE Latency
<1>1. Latency \in Nat
  BY TestNetAssumption
<1>2. \A a \in Nat : older(a) \in Nat /\ (a >= Latency => older(a) >= Latency)
  BY <1>1
<1>3. \A a, l \in Nat : l + a >= Latency =>
          (IF l < d THEN 0 ELSE l - d) \in Nat /\ (IF l < d THEN 0 ELSE l - d) + older(a) >= Latency
  BY <1>1
<1> HIDE DEF older
<1>4. DOMAIN ss = DOMAIN rs /\ DOMAIN rs = 1 .. Len(rs) /\ Len(rs) \in Nat
  BY DEF RoutesAfter
<1>5. \A n \in DOMAIN rs : rs[n] \in Routes /\ ss[n] = [rs[n] EXCEPT !.age = older(@)]
  BY DEF older, RoutesAfter
<1>6. \A r \in Routes : LET s == [r EXCEPT !.age = older(@)]
                         IN  s \in Routes /\ s.from = r.from /\ s.to = r.to /\ s.age = older(r.age) /\ r.age \in Nat
  BY <1>2 DEF Routes
<1>7. \A n \in DOMAIN rs : /\ ss[n] \in Routes /\ ss[n].from = rs[n].from /\ ss[n].to = rs[n].to
                            /\ ss[n].age = older(rs[n].age) /\ rs[n].age \in Nat
  BY <1>5, <1>6
<1>8. ss \in Seq(Routes) /\ Len(ss) = Len(rs)
  <2>1. ss = [n \in DOMAIN rs |-> ss[n]]
    BY <1>4 DEF RoutesAfter
  <2>2. ss \in [1 .. Len(rs) -> Routes]
    BY <1>4, <1>7, <2>1
  <2> QED
    BY <1>4, <2>2, OfLength
<1>9. \A q : Come(q, rs) \in SUBSET Come(q, ss)
  <2> SUFFICES ASSUME NEW q, NEW y \in Come(q, rs) PROVE y \in Come(q, ss)
    OBVIOUS
  <2>1. y \in Boxed /\ y.packet \in DOMAIN rs /\ rs[y.packet].to = q /\ rs[y.packet].from = y.from
        /\ rs[y.packet].age >= Latency
    BY DEF Come
  <2>2. ss[y.packet].age >= Latency
    BY <1>2, <1>7, <2>1
  <2> QED
    BY <1>4, <1>7, <2>1, <2>2 DEF Come
<1>10. \A p : \A x \in Flown(p, rs) :
          Nearer(x, d) \in Flown(p, ss) /\ Nearer(x, d).packet = x.packet
  <2> SUFFICES ASSUME NEW p, NEW x \in Flown(p, rs)
               PROVE  Nearer(x, d) \in Flown(p, ss) /\ Nearer(x, d).packet = x.packet
    OBVIOUS
  <2> DEFINE k == x.packet  l == IF x.left < d THEN 0 ELSE x.left - d
             z == Nearer(x, d)
  <2>1. x \in Flying /\ k \in DOMAIN rs /\ rs[k].from = x.from /\ rs[k].to = x.to /\ x.left + rs[k].age >= Latency
        /\ x.from = p
    BY DEF Flown, Truly
  <2>2. x.left \in Nat /\ rs[k].age \in Nat
    <3>1. x.left \in Nat
      BY <2>1 DEF Flying
    <3> QED
      BY <1>7, <2>1, <3>1
  <2>3. l \in Nat /\ l + older(rs[k].age) >= Latency
    BY <1>3, <2>1, <2>2
  <2>4. z = [x EXCEPT !.left = l]
    BY DEF Nearer
  <2> HIDE DEF l, z
  <2>5. z \in Flying /\ z.packet = k /\ z.from = x.from /\ z.to = x.to /\ z.left = l
    BY <2>1, <2>3, <2>4 DEF Flying
  <2>6. k \in DOMAIN ss /\ ss[k].from = z.from /\ ss[k].to = z.to /\ z.left + ss[k].age >= Latency
    BY <1>4, <1>7, <2>1, <2>3, <2>5
  <2>7. z \in Flown(p, ss)
    <3> HIDE DEF k
    <3>1. z.packet \in DOMAIN ss /\ ss[z.packet].from = z.from /\ ss[z.packet].to = z.to
          /\ z.left + ss[z.packet].age >= Latency
      BY <2>5, <2>6
    <3>2. z.from = p
      BY <2>1, <2>5
    <3> QED
      BY <2>5, <3>1, <3>2 DEF Flown, Truly
  <2> QED
    BY <2>5, <2>7 DEF z
<1>11. \A x \in Truly(ss) : x.left = 0 =>
          \A q : x.to = q => Letter(x) \in Come(q, ss)
  <2> SUFFICES ASSUME NEW x \in Truly(ss), x.left = 0, NEW q, x.to = q
               PROVE  Letter(x) \in Come(q, ss)
    OBVIOUS
  <2> DEFINE y == Letter(x)
  <2>1. x \in Flying /\ x.packet \in DOMAIN ss /\ ss[x.packet].from = x.from /\ ss[x.packet].to = x.to
        /\ x.left + ss[x.packet].age >= Latency
    BY DEF Truly
  <2>2. ss[x.packet].age >= Latency
    <3>1. ss[x.packet].age \in Nat
      <4>1. ss[x.packet] \in Routes
        BY <1>4, <1>7, <2>1
      <4> QED
        BY <4>1 DEF Routes
    <3> QED
      BY <2>1, <3>1
  <2>3. y \in Boxed /\ y.packet = x.packet /\ y.from = x.from
    BY <2>1 DEF Flying, Boxed, Letter
  <2> HIDE DEF y
  <2>4. y \in Come(q, ss)
    BY <2>1, <2>2, <2>3 DEF Come
  <2> QED
    BY <2>4 DEF y
<1> QED
  BY <1>4, <1>7, <1>8, <1>9, <1>10, <1>11

LEMMA AdvanceKept ==
    ASSUME WorldInv, NEW d \in 0 .. 1, WorldAdvanceTime(d)
    PROVE  WorldInv'
<1> DEFINE now == [p \in Members |-> Elapsed(inFlight[p], d)]
           air == FlattenSeq([p \in Members |-> now[p]])
           ready == Picked(air, Ready(air))
           ss == RoutesAfter(routes, d)
           Landed == {x \in Flying : x.left = 0}
           For(q) == {x \in Flying : x.to = q}
<1>1. /\ routes \in Seq(Routes) /\ copies \in Seq(Nat) /\ taken \in Seq(Nat)
      /\ DOMAIN inFlight = Members /\ DOMAIN inbox = Members
      /\ Len(copies) = Len(routes) /\ Len(taken) = Len(routes)
      /\ \A c \in Members : inFlight[c] \in Seq(Flown(c, routes)) /\ inbox[c] \in Seq(Come(c, routes))
  BY DEF WorldInv, WorldTypeOK
<1>2. /\ inFlight' = [p \in Members |-> Reverse(Picked(now[p], NotReady(now[p])))]
      /\ inbox' = [q \in Members |-> inbox[q] \o Arrivals(Reverse(AddressedTo(ready, q)))]
      /\ routes' = ss /\ closed' = closed /\ copies' = copies /\ taken' = taken
  <2>1. [p \in Members |-> now[p]] = now
    OBVIOUS
  <2>2. air = FlattenSeq(now)
    BY <2>1
  <2> QED
    BY <2>2 DEF WorldAdvanceTime, RoutesAfter
<1>3. d \in Nat
  OBVIOUS
<1>4. /\ ss \in Seq(Routes) /\ Len(ss) = Len(routes) /\ DOMAIN ss = DOMAIN routes
      /\ \A n \in DOMAIN routes : ss[n].from = routes[n].from /\ ss[n].to = routes[n].to
      /\ \A q : Come(q, routes) \in SUBSET Come(q, ss)
      /\ \A p : \A x \in Flown(p, routes) :
            Nearer(x, d) \in Flown(p, ss) /\ Nearer(x, d).packet = x.packet
      /\ \A x \in Truly(ss) : x.left = 0 =>
            \A q : x.to = q => Letter(x) \in Come(q, ss)
  <2>1. ss = RoutesAfter(routes, d)
    OBVIOUS
  <2> HIDE DEF ss
  <2> QED
    BY <1>1, <1>3, <2>1, FlownLater
<1> HIDE DEF ss
\* The packets still with their senders, a moment later.
<1>5. ASSUME NEW p \in Members
      PROVE  now[p] \in Seq(Flown(p, ss)) /\ \A n : Hits(now[p], FlyingOf(n)) = Hits(inFlight[p], FlyingOf(n))
  <2> DEFINE f == inFlight[p]  g == now[p]
  <2>1. f \in Seq(Flown(p, routes)) /\ Len(f) \in Nat /\ DOMAIN f = 1 .. Len(f)
    BY <1>1
  <2>2. g = [i \in DOMAIN f |-> Nearer(f[i], d)]
    BY DEF Elapsed, Nearer
  <2> HIDE DEF f, g
  <2>3. \A i \in DOMAIN f : f[i] \in Flown(p, routes)
    BY <2>1
  <2>4. \A i \in DOMAIN f : g[i] \in Flown(p, ss) /\ g[i].packet = f[i].packet
    BY <1>4, <2>2, <2>3
  <2>5. DOMAIN g = DOMAIN f /\ g = [i \in DOMAIN f |-> g[i]]
    BY <2>2
  <2>6. g \in [1 .. Len(f) -> Flown(p, ss)]
    BY <2>1, <2>4, <2>5
  <2>7. g \in Seq(Flown(p, ss))
    BY <2>1, <2>6, OfLength
  <2>8. \A n : \A i \in DOMAIN g : g[i] \in FlyingOf(n) <=> f[i] \in FlyingOf(n)
    <3>1. \A i \in DOMAIN g : g[i] \in Flying /\ f[i] \in Flying
      BY <2>3, <2>4, <2>5 DEF Flown, Truly
    <3> QED
      BY <2>4, <2>5, <3>1 DEF FlyingOf
  <2>9. \A n : Hits(g, FlyingOf(n)) = Hits(f, FlyingOf(n))
    BY <2>5, <2>8, HitsSame
  <2> QED
    BY <2>7, <2>9 DEF f, g
<1>6. DOMAIN now = Members
  OBVIOUS
<1> HIDE DEF now
<1>7. \A p \in Members : now[p] \in Seq(Flown(p, ss))
  BY <1>5
<1>8. ASSUME NEW n \in DOMAIN ss, NEW M \in SUBSET FlyingOf(n)
      PROVE  air \in Seq(Truly(ss)) /\ ss[n].from \in Members /\ Hits(air, M) = Hits(now[ss[n].from], M)
  <2>1. ss \in Seq(Routes)
    BY <1>4
  <2> QED
    BY <1>6, <1>7, <2>1, AtItsSender, Zenon
<1>9. air \in Seq(Truly(ss))
  <2> DEFINE seqs == [p \in Members |-> now[p]]
  <2>1. WorldPeers \in Nat
    BY TestNetAssumption
  <2>2. \A p \in Members : now[p] \in Seq(Truly(ss))
    BY <1>7, FlownIs, SeqWider
  <2>3. seqs \in [1 .. WorldPeers -> Seq(Truly(ss))]
    BY <2>2 DEF Members
  <2> HIDE DEF seqs
  <2>4. seqs \in Seq(Seq(Truly(ss)))
    BY <2>1, <2>3, OfLength
  <2> QED
    BY <2>4, FlattenIs DEF seqs
<1> HIDE DEF air
<1>10. ready \in Seq(Truly(ss) \cap Landed) /\ \A M : Hits(ready, M) = Hits(air, M \cap Landed)
  <2>1. \A i \in DOMAIN air : air[i] \in Flying
    BY <1>9 DEF Truly
  <2>2. Ready(air) = {i \in DOMAIN air : air[i] \in Landed}
    BY <2>1 DEF Ready
  <2> HIDE DEF Landed
  <2>3. Picked(air, {i \in DOMAIN air : air[i] \in Landed}) \in Seq(Truly(ss) \cap Landed)
    BY <1>9, PickedOf
  <2>4. \A M : Hits(Picked(air, {i \in DOMAIN air : air[i] \in Landed}), M) = Hits(air, M \cap Landed)
    BY <1>9, HitsPicked, Zenon
  <2> QED
    BY <2>2, <2>3, <2>4
<1> HIDE DEF ready
\* What arrives at q.
<1>11. ASSUME NEW q \in Members
       PROVE  /\ Arrivals(Reverse(AddressedTo(ready, q))) \in Seq(Come(q, ss))
              /\ \A n : Hits(Arrivals(Reverse(AddressedTo(ready, q))), BoxedOf(n)) = Hits(ready, FlyingOf(n) \cap For(q))
  <2> DEFINE f == AddressedTo(ready, q)  g == Reverse(f)  a == Arrivals(g)  T == (Truly(ss) \cap Landed) \cap For(q)
  <2>1. \A i \in DOMAIN ready : ready[i] \in Flying
    BY <1>10 DEF Truly
  <2>2. f = Picked(ready, {i \in DOMAIN ready : ready[i] \in For(q)})
    <3>1. {i \in DOMAIN ready : ready[i] \in For(q)} = {i \in DOMAIN ready : ready[i].to = q}
      BY <2>1
    <3> QED
      BY <3>1 DEF AddressedTo
  <2> HIDE DEF For, f
  <2>3. f \in Seq(T)
    BY <1>10, <2>2, PickedOf
  <2>4. \A M : Hits(f, M) = Hits(ready, M \cap For(q))
    <3>1. \A M : Hits(Picked(ready, {i \in DOMAIN ready : ready[i] \in For(q)}), M) = Hits(ready, M \cap For(q))
      BY <1>10, HitsPicked, ZenonT(30)
    <3> QED
      BY <2>2, <3>1
  <2> HIDE DEF T
  <2>5. g \in Seq(T) /\ \A M : Hits(g, M) = Hits(f, M)
    BY <2>3, HitsReverse
  <2> HIDE DEF g
  <2>6. DOMAIN a = DOMAIN g /\ (\A i \in DOMAIN g : a[i] = Letter(g[i]) /\ a[i].packet = g[i].packet)
        /\ a = [i \in DOMAIN g |-> a[i]]
    BY DEF Arrivals, Letter
  <2> HIDE DEF a
  <2>7. \A i \in DOMAIN g : g[i] \in Truly(ss) /\ g[i].left = 0 /\ g[i].to = q
    <3>1. \A x \in T : x \in Truly(ss) /\ x.left = 0 /\ x.to = q
      BY DEF T, For
    <3>2. \A i \in DOMAIN g : g[i] \in T
      BY <2>5
    <3> QED
      BY <3>1, <3>2
  <2>8. \A i \in DOMAIN g : a[i] \in Come(q, ss)
    BY <1>4, <2>6, <2>7
  <2>9. a \in Seq(Come(q, ss))
    <3>1. DOMAIN g = 1 .. Len(g) /\ Len(g) \in Nat
      BY <2>5
    <3>2. a \in [1 .. Len(g) -> Come(q, ss)]
      BY <2>6, <2>8, <3>1
    <3> QED
      BY <3>1, <3>2, OfLength
  <2>10. \A n : \A i \in DOMAIN a : a[i] \in BoxedOf(n) <=> g[i] \in FlyingOf(n)
    <3>1. \A i \in DOMAIN g : a[i] \in Boxed /\ g[i] \in Flying /\ a[i].packet = g[i].packet
      BY <2>6, <2>7, <2>8 DEF Come, Truly
    <3> QED
      BY <2>6, <3>1 DEF BoxedOf, FlyingOf
  <2>11. \A n : Hits(a, BoxedOf(n)) = Hits(g, FlyingOf(n))
    BY <2>6, <2>10, HitsSame
  <2>12. \A n : Hits(a, BoxedOf(n)) = Hits(ready, FlyingOf(n) \cap For(q))
    BY <2>4, <2>5, <2>11, Zenon
  <2> QED
    BY <2>9, <2>12 DEF a, g, f
\* What stays with p.
<1>12. ASSUME NEW p \in Members
       PROVE  /\ inFlight'[p] \in Seq(Flown(p, ss))
              /\ \A M : Hits(inFlight'[p], M) = Hits(now[p], M \cap (Flying \ Landed))
  <2> DEFINE f == now[p]  A == Flying \ Landed
  <2>1. f \in Seq(Flown(p, ss)) /\ \A i \in DOMAIN f : f[i] \in Flying
    BY <1>7 DEF Flown, Truly
  <2>2. NotReady(f) = {i \in DOMAIN f : f[i] \in A}
    BY <2>1 DEF NotReady, Ready
  <2>3. inFlight'[p] = Reverse(Picked(f, NotReady(f)))
    BY <1>2
  <2> HIDE DEF f, A
  <2>4. Picked(f, {i \in DOMAIN f : f[i] \in A}) \in Seq(Flown(p, ss) \cap A)
    BY <2>1, PickedOf
  <2>5. Picked(f, {i \in DOMAIN f : f[i] \in A}) \in Seq(Flown(p, ss))
    <3>1. Flown(p, ss) \cap A \in SUBSET Flown(p, ss)
      OBVIOUS
    <3> QED
      BY <2>4, <3>1, SeqWider
  <2>6. \A M : Hits(Picked(f, {i \in DOMAIN f : f[i] \in A}), M) = Hits(f, M \cap A)
    BY <2>1, HitsPicked, Zenon
  <2> DEFINE g == Picked(f, {i \in DOMAIN f : f[i] \in A})
  <2> HIDE DEF g
  <2>7. Reverse(g) \in Seq(Flown(p, ss)) /\ \A M : Hits(Reverse(g), M) = Hits(g, M)
    BY <2>5, HitsReverse DEF g
  <2>8. inFlight'[p] = Reverse(g)
    BY <2>2, <2>3 DEF g
  <2>9. \A M : Hits(g, M) = Hits(f, M \cap A)
    BY <2>6 DEF g
  <2>10. \A M : Hits(inFlight'[p], M) = Hits(f, M \cap A)
    BY <2>7, <2>8, <2>9, Zenon
  <2> QED
    BY <2>7, <2>8, <2>10 DEF f, A
<1>13. ASSUME NEW q \in Members
       PROVE  /\ inbox'[q] \in Seq(Come(q, ss))
              /\ \A n : Hits(inbox'[q], BoxedOf(n)) = Hits(inbox[q], BoxedOf(n)) + Hits(ready, FlyingOf(n) \cap For(q))
  <2> DEFINE a == Arrivals(Reverse(AddressedTo(ready, q)))
  <2>1. inbox'[q] = inbox[q] \o a
    BY <1>2
  <2>2. inbox[q] \in Seq(Come(q, ss))
    BY <1>1, <1>4, SeqWider
  <2>3. a \in Seq(Come(q, ss)) /\ \A n : Hits(a, BoxedOf(n)) = Hits(ready, FlyingOf(n) \cap For(q))
    BY <1>11
  <2> HIDE DEF a, For
  <2>4. inbox[q] \o a \in Seq(Come(q, ss))
    BY <2>2, <2>3, ConcatProperties
  <2>5. \A M : Hits(inbox[q] \o a, M) = Hits(inbox[q], M) + Hits(a, M)
    <3>1. a \in Seq(Come(q, ss))
      BY <2>3
    <3> QED
      BY <2>2, <3>1, HitsConcat
  <2>6. \A n : Hits(inbox'[q], BoxedOf(n)) = Hits(inbox[q], BoxedOf(n)) + Hits(ready, FlyingOf(n) \cap For(q))
    BY <2>1, <2>3, <2>5, Zenon
  <2> QED
    BY <2>1, <2>4, <2>6
<1>14. ASSUME NEW n \in DOMAIN ss
       PROVE  copies[n] = taken[n] + Hits(inFlight'[ss[n].from], FlyingOf(n)) + Hits(inbox'[ss[n].to], BoxedOf(n))
  <2> DEFINE p == ss[n].from  q == ss[n].to  F == FlyingOf(n)
  <2>1. p \in Members /\ q \in Members /\ p = routes[n].from /\ q = routes[n].to /\ n \in DOMAIN routes
    <3>1. ss[n] \in Routes
      BY <1>4
    <3> QED
      BY <1>4, <3>1 DEF Routes
  <2>2. copies[n] = taken[n] + Hits(inFlight[p], F) + Hits(inbox[q], BoxedOf(n))
    BY <2>1 DEF WorldInv
  <2>3. taken[n] \in Nat /\ Hits(inbox[q], BoxedOf(n)) \in Nat
    <3>1. taken[n] \in Nat
      BY <1>1, <2>1
    <3>2. inbox[q] \in Seq(Come(q, routes))
      BY <1>1, <2>1
    <3> HIDE DEF q
    <3> QED
      BY <3>1, <3>2, HitsNat
  <2>4. \A x \in Truly(ss) : x \in F => x \in For(q)
    BY DEF Truly, FlyingOf
  <2>5. Hits(inFlight[p], F) = Hits(now[p], F)
    BY <1>5, <2>1
  <2> HIDE DEF p, q, F
  <2>6. Hits(now[p], F) = Hits(now[p], F \cap Landed) + Hits(now[p], F \ Landed)
    <3>1. now[p] \in Seq(Flown(p, ss))
      BY <1>7, <2>1
    <3> HIDE DEF Landed
    <3>2. \A M, A : Hits(now[p], M) = Hits(now[p], M \cap A) + Hits(now[p], M \ A)
      BY <3>1, HitsSplit, Zenon
    <3> QED
      BY <3>2, Zenon
  <2>7. Hits(inFlight'[p], F) = Hits(now[p], F \ Landed)
    <3>1. F \cap (Flying \ Landed) = F \ Landed
      BY DEF F, FlyingOf
    <3>2. Hits(inFlight'[p], F) = Hits(now[p], F \cap (Flying \ Landed))
      BY <1>12, <2>1
    <3> QED
      BY <3>1, <3>2, Zenon
  <2>8. Hits(inbox'[q], BoxedOf(n)) = Hits(inbox[q], BoxedOf(n)) + Hits(ready, F \cap For(q))
    BY <1>13, <2>1 DEF F
  <2>9. Hits(ready, F \cap For(q)) = Hits(ready, F)
    <3>1. \A i \in DOMAIN ready : ready[i] \in Truly(ss)
      BY <1>10
    <3>2. \A i \in DOMAIN ready : ready[i] \in F \cap For(q) <=> ready[i] \in F
      BY <2>4, <3>1
    <3> HIDE DEF For
    <3> QED
      BY <3>2, HitsSame
  <2>10. Hits(ready, F) = Hits(now[p], F \cap Landed)
    <3>1. Hits(ready, F) = Hits(air, F \cap Landed)
      BY <1>10
    <3>2. F \cap Landed \in SUBSET FlyingOf(n)
      BY DEF F
    <3> HIDE DEF Landed
    <3>3. Hits(air, F \cap Landed) = Hits(now[ss[n].from], F \cap Landed)
      BY <1>8, <3>2
    <3> QED
      BY <3>1, <3>3 DEF p
  <2>11. Hits(now[p], F \cap Landed) \in Nat /\ Hits(now[p], F \ Landed) \in Nat
    <3>1. now[p] \in Seq(Flown(p, ss))
      BY <1>7, <2>1
    <3> HIDE DEF Landed
    <3> QED
      BY <3>1, HitsNat
  <2>12. copies[n] = taken[n] + Hits(inFlight'[p], F) + Hits(inbox'[q], BoxedOf(n))
    <3> HIDE DEF Landed, For
    <3> QED
      BY <2>2, <2>3, <2>5, <2>6, <2>7, <2>8, <2>9, <2>10, <2>11
  <2> QED
    BY <2>12 DEF p, q, F
<1>15. DOMAIN inFlight' = Members /\ DOMAIN inbox' = Members
  BY <1>2
<1>16. WorldTypeOK'
  BY <1>2, <1>4 DEF WorldInv, WorldTypeOK
<1> QED
  BY <1>1, <1>2, <1>4, <1>12, <1>13, <1>14, <1>15, <1>16 DEF WorldInv

LEMMA WorldStep == WorldInv /\ [WorldNext]_worldVars => WorldInv'
<1> SUFFICES ASSUME WorldInv, [WorldNext]_worldVars PROVE WorldInv'
  OBVIOUS
<1>1. CASE UNCHANGED worldVars
  BY <1>1 DEF worldVars, WorldInv, WorldTypeOK
<1>2. ASSUME NEW p \in Members, NetClose(p) PROVE WorldInv'
  BY <1>2 DEF NetClose, WorldInv, WorldTypeOK, Members
<1> QED
  BY <1>1, <1>2, SentKept, TakenKept, AdvanceKept DEF WorldNext

\* In the test world every copy that is put in flight is in flight, in an inbox or was taken,
\* and none is anywhere that was not sent; it comes to the peer it was sent to, as from the
\* one that sent it and not before the latency has passed; for every number of peers and of
\* packets, and every latency (netSend, netRecv, worldAdvanceTime, deliverPackets).
THEOREM WorldDeliversAsSent == WorldSpec => [](WorldTypeOK /\ DeliveredAsSent)
<1>1. WorldSpec => []WorldInv
  BY WorldStarts, WorldStep, PTL DEF WorldSpec
<1> QED
  BY <1>1, WorldImplies, PTL

-----------------------------------------------------------------------------
(* The assembler's books. *)

\* A fragment that splitMessage made.
FromSplit(f) == f.id \in SentMessages /\ f \in Split(f.id, MessageSize(f.id))

\* A buffer whose size is the size of what is in it.
Booked(b) ==
    /\ b.totalSize \in Nat /\ b.age \in 0 .. FragmentTimeout
    /\ IsFiniteSet(DOMAIN b.fragments)
    /\ b.fragments \in [DOMAIN b.fragments -> 1 .. MaxFragPayload]
    /\ b.totalSize = SumFunction(b.fragments)

\* Where a fragment that arrived is: in a buffer, unless its message was handed on or
\* a buffer of it was given up.
Found(f) ==
    \/ f.id \in dropped
    \/ \E m \in assembled : m.id = f.id
    \/ f.id \in DOMAIN buffers /\ f.idx \in DOMAIN buffers[f.id].fragments

\* The inductive invariant of the books: the sizes and counts of MemoryAccounted, that no
\* buffer is kept that is complete, and that no fragment is lost sight of.
SentInv  == Len(messages) <= MaxFragmented
            /\ \A f \in DOMAIN link : FromSplit(f) /\ link[f] \in 1 .. Copies
BookInv ==
    /\ IsFiniteSet(DOMAIN buffers)
    /\ \A k \in DOMAIN buffers : Booked(buffers[k]) /\ ~Complete(buffers[k])
    /\ currentSize = TotalSize(buffers, DOMAIN buffers) /\ currentSize <= MaxBufferSize
    /\ stats \in [opened : Nat, completed : Nat, timedOut : Nat]
    /\ stats.opened = stats.completed + stats.timedOut + Cardinality(DOMAIN buffers)
SightInv == dropped \subseteq SentMessages /\ \A f \in received : FromSplit(f) /\ Found(f)

AccountInv == AssemblerInv /\ SentInv /\ BookInv /\ SightInv

\* The buffers of an assembler, as far as evicting looks at them.
Sized(bufs) ==
    /\ IsFiniteSet(DOMAIN bufs) /\ DOMAIN bufs \in SUBSET Nat
    /\ \A k \in DOMAIN bufs : bufs[k].totalSize \in Nat /\ bufs[k].age \in 0 .. FragmentTimeout

BufferSizes(bufs) == [k \in DOMAIN bufs |-> bufs[k].totalSize]

LEMMA TotalIsSum == \A bufs, S : TotalSize(bufs, S) = SumFunctionOnSet(BufferSizes(bufs), S)
BY DEF TotalSize, BufferSizes

LEMMA TotalSplits ==
    ASSUME NEW bufs, Sized(bufs), NEW S \in SUBSET DOMAIN bufs
    PROVE  /\ IsFiniteSet(S) /\ TotalSize(bufs, S) \in Nat
           /\ \A R \in SUBSET S : /\ TotalSize(bufs, S) = TotalSize(bufs, R) + TotalSize(bufs, S \ R)
                                  /\ TotalSize(bufs, R) <= TotalSize(bufs, S)
                                  /\ TotalSize(bufs, R) \in Nat
<1> DEFINE s == BufferSizes(bufs)
<1>1. IsFiniteSet(S)
  BY FS_Subset DEF Sized
<1>2. \A x \in S : s[x] \in Nat /\ s[x] \in Int
  BY DEF Sized, BufferSizes
<1> HIDE DEF s
<1>3. SumFunctionOnSet(s, S) \in Nat
  BY <1>1, <1>2, SumType
<1>4. ASSUME NEW R \in SUBSET S
      PROVE  /\ SumFunctionOnSet(s, S) = SumFunctionOnSet(s, R) + SumFunctionOnSet(s, S \ R)
             /\ SumFunctionOnSet(s, R) <= SumFunctionOnSet(s, S) /\ SumFunctionOnSet(s, R) \in Nat
  <2>1. IsFiniteSet(R) /\ \A x \in R : s[x] \in Nat
    BY <1>1, <1>2, FS_Subset
  <2> QED
    BY <1>1, <1>2, <2>1, SumSplit, SumGrows, SumType
<1> QED
  BY <1>1, <1>3, <1>4, TotalIsSum DEF s

LEMMA TotalSame ==
    ASSUME NEW bufs, Sized(bufs), NEW cufs, NEW S \in SUBSET DOMAIN bufs, S \in SUBSET DOMAIN cufs,
           \A k \in S : cufs[k].totalSize = bufs[k].totalSize
    PROVE  TotalSize(cufs, S) = TotalSize(bufs, S)
<1>1. IsFiniteSet(S)
  BY TotalSplits
<1>2. \A k \in S : BufferSizes(bufs)[k] \in Int /\ BufferSizes(cufs)[k] = BufferSizes(bufs)[k]
  BY DEF Sized, BufferSizes
<1> QED
  BY <1>1, <1>2, SumAgrees, TotalIsSum

\* One more summand, or another one in its place.
LEMMA SumPut ==
    ASSUME NEW g, IsFiniteSet(DOMAIN g), \A x \in DOMAIN g : g[x] \in Nat, NEW k, NEW v \in Nat
    PROVE  /\ IsFiniteSet(DOMAIN g \cup {k})
           /\ SumFunctionOnSet(Put(g, k, v), DOMAIN g \cup {k}) = v + SumFunctionOnSet(g, DOMAIN g \ {k})
<1> DEFINE D == DOMAIN g \cup {k}  h == Put(g, k, v)
<1>1. IsFiniteSet(D) /\ IsFiniteSet(DOMAIN g \ {k})
  BY FS_AddElement, FS_Subset
<1>2. DOMAIN h = D /\ h[k] = v /\ (\A x \in DOMAIN g \ {k} : h[x] = g[x]) /\ D \ {k} = DOMAIN g \ {k}
  BY DEF Put
<1> HIDE DEF h, D
<1>3. \A x \in D : h[x] \in Int
  BY <1>2 DEF D
<1>4. k \in D
  BY DEF D
<1>5. SumFunctionOnSet(h, D) = h[k] + SumFunctionOnSet(h, D \ {k})
  BY <1>1, <1>3, <1>4, SumTakes
<1>6. SumFunctionOnSet(g, DOMAIN g \ {k}) = SumFunctionOnSet(h, DOMAIN g \ {k})
  <2> DEFINE E == DOMAIN g \ {k}
  <2>1. IsFiniteSet(E) /\ \A x \in E : g[x] \in Int /\ h[x] = g[x]
    BY <1>1, <1>2
  <2> HIDE DEF E
  <2>2. SumFunctionOnSet(g, E) = SumFunctionOnSet(h, E)
    BY <2>1, SumAgrees
  <2> QED
    BY <2>2 DEF E
<1> QED
  BY <1>1, <1>2, <1>5, <1>6 DEF h, D

LEMMA TotalPut ==
    ASSUME NEW bufs, Sized(bufs), NEW k \in Nat, NEW b, b.totalSize \in Nat, b.age \in 0 .. FragmentTimeout
    PROVE  /\ Sized(Put(bufs, k, b)) /\ DOMAIN Put(bufs, k, b) = DOMAIN bufs \cup {k}
           /\ TotalSize(Put(bufs, k, b), DOMAIN Put(bufs, k, b))
                 = b.totalSize + TotalSize(bufs, DOMAIN bufs \ {k})
<1> DEFINE g == BufferSizes(bufs)  D == DOMAIN bufs \cup {k}
<1>1. DOMAIN Put(bufs, k, b) = D /\ Put(bufs, k, b)[k] = b /\ \A x \in DOMAIN bufs \ {k} : Put(bufs, k, b)[x] = bufs[x]
  BY DEF Put
<1>2. DOMAIN g = DOMAIN bufs /\ IsFiniteSet(DOMAIN g) /\ \A x \in DOMAIN g : g[x] \in Nat
  BY DEF Sized, BufferSizes
<1>3. BufferSizes(Put(bufs, k, b)) = Put(g, k, b.totalSize)
  BY DEF BufferSizes, Put
<1>4. IsFiniteSet(D)
  BY <1>2, FS_AddElement
<1>5. Sized(Put(bufs, k, b))
  <2>1. \A x \in D : Put(bufs, k, b)[x].totalSize \in Nat /\ Put(bufs, k, b)[x].age \in 0 .. FragmentTimeout
    BY <1>1 DEF Sized
  <2> QED
    BY <1>1, <1>4, <2>1 DEF Sized
<1> HIDE DEF g
<1>6. SumFunctionOnSet(Put(g, k, b.totalSize), DOMAIN g \cup {k}) = b.totalSize + SumFunctionOnSet(g, DOMAIN g \ {k})
  BY <1>2, SumPut
<1> QED
  BY <1>1, <1>2, <1>3, <1>5, <1>6, TotalIsSum DEF g

-----------------------------------------------------------------------------
(* What evictIfNeeded leaves fits. *)

LEMMA OlderOrder ==
    ASSUME NEW bufs, Sized(bufs)
    PROVE  /\ \A k, l, m \in DOMAIN bufs : Older(bufs, k, l) /\ Older(bufs, l, m) => Older(bufs, k, m)
           /\ \A k, l \in DOMAIN bufs : k = l \/ Older(bufs, k, l) \/ Older(bufs, l, k)
           /\ \A k \in DOMAIN bufs : ~Older(bufs, k, k)
<1>1. \A k \in DOMAIN bufs : k \in Nat /\ bufs[k].age \in Nat
  BY FragmentAssumption DEF Sized
<1>2. \A a, b, c, k, l, m \in Nat :
         /\ (a > b \/ (a = b /\ k < l)) /\ (b > c \/ (b = c /\ l < m)) => a > c \/ (a = c /\ k < m)
         /\ k = l \/ (a > b \/ (a = b /\ k < l)) \/ (b > a \/ (b = a /\ l < k))
         /\ ~ (a > a \/ (a = a /\ k < k))
  OBVIOUS
<1> QED
  BY <1>1, <1>2 DEF Older

LEMMA OldestExists ==
    ASSUME NEW bufs, Sized(bufs), NEW S \in SUBSET DOMAIN bufs, S # {}
    PROVE  \E k \in S : \A l \in S : ~Older(bufs, l, k)
<1> DEFINE A == {FragmentTimeout - bufs[k].age : k \in S}
<1>1. \A k \in S : k \in Nat /\ bufs[k].age \in Nat /\ FragmentTimeout - bufs[k].age \in Nat
  <2>1. FragmentTimeout \in Nat
    BY FragmentAssumption
  <2> QED
    BY <2>1 DEF Sized
<1>2. A \in SUBSET Nat /\ A # {}
  BY <1>1
<1> HIDE DEF A
<1>3. PICK a \in A : \A b \in A : a <= b
  BY <1>2, Least
<1> DEFINE K == {k \in S : FragmentTimeout - bufs[k].age = a}
<1>4. K \in SUBSET Nat /\ K # {}
  <2>1. K # {}
    BY <1>3 DEF A
  <2> QED
    BY <1>1, <2>1
<1>5. PICK k \in K : \A l \in K : k <= l
  <2> HIDE DEF K
  <2> QED
    BY <1>4, Least
<1>6. ASSUME NEW l \in S, Older(bufs, l, k) PROVE FALSE
  <2>1. k \in S /\ FragmentTimeout - bufs[k].age = a /\ a <= FragmentTimeout - bufs[l].age
    BY <1>3, <1>5 DEF A
  <2>2. bufs[l].age \in Nat /\ bufs[k].age \in Nat /\ k \in Nat /\ l \in Nat /\ FragmentTimeout \in Nat
    BY <1>1, <2>1, FragmentAssumption
  <2>3. bufs[l].age <= bufs[k].age
    BY <2>1, <2>2
  <2>4. bufs[l].age = bufs[k].age /\ l < k
    BY <1>6, <2>2, <2>3 DEF Older
  <2>5. l \in K
    BY <2>1, <2>4
  <2> QED
    BY <1>5, <2>2, <2>4, <2>5
<1> QED
  BY <1>5, <1>6

LEMMA EvictionFits ==
    ASSUME NEW bufs, Sized(bufs), NEW size, size = TotalSize(bufs, DOMAIN bufs)
    PROVE  /\ Evicted(bufs, size) \in SUBSET DOMAIN bufs
           /\ size - TotalSize(bufs, Evicted(bufs, size)) <= MaxBufferSize
<1> DEFINE E == Evicted(bufs, size)  L == DOMAIN bufs \ E
<1>1. E \in SUBSET DOMAIN bufs
  BY DEF Evicted
<1>2. \A k \in DOMAIN bufs : Before(bufs, k) \in SUBSET DOMAIN bufs
  BY DEF Before
<1>3. size \in Nat /\ MaxBufferSize \in Nat /\ \A k \in DOMAIN bufs : TotalSize(bufs, Before(bufs, k)) \in Nat
  BY <1>2, TotalSplits, FragmentAssumption
<1>4. CASE L = {}
  <2>1. E = DOMAIN bufs
    BY <1>1, <1>4
  <2> HIDE DEF E
  <2> QED
    BY <1>1, <1>3, <2>1 DEF E
<1>5. CASE L # {}
  <2> HIDE DEF E
  <2>1. PICK k \in L : \A l \in L : ~Older(bufs, l, k)
    BY <1>5, OldestExists
  <2>2. k \in DOMAIN bufs /\ k \notin E
    BY <2>1
  <2>3. Before(bufs, k) \subseteq E
    BY <2>1, <2>2 DEF Before
  <2>4. ASSUME NEW e \in E PROVE e \in Before(bufs, k)
    <3>1. e \in DOMAIN bufs /\ size - TotalSize(bufs, Before(bufs, e)) > MaxBufferSize
      BY DEF E, Evicted
    <3>2. e # k
      BY <2>2
    <3>3. ASSUME Older(bufs, k, e) PROVE FALSE
      <4>1. Before(bufs, k) \in SUBSET Before(bufs, e)
        BY <2>2, <3>1, <3>3, OlderOrder DEF Before
      <4>2. TotalSize(bufs, Before(bufs, k)) <= TotalSize(bufs, Before(bufs, e))
        BY <1>2, <3>1, <4>1, TotalSplits
      <4>3. TotalSize(bufs, Before(bufs, k)) \in Nat /\ TotalSize(bufs, Before(bufs, e)) \in Nat
        BY <1>3, <2>2, <3>1
      <4>4. size - TotalSize(bufs, Before(bufs, k)) > MaxBufferSize
        BY <1>3, <3>1, <4>2, <4>3
      <4> QED
        BY <2>2, <4>4 DEF E, Evicted
    <3>4. Older(bufs, e, k)
      BY <2>2, <3>1, <3>2, <3>3, OlderOrder
    <3> QED
      BY <3>1, <3>4 DEF Before
  <2>5. Before(bufs, k) = E
    BY <2>3, <2>4
  <2>6. ~(size - TotalSize(bufs, Before(bufs, k)) > MaxBufferSize)
    BY <2>2 DEF E, Evicted
  <2>7. size - TotalSize(bufs, Before(bufs, k)) <= MaxBufferSize
    BY <1>3, <2>2, <2>6
  <2> QED
    BY <1>1, <2>5, <2>7 DEF E
<1> QED
  BY <1>4, <1>5

-----------------------------------------------------------------------------
(* One fragment. *)

LEMMA SliceLens ==
    ASSUME NEW size \in Nat \ {0}, NEW i \in 0 .. (FragCount(size) - 1)
    PROVE  SliceLen(size, i) \in 1 .. MaxFragPayload
<1> DEFINE M == MaxFragPayload  c == FragCount(size)
<1>1. M \in Nat \ {0} /\ c \in Nat \ {0} /\ size \in Nat \ {0}
  BY FragmentAssumption, FragCountNat
<1>2. c * M <= size + M - 1 /\ c * M \in Nat
  <2>1. \A a \in Nat, m \in Nat \ {0} : (a \div m) * m <= a /\ (a \div m) * m \in Nat
    BY Z3
  <2>2. size + M - 1 \in Nat
    BY <1>1
  <2> QED
    BY <1>1, <2>1, <2>2 DEF FragCount
<1> HIDE DEF c, M
<1>3. i \in Nat /\ i <= c - 1
  BY <1>1 DEF c
<1>4. i * M \in Nat /\ i * M <= c * M - M
  <2>1. \A x, y, m \in Nat : x <= y => x * m <= y * m /\ x * m \in Nat
    BY Z3
  <2>2. \A y, m \in Nat : (y - 1) * m = y * m - m
    BY Z3
  <2>3. c - 1 \in Nat /\ M \in Nat
    BY <1>1
  <2>4. i * M \in Nat /\ i * M <= (c - 1) * M
    BY <1>3, <2>1, <2>3
  <2>5. (c - 1) * M = c * M - M
    BY <1>1, <2>2
  <2> QED
    BY <2>4, <2>5
<1>5. size - i * M \in Nat \ {0}
  <2> DEFINE p == i * M  q == c * M
  <2>1. p \in Nat /\ q \in Nat /\ p <= q - M /\ q <= size + M - 1
    BY <1>2, <1>4
  <2> HIDE DEF p, q
  <2>2. size - p \in Nat \ {0}
    BY <1>1, <2>1
  <2> QED
    BY <2>2 DEF p
<1> DEFINE r == size - i * M
<1>6. SliceLen(size, i) = IF r < M THEN r ELSE M
  BY DEF SliceLen, M
<1> HIDE DEF r
<1>7. r \in Nat \ {0}
  BY <1>5 DEF r
<1>8. SliceLen(size, i) \in 1 .. M
  BY <1>1, <1>6, <1>7
<1> QED
  BY <1>8 DEF M

LEMMA SplitIsGenuine ==
    ASSUME messages \in Seq(MessageSizes), NEW f, FromSplit(f)
    PROVE  /\ Genuine(f) /\ f.id \in Nat /\ f.idx \in Nat /\ f.len \in 1 .. MaxFragPayload
           /\ FragCount(MessageSize(f.id)) \in Nat \ {0}
<1>1. f.id \in SentMessages /\ f \in Split(f.id, MessageSize(f.id))
  BY DEF FromSplit
<1> DEFINE k == f.id  size == MessageSize(f.id)
<1>2. size \in Nat \ {0} /\ k \in Nat
  BY <1>1, SizeNat DEF SentMessages
<1>3. FragCount(size) \in Nat \ {0}
  BY <1>2, FragCountNat
<1> HIDE DEF size
<1>4. PICK i \in 0 .. (FragCount(size) - 1) :
         f = [id |-> k, idx |-> i, cnt |-> FragCount(size), len |-> SliceLen(size, i)]
  BY <1>1 DEF Split, size
<1>5. f.idx = i /\ f.cnt = FragCount(size) /\ f.len = SliceLen(size, i)
  BY <1>4
<1>6. i \in Nat /\ SliceLen(size, i) \in 1 .. MaxFragPayload
  BY <1>2, <1>3, SliceLens
<1>7. Genuine(f)
  BY <1>1, <1>5 DEF Genuine, size
<1> QED
  BY <1>2, <1>3, <1>5, <1>6, <1>7 DEF size

LEMMA BufferBooked ==
    ASSUME AccountInv, NEW f, FromSplit(f), ~Ignored(f)
    PROVE  /\ Booked(Buffer(f)) /\ f.idx \in DOMAIN Buffer(f).fragments
           /\ f.id \in DOMAIN buffers =>
                 /\ Buffer(f).totalSize = buffers[f.id].totalSize + f.len
                 /\ DOMAIN buffers[f.id].fragments \in SUBSET DOMAIN Buffer(f).fragments
           /\ f.id \notin DOMAIN buffers => Buffer(f).totalSize = f.len
<1>1. f.id \in Nat /\ f.idx \in Nat /\ f.len \in 1 .. MaxFragPayload /\ MaxFragPayload \in Nat /\ f.len \in Nat
  BY SplitIsGenuine, FragmentAssumption DEF AccountInv, AssemblerInv
<1>2. CASE f.id \in DOMAIN buffers
  <2> DEFINE b == buffers[f.id]  g == b.fragments  h == Put(g, f.idx, f.len)
  <2>1. Booked(b)
    BY <1>2 DEF AccountInv, BookInv
  <2>2. Buffer(f) = [fragments |-> h, count |-> b.count, age |-> b.age, totalSize |-> b.totalSize + f.len]
    BY <1>2 DEF Buffer
  <2>3. f.idx \notin DOMAIN g
    BY <1>2 DEF Ignored
  <2>4. /\ b.totalSize \in Nat /\ b.age \in 0 .. FragmentTimeout /\ IsFiniteSet(DOMAIN g)
        /\ (\A x \in DOMAIN g : g[x] \in 1 .. MaxFragPayload) /\ b.totalSize = SumFunctionOnSet(g, DOMAIN g)
    BY <2>1 DEF Booked, SumFunction
  <2> HIDE DEF g
  <2>5. DOMAIN h = DOMAIN g \cup {f.idx} /\ h[f.idx] = f.len /\ (\A x \in DOMAIN g : h[x] = g[x])
        /\ h = [x \in DOMAIN h |-> h[x]]
    BY <2>3 DEF Put
  <2>6. IsFiniteSet(DOMAIN h) /\ SumFunctionOnSet(h, DOMAIN h) = f.len + SumFunctionOnSet(g, DOMAIN g)
    <3>1. \A x \in DOMAIN g : g[x] \in Nat
      BY <2>4
    <3>2. DOMAIN g \ {f.idx} = DOMAIN g
      BY <2>3
    <3> HIDE DEF h
    <3>3. IsFiniteSet(DOMAIN g \cup {f.idx})
          /\ SumFunctionOnSet(Put(g, f.idx, f.len), DOMAIN g \cup {f.idx}) = f.len + SumFunctionOnSet(g, DOMAIN g \ {f.idx})
      BY <1>1, <2>4, <3>1, SumPut
    <3> QED
      BY <2>5, <3>2, <3>3 DEF h
  <2> HIDE DEF h
  <2>7. h \in [DOMAIN h -> 1 .. MaxFragPayload]
    BY <1>1, <2>4, <2>5
  <2> HIDE DEF b
  <2>8. Buffer(f).fragments = h /\ Buffer(f).totalSize = b.totalSize + f.len /\ Buffer(f).age = b.age
    BY <2>2
  <2>9. Buffer(f).totalSize \in Nat /\ Buffer(f).totalSize = SumFunctionOnSet(h, DOMAIN h)
    BY <1>1, <2>4, <2>6, <2>8
  <2>10. Booked(Buffer(f))
    BY <2>4, <2>6, <2>7, <2>8, <2>9 DEF Booked, SumFunction
  <2> QED
    BY <1>2, <2>5, <2>8, <2>10 DEF b, g
<1>3. CASE f.id \notin DOMAIN buffers
  <2> DEFINE h == [i \in {f.idx} |-> f.len]
  <2>1. Buffer(f) = [fragments |-> h, count |-> f.cnt, age |-> 0, totalSize |-> f.len]
    BY <1>3 DEF Buffer, NewBuffer
  <2>2. DOMAIN h = {f.idx} /\ h[f.idx] = f.len /\ h \in [DOMAIN h -> 1 .. MaxFragPayload] /\ IsFiniteSet(DOMAIN h)
    BY <1>1, FS_Singleton
  <2> HIDE DEF h
  <2>3. SumFunctionOnSet(h, DOMAIN h) = f.len
    <3>1. SumFunctionOnSet(h, {f.idx}) = h[f.idx] + SumFunctionOnSet(h, {f.idx} \ {f.idx})
      BY <1>1, <2>2, SumTakes
    <3>2. {f.idx} \ {f.idx} = {}
      OBVIOUS
    <3> QED
      BY <1>1, <2>2, <3>1, <3>2, SumEmpty
  <2>4. Buffer(f).fragments = h /\ Buffer(f).totalSize = f.len /\ Buffer(f).age = 0
    BY <2>1
  <2>5. 0 \in 0 .. FragmentTimeout
    BY FragmentAssumption
  <2>6. Booked(Buffer(f))
    BY <1>1, <2>2, <2>3, <2>4, <2>5 DEF Booked, SumFunction
  <2> QED
    BY <1>3, <2>2, <2>4, <2>6
<1> QED
  BY <1>2, <1>3

LEMMA SizedBuffers ==
    ASSUME AccountInv
    PROVE  Sized(buffers) /\ DOMAIN buffers \in SUBSET SentMessages
<1>1. \A k \in DOMAIN buffers : k \in SentMessages /\ k \in Nat
  BY DEF AccountInv, AssemblerInv, SentMessages
<1>2. \A k \in DOMAIN buffers : buffers[k].totalSize \in Nat /\ buffers[k].age \in 0 .. FragmentTimeout
  BY DEF AccountInv, BookInv, Booked
<1> QED
  BY <1>1, <1>2 DEF Sized, AccountInv, BookInv

\* What is left of a set, in number.
LEMMA CountLeft ==
    ASSUME NEW D, IsFiniteSet(D), NEW S \in SUBSET D
    PROVE  /\ Cardinality(D \ S) = Cardinality(D) - Cardinality(S) /\ IsFiniteSet(D \ S)
           /\ Cardinality(S) \in Nat /\ Cardinality(D) \in Nat /\ Cardinality(D \ S) \in Nat
<1>1. IsFiniteSet(S) /\ IsFiniteSet(D \ S)
  BY FS_Subset
<1>2. D = S \cup (D \ S) /\ S \cap (D \ S) = {}
  OBVIOUS
<1> DEFINE R == D \ S
<1> HIDE DEF R
<1>3. Cardinality(S \cup R) = Cardinality(S) + Cardinality(R) - Cardinality(S \cap R)
  BY <1>1, FS_Union DEF R
<1>4. Cardinality(S \cap R) = 0
  BY <1>2, FS_EmptySet DEF R
<1>5. Cardinality(S) \in Nat /\ Cardinality(D) \in Nat /\ Cardinality(R) \in Nat
  BY <1>1, FS_CardinalityType DEF R
<1>6. D = S \cup R
  BY <1>2 DEF R
<1>7. Cardinality(D) = Cardinality(S) + Cardinality(R)
  <2>1. Cardinality(S \cup R) = Cardinality(S) + Cardinality(R)
    BY <1>3, <1>4, <1>5
  <2> QED
    BY <1>6, <2>1
<1>8. Cardinality(R) = Cardinality(D) - Cardinality(S) /\ IsFiniteSet(R)
  BY <1>1, <1>5, <1>7 DEF R
<1> QED
  BY <1>1, <1>5, <1>8 DEF R

LEMMA InsertBooks ==
    ASSUME AccountInv, NEW f, FromSplit(f), ~Ignored(f), Insert(f)
    PROVE  /\ BookInv'
           /\ dropped' \in SUBSET SentMessages /\ dropped \in SUBSET dropped'
           /\ \A k \in DOMAIN buffers \cup {f.id} :
                 \/ k \in dropped'
                 \/ \E m \in assembled' : m.id = k
                 \/ /\ k \in DOMAIN buffers'
                    /\ k \in DOMAIN buffers => DOMAIN buffers[k].fragments \in SUBSET DOMAIN buffers'[k].fragments
                    /\ k = f.id => f.idx \in DOMAIN buffers'[k].fragments
<1> DEFINE grown   == Put(buffers, f.id, Buffer(f))
           size    == currentSize + f.len
           evicted == Evicted(grown, size)
           kept    == Without(grown, evicted)
           done    == {k \in DOMAIN kept : k = f.id /\ Complete(kept[k])}
           D == DOMAIN grown  L == D \ evicted  R == L \ done
           T(S) == TotalSize(grown, S)
<1>1. /\ buffers' = Without(kept, done)
      /\ currentSize' = size - TotalSize(grown, evicted) - TotalSize(kept, done)
      /\ stats' = [opened    |-> stats.opened + (IF f.id \in DOMAIN buffers THEN 0 ELSE 1),
                   completed |-> stats.completed + Cardinality(done),
                   timedOut  |-> stats.timedOut + Cardinality(evicted)]
      /\ assembled' = assembled \cup {[id |-> k, data |-> kept[k].fragments] : k \in done}
      /\ dropped' = dropped \cup evicted
  BY DEF Insert
<1>2. Sized(buffers) /\ DOMAIN buffers \in SUBSET SentMessages /\ f.id \in SentMessages
      /\ f.id \in Nat /\ f.len \in Nat /\ f.len \in 1 .. MaxFragPayload /\ MaxFragPayload \in Nat
  BY SizedBuffers, SplitIsGenuine, FragmentAssumption DEF AccountInv, AssemblerInv, FromSplit
<1>3. /\ Booked(Buffer(f)) /\ f.idx \in DOMAIN Buffer(f).fragments
      /\ f.id \in DOMAIN buffers =>
            /\ Buffer(f).totalSize = buffers[f.id].totalSize + f.len
            /\ DOMAIN buffers[f.id].fragments \in SUBSET DOMAIN Buffer(f).fragments
      /\ f.id \notin DOMAIN buffers => Buffer(f).totalSize = f.len
  BY BufferBooked
<1>4. Buffer(f).totalSize \in Nat /\ Buffer(f).age \in 0 .. FragmentTimeout
  BY <1>3 DEF Booked
<1>5. /\ Sized(grown) /\ D = DOMAIN buffers \cup {f.id}
      /\ T(D) = Buffer(f).totalSize + TotalSize(buffers, DOMAIN buffers \ {f.id})
  BY <1>2, <1>4, TotalPut
<1>6. /\ grown[f.id] = Buffer(f) /\ \A k \in D : k # f.id => k \in DOMAIN buffers /\ grown[k] = buffers[k]
  BY DEF Put
<1>7. currentSize = TotalSize(buffers, DOMAIN buffers) /\ stats \in [opened : Nat, completed : Nat, timedOut : Nat]
      /\ stats.opened = stats.completed + stats.timedOut + Cardinality(DOMAIN buffers)
      /\ IsFiniteSet(DOMAIN buffers)
      /\ \A k \in DOMAIN buffers : Booked(buffers[k]) /\ ~Complete(buffers[k])
  BY DEF AccountInv, BookInv
<1> HIDE DEF grown
<1>8. T(D) = size /\ size \in Nat
  <2>1. /\ TotalSize(buffers, DOMAIN buffers) \in Nat
        /\ \A S \in SUBSET DOMAIN buffers :
              /\ TotalSize(buffers, DOMAIN buffers) = TotalSize(buffers, S) + TotalSize(buffers, DOMAIN buffers \ S)
              /\ TotalSize(buffers, S) \in Nat
    BY <1>2, TotalSplits
  <2>2. CASE f.id \in DOMAIN buffers
    <3>1. {f.id} \in SUBSET DOMAIN buffers
      BY <2>2
    <3>2. TotalSize(buffers, {f.id}) = buffers[f.id].totalSize
      <4>1. BufferSizes(buffers)[f.id] = buffers[f.id].totalSize /\ buffers[f.id].totalSize \in Nat
        BY <1>2, <2>2 DEF BufferSizes, Sized
      <4>2. {f.id} \ {f.id} = {} /\ IsFiniteSet({f.id})
        BY FS_Singleton
      <4>3. SumFunctionOnSet(BufferSizes(buffers), {f.id}) = BufferSizes(buffers)[f.id] + SumFunctionOnSet(BufferSizes(buffers), {f.id} \ {f.id})
        BY <4>1, <4>2, SumTakes
      <4> DEFINE z == BufferSizes(buffers)
      <4> HIDE DEF z
      <4>4. SumFunctionOnSet(z, {f.id} \ {f.id}) = 0
        BY <4>2, SumEmpty
      <4>5. SumFunctionOnSet(z, {f.id}) = buffers[f.id].totalSize
        BY <4>1, <4>3, <4>4 DEF z
      <4> QED
        BY <4>5, TotalIsSum, Zenon DEF z
    <3>3. DOMAIN buffers \ {f.id} \in SUBSET DOMAIN buffers
      OBVIOUS
    <3>4. TotalSize(buffers, DOMAIN buffers \ {f.id}) \in Nat /\ TotalSize(buffers, {f.id}) \in Nat
          /\ TotalSize(buffers, DOMAIN buffers) = TotalSize(buffers, {f.id}) + TotalSize(buffers, DOMAIN buffers \ {f.id})
      BY <2>1, <3>1, <3>3
    <3>5. T(D) = (buffers[f.id].totalSize + f.len) + TotalSize(buffers, DOMAIN buffers \ {f.id})
      BY <1>3, <1>5, <2>2
    <3> QED
      BY <1>2, <1>7, <2>1, <3>2, <3>4, <3>5
  <2>3. CASE f.id \notin DOMAIN buffers
    <3>1. DOMAIN buffers \ {f.id} = DOMAIN buffers
      BY <2>3
    <3>2. T(D) = f.len + TotalSize(buffers, DOMAIN buffers)
      BY <1>3, <1>5, <2>3, <3>1
    <3> QED
      BY <1>2, <1>7, <2>1, <3>2
  <2> QED
    BY <2>2, <2>3
<1> HIDE DEF size
<1>9. evicted \in SUBSET D /\ size - T(evicted) <= MaxBufferSize
  BY <1>5, <1>8, EvictionFits
<1> HIDE DEF evicted
<1>10. DOMAIN kept = L /\ \A k \in L : kept[k] = grown[k]
  BY DEF Without
<1> HIDE DEF kept
<1>11. done \in SUBSET L /\ (\A k \in done : k = f.id) /\ (\A k \in done : Complete(grown[k]))
       /\ \A k \in R : k = f.id => ~Complete(grown[k])
  BY <1>10
<1> HIDE DEF done
<1>12. TotalSize(kept, done) = T(done)
  <2>1. done \in SUBSET D /\ done \in SUBSET DOMAIN kept /\ \A k \in done : kept[k].totalSize = grown[k].totalSize
    BY <1>10, <1>11
  <2> QED
    BY <1>5, <2>1, TotalSame
<1>13. DOMAIN buffers' = R /\ \A k \in R : buffers'[k] = grown[k]
  BY <1>1, <1>10 DEF Without
<1>14. R \in SUBSET D /\ L \in SUBSET D /\ R \in SUBSET L /\ D \in SUBSET D
  OBVIOUS
<1>15. TotalSize(buffers', R) = T(R)
  <2>1. R \in SUBSET DOMAIN buffers' /\ \A k \in R : buffers'[k].totalSize = grown[k].totalSize
    BY <1>13
  <2> HIDE DEF R
  <2> QED
    BY <1>5, <1>14, <2>1, TotalSame
<1> HIDE DEF D
<1>16. T(D) = T(evicted) + T(L) /\ T(evicted) \in Nat /\ T(L) = T(done) + T(R) /\ T(done) \in Nat /\ T(R) \in Nat
  <2>1. \A S \in SUBSET D : T(D) = T(S) + T(D \ S) /\ T(S) \in Nat
    BY <1>5, <1>14, TotalSplits DEF D
  <2>2. \A S \in SUBSET L : T(L) = T(S) + T(L \ S) /\ T(S) \in Nat
    <3> HIDE DEF L
    <3> QED
      BY <1>5, <1>14, TotalSplits DEF D
  <2> QED
    BY <1>9, <1>11, <1>14, <2>1, <2>2
<1>17. currentSize' = T(R) /\ currentSize' <= MaxBufferSize
  <2>1. currentSize' = size - T(evicted) - T(done)
    BY <1>1, <1>12
  <2>2. MaxBufferSize \in Nat
    BY FragmentAssumption
  <2> DEFINE a == T(evicted)  b == T(done)  c == T(R)  l == T(L)
  <2>3. a \in Nat /\ b \in Nat /\ c \in Nat /\ size = a + l /\ l = b + c /\ size - a <= MaxBufferSize
        /\ currentSize' = size - a - b
    BY <1>8, <1>9, <1>16, <2>1
  <2> HIDE DEF a, b, c, l
  <2>4. currentSize' = c /\ currentSize' <= MaxBufferSize
    BY <2>2, <2>3
  <2> QED
    BY <2>4 DEF c
<1>18. /\ IsFiniteSet(D)
       /\ Cardinality(D) = Cardinality(DOMAIN buffers) + (IF f.id \in DOMAIN buffers THEN 0 ELSE 1)
  <2>1. IsFiniteSet(D)
    BY <1>5 DEF Sized, D
  <2> QED
    BY <1>5, <1>7, <2>1, FS_AddElement, FS_CardinalityType DEF D
<1>19. /\ IsFiniteSet(R) /\ Cardinality(R) = Cardinality(D) - Cardinality(evicted) - Cardinality(done)
       /\ Cardinality(evicted) \in Nat /\ Cardinality(done) \in Nat /\ Cardinality(R) \in Nat
       /\ Cardinality(DOMAIN buffers) \in Nat
  <2>1. Cardinality(L) = Cardinality(D) - Cardinality(evicted) /\ IsFiniteSet(L)
        /\ Cardinality(evicted) \in Nat /\ Cardinality(D) \in Nat
    BY <1>9, <1>18, CountLeft DEF D
  <2> HIDE DEF L
  <2>2. Cardinality(R) = Cardinality(L) - Cardinality(done) /\ IsFiniteSet(R) /\ Cardinality(done) \in Nat
        /\ Cardinality(R) \in Nat
    BY <1>11, <2>1, CountLeft
  <2>3. Cardinality(DOMAIN buffers) \in Nat
    BY <1>7, FS_CardinalityType
  <2> HIDE DEF R
  <2> QED
    BY <2>1, <2>2, <2>3
<1>20. /\ stats' \in [opened : Nat, completed : Nat, timedOut : Nat]
       /\ stats'.opened = stats'.completed + stats'.timedOut + Cardinality(R)
  <2>1. stats.opened \in Nat /\ stats.completed \in Nat /\ stats.timedOut \in Nat
    BY <1>7
  <2> DEFINE one == IF f.id \in DOMAIN buffers THEN 0 ELSE 1  e == Cardinality(evicted)  d == Cardinality(done)
             n == Cardinality(DOMAIN buffers)  r == Cardinality(R)
  <2>2. one \in Nat /\ e \in Nat /\ d \in Nat /\ n \in Nat /\ r \in Nat /\ r = ((n + one) - e) - d
    BY <1>18, <1>19
  <2>3. stats' = [opened |-> stats.opened + one, completed |-> stats.completed + d, timedOut |-> stats.timedOut + e]
    BY <1>1
  <2>4. stats.opened = stats.completed + stats.timedOut + n
    BY <1>7
  <2> HIDE DEF one, e, d, n, r
  <2>5. stats' \in [opened : Nat, completed : Nat, timedOut : Nat]
        /\ stats'.opened = stats'.completed + stats'.timedOut + r
    BY <2>1, <2>2, <2>3, <2>4
  <2> QED
    BY <2>5 DEF r
<1>21. \A k \in R : Booked(buffers'[k]) /\ ~Complete(buffers'[k])
  <2> SUFFICES ASSUME NEW k \in R PROVE Booked(grown[k]) /\ ~Complete(grown[k])
    BY <1>13
  <2>1. k \in D
    BY <1>14
  <2>2. CASE k = f.id
    BY <1>3, <1>6, <1>11, <2>2
  <2>3. CASE k # f.id
    BY <1>6, <1>7, <2>1, <2>3 DEF D
  <2> QED
    BY <2>2, <2>3
<1>22. BookInv'
  <2>1. DOMAIN buffers' = R
    BY <1>13
  <2> HIDE DEF R
  <2>2. currentSize' = TotalSize(buffers', DOMAIN buffers')
    BY <1>15, <1>17, <2>1
  <2>3. Cardinality(DOMAIN buffers') = Cardinality(R) /\ IsFiniteSet(DOMAIN buffers')
    BY <1>19, <2>1
  <2> QED
    BY <1>17, <1>20, <1>21, <2>1, <2>2, <2>3 DEF BookInv
<1>23. dropped' \in SUBSET SentMessages /\ dropped \in SUBSET dropped'
  <2>1. D \in SUBSET SentMessages
    BY <1>2, <1>5 DEF D
  <2>2. dropped \in SUBSET SentMessages
    BY DEF AccountInv, SightInv
  <2> QED
    BY <1>1, <1>9, <2>1, <2>2 DEF D
<1>24. ASSUME NEW k \in DOMAIN buffers \cup {f.id}
       PROVE  \/ k \in dropped'
              \/ \E m \in assembled' : m.id = k
              \/ /\ k \in DOMAIN buffers'
                 /\ k \in DOMAIN buffers => DOMAIN buffers[k].fragments \in SUBSET DOMAIN buffers'[k].fragments
                 /\ k = f.id => f.idx \in DOMAIN buffers'[k].fragments
  <2>1. k \in D
    BY <1>5 DEF D
  <2>2. CASE k \in evicted
    BY <1>1, <2>2
  <2>3. CASE k \in done
    <3>1. [id |-> k, data |-> kept[k].fragments] \in assembled'
      BY <1>1, <2>3
    <3>2. [id |-> k, data |-> kept[k].fragments].id = k
      OBVIOUS
    <3> QED
      BY <3>1, <3>2, Zenon
  <2>4. CASE k \notin evicted /\ k \notin done
    <3>1. k \in R
      BY <2>1, <2>4
    <3>2. k \in DOMAIN buffers' /\ buffers'[k] = grown[k]
      BY <1>13, <3>1
    <3>3. k # f.id => grown[k] = buffers[k]
      BY <1>6, <2>1 DEF D
    <3> QED
      BY <1>3, <1>6, <3>2, <3>3
  <2> QED
    BY <2>2, <2>3, <2>4
<1> QED
  BY <1>22, <1>23, <1>24

-----------------------------------------------------------------------------
(* Each step keeps the books. *)

LEMMA AccountsStart == FragmentInit => AccountInv
<1> SUFFICES ASSUME FragmentInit PROVE AccountInv
  OBVIOUS
<1>1. AssemblerInv
  BY AssemblerInit
<1>2. /\ messages = <<>> /\ DOMAIN link = {} /\ DOMAIN buffers = {} /\ currentSize = 0
      /\ stats = [opened |-> 0, completed |-> 0, timedOut |-> 0] /\ received = {} /\ dropped = {}
  BY DEF FragmentInit, NoBuffers
<1>3. SentInv
  BY <1>2, FragmentAssumption DEF SentInv
<1>4. SightInv
  BY <1>2 DEF SightInv
<1>5. TotalSize(buffers, DOMAIN buffers) = 0
  <2> DEFINE z == BufferSizes(buffers)
  <2> HIDE DEF z
  <2>1. SumFunctionOnSet(z, {}) = 0
    BY SumEmpty
  <2> QED
    BY <1>2, <2>1, TotalIsSum, Zenon DEF z
<1>6. BookInv
  BY <1>2, <1>5, FS_EmptySet, FragmentAssumption DEF BookInv
<1> QED
  BY <1>1, <1>3, <1>4, <1>6 DEF AccountInv

\* A message's fragments stay its fragments when another one is sent.
LEMMA SplitStays ==
    ASSUME messages \in Seq(MessageSizes), NEW size \in MessageSizes, messages' = Append(messages, size)
    PROVE  /\ SentMessages \in SUBSET SentMessages' /\ Len(messages) \in SentMessages'
           /\ messages'[Len(messages) + 1] = size
           /\ \A f : FromSplit(f) => FromSplit(f)'
<1>1. /\ Len(messages) \in Nat /\ Len(messages') = Len(messages) + 1 /\ messages'[Len(messages) + 1] = size
      /\ \A i \in 1 .. Len(messages) : messages'[i] = messages[i]
  OBVIOUS
<1>2. SentMessages \in SUBSET SentMessages' /\ Len(messages) \in SentMessages'
  BY <1>1 DEF SentMessages
<1>3. ASSUME NEW f, FromSplit(f) PROVE FromSplit(f)'
  <2>1. f.id \in SentMessages /\ f \in Split(f.id, MessageSize(f.id))
    BY <1>3 DEF FromSplit
  <2>2. messages'[f.id + 1] = messages[f.id + 1]
    BY <1>1, <2>1 DEF SentMessages
  <2>3. f.id \in SentMessages'
    BY <1>2, <2>1
  <2>4. f \in Split(f.id, messages'[f.id + 1])
    BY <2>1, <2>2 DEF MessageSize
  <2> QED
    BY <2>3, <2>4 DEF FromSplit, MessageSize
<1> QED
  BY <1>1, <1>2, <1>3

LEMMA SendBooks ==
    ASSUME AccountInv, NEW size \in MessageSizes, SendFragmented(size)
    PROVE  SentInv' /\ BookInv' /\ SightInv'
<1> DEFINE n == Len(messages)
<1>1. /\ n < MaxFragmented /\ messages' = Append(messages, size)
      /\ link' = [f \in DOMAIN link \cup Split(n, size) |-> IF f \in DOMAIN link THEN link[f] ELSE Copies]
      /\ buffers' = buffers /\ currentSize' = currentSize /\ stats' = stats
      /\ assembled' = assembled /\ received' = received /\ dropped' = dropped
  BY DEF SendFragmented
<1>2. messages \in Seq(MessageSizes)
  BY DEF AccountInv, AssemblerInv
<1>3. /\ SentMessages \in SUBSET SentMessages' /\ n \in SentMessages' /\ messages'[n + 1] = size
      /\ \A f : FromSplit(f) => FromSplit(f)'
  BY <1>1, <1>2, SplitStays
<1>4. SentInv'
  <2>1. Len(messages') <= MaxFragmented
    BY <1>1, <1>2, FragmentAssumption
  <2>2. ASSUME NEW f \in DOMAIN link' PROVE FromSplit(f)' /\ link'[f] \in 1 .. Copies
    <3>1. CASE f \in DOMAIN link
      BY <1>1, <1>3, <3>1 DEF AccountInv, SentInv
    <3>2. CASE f \notin DOMAIN link
      <4>1. f \in Split(n, size) /\ link'[f] = Copies
        BY <1>1, <3>2
      <4>2. f.id = n
        BY <4>1 DEF Split
      <4>3. FromSplit(f)'
        BY <1>3, <4>1, <4>2 DEF FromSplit, MessageSize
      <4> QED
        BY <4>1, <4>3, FragmentAssumption
    <3> QED
      BY <3>1, <3>2
  <2> QED
    BY <2>1, <2>2 DEF SentInv
<1>5. BookInv'
  BY <1>1 DEF AccountInv, BookInv, TotalSize, Booked, Complete
<1>6. SightInv'
  <2>1. dropped' \in SUBSET SentMessages'
    BY <1>1, <1>3 DEF AccountInv, SightInv
  <2>2. ASSUME NEW f \in received' PROVE FromSplit(f)' /\ Found(f)'
    BY <1>1, <1>3, <2>2 DEF AccountInv, SightInv, Found
  <2> QED
    BY <2>1, <2>2 DEF SightInv
<1> QED
  BY <1>4, <1>5, <1>6

LEMMA ReceiveBooks ==
    ASSUME AccountInv, NEW f \in DOMAIN link, ReceiveFragment(f)
    PROVE  SentInv' /\ BookInv' /\ SightInv'
<1>1. /\ messages' = messages /\ received' = received \cup {f}
      /\ link' = IF link[f] = 1 THEN Without(link, {f}) ELSE [link EXCEPT ![f] = @ - 1]
  BY DEF ReceiveFragment
<1>2. FromSplit(f) /\ (\A g \in DOMAIN link : FromSplit(g) /\ link[g] \in 1 .. Copies) /\ Len(messages) <= MaxFragmented
  BY DEF AccountInv, SentInv
<1>3. \A g : FromSplit(g)' = FromSplit(g)
  BY <1>1 DEF FromSplit, SentMessages, MessageSize
<1>4. SentInv'
  <2>1. ASSUME NEW g \in DOMAIN link' PROVE g \in DOMAIN link /\ link'[g] \in 1 .. Copies
    BY <1>1, <1>2, <2>1, FragmentAssumption DEF Without
  <2> QED
    BY <1>1, <1>2, <1>3, <2>1 DEF SentInv
<1>5. CASE Ignored(f) /\ UNCHANGED <<buffers, currentSize, stats, assembled, dropped>>
  <2>1. Found(f)
    <3>1. f.id \in DOMAIN buffers /\ (buffers[f.id].count # f.cnt \/ f.idx \in DOMAIN buffers[f.id].fragments)
      BY <1>5 DEF Ignored
    <3>2. Genuine(f)
      BY <1>2, SplitIsGenuine DEF AccountInv, AssemblerInv
    <3>3. Holds(f.id, buffers[f.id])
      BY <3>1 DEF AccountInv, AssemblerInv
    <3>4. buffers[f.id].count = f.cnt
      <4> DEFINE b == buffers[f.id]  g == [i \in DOMAIN b.fragments |-> SliceLen(MessageSize(f.id), i)]
      <4>1. b = [fragments |-> g, count |-> FragCount(MessageSize(f.id)), age |-> b.age, totalSize |-> b.totalSize]
        BY <3>3 DEF Holds
      <4> HIDE DEF g
      <4>2. b.count = FragCount(MessageSize(f.id))
        BY <4>1
      <4> QED
        BY <3>2, <4>2 DEF Genuine
    <3> QED
      BY <3>1, <3>4 DEF Found
  <2>2. BookInv'
    BY <1>5 DEF AccountInv, BookInv, TotalSize, Booked, Complete
  <2>3. SightInv'
    <3>1. dropped' \in SUBSET SentMessages'
      BY <1>1, <1>5 DEF AccountInv, SightInv, SentMessages
    <3>2. ASSUME NEW g \in received' PROVE FromSplit(g)' /\ Found(g)'
      <4>1. FromSplit(g) /\ Found(g)
        BY <1>1, <1>2, <2>1, <3>2 DEF AccountInv, SightInv
      <4> QED
        BY <1>3, <1>5, <4>1 DEF Found
    <3> QED
      BY <3>1, <3>2 DEF SightInv
  <2> QED
    BY <1>4, <2>2, <2>3
<1>6. CASE ~Ignored(f) /\ Insert(f)
  <2>1. /\ BookInv' /\ dropped' \in SUBSET SentMessages /\ dropped \in SUBSET dropped'
        /\ \A k \in DOMAIN buffers \cup {f.id} :
              \/ k \in dropped'
              \/ \E m \in assembled' : m.id = k
              \/ /\ k \in DOMAIN buffers'
                 /\ k \in DOMAIN buffers => DOMAIN buffers[k].fragments \in SUBSET DOMAIN buffers'[k].fragments
                 /\ k = f.id => f.idx \in DOMAIN buffers'[k].fragments
    BY <1>2, <1>6, InsertBooks
  <2>2. assembled \in SUBSET assembled'
    BY <1>6 DEF Insert
  <2>3. SightInv'
    <3>1. dropped' \in SUBSET SentMessages'
      BY <1>1, <2>1 DEF SentMessages
    <3>2. ASSUME NEW g \in received' PROVE FromSplit(g)' /\ Found(g)'
      <4>1. CASE g = f
        BY <1>2, <1>3, <2>1, <4>1 DEF Found
      <4>2. CASE g \in received
        <5>1. FromSplit(g) /\ Found(g)
          BY <4>2 DEF AccountInv, SightInv
        <5>2. CASE g.id \in dropped \/ \E m \in assembled : m.id = g.id
          BY <1>3, <2>1, <2>2, <5>1, <5>2 DEF Found
        <5>3. CASE g.id \in DOMAIN buffers /\ g.idx \in DOMAIN buffers[g.id].fragments
          BY <1>3, <2>1, <5>1, <5>3 DEF Found
        <5> QED
          BY <5>1, <5>2, <5>3 DEF Found
      <4> QED
        BY <1>1, <3>2, <4>1, <4>2
    <3> QED
      BY <3>1, <3>2 DEF SightInv
  <2> QED
    BY <1>4, <2>1, <2>3
<1> QED
  BY <1>5, <1>6 DEF ReceiveFragment

LEMMA AgeBooks ==
    ASSUME AccountInv, AssemblerUpdate
    PROVE  SentInv' /\ BookInv' /\ SightInv'
<1> DEFINE D == DOMAIN buffers  old == {k \in DOMAIN Aged : Expired(Aged[k])}  R == D \ old
<1>1. /\ buffers' = Without(Aged, old) /\ currentSize' = currentSize - TotalSize(Aged, old)
      /\ stats' = [stats EXCEPT !.timedOut = @ + Cardinality(old)] /\ dropped' = dropped \cup old
      /\ messages' = messages /\ link' = link /\ assembled' = assembled /\ received' = received
  BY DEF AssemblerUpdate
<1>2. Sized(buffers) /\ DOMAIN buffers \in SUBSET SentMessages
  BY SizedBuffers
<1>3. DOMAIN Aged = D /\ \A k \in D : /\ Aged[k].totalSize = buffers[k].totalSize
                                      /\ Aged[k].fragments = buffers[k].fragments
                                      /\ Aged[k].count = buffers[k].count
                                      /\ Aged[k].age \in 0 .. FragmentTimeout
  <2>1. DOMAIN Aged = D
    BY DEF Aged
  <2>2. ASSUME NEW k \in D
        PROVE  /\ Aged[k].totalSize = buffers[k].totalSize /\ Aged[k].fragments = buffers[k].fragments
               /\ Aged[k].count = buffers[k].count /\ Aged[k].age \in 0 .. FragmentTimeout
    <3> DEFINE b == buffers[k]  g == [i \in DOMAIN b.fragments |-> SliceLen(MessageSize(k), i)]
               c == FragCount(MessageSize(k))  a == IF b.age < FragmentTimeout THEN b.age + 1 ELSE b.age
    <3>1. b = [fragments |-> g, count |-> c, age |-> b.age, totalSize |-> b.totalSize]
      BY DEF AccountInv, AssemblerInv, Holds
    <3>2. Aged[k] = [b EXCEPT !.age = a]
      BY DEF Aged
    <3>3. b.age \in 0 .. FragmentTimeout
      BY <1>2 DEF Sized
    <3>4. a \in 0 .. FragmentTimeout
      BY <3>3, FragmentAssumption
    <3> HIDE DEF b, g, c, a
    <3>5. /\ Aged[k].totalSize = b.totalSize /\ Aged[k].fragments = b.fragments
          /\ Aged[k].count = b.count /\ Aged[k].age = a
      BY <3>1, <3>2
    <3> QED
      BY <3>4, <3>5 DEF b
  <2> QED
    BY <2>1, <2>2
<1>4. old \in SUBSET D /\ R \in SUBSET D /\ D \in SUBSET D
  BY <1>3
<1>5. DOMAIN buffers' = R /\ \A k \in R : buffers'[k] = Aged[k]
  BY <1>1, <1>3 DEF Without
<1>6. /\ currentSize = TotalSize(buffers, D) /\ currentSize <= MaxBufferSize /\ IsFiniteSet(D)
      /\ stats \in [opened : Nat, completed : Nat, timedOut : Nat]
      /\ stats.opened = stats.completed + stats.timedOut + Cardinality(D)
      /\ \A k \in D : Booked(buffers[k]) /\ ~Complete(buffers[k])
  BY DEF AccountInv, BookInv
<1> HIDE DEF old
<1>7. TotalSize(Aged, old) = TotalSize(buffers, old)
  <2>1. old \in SUBSET DOMAIN buffers /\ old \in SUBSET DOMAIN Aged
        /\ \A k \in old : Aged[k].totalSize = buffers[k].totalSize
    BY <1>3, <1>4
  <2> QED
    BY <1>2, <2>1, TotalSame
<1>8. TotalSize(buffers', R) = TotalSize(buffers, R)
  <2>1. R \in SUBSET DOMAIN buffers /\ R \in SUBSET DOMAIN buffers'
        /\ \A k \in R : buffers'[k].totalSize = buffers[k].totalSize
    BY <1>3, <1>4, <1>5
  <2> HIDE DEF R
  <2> QED
    BY <1>2, <2>1, TotalSame
<1>9. currentSize' = TotalSize(buffers, R) /\ currentSize' <= MaxBufferSize
  <2> DEFINE a == TotalSize(buffers, old)  c == TotalSize(buffers, R)
  <2>1. /\ TotalSize(buffers, D) \in Nat
        /\ \A S \in SUBSET D : /\ TotalSize(buffers, D) = TotalSize(buffers, S) + TotalSize(buffers, D \ S)
                               /\ TotalSize(buffers, S) \in Nat
    BY <1>2, <1>4, TotalSplits
  <2>2. a \in Nat /\ c \in Nat /\ currentSize = a + c /\ currentSize' = currentSize - a
    BY <1>1, <1>4, <1>6, <1>7, <2>1
  <2>3. MaxBufferSize \in Nat
    BY FragmentAssumption
  <2> HIDE DEF a, c
  <2>4. currentSize' = c /\ currentSize' <= MaxBufferSize
    BY <1>6, <2>2, <2>3
  <2> QED
    BY <2>4 DEF c
<1>10. /\ Cardinality(R) = Cardinality(D) - Cardinality(old) /\ IsFiniteSet(R)
       /\ Cardinality(old) \in Nat /\ Cardinality(D) \in Nat
  <2> HIDE DEF D
  <2> QED
    BY <1>4, <1>6, CountLeft
<1>11. /\ stats' \in [opened : Nat, completed : Nat, timedOut : Nat]
       /\ stats'.opened = stats'.completed + stats'.timedOut + Cardinality(R)
  <2> DEFINE n == Cardinality(D)  e == Cardinality(old)  r == Cardinality(R)
  <2>1. n \in Nat /\ e \in Nat /\ r = n - e /\ stats.opened = stats.completed + stats.timedOut + n
        /\ stats' = [stats EXCEPT !.timedOut = @ + e]
    BY <1>1, <1>6, <1>10
  <2> HIDE DEF n, e, r
  <2>2. stats' \in [opened : Nat, completed : Nat, timedOut : Nat]
        /\ stats'.opened = stats'.completed + stats'.timedOut + r
    BY <1>6, <2>1
  <2> QED
    BY <2>2 DEF r
<1>12. \A k \in R : Booked(buffers'[k]) /\ ~Complete(buffers'[k])
  BY <1>3, <1>4, <1>5, <1>6 DEF Booked, Complete
<1>13. BookInv'
  <2> HIDE DEF R
  <2>1. currentSize' = TotalSize(buffers', DOMAIN buffers')
    BY <1>5, <1>8, <1>9
  <2>2. Cardinality(DOMAIN buffers') = Cardinality(R) /\ IsFiniteSet(DOMAIN buffers')
    BY <1>5, <1>10
  <2> QED
    BY <1>5, <1>9, <1>11, <1>12, <2>1, <2>2 DEF BookInv
<1>14. \A g : FromSplit(g)' = FromSplit(g)
  BY <1>1 DEF FromSplit, SentMessages, MessageSize
<1>15. SentInv'
  BY <1>1, <1>14 DEF AccountInv, SentInv
<1>16. SightInv'
  <2>1. dropped' \in SUBSET SentMessages'
    BY <1>1, <1>2, <1>4 DEF AccountInv, SightInv, SentMessages
  <2>2. ASSUME NEW g \in received' PROVE FromSplit(g)' /\ Found(g)'
    <3>1. FromSplit(g) /\ Found(g)
      BY <1>1, <2>2 DEF AccountInv, SightInv
    <3>2. CASE g.id \in dropped \/ \E m \in assembled : m.id = g.id
      BY <1>1, <1>14, <3>1, <3>2 DEF Found
    <3>3. CASE g.id \in DOMAIN buffers /\ g.idx \in DOMAIN buffers[g.id].fragments
      <4>1. CASE g.id \in old
        BY <1>1, <1>14, <3>1, <4>1 DEF Found
      <4>2. CASE g.id \notin old
        <5>1. g.id \in R
          BY <3>3, <4>2
        <5> QED
          BY <1>3, <1>5, <1>14, <3>1, <3>3, <5>1 DEF Found
      <4> QED
        BY <4>1, <4>2
    <3> QED
      BY <3>1, <3>2, <3>3 DEF Found
  <2> QED
    BY <2>1, <2>2 DEF SightInv
<1> QED
  BY <1>13, <1>15, <1>16

LEMMA AccountsStep == AccountInv /\ [FragmentNext]_fragmentVars => AccountInv'
<1> SUFFICES ASSUME AccountInv, [FragmentNext]_fragmentVars PROVE AccountInv'
  OBVIOUS
<1>1. AssemblerInv'
  BY AssemblerStep DEF AccountInv
<1>2. CASE UNCHANGED fragmentVars
  <2>1. /\ messages' = messages /\ link' = link /\ buffers' = buffers /\ currentSize' = currentSize
        /\ stats' = stats /\ assembled' = assembled /\ received' = received /\ dropped' = dropped
    BY <1>2 DEF fragmentVars
  <2>2. \A g : FromSplit(g)' = FromSplit(g) /\ Found(g)' = Found(g)
    BY <2>1 DEF FromSplit, Found, SentMessages, MessageSize
  <2>3. SentInv' /\ SightInv'
    BY <2>1, <2>2 DEF AccountInv, SentInv, SightInv, SentMessages
  <2>4. BookInv'
    BY <2>1 DEF AccountInv, BookInv, TotalSize, Booked, Complete
  <2> QED
    BY <1>1, <2>3, <2>4 DEF AccountInv
<1>3. CASE \E size \in MessageSizes : SendFragmented(size)
  BY <1>1, <1>3, SendBooks DEF AccountInv
<1>4. CASE \E f \in DOMAIN link : ReceiveFragment(f)
  BY <1>1, <1>4, ReceiveBooks DEF AccountInv
<1>5. CASE AssemblerUpdate
  BY <1>1, <1>5, AgeBooks DEF AccountInv
<1> QED
  BY <1>2, <1>3, <1>4, <1>5 DEF FragmentNext

\* A buffer that holds every fragment of its message is complete, and would not be there.
LEMMA AccountsImply == AccountInv => AssemblerAccounts /\ FragmentTypeOK
<1> SUFFICES ASSUME AccountInv PROVE AssemblerAccounts /\ FragmentTypeOK
  OBVIOUS
<1>1. MemoryAccounted
  BY DEF AccountInv, BookInv, Booked, MemoryAccounted
<1>2. NoneOverlooked
  <2> SUFFICES ASSUME NEW n \in SentMessages, Split(n, MessageSize(n)) \subseteq received,
                      n \notin dropped, ~ \E m \in assembled : m.id = n
               PROVE  FALSE
    BY DEF NoneOverlooked
  <2> DEFINE size == MessageSize(n)  c == FragCount(size)
  <2>1. size \in Nat \ {0} /\ c \in Nat \ {0}
    BY SizeNat, FragCountNat DEF AccountInv, AssemblerInv
  <2>2. ASSUME NEW i \in 0 .. (c - 1) PROVE n \in DOMAIN buffers /\ i \in DOMAIN buffers[n].fragments
    <3> DEFINE f == [id |-> n, idx |-> i, cnt |-> c, len |-> SliceLen(size, i)]
    <3>1. f \in received
      BY DEF Split
    <3>2. f.id = n /\ f.idx = i
      OBVIOUS
    <3> HIDE DEF f
    <3>3. Found(f)
      BY <3>1 DEF AccountInv, SightInv
    <3> QED
      BY <3>2, <3>3 DEF Found
  <2>3. n \in DOMAIN buffers
    BY <2>1, <2>2
  <2>4. Holds(n, buffers[n]) /\ ~Complete(buffers[n])
    BY <2>3 DEF AccountInv, AssemblerInv, BookInv
  <2> DEFINE b == buffers[n]  g == [i \in DOMAIN b.fragments |-> SliceLen(MessageSize(n), i)]
  <2>5. DOMAIN b.fragments \subseteq 0 .. (c - 1) /\ b.count = c
    <3>1. DOMAIN b.fragments \subseteq 0 .. (c - 1)
          /\ b = [fragments |-> g, count |-> c, age |-> b.age, totalSize |-> b.totalSize]
      BY <2>4 DEF Holds
    <3> HIDE DEF g
    <3> QED
      BY <3>1
  <2>6. DOMAIN b.fragments = 0 .. (c - 1)
    BY <2>2, <2>5
  <2>7. Cardinality(0 .. (c - 1)) = c
    <3> HIDE DEF c
    <3>1. 0 \in Int /\ c - 1 \in Int
      BY <2>1
    <3> QED
      BY <2>1, <3>1, FS_Interval
  <2> QED
    BY <2>4, <2>5, <2>6, <2>7 DEF Complete
<1>3. FragmentTypeOK
  <2>1. messages \in Seq(MessageSizes) /\ Len(messages) <= MaxFragmented
    BY DEF AccountInv, AssemblerInv, SentInv
  <2>2. \A f \in DOMAIN link : f.id \in SentMessages /\ link[f] \in 1 .. Copies
    BY DEF AccountInv, SentInv, FromSplit
  <2>3. DOMAIN buffers \subseteq SentMessages /\ dropped \subseteq SentMessages
    BY SizedBuffers DEF AccountInv, SightInv
  <2>4. \A k \in DOMAIN buffers :
           /\ buffers[k].age \in 0 .. FragmentTimeout
           /\ buffers[k].fragments \in [DOMAIN buffers[k].fragments -> 1 .. MaxFragPayload]
    BY DEF AccountInv, BookInv, Booked
  <2>5. received \subseteq UNION {Split(n, MessageSize(n)) : n \in SentMessages}
    <3> SUFFICES ASSUME NEW f \in received PROVE \E n \in SentMessages : f \in Split(n, MessageSize(n))
      OBVIOUS
    <3> QED
      BY DEF AccountInv, SightInv, FromSplit
  <2> QED
    BY <2>1, <2>2, <2>3, <2>4, <2>5 DEF FragmentTypeOK
<1> QED
  BY <1>1, <1>2, <1>3 DEF AssemblerAccounts

\* The books of the assembler are in order (AssemblerAccounts): the cached size is the size of
\* the buffers and within its bound whatever is evicted, completed or timed out, every buffer
\* opened is accounted for, and a message all of whose fragments arrived was handed on or
\* counted as given up; and its state is well formed.
THEOREM AccountsKept == FragmentSpec => [](AssemblerAccounts /\ FragmentTypeOK)
<1>1. FragmentInit => AccountInv
  BY AccountsStart
<1>2. AccountInv /\ [FragmentNext]_fragmentVars => AccountInv'
  BY AccountsStep
<1>3. AccountInv => AssemblerAccounts /\ FragmentTypeOK
  BY AccountsImply
<1> QED
  BY <1>1, <1>2, <1>3, PTL DEF FragmentSpec

-----------------------------------------------------------------------------
(* Deltas: what is decoded is what was sent. *)

\* The snapshots that were decoded, to whatever.
Had == {m \in 0 .. (snapshots - 1) : \E d \in decoded : d[1] = m}

\* What the receiver may store: anything under a number of the wire.
Slots == [seq : 0 .. NoBaseline, snapshot : Int, age : Nat]

Baselines == [seq : Nat, snapshot : Nat, age : Nat]

\* InStore baselines when n snapshots were sent and those of H have arrived.  They grow older
\* towards the front, and whatever arrived too late to have arrived before one of them is
\* stored behind it: since the oldest go first, a baseline never outlives one that came after.
InStore(bs, H, n) ==
    /\ bs \in Seq(Baselines)
    /\ \A i \in DOMAIN bs : bs[i].snapshot \in 0 .. (n - 1) /\ bs[i].seq = BaselineSeq(bs[i].snapshot)
    /\ \A i, j \in DOMAIN bs : i < j => bs[j].age <= bs[i].age
    /\ \A i \in DOMAIN bs, m \in H :
          m >= bs[i].snapshot + MaxLag => \E j \in DOMAIN bs : i < j /\ bs[j].snapshot = m

\* The snapshots the tracker waits for are the last ones sent.
Awaited(p, n) ==
    /\ p \in Seq(Nat) /\ Len(p) <= MaxPending /\ Len(p) <= n
    /\ \A i \in DOMAIN p : p[i] = n - Len(p) + i - 1

\* A delta leads from a snapshot that had arrived when it was made.
Made(d, H, n) ==
    /\ d.to \in 0 .. (n - 1)
    /\ \/ d.from = None /\ d.base = NoBaseline
       \/ d.from \in H /\ d.from < d.to /\ d.to - d.from <= MaxSpan /\ d.base = BaselineSeq(d.from)

DeltaInv ==
    /\ snapshots \in 0 .. MaxSnapshots
    /\ tracker \in [pending : Seq(Nat), confirmed : {None} \cup Had] /\ Awaited(tracker.pending, snapshots)
    /\ \A d \in deltas : Made(d, Had, snapshots)
    /\ acks \in SUBSET Had
    /\ \A d \in decoded : d[1] \in 0 .. (snapshots - 1)
    /\ baselines \in Seq(Slots) /\ Len(baselines) <= MaxBaselines
    /\ \A i \in DOMAIN baselines : baselines[i].age < BaselineTimeout
    /\ Mistaken = {} => (\A d \in decoded : d[2] = d[1]) /\ InStore(baselines, Had, snapshots)

\* A delta that was mistaken for a full state stays so.
LEMMA MistakenStays ==
    ASSUME deltas \in SUBSET deltas', decoded \in SUBSET decoded', Mistaken' = {}
    PROVE  Mistaken = {}
BY DEF Mistaken

LEMMA NumbersIs == Numbers \in Nat \ {0} /\ \A n \in Int : BaselineSeq(n) \in 0 .. NoBaseline
<1>1. Numbers \in Nat \ {0} /\ Numbers = NoBaseline + 1 /\ NoBaseline \in Nat
  BY DeltaAssumption DEF Numbers
<1>2. \A n \in Int, k \in Nat \ {0} : n % k \in 0 .. (k - 1)
  BY Z3
<1>3. \A n \in Int : n % Numbers \in 0 .. (Numbers - 1)
  BY <1>1, <1>2
<1> QED
  BY <1>1, <1>3 DEF BaselineSeq

\* What is left of the store, and what is added to it, whatever it holds.
LEMMA SlotsKept ==
    ASSUME NEW bs \in Seq(Slots)
    PROVE  /\ NotExpired(bs) \in Seq(Slots) /\ Len(NotExpired(bs)) <= Len(bs)
           /\ \A i \in DOMAIN NotExpired(bs) : NotExpired(bs)[i].age < BaselineTimeout
<1> DEFINE S == {i \in DOMAIN bs : bs[i].age < BaselineTimeout}
           p == Picked(bs, S)  k == Cardinality(S)  a == Ascending(S)
<1>1. S \in SUBSET DOMAIN bs /\ S \in SUBSET (1 .. Len(bs)) /\ Len(bs) \in Nat
  OBVIOUS
<1>2. NotExpired(bs) = p /\ \A i \in S : bs[i].age < BaselineTimeout
  BY DEF NotExpired
<1> HIDE DEF S
<1>3. /\ IsFiniteSet(S) /\ S \in SUBSET Int
      /\ p \in Seq(Slots) /\ Len(p) = k /\ DOMAIN p = 1 .. k /\ k \in Nat
      /\ \A i \in 1 .. k : a[i] \in S /\ p[i] = bs[a[i]]
  BY <1>1, PickedIs
<1>4. k <= Len(bs)
  BY <1>1, <1>3, OneTo, FS_Subset
<1> HIDE DEF p, k, a
<1>5. \A i \in 1 .. k : p[i].age < BaselineTimeout
  BY <1>2, <1>3
<1> QED
  BY <1>2, <1>3, <1>4, <1>5

LEMMA SlotsPushed ==
    ASSUME NEW bs \in Seq(Slots), Len(bs) <= MaxBaselines, NEW n \in Int, NEW got \in Int
    PROVE  LET cleaned == NotExpired(bs)
               trimmed == IF Len(cleaned) >= MaxBaselines THEN Tail(cleaned) ELSE cleaned
               pushed  == Append(trimmed, [seq |-> BaselineSeq(n), snapshot |-> got, age |-> 0])
           IN  /\ pushed \in Seq(Slots) /\ Len(pushed) <= MaxBaselines
               /\ \A i \in DOMAIN pushed : pushed[i].age < BaselineTimeout
<1> DEFINE cleaned == NotExpired(bs)
           trimmed == IF Len(cleaned) >= MaxBaselines THEN Tail(cleaned) ELSE cleaned
           e == [seq |-> BaselineSeq(n), snapshot |-> got, age |-> 0]
           pushed == Append(trimmed, e)
<1>1. cleaned \in Seq(Slots) /\ Len(cleaned) <= Len(bs) /\ \A i \in DOMAIN cleaned : cleaned[i].age < BaselineTimeout
  BY SlotsKept
<1> HIDE DEF cleaned
<1>2. MaxBaselines \in Nat \ {0} /\ BaselineTimeout \in Nat \ {0} /\ Len(bs) \in Nat /\ Len(cleaned) \in Nat
  BY <1>1, DeltaAssumption
<1>3. trimmed \in Seq(Slots) /\ Len(trimmed) + 1 <= MaxBaselines /\ \A i \in DOMAIN trimmed : trimmed[i].age < BaselineTimeout
  <2>1. CASE Len(cleaned) >= MaxBaselines
    <3>1. cleaned # <<>>
      BY <1>2, <2>1
    <3>2. /\ Tail(cleaned) \in Seq(Slots) /\ Len(Tail(cleaned)) = Len(cleaned) - 1
          /\ \A i \in DOMAIN Tail(cleaned) : i + 1 \in DOMAIN cleaned /\ Tail(cleaned)[i] = cleaned[i + 1]
      BY <1>1, <3>1
    <3> QED
      BY <1>1, <1>2, <2>1, <3>2
  <2>2. CASE ~(Len(cleaned) >= MaxBaselines)
    BY <1>1, <1>2, <2>2
  <2> QED
    BY <2>1, <2>2
<1> HIDE DEF trimmed
<1>4. e \in Slots /\ e.age = 0
  BY NumbersIs DEF Slots
<1> HIDE DEF e
<1>5. pushed \in Seq(Slots) /\ Len(pushed) = Len(trimmed) + 1
      /\ \A i \in DOMAIN pushed : (i \in DOMAIN trimmed /\ pushed[i] = trimmed[i]) \/ pushed[i] = e
  BY <1>3, <1>4
<1> HIDE DEF pushed
<1>6. \A i \in DOMAIN pushed : pushed[i].age < BaselineTimeout
  BY <1>2, <1>3, <1>4, <1>5
<1> QED
  BY <1>3, <1>5, <1>6 DEF cleaned, trimmed, e, pushed

LEMMA StoredPicked ==
    ASSUME NEW bs, NEW H, NEW n, InStore(bs, H, n)
    PROVE  /\ InStore(NotExpired(bs), H, n) /\ Len(NotExpired(bs)) <= Len(bs)
           /\ \A i \in DOMAIN NotExpired(bs) : NotExpired(bs)[i].age < BaselineTimeout
<1> DEFINE S == {i \in DOMAIN bs : bs[i].age < BaselineTimeout}
           p == Picked(bs, S)  k == Cardinality(S)  a == Ascending(S)
<1>1. bs \in Seq(Baselines) /\ S \in SUBSET DOMAIN bs /\ S \in SUBSET (1 .. Len(bs)) /\ Len(bs) \in Nat
  BY DEF InStore
<1>2. NotExpired(bs) = p
  BY DEF NotExpired
<1>3. \A i \in S : bs[i].age < BaselineTimeout
  OBVIOUS
<1>4. ASSUME NEW i \in S, NEW j \in DOMAIN bs, i < j PROVE j \in S
  <2>3. i \in DOMAIN bs /\ bs[i] \in Baselines /\ bs[j] \in Baselines
    BY <1>1
  <2>1. bs[i].age \in Nat /\ bs[j].age \in Nat
    BY <2>3 DEF Baselines
  <2>2. bs[j].age <= bs[i].age /\ bs[i].age < BaselineTimeout
    BY <1>4 DEF InStore
  <2> QED
    BY <2>1, <2>2, DeltaAssumption
<1> HIDE DEF S
<1>5. /\ IsFiniteSet(S) /\ S \in SUBSET Int
      /\ p \in Seq(Baselines) /\ Len(p) = k /\ DOMAIN p = 1 .. k /\ k \in Nat
      /\ \A i \in 1 .. k : a[i] \in S /\ p[i] = bs[a[i]]
      /\ \A s \in S : \E i \in 1 .. k : a[i] = s
  BY <1>1, PickedIs
<1>6. \A i, j \in 1 .. k : i < j => a[i] < a[j]
  BY <1>5, AscendingIs
<1>7. k <= Len(bs)
  BY <1>1, <1>5, OneTo, FS_Subset
<1> HIDE DEF p, k, a
<1>8. ASSUME NEW i \in 1 .. k, NEW j \in 1 .. k, a[i] < a[j] PROVE i < j
  <2>1. a[i] \in S /\ a[j] \in S
    BY <1>5
  <2>4. a[i] \in Int /\ a[j] \in Int /\ i \in Int /\ j \in Int
    <3>1. S \subseteq Int
      BY <1>5
    <3>2. a[i] \in Int /\ a[j] \in Int
      BY <2>1, <3>1, Zenon
    <3> QED
      BY <3>2
  <2>2. i = j => a[i] = a[j]
    OBVIOUS
  <2>3. j < i => a[j] < a[i]
    BY <1>6
  <2> QED
    BY <1>8, <2>4, <2>2, <2>3
<1>9. \A i \in 1 .. k : p[i].snapshot \in 0 .. (n - 1) /\ p[i].seq = BaselineSeq(p[i].snapshot)
  <2> SUFFICES ASSUME NEW i \in 1 .. k
               PROVE  p[i].snapshot \in 0 .. (n - 1) /\ p[i].seq = BaselineSeq(p[i].snapshot)
    OBVIOUS
  <2>1. a[i] \in S /\ p[i] = bs[a[i]]
    BY <1>5, Zenon
  <2>2. a[i] \in DOMAIN bs
    BY <1>1, <2>1, Zenon
  <2>3. bs[a[i]].snapshot \in 0 .. (n - 1) /\ bs[a[i]].seq = BaselineSeq(bs[a[i]].snapshot)
    BY <2>2, Zenon DEF InStore
  <2> QED
    BY <2>1, <2>3, Zenon
<1>10. \A i, j \in 1 .. k : i < j => p[j].age <= p[i].age
  BY <1>1, <1>5, <1>6, SMTT(30) DEF InStore
<1>11. ASSUME NEW i \in 1 .. k, NEW m \in H, m >= p[i].snapshot + MaxLag
       PROVE  \E j \in 1 .. k : i < j /\ p[j].snapshot = m
  <2>1. a[i] \in S /\ p[i] = bs[a[i]] /\ a[i] \in DOMAIN bs
    BY <1>1, <1>5
  <2>2. PICK j \in DOMAIN bs : a[i] < j /\ bs[j].snapshot = m
    BY <1>11, <2>1 DEF InStore
  <2>3. j \in S
    BY <1>4, <2>1, <2>2
  <2>4. PICK l \in 1 .. k : a[l] = j
    BY <1>5, <2>3
  <2> QED
    BY <1>5, <1>8, <2>2, <2>4
<1>12. InStore(p, H, n)
  <2>1. DOMAIN p = 1 .. k /\ p \in Seq(Baselines)
    BY <1>5
  <2>2. \A i \in DOMAIN p, m \in H :
           m >= p[i].snapshot + MaxLag => \E j \in DOMAIN p : i < j /\ p[j].snapshot = m
    BY <1>11, <2>1
  <2>3. \A i, j \in DOMAIN p : i < j => p[j].age <= p[i].age
    BY <1>10, <2>1
  <2>4. \A i \in DOMAIN p : p[i].snapshot \in 0 .. (n - 1) /\ p[i].seq = BaselineSeq(p[i].snapshot)
    BY <1>9, <2>1
  <2> QED
    BY <2>1, <2>2, <2>3, <2>4 DEF InStore
<1> QED
  BY <1>2, <1>3, <1>5, <1>7, <1>12

LEMMA StoredTail ==
    ASSUME NEW bs, NEW H, NEW n, InStore(bs, H, n), bs # <<>>
    PROVE  /\ InStore(Tail(bs), H, n) /\ Len(Tail(bs)) = Len(bs) - 1
           /\ \A i \in DOMAIN Tail(bs) : i + 1 \in DOMAIN bs /\ Tail(bs)[i] = bs[i + 1]
<1> DEFINE t == Tail(bs)
<1>1. bs \in Seq(Baselines) /\ Len(bs) \in Nat /\ DOMAIN bs = 1 .. Len(bs) /\ Len(bs) > 0
  BY DEF InStore
<1>2. /\ t \in Seq(Baselines) /\ Len(t) = Len(bs) - 1 /\ DOMAIN t = 1 .. (Len(bs) - 1)
      /\ \A i \in DOMAIN t : i + 1 \in DOMAIN bs /\ t[i] = bs[i + 1]
  BY <1>1
<1> HIDE DEF t
<1>3. \A i \in DOMAIN t : t[i].snapshot \in 0 .. (n - 1) /\ t[i].seq = BaselineSeq(t[i].snapshot)
  BY <1>2 DEF InStore
<1>4. ASSUME NEW i \in DOMAIN t, NEW j \in DOMAIN t, i < j PROVE t[j].age <= t[i].age
  <2>1. i + 1 < j + 1
    BY <1>1, <1>2, <1>4
  <2> QED
    BY <1>2, <2>1 DEF InStore
<1>5. ASSUME NEW i \in DOMAIN t, NEW m \in H, m >= t[i].snapshot + MaxLag
      PROVE  \E j \in DOMAIN t : i < j /\ t[j].snapshot = m
  <2>1. PICK j \in DOMAIN bs : i + 1 < j /\ bs[j].snapshot = m
    BY <1>2, <1>5 DEF InStore
  <2>2. j - 1 \in DOMAIN t /\ i < j - 1 /\ (j - 1) + 1 = j
    BY <1>1, <1>2, <2>1
  <2>3. t[j - 1] = bs[j]
    BY <1>2, <2>2
  <2> QED
    BY <2>1, <2>2, <2>3
<1>6. InStore(t, H, n)
  BY <1>2, <1>3, <1>4, <1>5 DEF InStore
<1> QED
  BY <1>2, <1>6 DEF t

AgedBaselines(bs) == [i \in DOMAIN bs |-> [bs[i] EXCEPT !.age = @ + 1]]

LEMMA SlotsAged ==
    ASSUME NEW bs \in Seq(Slots)
    PROVE  AgedBaselines(bs) \in Seq(Slots) /\ Len(AgedBaselines(bs)) = Len(bs)
<1> DEFINE o == AgedBaselines(bs)
<1>1. Len(bs) \in Nat /\ DOMAIN bs = 1 .. Len(bs) /\ \A i \in DOMAIN bs : bs[i] \in Slots
  OBVIOUS
<1>2. \A b \in Slots : [b EXCEPT !.age = @ + 1] \in Slots
  BY DEF Slots
<1>3. o \in [1 .. Len(bs) -> Slots]
  BY <1>1, <1>2 DEF AgedBaselines
<1> QED
  BY <1>1, <1>3, OfLength

LEMMA StoredAged ==
    ASSUME NEW bs, NEW H, NEW n, InStore(bs, H, n)
    PROVE  InStore(AgedBaselines(bs), H, n) /\ Len(AgedBaselines(bs)) = Len(bs)
<1> DEFINE o == AgedBaselines(bs)
<1>1. bs \in Seq(Baselines) /\ Len(bs) \in Nat /\ DOMAIN bs = 1 .. Len(bs) /\ \A i \in DOMAIN bs : bs[i] \in Baselines
  BY DEF InStore
<1>2. \A i \in DOMAIN bs : o[i] = [bs[i] EXCEPT !.age = @ + 1]
  BY DEF AgedBaselines
<1>3. o \in [1 .. Len(bs) -> Baselines] /\ DOMAIN o = DOMAIN bs
  <2>1. ASSUME NEW i \in DOMAIN bs PROVE [bs[i] EXCEPT !.age = @ + 1] \in Baselines
    <3> DEFINE b == bs[i]
    <3>1. b \in Baselines
      BY <1>1
    <3> HIDE DEF b
    <3>2. [b EXCEPT !.age = @ + 1] \in Baselines
      BY <3>1 DEF Baselines
    <3> QED
      BY <3>2 DEF b
  <2> QED
    BY <1>1, <2>1 DEF AgedBaselines
<1>4. o \in Seq(Baselines) /\ Len(o) = Len(bs)
  BY <1>1, <1>3, OfLength
<1> HIDE DEF o
<1>5. \A i \in DOMAIN bs : o[i].snapshot = bs[i].snapshot /\ o[i].seq = bs[i].seq /\ o[i].age = bs[i].age + 1
                           /\ bs[i].age \in Nat
  BY <1>1, <1>2 DEF Baselines
<1>6. ASSUME NEW i \in DOMAIN o, NEW j \in DOMAIN o, i < j PROVE o[j].age <= o[i].age
  <2>1. i \in DOMAIN bs /\ j \in DOMAIN bs
    BY <1>3
  <2>2. bs[j].age <= bs[i].age
    BY <1>6, <2>1 DEF InStore
  <2>3. o[i].age = bs[i].age + 1 /\ o[j].age = bs[j].age + 1 /\ bs[i].age \in Nat /\ bs[j].age \in Nat
    BY <1>5, <2>1, Zenon
  <2> QED
    BY <2>2, <2>3
<1>7. ASSUME NEW i \in DOMAIN o, NEW m \in H, m >= o[i].snapshot + MaxLag
      PROVE  \E j \in DOMAIN o : i < j /\ o[j].snapshot = m
  <2>1. i \in DOMAIN bs /\ m >= bs[i].snapshot + MaxLag
    BY <1>3, <1>5, <1>7
  <2>2. PICK j \in DOMAIN bs : i < j /\ bs[j].snapshot = m
    BY <2>1 DEF InStore
  <2> QED
    BY <1>3, <1>5, <2>2
<1>8. \A i \in DOMAIN o : o[i].snapshot \in 0 .. (n - 1) /\ o[i].seq = BaselineSeq(o[i].snapshot)
  BY <1>3, <1>5 DEF InStore
<1>9. InStore(o, H, n)
  BY <1>4, <1>6, <1>7, <1>8 DEF InStore
<1> QED
  BY <1>4, <1>9 DEF o

\* What arrives now is too late to have arrived before anything of H but what is newer.
LEMMA StoredMore ==
    ASSUME NEW bs, NEW n \in Nat, NEW H \in SUBSET (0 .. (n - 1)), InStore(bs, H, n),
           NEW m \in 0 .. (n - 1), n - m <= MaxLag
    PROVE  LET e == [seq |-> BaselineSeq(m), snapshot |-> m, age |-> 0]
           IN  InStore(Append(bs, e), H \cup {m}, n) /\ Len(Append(bs, e)) = Len(bs) + 1
<1> DEFINE e == [seq |-> BaselineSeq(m), snapshot |-> m, age |-> 0]  q == Append(bs, e)  l == Len(bs) + 1
<1>1. bs \in Seq(Baselines) /\ Len(bs) \in Nat /\ DOMAIN bs = 1 .. Len(bs) /\ \A i \in DOMAIN bs : bs[i] \in Baselines
  BY DEF InStore
<1>2. e \in Baselines /\ e.snapshot = m /\ e.seq = BaselineSeq(m) /\ e.age = 0
  BY NumbersIs DEF Baselines
<1> HIDE DEF e
<1>3. q \in Seq(Baselines) /\ Len(q) = l /\ DOMAIN q = 1 .. l /\ q[l] = e /\ l \in Nat
      /\ \A i \in DOMAIN bs : i \in DOMAIN q /\ q[i] = bs[i] /\ i < l
  BY <1>1, <1>2
<1>4. \A i \in DOMAIN q : i = l \/ i \in DOMAIN bs
  BY <1>1, <1>3
<1> HIDE DEF q, l
<1>5. \A i \in DOMAIN q : q[i].snapshot \in 0 .. (n - 1) /\ q[i].seq = BaselineSeq(q[i].snapshot)
  BY <1>2, <1>3, <1>4 DEF InStore
<1>6. ASSUME NEW i \in DOMAIN q, NEW j \in DOMAIN q, i < j PROVE q[j].age <= q[i].age
  <2>1. i \in DOMAIN bs /\ q[i] = bs[i] /\ bs[i].age \in Nat
    <3>1. i \in DOMAIN bs
      BY <1>1, <1>3, <1>4, <1>6, SMTT(30)
    <3>2. q[i] = bs[i] /\ bs[i] \in Baselines
      BY <1>1, <1>3, <3>1
    <3> QED
      BY <3>1, <3>2 DEF Baselines
  <2>2. CASE j = l
    BY <1>2, <1>3, <2>1, <2>2
  <2>3. CASE j \in DOMAIN bs
    BY <1>3, <1>6, <2>1, <2>3 DEF InStore
  <2> QED
    BY <1>4, <2>2, <2>3
<1>7. ASSUME NEW i \in DOMAIN q, NEW k \in H \cup {m}, k >= q[i].snapshot + MaxLag
      PROVE  \E j \in DOMAIN q : i < j /\ q[j].snapshot = k
  <2>1. CASE i = l
    <3>1. k < n /\ k >= m + MaxLag /\ k \in Int /\ MaxLag \in Nat
      BY <1>2, <1>3, <1>7, <2>1, DeltaAssumption
    <3> QED
      BY <3>1
  <2>2. CASE i \in DOMAIN bs
    <3>1. i < l /\ l \in DOMAIN q /\ q[i] = bs[i]
      BY <1>3, <2>2
    <3>2. CASE k = m
      BY <1>2, <1>3, <3>1, <3>2
    <3>3. CASE k \in H
      <4>1. PICK j \in DOMAIN bs : i < j /\ bs[j].snapshot = k
        BY <1>7, <2>2, <3>1, <3>3 DEF InStore
      <4> QED
        BY <1>3, <4>1
    <3> QED
      BY <3>2, <3>3
  <2> QED
    BY <1>4, <2>1, <2>2
<1>8. InStore(q, H \cup {m}, n)
  BY <1>3, <1>5, <1>6, <1>7 DEF InStore
<1> QED
  BY <1>3, <1>8 DEF q, e, l

\* The baseline a delta was made against is the one found under its number.
LEMMA FoundIsFrom ==
    ASSUME DeltaInv, Mistaken = {}, NEW d \in deltas, snapshots - d.to <= MaxLag, d.from # None,
           GetBaseline(d.base) # None
    PROVE  GetBaseline(d.base) = d.from
<1> DEFINE seq == d.base  found == {i \in DOMAIN baselines : baselines[i].seq = seq}
           i == CHOOSE i \in found : \A j \in found : j <= i  s == baselines[i].snapshot
<1>1. Made(d, Had, snapshots) /\ snapshots \in Nat
  BY DEF DeltaInv
<1>2. /\ d.from \in Had /\ d.from < d.to /\ d.to - d.from <= MaxSpan /\ d.base = BaselineSeq(d.from)
      /\ d.from \in Nat /\ d.to \in Nat /\ d.to < snapshots
  BY <1>1 DEF Made, Had
<1>3. found # {} /\ GetBaseline(seq) = s
  BY DEF GetBaseline
<1>4. InStore(baselines, Had, snapshots) /\ baselines \in Seq(Baselines) /\ Len(baselines) \in Nat
      /\ DOMAIN baselines = 1 .. Len(baselines)
  BY DEF DeltaInv, InStore
<1>5. i \in found /\ \A j \in found : j <= i
  <2>1. found \in SUBSET Nat /\ \A x \in found : x <= Len(baselines)
    BY <1>4
  <2> HIDE DEF found
  <2>2. \E k \in found : \A j \in found : j <= k
    BY <1>3, <1>4, <2>1, GreatestOf
  <2> QED
    BY <2>2
<1> HIDE DEF i
<1>6. i \in DOMAIN baselines /\ baselines[i].seq = seq /\ s \in 0 .. (snapshots - 1) /\ seq = BaselineSeq(s)
  BY <1>4, <1>5 DEF InStore
<1>7. s % Numbers = d.from % Numbers /\ s \in Nat /\ s < snapshots
  BY <1>1, <1>2, <1>6 DEF BaselineSeq
<1> HIDE DEF s
<1>8. s = d.from \/ s >= d.from + Numbers \/ d.from >= s + Numbers
  BY <1>2, <1>7, NumbersIs, Congruent
<1>9. ~(s >= d.from + Numbers)
  BY <1>1, <1>2, <1>7, DeltaAssumption DEF Numbers
<1>10. ASSUME d.from >= s + Numbers PROVE FALSE
  <2>1. d.from >= s + MaxLag
    BY <1>2, <1>7, <1>10, DeltaAssumption DEF Numbers
  <2>2. PICK j \in DOMAIN baselines : i < j /\ baselines[j].snapshot = d.from
    BY <1>2, <1>4, <1>6, <2>1 DEF InStore, s
  <2>3. baselines[j].seq = seq
    BY <1>2, <1>4, <2>2 DEF InStore
  <2>4. j <= i
    BY <1>5, <2>3
  <2> QED
    BY <1>4, <1>6, <2>2, <2>4
<1> QED
  BY <1>3, <1>8, <1>9, <1>10 DEF s

LEMMA DeltaStarts == DeltaInit => DeltaInv
<1> SUFFICES ASSUME DeltaInit PROVE DeltaInv
  OBVIOUS
<1>1. /\ snapshots = 0 /\ tracker = [pending |-> <<>>, confirmed |-> None] /\ baselines = <<>>
      /\ deltas = {} /\ acks = {} /\ decoded = {}
  BY DEF DeltaInit, NewTracker
<1>2. Awaited(tracker.pending, snapshots) /\ tracker \in [pending : Seq(Nat), confirmed : {None} \cup Had]
  BY <1>1, DeltaAssumption DEF Awaited
<1>3. InStore(baselines, Had, snapshots)
  BY <1>1 DEF InStore
<1> QED
  BY <1>1, <1>2, <1>3, DeltaAssumption DEF DeltaInv

\* The tracker's list after another snapshot.
LEMMA AwaitsMore ==
    ASSUME NEW p, NEW n \in Nat, Awaited(p, n)
    PROVE  Track(p, n) \in Seq(Nat) /\ Awaited(Track(p, n), n + 1)
<1>1. p \in Seq(Nat) /\ Len(p) \in Nat /\ Len(p) <= MaxPending /\ Len(p) <= n /\ MaxPending \in Nat \ {0}
      /\ DOMAIN p = 1 .. Len(p) /\ \A i \in 1 .. Len(p) : p[i] = n - Len(p) + i - 1
  BY DeltaAssumption DEF Awaited
<1> DEFINE l == Len(p)
<1>2. CASE l >= MaxPending
  <2> DEFINE t == Tail(p)  q == Append(t, n)
  <2>1. t \in Seq(Nat) /\ Len(t) = l - 1 /\ \A i \in 1 .. (l - 1) : t[i] = p[i + 1]
    BY <1>1, <1>2
  <2>2. Track(p, n) = q
    BY <1>2 DEF Track
  <2> HIDE DEF t
  <2>3. q \in Seq(Nat) /\ Len(q) = l /\ DOMAIN q = 1 .. l /\ q[l] = n /\ \A i \in 1 .. (l - 1) : q[i] = t[i]
    <3>1. q \in Seq(Nat) /\ Len(q) = Len(t) + 1 /\ q[Len(t) + 1] = n /\ \A i \in 1 .. Len(t) : q[i] = t[i]
      BY <2>1
    <3>2. Len(t) = l - 1 /\ Len(t) + 1 = l
      BY <1>1, <2>1
    <3> HIDE DEF q
    <3> QED
      BY <3>1, <3>2
  <2> HIDE DEF q
  <2>4. ASSUME NEW i \in DOMAIN q PROVE q[i] = (n + 1) - l + i - 1
    <3>1. CASE i = l
      BY <1>1, <2>3, <3>1
    <3>2. CASE i \in 1 .. (l - 1)
      <4>1. i + 1 \in 1 .. Len(p)
        BY <1>1, <3>2
      <4>2. q[i] = p[i + 1] /\ p[i + 1] = n - Len(p) + (i + 1) - 1
        BY <1>1, <2>1, <2>3, <3>2, <4>1
      <4> QED
        BY <1>1, <3>2, <4>2
    <3> QED
      BY <1>1, <2>3, <3>1, <3>2
  <2> QED
    BY <1>1, <2>2, <2>3, <2>4 DEF Awaited
<1>3. CASE ~(l >= MaxPending)
  <2> DEFINE q == Append(p, n)
  <2>1. Track(p, n) = q
    BY <1>3 DEF Track
  <2>2. q \in Seq(Nat) /\ Len(q) = l + 1 /\ DOMAIN q = 1 .. (l + 1) /\ q[l + 1] = n /\ \A i \in 1 .. l : q[i] = p[i]
    BY <1>1
  <2> HIDE DEF q
  <2>3. ASSUME NEW i \in DOMAIN q PROVE q[i] = (n + 1) - (l + 1) + i - 1
    <3>1. CASE i = l + 1
      BY <1>1, <2>2, <3>1
    <3>2. CASE i \in 1 .. l
      BY <1>1, <2>2, <3>2
    <3> QED
      BY <1>1, <2>2, <3>1, <3>2
  <2> QED
    BY <1>1, <1>3, <2>1, <2>2, <2>3 DEF Awaited
<1> QED
  BY <1>2, <1>3

\* What arrived stays what arrived, whatever is sent next.
LEMMA HadGrows ==
    ASSUME DeltaInv, snapshots' \in Nat, snapshots' >= snapshots, decoded \in SUBSET decoded'
    PROVE  Had \in SUBSET Had'
<1>1. snapshots \in Nat
  BY DEF DeltaInv
<1> SUFFICES ASSUME NEW m \in Had PROVE m \in 0 .. (snapshots' - 1) /\ \E d \in decoded' : d[1] = m
  BY DEF Had
<1>2. m \in 0 .. (snapshots - 1) /\ \E d \in decoded : d[1] = m
  BY DEF Had
<1>3. m \in 0 .. (snapshots' - 1)
  <2>1. m \in Nat /\ m < snapshots
    BY <1>1, <1>2
  <2>2. snapshots' \in Nat /\ snapshots' >= snapshots
    OBVIOUS
  <2>3. \A x, y, z \in Nat : x < y /\ z >= y => x \in 0 .. (z - 1)
    OBVIOUS
  <2> QED
    BY <1>1, <2>1, <2>2, <2>3, Zenon
<1>4. \E d \in decoded' : d[1] = m
  BY <1>2, Zenon
<1> QED
  BY <1>3, <1>4

\* Nothing that arrived is new when nothing was decoded.
LEMMA HadSame ==
    ASSUME DeltaInv, snapshots' \in Nat, snapshots' >= snapshots, decoded' = decoded
    PROVE  Had' = Had
<1>1. Had \in SUBSET Had'
  BY HadGrows
<1>2. ASSUME NEW m \in Had' PROVE m \in Had
  <2>1. PICK d \in decoded : d[1] = m
    BY DEF Had
  <2>2. m \in 0 .. (snapshots - 1)
    BY <2>1 DEF DeltaInv
  <2> QED
    BY <2>1, <2>2 DEF Had
<1> QED
  BY <1>1, <1>2

LEMMA StoredLater ==
    ASSUME NEW bs, NEW H, NEW n \in Nat, NEW k \in Nat, n <= k, InStore(bs, H, n)
    PROVE  InStore(bs, H, k)
<1>1. \A i \in DOMAIN bs : bs[i].snapshot \in 0 .. (k - 1)
  BY DEF InStore
<1> QED
  BY <1>1 DEF InStore

LEMMA EncodeKeeps == ASSUME DeltaInv, Encode PROVE DeltaInv'
<1>1. /\ snapshots < MaxSnapshots /\ (tracker.confirmed # None => snapshots - tracker.confirmed <= MaxSpan)
      /\ snapshots' = snapshots + 1 /\ baselines' = baselines /\ acks' = acks /\ decoded' = decoded
      /\ tracker' = [tracker EXCEPT !.pending = Track(@, snapshots)]
      /\ deltas' = deltas \cup {[to |-> snapshots, from |-> tracker.confirmed,
                                base |-> IF tracker.confirmed = None THEN NoBaseline
                                         ELSE BaselineSeq(tracker.confirmed)]}
  BY DEF Encode
<1>2. /\ snapshots \in Nat /\ snapshots \in 0 .. MaxSnapshots /\ MaxSnapshots \in Nat
      /\ tracker \in [pending : Seq(Nat), confirmed : {None} \cup Had] /\ Awaited(tracker.pending, snapshots)
  BY DeltaAssumption DEF DeltaInv
<1>3. Had' = Had
  BY <1>1, <1>2, HadSame
<1>4. tracker' \in [pending : Seq(Nat), confirmed : {None} \cup Had'] /\ Awaited(tracker'.pending, snapshots')
  <2>1. tracker.confirmed \in {None} \cup Had
    BY <1>2
  <2>2. tracker'.pending = Track(tracker.pending, snapshots) /\ tracker'.confirmed = tracker.confirmed
    BY <1>1, <1>2
  <2>3. Track(tracker.pending, snapshots) \in Seq(Nat) /\ Awaited(Track(tracker.pending, snapshots), snapshots + 1)
    BY <1>2, AwaitsMore
  <2>4. tracker' = [pending |-> Track(tracker.pending, snapshots), confirmed |-> tracker.confirmed]
    BY <1>1, <1>2
  <2> QED
    BY <1>1, <1>3, <2>1, <2>2, <2>3, <2>4
<1>5. \A d \in deltas' : Made(d, Had', snapshots')
  <2> SUFFICES ASSUME NEW d \in deltas' PROVE Made(d, Had, snapshots + 1)
    BY <1>1, <1>3
  <2>1. CASE d \in deltas
    <3>1. Made(d, Had, snapshots)
      BY <2>1 DEF DeltaInv
    <3> QED
      BY <1>2, <3>1 DEF Made
  <2>2. CASE d \notin deltas
    <3>1. /\ d.to = snapshots /\ d.from = tracker.confirmed
          /\ d.base = IF tracker.confirmed = None THEN NoBaseline ELSE BaselineSeq(tracker.confirmed)
      BY <1>1, <2>2
    <3>2. tracker.confirmed \in {None} \cup Had
      BY <1>2
    <3>3. CASE tracker.confirmed = None
      BY <1>2, <3>1, <3>3 DEF Made
    <3>4. CASE tracker.confirmed # None
      <4>1. tracker.confirmed \in Had /\ tracker.confirmed < snapshots
        BY <1>2, <3>2, <3>4 DEF Had
      <4> QED
        BY <1>1, <1>2, <3>1, <3>4, <4>1 DEF Made
    <3> QED
      BY <3>3, <3>4
  <2> QED
    BY <2>1, <2>2
<1>6. \A d \in decoded' : d[1] \in 0 .. (snapshots' - 1)
  <2>1. 0 .. (snapshots - 1) \subseteq 0 .. (snapshots' - 1)
    BY <1>1, <1>2
  <2> QED
    BY <1>1, <2>1 DEF DeltaInv
<1>7. ASSUME Mistaken' = {} PROVE (\A d \in decoded' : d[2] = d[1]) /\ InStore(baselines', Had', snapshots')
  <2>1. Mistaken = {}
    BY <1>1, <1>7, MistakenStays
  <2>2. (\A d \in decoded : d[2] = d[1]) /\ InStore(baselines, Had, snapshots)
    BY <2>1 DEF DeltaInv
  <2>3. snapshots + 1 \in Nat /\ snapshots <= snapshots + 1
    BY <1>2
  <2> QED
    BY <1>1, <1>2, <1>3, <2>2, <2>3, StoredLater
<1>8. snapshots' \in 0 .. MaxSnapshots
  BY <1>1, <1>2
<1>9. acks' \in SUBSET Had' /\ baselines' \in Seq(Slots) /\ Len(baselines') <= MaxBaselines
      /\ \A i \in DOMAIN baselines' : baselines'[i].age < BaselineTimeout
  BY <1>1, <1>3 DEF DeltaInv
<1> QED
  BY <1>4, <1>5, <1>6, <1>7, <1>8, <1>9 DEF DeltaInv

\* What follows a place in the tracker's list.
LEMMA AwaitsLess ==
    ASSUME NEW p, NEW n \in Nat, Awaited(p, n), NEW i \in DOMAIN p
    PROVE  LET r == SubSeq(p, i + 1, Len(p)) IN r \in Seq(Nat) /\ Awaited(r, n)
<1> DEFINE l == Len(p)  r == SubSeq(p, i + 1, l)
<1>1. /\ p \in Seq(Nat) /\ l \in Nat /\ l <= MaxPending /\ l <= n /\ MaxPending \in Nat \ {0} /\ i \in 1 .. l
      /\ \A j \in 1 .. l : p[j] = n - l + j - 1
  <2>1. p \in Seq(Nat) /\ l <= MaxPending /\ l <= n /\ \A j \in DOMAIN p : p[j] = n - l + j - 1
    BY DEF Awaited
  <2>2. l \in Nat /\ DOMAIN p = 1 .. l
    BY <2>1
  <2> QED
    BY <2>1, <2>2, DeltaAssumption
<1>2. r \in Seq(Nat) /\ Len(r) = l - i /\ \A j \in 1 .. (l - i) : r[j] = p[i + j]
  BY <1>1, RestOf
<1> HIDE DEF r, l
<1>3. ASSUME NEW j \in DOMAIN r PROVE r[j] = n - Len(r) + j - 1
  <2>1. j \in 1 .. (l - i) /\ i + j \in 1 .. l
    <3>1. DOMAIN r = 1 .. (l - i)
      BY <1>1, <1>2
    <3> QED
      BY <1>1, <1>3, <3>1, SMTT(30)
  <2>2. r[j] = p[i + j] /\ p[i + j] = n - l + (i + j) - 1
    BY <1>1, <1>2, <2>1
  <2> QED
    BY <1>1, <1>2, <2>1, <2>2, SMTT(30)
<1>4. Len(r) \in Nat /\ Len(r) <= MaxPending /\ Len(r) <= n
  BY <1>1, <1>2
<1>5. r \in Seq(Nat) /\ Awaited(r, n)
  BY <1>2, <1>3, <1>4 DEF Awaited
<1> QED
  BY <1>5 DEF r, l

\* The snapshot found under an acknowledged number is the one acknowledged: two that the
\* tracker waits for never share a number.
LEMMA OnAckKeeps ==
    ASSUME MaxPending <= Numbers, DeltaInv, NEW a \in acks, DeltaOnAck(a)
    PROVE  DeltaInv'
<1>1. /\ snapshots - a <= MaxLag
      /\ snapshots' = snapshots /\ baselines' = baselines /\ deltas' = deltas /\ acks' = acks
      /\ decoded' = decoded
  BY DEF DeltaOnAck
<1>2. /\ snapshots \in Nat /\ tracker \in [pending : Seq(Nat), confirmed : {None} \cup Had]
      /\ Awaited(tracker.pending, snapshots) /\ a \in Had
  BY DEF DeltaInv
<1>3. Had' = Had
  BY <1>1, <1>2, HadSame
<1> DEFINE p == tracker.pending  hits == Matches(BaselineSeq(a))
           i == CHOOSE i \in hits : \A j \in hits : i <= j
<1>4. tracker' \in [pending : Seq(Nat), confirmed : {None} \cup Had] /\ Awaited(tracker'.pending, snapshots)
  <2>1. CASE hits = {}
    BY <1>2, <2>1 DEF DeltaOnAck
  <2>2. CASE hits # {}
    <3>1. p \in Seq(Nat) /\ Len(p) \in Nat /\ DOMAIN p = 1 .. Len(p) /\ Len(p) <= MaxPending
          /\ (\A j \in DOMAIN p : p[j] = snapshots - Len(p) + j - 1)
      BY <1>2 DEF Awaited
    <3>2. hits \in SUBSET Nat /\ hits \in SUBSET DOMAIN p
      BY <3>1 DEF Matches
    <3>3. i \in hits
      <4> HIDE DEF hits
      <4>1. \E k \in hits : \A j \in hits : k <= j
        BY <2>2, <3>2, Least
      <4> QED
        BY <4>1
    <3>4. tracker' = [pending |-> Remaining(i), confirmed |-> p[i]]
      BY <2>2 DEF DeltaOnAck
    <3> HIDE DEF i
    <3>5. i \in DOMAIN p /\ p[i] % Numbers = a % Numbers
      BY <3>3 DEF Matches, BaselineSeq
    <3>6. p[i] \in Nat /\ p[i] < snapshots /\ p[i] >= snapshots - MaxPending
      <4> DEFINE x == p[i]  n == Len(p)
      <4>1. n \in Nat /\ n <= MaxPending /\ i \in 1 .. n /\ x = snapshots - n + i - 1
        BY <3>1, <3>5
      <4>2. n <= snapshots
        BY <1>2 DEF Awaited
      <4> HIDE DEF x, n
      <4>3. x \in Nat /\ x < snapshots /\ x >= snapshots - MaxPending
        BY <1>2, <4>1, <4>2, DeltaAssumption
      <4> QED
        BY <4>3 DEF x
    <3>7. a \in Nat /\ a < snapshots /\ a >= snapshots - MaxLag
      BY <1>1, <1>2, DeltaAssumption DEF Had
    <3> HIDE DEF p
    <3>8. p[i] = a \/ p[i] >= a + Numbers \/ a >= p[i] + Numbers
      BY <3>5, <3>6, <3>7, NumbersIs, Congruent
    <3>9. p[i] = a
      <4> DEFINE x == p[i]
      <4>1. MaxLag <= Numbers /\ MaxLag \in Nat /\ MaxPending \in Nat /\ Numbers \in Nat
        BY DeltaAssumption DEF Numbers
      <4>2. x \in Nat /\ x < snapshots /\ x >= snapshots - MaxPending
            /\ (x = a \/ x >= a + Numbers \/ a >= x + Numbers)
        BY <3>6, <3>8
      <4>3. snapshots \in Nat /\ MaxPending <= Numbers
        BY <1>2
      <4> HIDE DEF x
      <4>4. x = a
        BY ONLY <3>7, <4>1, <4>2, <4>3, SMTT(30)
      <4> QED
        BY <4>4 DEF x
    <3>10. Remaining(i) \in Seq(Nat) /\ Awaited(Remaining(i), snapshots)
      BY <1>2, <3>5, AwaitsLess DEF Remaining, p
    <3>11. a \in {None} \cup Had
      BY <1>2
    <3> HIDE DEF hits
    <3> QED
      BY <3>4, <3>9, <3>10, <3>11
  <2> QED
    BY <2>1, <2>2
<1>5. Mistaken' = Mistaken
  BY <1>1 DEF Mistaken
<1> QED
  BY <1>1, <1>3, <1>4, <1>5 DEF DeltaInv

\* What decoding makes of a delta that is not mistaken for a full state.
LEMMA DecodeIsTo ==
    ASSUME DeltaInv, Mistaken = {}, NEW d \in deltas, snapshots - d.to <= MaxLag, Usable(d),
           FullState(d) \/ ~Marked(d)
    PROVE  Decode(d) = d.to
<1>1. Made(d, Had, snapshots)
  BY DEF DeltaInv
<1>2. CASE FullState(d)
  BY <1>1, <1>2 DEF Made, Had, Decode, FullState, Marked, ReadAsFull, None
<1>3. CASE ~FullState(d)
  <2>1. d.from # None /\ ~Marked(d)
    BY <1>3 DEF FullState
  <2>2. GetBaseline(d.base) # None
    BY <2>1 DEF Usable
  <2>3. GetBaseline(d.base) = d.from
    BY <2>1, <2>2, FoundIsFrom
  <2> QED
    BY <2>1, <2>3 DEF Decode, Apply
<1> QED
  BY <1>2, <1>3

LEMMA PushKeeps ==
    ASSUME NEW bs, NEW n \in Nat, NEW H \in SUBSET (0 .. (n - 1)), InStore(bs, H, n),
           NEW m \in 0 .. (n - 1), n - m <= MaxLag, Len(bs) <= MaxBaselines
    PROVE  LET cleaned == NotExpired(bs)
               trimmed == IF Len(cleaned) >= MaxBaselines THEN Tail(cleaned) ELSE cleaned
               pushed  == Append(trimmed, [seq |-> BaselineSeq(m), snapshot |-> m, age |-> 0])
           IN  /\ InStore(pushed, H \cup {m}, n) /\ Len(pushed) <= MaxBaselines
               /\ \A i \in DOMAIN pushed : pushed[i].age < BaselineTimeout
<1> DEFINE cleaned == NotExpired(bs)
           trimmed == IF Len(cleaned) >= MaxBaselines THEN Tail(cleaned) ELSE cleaned
           e == [seq |-> BaselineSeq(m), snapshot |-> m, age |-> 0]
           pushed  == Append(trimmed, e)
<1>1. InStore(cleaned, H, n) /\ Len(cleaned) <= Len(bs) /\ \A i \in DOMAIN cleaned : cleaned[i].age < BaselineTimeout
  BY StoredPicked
<1> HIDE DEF cleaned
<1>2. MaxBaselines \in Nat \ {0} /\ BaselineTimeout \in Nat \ {0} /\ Len(bs) \in Nat /\ cleaned \in Seq(Baselines)
      /\ Len(cleaned) \in Nat
  BY <1>1, DeltaAssumption DEF InStore
<1>3. InStore(trimmed, H, n) /\ Len(trimmed) + 1 <= MaxBaselines /\ \A i \in DOMAIN trimmed : trimmed[i].age < BaselineTimeout
  <2>1. CASE Len(cleaned) >= MaxBaselines
    <3>1. cleaned # <<>>
      BY <1>2, <2>1
    <3>2. /\ InStore(Tail(cleaned), H, n) /\ Len(Tail(cleaned)) = Len(cleaned) - 1
          /\ \A i \in DOMAIN Tail(cleaned) : i + 1 \in DOMAIN cleaned /\ Tail(cleaned)[i] = cleaned[i + 1]
      BY <1>1, <3>1, StoredTail
    <3> QED
      BY <1>1, <1>2, <2>1, <3>2
  <2>2. CASE ~(Len(cleaned) >= MaxBaselines)
    BY <1>1, <1>2, <2>2
  <2> QED
    BY <2>1, <2>2
<1> HIDE DEF trimmed
<1>4. InStore(pushed, H \cup {m}, n) /\ Len(pushed) = Len(trimmed) + 1
  BY <1>3, StoredMore
<1>5. \A i \in DOMAIN pushed : pushed[i].age < BaselineTimeout
  <2>1. trimmed \in Seq(Baselines) /\ e.age = 0
    BY <1>3 DEF InStore
  <2>2. ASSUME NEW i \in DOMAIN pushed PROVE (i \in DOMAIN trimmed /\ pushed[i] = trimmed[i]) \/ pushed[i] = e
    <3> HIDE DEF e
    <3> QED
      BY <2>1, <2>2
  <2> HIDE DEF pushed
  <2> QED
    BY <1>2, <1>3, <2>1, <2>2
<1> QED
  BY <1>3, <1>4, <1>5 DEF cleaned, trimmed

LEMMA ArrivalKeeps ==
    ASSUME DeltaInv, NEW d \in deltas, ReceiveDelta(d)
    PROVE  DeltaInv'
<1> DEFINE m == d.to
<1>1. /\ snapshots - m <= MaxLag /\ Usable(d)
      /\ snapshots' = snapshots /\ tracker' = tracker /\ deltas' = deltas
      /\ decoded' = decoded \cup {<<m, Decode(d)>>} /\ acks' = acks \cup {m}
      /\ baselines' = PushBaseline(m, Decode(d))
  BY DEF ReceiveDelta
<1>2. snapshots \in Nat /\ m \in 0 .. (snapshots - 1)
  BY DEF DeltaInv, Made
<1>3. Decode(d) \in Int
  BY <1>2 DEF Decode, ReadAsFull, Apply, Garbled
<1>4. Had' = Had \cup {m}
  <2> DEFINE x == Decode(d)
  <2>1. decoded' = decoded \cup {<<m, x>>} /\ snapshots' = snapshots
    BY <1>1
  <2> HIDE DEF m, x
  <2>2. <<m, x>>[1] = m
    OBVIOUS
  <2> QED
    BY <1>2, <2>1, <2>2 DEF Had
<1>5. Had \in SUBSET (0 .. (snapshots - 1)) /\ baselines \in Seq(Slots) /\ Len(baselines) <= MaxBaselines
  BY DEF Had, DeltaInv
<1>6. /\ baselines' \in Seq(Slots) /\ Len(baselines') <= MaxBaselines
      /\ \A i \in DOMAIN baselines' : baselines'[i].age < BaselineTimeout
  <2>1. m \in Int
    BY <1>2
  <2> DEFINE x == Decode(d)
  <2>2. baselines' = PushBaseline(m, x)
    BY <1>1
  <2> HIDE DEF m, x
  <2>3. /\ PushBaseline(m, x) \in Seq(Slots) /\ Len(PushBaseline(m, x)) <= MaxBaselines
        /\ \A i \in DOMAIN PushBaseline(m, x) : PushBaseline(m, x)[i].age < BaselineTimeout
    BY <1>3, <1>5, <2>1, SlotsPushed DEF PushBaseline, x
  <2> QED
    BY <2>2, <2>3
<1>7. tracker' \in [pending : Seq(Nat), confirmed : {None} \cup Had'] /\ Awaited(tracker'.pending, snapshots')
  <2>1. tracker \in [pending : Seq(Nat), confirmed : {None} \cup Had] /\ Awaited(tracker.pending, snapshots)
    BY DEF DeltaInv
  <2>2. {None} \cup Had \subseteq {None} \cup Had'
    BY <1>4
  <2> QED
    BY <1>1, <2>1, <2>2
<1>8. \A x \in deltas' : Made(x, Had', snapshots')
  <2> HIDE DEF m
  <2>1. \A x \in deltas : Made(x, Had, snapshots)
    BY DEF DeltaInv
  <2> QED
    BY <1>1, <1>4, <2>1 DEF Made
<1>9. acks' \in SUBSET Had'
  BY <1>1, <1>4 DEF DeltaInv
<1>10. \A x \in decoded' : x[1] \in 0 .. (snapshots' - 1)
  <2> DEFINE y == Decode(d)
  <2>1. decoded' = decoded \cup {<<m, y>>} /\ snapshots' = snapshots
    BY <1>1
  <2>2. \A x \in decoded : x[1] \in 0 .. (snapshots - 1)
    BY DEF DeltaInv
  <2> HIDE DEF m, y
  <2>3. <<m, y>>[1] = m
    OBVIOUS
  <2> QED
    BY <1>2, <2>1, <2>2, <2>3
\* As long as nothing is mistaken, this was not either.
<1>12. ASSUME Mistaken' = {} PROVE (\A x \in decoded' : x[2] = x[1]) /\ InStore(baselines', Had', snapshots')
  <2>1. Mistaken = {}
    BY <1>1, <1>12, MistakenStays
  <2>2. (\A x \in decoded : x[2] = x[1]) /\ InStore(baselines, Had, snapshots)
    BY <2>1 DEF DeltaInv
  <2>3. FullState(d) \/ ~Marked(d)
    <3> SUFFICES ASSUME ~FullState(d), Marked(d) PROVE FALSE
      OBVIOUS
    <3>1. Decode(d) = Garbled
      BY DEF Decode, ReadAsFull
    <3>2. <<d.to, Garbled>> \in decoded' /\ d \in deltas'
      BY <1>1, <3>1
    <3> QED
      BY <1>12, <3>2 DEF Mistaken
  <2>4. Decode(d) = m
    BY <1>1, <2>1, <2>3, DecodeIsTo
  <2>5. baselines' = PushBaseline(m, m) /\ decoded' = decoded \cup {<<m, m>>}
    BY <1>1, <2>4
  <2> HIDE DEF m
  <2>6. InStore(PushBaseline(m, m), Had \cup {m}, snapshots)
    BY <1>1, <1>2, <1>5, <2>2, PushKeeps DEF PushBaseline
  <2>7. \A x \in decoded' : x[2] = x[1]
    <3>1. <<m, m>>[2] = <<m, m>>[1]
      OBVIOUS
    <3> QED
      BY <2>2, <2>5, <3>1
  <2> QED
    BY <1>1, <1>4, <2>5, <2>6, <2>7
<1>11. snapshots' \in 0 .. MaxSnapshots
  BY <1>1 DEF DeltaInv
<1> QED
  BY <1>6, <1>7, <1>8, <1>9, <1>10, <1>11, <1>12 DEF DeltaInv

LEMMA DeltaStep ==
    ASSUME MaxPending <= Numbers
    PROVE  DeltaInv /\ [DeltaNext]_deltaVars => DeltaInv'
<1> SUFFICES ASSUME DeltaInv, [DeltaNext]_deltaVars PROVE DeltaInv'
  OBVIOUS
<1>1. CASE Encode
  BY <1>1, EncodeKeeps
<1>2. CASE \E a \in acks : DeltaOnAck(a)
  BY <1>2, OnAckKeeps
<1>3. CASE \E d \in deltas : ReceiveDelta(d)
  BY <1>3, ArrivalKeeps
<1>4. CASE BaselineCleanup
  <2>1. /\ snapshots' = snapshots /\ tracker' = tracker /\ deltas' = deltas /\ acks' = acks /\ decoded' = decoded
        /\ baselines' = NotExpired(AgedBaselines(baselines))
    BY <1>4 DEF BaselineCleanup, AgedBaselines
  <2>2. Had' = Had
    BY <2>1 DEF Had
  <2>3. baselines \in Seq(Slots) /\ Len(baselines) <= MaxBaselines
    BY DEF DeltaInv
  <2>4. AgedBaselines(baselines) \in Seq(Slots) /\ Len(AgedBaselines(baselines)) = Len(baselines)
    BY <2>3, SlotsAged
  <2>5. /\ baselines' \in Seq(Slots) /\ Len(baselines') <= Len(baselines)
        /\ \A i \in DOMAIN baselines' : baselines'[i].age < BaselineTimeout
    BY <2>1, <2>4, SlotsKept
  <2>6. Len(baselines') <= MaxBaselines
    <3>1. Len(baselines) \in Nat /\ Len(baselines') \in Nat
      BY <2>3, <2>5
    <3> QED
      BY <2>3, <2>5, <3>1, DeltaAssumption
  <2>7. Mistaken' = Mistaken
    BY <2>1 DEF Mistaken
  <2>8. ASSUME InStore(baselines, Had, snapshots) PROVE InStore(baselines', Had, snapshots)
    <3>1. InStore(AgedBaselines(baselines), Had, snapshots)
      BY <2>8, StoredAged
    <3> QED
      BY <2>1, <3>1, StoredPicked
  <2> QED
    BY <2>1, <2>2, <2>5, <2>6, <2>7, <2>8 DEF DeltaInv
<1>5. CASE DeltaReset
  <2>1. /\ snapshots' = snapshots /\ baselines' = baselines /\ deltas' = deltas /\ acks' = acks /\ decoded' = decoded
        /\ tracker' = [pending |-> <<>>, confirmed |-> None]
    BY <1>5 DEF DeltaReset, NewTracker
  <2>2. Had' = Had
    BY <2>1 DEF Had
  <2>3. tracker' \in [pending : Seq(Nat), confirmed : {None} \cup Had] /\ Awaited(tracker'.pending, snapshots)
    BY <2>1, DeltaAssumption DEF Awaited, DeltaInv
  <2>4. Mistaken' = Mistaken
    BY <2>1 DEF Mistaken
  <2> QED
    BY <2>1, <2>2, <2>3, <2>4 DEF DeltaInv
<1>6. CASE BaselineReset
  <2>1. /\ snapshots' = snapshots /\ tracker' = tracker /\ deltas' = deltas /\ acks' = acks /\ decoded' = decoded
        /\ baselines' = <<>>
    BY <1>6 DEF BaselineReset
  <2>2. Had' = Had
    BY <2>1 DEF Had
  <2>3. /\ InStore(baselines', Had, snapshots) /\ baselines' \in Seq(Slots)
        /\ Len(baselines') = 0 /\ DOMAIN baselines' = {}
    BY <2>1 DEF InStore
  <2>4. Mistaken' = Mistaken
    BY <2>1 DEF Mistaken
  <2> QED
    BY <2>1, <2>2, <2>3, <2>4, DeltaAssumption DEF DeltaInv
<1>7. CASE UNCHANGED deltaVars
  <2>1. /\ snapshots' = snapshots /\ tracker' = tracker /\ baselines' = baselines /\ deltas' = deltas
        /\ acks' = acks /\ decoded' = decoded
    BY <1>7 DEF deltaVars
  <2>2. Had' = Had /\ Mistaken' = Mistaken
    BY <2>1 DEF Had, Mistaken
  <2> QED
    BY <2>1, <2>2 DEF DeltaInv
<1> QED
  BY <1>1, <1>2, <1>3, <1>4, <1>5, <1>6, <1>7 DEF DeltaNext

LEMMA DeltaImplies == DeltaInv => DecodedIsSent /\ DeltaTypeOK
<1> SUFFICES ASSUME DeltaInv PROVE DecodedIsSent /\ DeltaTypeOK
  OBVIOUS
<1>1. tracker.confirmed \in {None} \cup Had /\ Awaited(tracker.pending, snapshots) /\ snapshots \in Nat
      /\ snapshots \in 0 .. MaxSnapshots
  BY DEF DeltaInv
<1>2. ConfirmedWasDecoded
  <2> SUFFICES ASSUME tracker.confirmed # None PROVE \E d \in decoded : d[1] = tracker.confirmed
    BY DEF ConfirmedWasDecoded
  <2> QED
    BY <1>1 DEF Had
<1>3. Mistaken = {} => \A d \in decoded : d[2] = d[1]
  BY DEF DeltaInv
<1>4. tracker.confirmed \in {None} \cup 0 .. snapshots - 1
  BY <1>1 DEF Had
<1>5. Len(tracker.pending) <= MaxPending
      /\ \A i \in DOMAIN tracker.pending : tracker.pending[i] \in 0 .. snapshots - 1
  <2> DEFINE p == tracker.pending
  <2>1. p \in Seq(Nat) /\ Len(p) <= MaxPending /\ Len(p) <= snapshots /\ \A i \in DOMAIN p : p[i] = snapshots - Len(p) + i - 1
    BY <1>1 DEF Awaited
  <2>2. Len(p) \in Nat /\ DOMAIN p = 1 .. Len(p)
    BY <2>1
  <2> HIDE DEF p
  <2>3. \A i \in DOMAIN p : p[i] \in 0 .. snapshots - 1
    BY <1>1, <2>1, <2>2
  <2> QED
    BY <2>1, <2>3 DEF p
<1>6. Len(baselines) <= MaxBaselines
      /\ \A i \in DOMAIN baselines : baselines[i].age < BaselineTimeout /\ baselines[i].seq \in 0 .. NoBaseline
  <2>1. ASSUME NEW i \in DOMAIN baselines PROVE baselines[i].seq \in 0 .. NoBaseline
    <3>1. baselines[i] \in Slots
      BY DEF DeltaInv
    <3> QED
      BY <3>1 DEF Slots
  <2> QED
    BY <2>1 DEF DeltaInv
<1> QED
  BY <1>1, <1>2, <1>3, <1>4, <1>5, <1>6 DEF DecodedIsSent, DeltaTypeOK

\* Until one is taken for a full state, because its number is the mark of these, no delta is
\* applied to another baseline than the one it was made against (DecodedIsSent),
\* for any numbering, any limits on what both sides keep, any loss, repetition and reordering
\* that is not later than the numbers allow, and however often either side starts afresh:
\* provided that the tracker never waits for more snapshots than there are numbers.
THEOREM DecodedAsSent ==
    ASSUME MaxPending <= Numbers
    PROVE  DeltaSpec => [](DecodedIsSent /\ DeltaTypeOK)
<1>1. DeltaInit => DeltaInv
  BY DeltaStarts
<1>2. DeltaInv /\ [DeltaNext]_deltaVars => DeltaInv'
  BY DeltaStep
<1>3. DeltaInv => DecodedIsSent /\ DeltaTypeOK
  BY DeltaImplies
<1> QED
  BY <1>1, <1>2, <1>3, PTL DEF DeltaSpec
=============================================================================

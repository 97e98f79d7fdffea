------------------------ MODULE ReliabilityProofs ------------------------
(***************************************************************************)
(* Theorems about packet-level reliability, for every ring size, ack       *)
(* window, circle and network delay that RingAssumption admits.            *)
(***************************************************************************)
EXTENDS Reliability, CommonProofs, FiniteSetTheorems

-----------------------------------------------------------------------------
(* Type correctness. *)

\* Every record in the sent ring is of a packet already numbered.
SentBufOK == \A k \in Slots : sentBuf[k] # Empty => sentBuf[k].num < next

TypeInv == TypeOK /\ SentBufOK

\* The ring's slots, numbers on the wire and the circle are what they seem.
LEMMA Ranges ==
    /\ SeqSpace \in Nat \ {0}
    /\ \A s \in Nat : Slot(s) \in Slots
    /\ \A i \in Int : i % SeqSpace \in Seqs
    /\ \A n \in Nat : Wire(n) \in Seqs
    /\ Seqs \subseteq Nat
    /\ Empty \notin Records
  <1>1. SeqSpace \in Nat \ {0}
    BY HalfAssumption DEF SeqSpace
  <1>2. \A s \in Nat : Slot(s) \in Slots
    <2> DEFINE R == Ring
    <2>1. R \in Nat \ {0} BY RingAssumption
    <2> HIDE DEF R
    <2>2. \A s \in Nat : s % R \in 0 .. (R - 1) BY <2>1, Z3
    <2> QED BY <2>2 DEF R, Slot, Slots
  <1>3. \A i \in Int : i % SeqSpace \in Seqs
    <2> DEFINE M == SeqSpace
    <2>1. M \in Nat \ {0} BY <1>1
    <2> HIDE DEF M
    <2>2. \A i \in Int : i % M \in 0 .. (M - 1) BY <2>1, Z3
    <2> QED BY <2>2 DEF M, Seqs
  <1>4. \A n \in Nat : Wire(n) \in Seqs
    BY WireType
  <1>5. Seqs \subseteq Nat
    BY <1>1 DEF Seqs
  <1>6. Empty \notin Records
    BY RingAssumption DEF Records
  <1> QED BY <1>1, <1>2, <1>3, <1>4, <1>5, <1>6

\* Every set of slots can be counted.
LEMMA SlotSubsets ==
    ASSUME NEW S \in SUBSET Slots
    PROVE  IsFiniteSet(S) /\ Cardinality(S) \in Nat
  <1>1. IsFiniteSet(Slots)
    BY FS_Interval, RingAssumption DEF Slots
  <1> QED BY <1>1, FS_Subset, FS_CardinalityType

\* The initial state has the right types.
LEMMA TypeInit == Init => TypeInv
  <1> SUFFICES ASSUME Init PROVE TypeInv OBVIOUS
  <1>1. initialSeq \in Seqs
    BY HalfAssumption DEF initialSeq, Seqs, SeqSpace
  <1>2. late \in BOOLEAN
    BY Zenon DEF Init
  <1> QED BY <1>1, <1>2, RingAssumption DEF Init, TypeInv, TypeOK, SentBufOK

\* Every action keeps the types, and the records' numbers below next.
LEMMA TypeStep == TypeInv /\ [Next]_vars => TypeInv'
  <1> SUFFICES ASSUME TypeOK, SentBufOK, [Next]_vars PROVE TypeOK' /\ SentBufOK'
    BY DEF TypeInv
  <1> USE RingAssumption, Ranges
  <1>1. CASE SendUntracked
    <2> SUFFICES next' = next + 1 /\ next < MaxPackets
                 /\ UNCHANGED <<sentBuf, sentCount, totals, recvBuf, remoteSeq,
                                ackBits, headers, accepted, released, late>>
      BY DEF TypeOK, SentBufOK, Records
    <2> QED BY <1>1 DEF SendUntracked, CanSend, recvVars, network, history
  <1>2. CASE SendTracked
    <2> DEFINE k == Slot(Wire(next))
    <2>1. /\ next \in Nat /\ next' = next + 1 /\ next < MaxPackets
          /\ sentBuf' = [sentBuf EXCEPT ![k] = [num |-> next, nacks |-> 0]]
          /\ sentCount' \in Int
          /\ totals' = [totals EXCEPT !.sent = @ + 1]
          /\ UNCHANGED <<recvBuf, remoteSeq, ackBits, headers, accepted, released, late>>
      BY <1>2 DEF SendTracked, CanSend, CountAfterInsert, recvVars, network,
                  history, TypeOK
    <2>2. [num |-> next, nacks |-> 0] \in Records
      BY <2>1 DEF Records
    <2>3. k \in Slots
      BY <2>1 DEF Seqs
    <2> HIDE DEF k
    <2>4. TypeOK'
      <3>1. sentBuf' \in [Slots -> Records \cup {Empty}]
        BY <2>1, <2>2, <2>3 DEF TypeOK
      <3>2. totals' \in [sent : Nat, acked : Nat, lost : Nat]
        <4>1. totals.sent + 1 \in Nat BY DEF TypeOK
        <4> QED BY <2>1, <4>1 DEF TypeOK
      <3>3. next' \in 0 .. MaxPackets /\ 0 .. (next - 1) \subseteq 0 .. (next' - 1)
        BY <2>1
      <3> QED BY <2>1, <3>1, <3>2, <3>3 DEF TypeOK
    <2>5. SentBufOK'
      BY <2>1, <2>2, <2>3 DEF SentBufOK, TypeOK, Records
    <2> QED BY <2>4, <2>5
  <1>3. CASE \E n \in 0 .. (next - 1) : ReceivePacket(n)
    <2>1. PICK n \in 0 .. (next - 1) : ReceivePacket(n)
      BY <1>3
    <2>2. Wire(n) \in Seqs /\ Slot(Wire(n)) \in Slots
      <3>1. n \in Nat BY DEF TypeOK
      <3>2. Wire(n) \in Seqs BY <3>1
      <3>3. Wire(n) \in Nat BY <3>2
      <3> QED BY <3>2, <3>3
    <2>3. UNCHANGED <<next, sentBuf, sentCount, totals, headers, released>>
      BY <2>1 DEF ReceivePacket, sendVars, network
    <2>4. recvBuf' \in [Slots -> Seqs \cup {Empty}]
      BY <2>1, <2>2 DEF ReceivePacket, TypeOK
    <2>5. remoteSeq' \in Seqs /\ ackBits' \subseteq 1 .. AckWindow
      BY <2>1, <2>2 DEF ReceivePacket, AckUpdate, ShiftedBits, TypeOK
    <2>6. accepted' \subseteq 0 .. (next - 1)
      BY <2>1 DEF ReceivePacket, TypeOK
    <2>7. late' \in BOOLEAN
      BY <2>1, Zenon DEF ReceivePacket
    <2> QED BY <2>3, <2>4, <2>5, <2>6, <2>7 DEF TypeOK, SentBufOK
  <1>4. CASE SendHeader
    <2>1. UNCHANGED <<next, sentBuf, sentCount, totals, recvBuf, remoteSeq,
                      ackBits, accepted, released, late>>
      BY <1>4 DEF SendHeader, sendVars, recvVars, history
    <2>2. \A h \in headers' : h.ack \in Seqs /\ h.bits \subseteq 1 .. WireBits
      BY <1>4 DEF SendHeader, TypeOK
    <2> QED BY <2>1, <2>2 DEF TypeOK, SentBufOK
  <1>5. CASE \E h \in headers : LoseHeader(h)
    <2>1. UNCHANGED <<next, sentBuf, sentCount, totals, recvBuf, remoteSeq,
                      ackBits, accepted, released, late>> /\ headers' \subseteq headers
      BY <1>5 DEF LoseHeader, sendVars, recvVars, history
    <2> QED BY <2>1 DEF TypeOK, SentBufOK
  <1>6. CASE \E h \in headers : ReceiveHeader(h)
    <2>1. PICK h \in headers : ReceiveHeader(h)
      BY <1>6
    <2> DEFINE acked == AckedSlots(h)
               nacked == NackedSlots(h)
    <2>2. acked \subseteq {k \in Slots : sentBuf[k] # Empty}
      BY DEF AckedSlots, Names
    <2>3. nacked \subseteq {k \in Slots : sentBuf[k] # Empty}
      BY DEF NackedSlots, Names
    <2>4. Cardinality(acked) \in Nat /\ Cardinality(nacked) \in Nat
      BY <2>2, <2>3, SlotSubsets
    <2> HIDE DEF acked, nacked
    <2>5. /\ headers' \subseteq headers
          /\ UNCHANGED <<next, recvBuf, remoteSeq, ackBits, accepted, late>>
          /\ sentBuf' = [k \in Slots |->
                            IF k \in acked THEN Empty
                            ELSE IF k \in nacked THEN [sentBuf[k] EXCEPT !.nacks = @ + 1]
                            ELSE sentBuf[k]]
          /\ sentCount' = sentCount - Cardinality(acked)
          /\ totals' = [totals EXCEPT !.acked = @ + Cardinality(acked),
                                      !.lost  = @ + Cardinality(nacked)]
          /\ released' = released \cup {sentBuf[k].num : k \in acked}
      BY <2>1 DEF ReceiveHeader, recvVars, acked, nacked
    <2>6. \A k \in Slots : sentBuf[k] # Empty =>
              /\ sentBuf[k] \in Records /\ sentBuf[k].num \in 0 .. (next - 1)
              /\ [sentBuf[k] EXCEPT !.nacks = @ + 1] \in Records
              /\ [sentBuf[k] EXCEPT !.nacks = @ + 1].num = sentBuf[k].num
      BY DEF TypeOK, SentBufOK, Records
    <2>7. sentBuf' \in [Slots -> Records \cup {Empty}]
      BY <2>3, <2>5, <2>6 DEF TypeOK
    <2>8. SentBufOK'
      BY <2>3, <2>5, <2>6 DEF SentBufOK
    <2>9. totals' \in [sent : Nat, acked : Nat, lost : Nat] /\ sentCount' \in Int
      <3>1. totals.acked + Cardinality(acked) \in Nat /\ totals.lost + Cardinality(nacked) \in Nat
        <4>1. totals \in [sent : Nat, acked : Nat, lost : Nat]
          BY DEF TypeOK
        <4>2. totals.acked \in Nat /\ totals.lost \in Nat
          BY ONLY <4>1
        <4> QED BY ONLY <2>4, <4>2
      <3>2. sentCount' \in Int
        BY <2>4, <2>5 DEF TypeOK
      <3> QED BY <2>5, <3>1, <3>2 DEF TypeOK
    <2>10. released' \subseteq 0 .. (next - 1)
      <3>1. \A k \in acked : sentBuf[k].num \in 0 .. (next - 1)
        BY <2>2, <2>6
      <3> QED BY <2>5, <3>1 DEF TypeOK
    <2> QED BY <2>5, <2>7, <2>8, <2>9, <2>10 DEF TypeOK
  <1>7. CASE UNCHANGED vars
    BY <1>7 DEF vars, sendVars, recvVars, history, network, TypeOK, SentBufOK
  <1> QED BY <1>1, <1>2, <1>3, <1>4, <1>5, <1>6, <1>7 DEF Next

\* Every variable keeps its type.
THEOREM TypeCorrect == Spec => []TypeOK
  <1>1. Init => TypeInv BY TypeInit
  <1>2. TypeInv /\ [Next]_vars => TypeInv' BY TypeStep
  <1>3. TypeInv => TypeOK BY DEF TypeInv
  <1> QED BY <1>1, <1>2, <1>3, PTL DEF Spec

-----------------------------------------------------------------------------
(* The cached count of the sent ring. *)

Occupied == {k \in Slots : sentBuf[k] # Empty}

\* The count starts at the number of occupied slots: none.
LEMMA AccountingInit == Init => SentAccounting
  <1> SUFFICES ASSUME Init PROVE SentAccounting OBVIOUS
  <1>1. Occupied = {}
    BY DEF Init, Occupied
  <1>2. sentCount = Cardinality(Occupied)
    BY <1>1, FS_EmptySet DEF Init
  <1> QED BY <1>2 DEF Init, SentAccounting, Occupied

\* Inserts, evictions and deletes keep it there.
LEMMA AccountingStep ==
    TypeInv /\ SentAccounting /\ [Next]_vars => SentAccounting'
  <1> SUFFICES ASSUME TypeInv, SentAccounting, [Next]_vars PROVE SentAccounting'
    OBVIOUS
  <1>0. /\ sentCount = Cardinality(Occupied) /\ IsFiniteSet(Occupied)
        /\ Cardinality(Occupied) \in Nat
        /\ totals.acked + sentCount <= totals.sent
        /\ totals.acked \in Nat /\ totals.sent \in Nat
    BY SlotSubsets DEF SentAccounting, Occupied, TypeInv, TypeOK
  <1> SUFFICES /\ sentCount' = Cardinality(Occupied')
               /\ totals'.acked + sentCount' <= totals'.sent
    BY DEF SentAccounting, Occupied
  <1>1. ASSUME UNCHANGED <<sentBuf, sentCount, totals>>
        PROVE  /\ sentCount' = Cardinality(Occupied')
               /\ totals'.acked + sentCount' <= totals'.sent
    BY <1>0, <1>1 DEF Occupied
  <1>2. CASE SendTracked
    <2> DEFINE k == Slot(Wire(next))
    <2>1. k \in Slots
      <3>1. next \in Nat BY DEF TypeInv, TypeOK
      <3>2. Wire(next) \in Seqs BY <3>1, Ranges
      <3>3. Wire(next) \in Nat BY <3>2, Ranges
      <3> QED BY <3>3, Ranges
    <2>2. [num |-> next, nacks |-> 0] # Empty
      <3>1. [num |-> next, nacks |-> 0] \in Records BY DEF Records, TypeInv, TypeOK
      <3> QED BY <3>1, Ranges
    <2>3. /\ sentBuf' = [sentBuf EXCEPT ![k] = [num |-> next, nacks |-> 0]]
          /\ sentCount' = IF k \in Occupied THEN sentCount ELSE sentCount + 1
          /\ totals'.acked = totals.acked /\ totals'.sent = totals.sent + 1
      BY <1>2, <2>1 DEF SendTracked, CountAfterInsert, Occupied, TypeInv, TypeOK
    <2> HIDE DEF k
    <2>4. Occupied' = Occupied \cup {k}
      BY <2>1, <2>2, <2>3 DEF Occupied, TypeInv, TypeOK
    <2>5. Cardinality(Occupied') =
              IF k \in Occupied THEN Cardinality(Occupied) ELSE Cardinality(Occupied) + 1
      BY <1>0, <2>4, FS_AddElement
    <2> QED BY <1>0, <2>3, <2>5
  <1>3. CASE \E h \in headers : ReceiveHeader(h)
    <2>1. PICK h \in headers : ReceiveHeader(h)
      BY <1>3
    <2> DEFINE acked == AckedSlots(h)
    <2>2. acked \subseteq Occupied
      BY DEF AckedSlots, Names, Occupied
    <2>3. NackedSlots(h) \subseteq Occupied
      BY DEF NackedSlots, Names, Occupied
    <2>4. IsFiniteSet(acked) /\ Cardinality(acked) \in Nat
      BY <2>2, SlotSubsets DEF Occupied
    <2>5. \A k \in Occupied : [sentBuf[k] EXCEPT !.nacks = @ + 1] # Empty
      <3>1. \A k \in Occupied : [sentBuf[k] EXCEPT !.nacks = @ + 1] \in Records
        BY DEF Occupied, Records, TypeInv, TypeOK
      <3> QED BY <3>1, Ranges
    <2>6. Occupied' = Occupied \ acked
      BY <2>1, <2>2, <2>3, <2>5 DEF ReceiveHeader, Occupied
    <2>7. Occupied \cap acked = acked
      BY <2>2
    <2> HIDE DEF acked
    <2>8. Cardinality(Occupied') = Cardinality(Occupied) - Cardinality(acked)
      <3>1. Cardinality(Occupied \ acked)
                = Cardinality(Occupied) - Cardinality(Occupied \cap acked)
        BY <1>0, FS_Difference
      <3> QED BY <2>6, <2>7, <3>1
    <2>9. /\ sentCount' = sentCount - Cardinality(acked)
          /\ totals'.acked = totals.acked + Cardinality(acked)
          /\ totals'.sent = totals.sent
      BY <2>1 DEF ReceiveHeader, acked, TypeInv, TypeOK
    <2> QED BY <1>0, <2>4, <2>8, <2>9
  <1>4. CASE SendUntracked
    BY <1>1, <1>4 DEF SendUntracked
  <1>5. CASE \E n \in 0 .. (next - 1) : ReceivePacket(n)
    BY <1>1, <1>5 DEF ReceivePacket, sendVars
  <1>6. CASE SendHeader
    BY <1>1, <1>6 DEF SendHeader, sendVars
  <1>7. CASE \E h \in headers : LoseHeader(h)
    BY <1>1, <1>7 DEF LoseHeader, sendVars
  <1>8. CASE UNCHANGED vars
    BY <1>1, <1>8 DEF vars, sendVars
  <1> QED BY <1>2, <1>3, <1>4, <1>5, <1>6, <1>7, <1>8 DEF Next

\* packetsInFlight is the number of packets in flight, however records are
\* inserted over others, evicted and deleted; and no packet counts twice.
THEOREM CountIsExact == Spec => []SentAccounting
  <1>1. Init => TypeInv /\ SentAccounting
    BY TypeInit, AccountingInit
  <1>2. TypeInv /\ SentAccounting /\ [Next]_vars => TypeInv' /\ SentAccounting'
    BY TypeStep, AccountingStep
  <1> QED BY <1>1, <1>2, PTL DEF Spec

-----------------------------------------------------------------------------
(* The receiver's ack state. *)

\* remoteSeq is the newest packet accepted; the network keeps every arrival
\* less than half the circle from it; a bit is never set for a packet that did
\* not arrive, and below bit AckWindow never missing for one that did.
AckInv ==
    /\ Highest \in accepted \cup {0}
    /\ \A m \in accepted : m <= Highest
    /\ next - Highest <= MaxDelay + 2
    /\ remoteSeq = Wire(Highest)
    /\ \A b \in ackBits : Highest - b \in accepted \cup {0}
    /\ \A b \in 1 .. (AckWindow - 1) : Highest - b \in accepted \cup {0} => b \in ackBits

\* Top is the greatest element, when there is one.
LEMMA TopIs ==
    ASSUME NEW S \in SUBSET Nat, NEW h \in S \cup {0}, \A m \in S : m <= h
    PROVE  Top(S) = h
  <1>1. \A c \in S \cup {0} : (\A m \in S : m <= c) => c = h
    OBVIOUS
  <1> QED BY <1>1 DEF Top

\* Nothing has arrived, and packet 0 is taken to be the newest that did.
LEMMA AckInit == Init => AckInv
  <1> SUFFICES ASSUME Init PROVE AckInv OBVIOUS
  <1>1. Top({}) = 0
    BY TopIs
  <1>2. Highest = 0 /\ accepted = {} /\ next = 0 /\ ackBits = {} /\ remoteSeq = 0
    BY <1>1 DEF Init, Highest, initialSeq
  <1>3. Wire(0) = 0
    <2> DEFINE M == SeqSpace
    <2>1. M \in Nat \ {0} BY Ranges
    <2> HIDE DEF M
    <2>2. 0 % M = 0 BY <2>1, Z3
    <2> QED BY <2>2 DEF M, Wire
  <1> QED BY <1>2, <1>3, RingAssumption DEF AckInv

\* An arrival newer than all others shifts the bits, an older one sets its own.
LEMMA AckReceive ==
    ASSUME TypeInv, AckInv, NEW n \in 0 .. (next - 1), ReceivePacket(n)
    PROVE  AckInv'
  <1> DEFINE h == Highest
  <1> USE RingAssumption, HalfAssumption
  <1>1. /\ accepted \subseteq 0 .. (next - 1) /\ next \in Nat /\ n \in Nat
        /\ ackBits \subseteq 1 .. AckWindow
    BY DEF TypeInv, TypeOK
  <1>2. /\ h \in accepted \cup {0} /\ h \in Nat /\ \A m \in accepted : m <= h
        /\ next - h <= MaxDelay + 2
        /\ remoteSeq = Wire(h)
        /\ \A b \in ackBits : h - b \in accepted \cup {0}
        /\ \A b \in 1 .. (AckWindow - 1) : h - b \in accepted \cup {0} => b \in ackBits
    BY <1>1 DEF AckInv
  <1>3. h < next \/ (h = 0 /\ accepted = {})
    BY <1>1, <1>2
  <1> HIDE DEF h
  <1>4. /\ next' = next /\ accepted' = accepted \cup {n}
        /\ next - n <= MaxDelay + 1
        /\ AckUpdate(Wire(n))
    BY DEF ReceivePacket, sendVars
  <1>5. /\ SeqGt(Wire(n), Wire(h)) <=> n > h
        /\ SeqDiff(Wire(n), Wire(h)) = n - h
        /\ SeqDiff(Wire(h), Wire(n)) = h - n
    <2>1. n - h < Half /\ h - n < Half
      BY <1>1, <1>2, <1>3, <1>4
    <2> QED BY <1>1, <1>2, <2>1, WindowOrder
  <1>6. CASE n > h
    <2>1. Highest' = n
      <3>1. \A m \in accepted \cup {n} : m <= n
        BY <1>1, <1>2, <1>6
      <3> QED BY <1>1, <1>4, <3>1, TopIs DEF Highest
    <2>2. remoteSeq' = Wire(n) /\ ackBits' = ShiftedBits(n - h)
      BY <1>2, <1>4, <1>5, <1>6 DEF AckUpdate
    <2>3. \A b \in ackBits' : n - b \in accepted' \cup {0}
      <3> SUFFICES ASSUME NEW b \in ackBits' PROVE n - b \in accepted' \cup {0}
        OBVIOUS
      <3>1. b \in 1 .. AckWindow /\ (b = n - h \/ b - (n - h) \in ackBits)
        BY <2>2, <1>1, <1>2 DEF ShiftedBits
      <3>2. CASE b = n - h
        BY <3>2, <1>1, <1>2, <1>4
      <3>3. CASE b - (n - h) \in ackBits
        <4>1. h - (b - (n - h)) \in accepted \cup {0}
          BY <1>2, <3>3
        <4>2. h - (b - (n - h)) = n - b
          BY <1>1, <1>2, <3>1
        <4> QED BY <4>1, <4>2, <1>4
      <3> QED BY <3>1, <3>2, <3>3
    <2>4. \A b \in 1 .. (AckWindow - 1) : n - b \in accepted' \cup {0} => b \in ackBits'
      <3> SUFFICES ASSUME NEW b \in 1 .. (AckWindow - 1), n - b \in accepted' \cup {0}
                   PROVE  b \in ackBits'
        OBVIOUS
      <3>1. n - b \in accepted \cup {0} /\ n - b <= h
        BY <1>1, <1>2, <1>4
      <3>2. b >= n - h /\ n - h \in Nat
        BY <1>1, <1>2, <1>6, <3>1
      <3>3. CASE b = n - h
        BY <2>2, <3>2, <3>3 DEF ShiftedBits
      <3>4. CASE b > n - h
        <4>1. b - (n - h) \in 1 .. (AckWindow - 1) /\ h - (b - (n - h)) = n - b
          BY <1>1, <1>2, <1>6, <3>2, <3>4
        <4>2. b - (n - h) \in ackBits
          BY <1>2, <3>1, <4>1
        <4> QED BY <2>2, <3>2, <3>4, <4>2 DEF ShiftedBits
      <3> QED BY <1>1, <1>2, <3>2, <3>3, <3>4
    <2> QED BY <1>1, <1>2, <1>4, <1>6, <2>1, <2>2, <2>3, <2>4 DEF AckInv
  <1>7. CASE n <= h
    <2>1. Highest' = h
      <3>1. \A m \in accepted \cup {n} : m <= h
        BY <1>1, <1>2, <1>7
      <3> QED BY <1>1, <1>2, <1>4, <3>1, TopIs DEF Highest
    <2>2. /\ remoteSeq' = remoteSeq
          /\ ackBits' = IF h - n \in 1 .. AckWindow THEN ackBits \cup {h - n} ELSE ackBits
      BY <1>1, <1>2, <1>4, <1>5, <1>7 DEF AckUpdate
    <2>3. \A b \in ackBits' : h - b \in accepted' \cup {0}
      <3>1. h - (h - n) = n
        BY <1>1, <1>2
      <3> QED BY <1>2, <1>4, <2>2, <3>1
    <2>4. \A b \in 1 .. (AckWindow - 1) : h - b \in accepted' \cup {0} => b \in ackBits'
      <3> SUFFICES ASSUME NEW b \in 1 .. (AckWindow - 1), h - b \in accepted' \cup {0}
                   PROVE  b \in ackBits'
        OBVIOUS
      <3>1. CASE h - b \in accepted \cup {0}
        BY <1>2, <2>2, <3>1
      <3>2. CASE h - b = n
        <4>1. b = h - n /\ b \in 1 .. AckWindow
          BY <1>1, <1>2, <3>2
        <4> QED BY <2>2, <4>1
      <3> QED BY <1>4, <3>1, <3>2
    <2>5. /\ h \in accepted' \cup {0} /\ next' - h <= MaxDelay + 2
          /\ \A m \in accepted' : m <= h
          /\ remoteSeq' = Wire(h)
      BY <1>1, <1>2, <1>4, <1>7, <2>2
    <2> QED BY <2>1, <2>3, <2>4, <2>5 DEF AckInv
  <1> QED BY <1>1, <1>2, <1>6, <1>7

\* So does every action.
LEMMA AckStep == TypeInv /\ AckInv /\ [Next]_vars => AckInv'
  <1> SUFFICES ASSUME TypeInv, AckInv, [Next]_vars PROVE AckInv' OBVIOUS
  <1> USE RingAssumption
  <1>0. Highest \in Nat /\ next \in Nat
    <2>1. accepted \subseteq 0 .. (next - 1) /\ next \in Nat
      BY DEF TypeInv, TypeOK
    <2>2. Highest \in accepted \cup {0}
      BY DEF AckInv
    <2> QED BY <2>1, <2>2
  <1>1. ASSUME UNCHANGED <<accepted, remoteSeq, ackBits>>,
               next' = next \/ (next' = next + 1 /\ next - Highest <= MaxDelay + 1)
        PROVE  AckInv'
    <2>1. Highest' = Highest BY <1>1 DEF Highest
    <2> QED BY <1>0, <1>1, <2>1 DEF AckInv
  <1>2. CASE SendUntracked \/ SendTracked
    BY <1>1, <1>2 DEF SendUntracked, SendTracked, CanSend, recvVars, history
  <1>3. CASE \E n \in 0 .. (next - 1) : ReceivePacket(n)
    BY <1>3, AckReceive
  <1>4. CASE SendHeader
    BY <1>1, <1>4 DEF SendHeader, sendVars, recvVars, history
  <1>5. CASE \E h \in headers : LoseHeader(h)
    BY <1>1, <1>5 DEF LoseHeader, sendVars, recvVars, history
  <1>6. CASE \E h \in headers : ReceiveHeader(h)
    BY <1>1, <1>6 DEF ReceiveHeader, recvVars
  <1>7. CASE UNCHANGED vars
    BY <1>1, <1>7 DEF vars, sendVars, recvVars, history
  <1> QED BY <1>2, <1>3, <1>4, <1>5, <1>6, <1>7 DEF Next

\* The ack pair a header would carry says exactly which of the last WireBits
\* packets arrived, on every circle and for every ring, whatever the network
\* reorders or loses within MaxDelay.
THEOREM AckExact == Spec => []AckStateExact
  <1>1. Init => TypeInv /\ AckInv
    BY TypeInit, AckInit
  <1>2. TypeInv /\ AckInv /\ [Next]_vars => TypeInv' /\ AckInv'
    BY TypeStep, AckStep
  <1>3. AckInv => AckStateExact
    BY RingAssumption DEF AckInv, AckStateExact
  <1> QED BY <1>1, <1>2, <1>3, PTL DEF Spec

-----------------------------------------------------------------------------
(* Packets are accepted once, while nothing older than the ring arrives.    *)

\* The circle is a whole number of rings, so a packet keeps its slot however
\* often its number wraps.
LEMMA SlotQuotient ==
    ASSUME NEW n \in Nat
    PROVE  \E a \in Nat : n = Ring * a + Slot(Wire(n))
  <1> DEFINE M == SeqSpace
             c == M \div Ring
             w == Wire(n)
             b == w \div Ring
  <1>1. PICK q \in Nat : n = M * q + w
    BY WireQuotient
  <1>2. M \in Nat /\ Ring \in Nat \ {0} /\ M % Ring = 0
    BY Ranges, RingAssumption
  <1>3. w \in Nat
    BY Ranges
  <1> HIDE DEF M, w
  <1>4. c \in Nat /\ M = Ring * c
    BY <1>2, Z3
  <1>5. b \in Nat /\ w = Ring * b + (w % Ring)
    BY <1>2, <1>3, Z3
  <1> HIDE DEF c, b
  <1>6. c * q + b \in Nat
    BY <1>4, <1>5, <1>1
  <1>7. n = Ring * (c * q + b) + (w % Ring)
    <2>1. M * q = Ring * (c * q) /\ c * q \in Nat
      BY <1>1, <1>2, <1>4, Z3
    <2>2. Ring * (c * q + b) = Ring * (c * q) + Ring * b
      BY <1>2, <1>5, <2>1, Z3
    <2>3. Ring * (c * q) \in Nat /\ Ring * b \in Nat /\ w % Ring \in Nat
      BY <1>2, <1>3, <1>5, <2>1, Z3
    <2> QED BY <1>1, <1>5, <2>1, <2>2, <2>3
  <1> QED BY <1>6, <1>7 DEF Slot, w

\* Two packets less than a ring apart use different slots.
LEMMA SlotsDiffer ==
    ASSUME NEW n \in Nat, NEW m \in Nat, n > m, n - m < Ring
    PROVE  Slot(Wire(n)) # Slot(Wire(m))
  <1> SUFFICES ASSUME Slot(Wire(n)) = Slot(Wire(m)) PROVE FALSE OBVIOUS
  <1>1. PICK a \in Nat : n = Ring * a + Slot(Wire(n))
    BY SlotQuotient
  <1>2. PICK b \in Nat : m = Ring * b + Slot(Wire(m))
    BY SlotQuotient
  <1>3. Ring \in Nat \ {0} /\ Slot(Wire(n)) \in Nat
    <2>1. Wire(n) \in Seqs BY Ranges
    <2>2. Wire(n) \in Nat BY <2>1, Ranges
    <2> QED BY <2>2, Ranges, RingAssumption DEF Slots
  <1>4. Ring * a \in Nat /\ Ring * b \in Nat
    BY <1>3
  <1>5. Ring * a - Ring * b = n - m
    BY <1>1, <1>2, <1>3, <1>4
  <1>6. CASE a >= b + 1
    <2>1. Ring * a >= Ring * (b + 1) /\ Ring * (b + 1) = Ring * b + Ring
      BY <1>3, <1>6, Z3
    <2> QED BY <1>3, <1>4, <1>5, <2>1
  <1>7. CASE a <= b
    <2>1. Ring * a <= Ring * b
      BY <1>3, <1>7, Z3
    <2> QED BY <1>4, <1>5, <2>1
  <1> QED BY <1>6, <1>7

\* What arrived within MaxSeqDist of the newest is still in the receive ring.
DedupInv ==
    /\ repeated = {}
    /\ \A m \in accepted :
           Highest - m <= MaxSeqDist => recvBuf[Slot(Wire(m))] = Wire(m)

\* An arrival within MaxSeqDist is told from a repetition, and what it displaces
\* from the ring lies beyond MaxSeqDist.
LEMMA DedupReceive ==
    ASSUME TypeInv, AckInv, DedupInv, MaxSeqDist < Ring,
           NEW n \in 0 .. (next - 1), ReceivePacket(n)
    PROVE  DedupInv'
  <1> DEFINE h == Highest
             h1 == Highest'
             slot(m) == Slot(Wire(m))
  <1> USE RingAssumption, HalfAssumption
  <1>1. /\ accepted \subseteq 0 .. (next - 1) /\ next \in Nat /\ n \in Nat
        /\ recvBuf \in [Slots -> Seqs \cup {Empty}]
    BY DEF TypeInv, TypeOK
  <1>2. /\ h \in accepted \cup {0} /\ h \in Nat /\ \A m \in accepted : m <= h
        /\ next - h <= MaxDelay + 2 /\ remoteSeq = Wire(h)
    BY <1>1 DEF AckInv
  <1>3. \A m \in Nat : slot(m) \in Slots
    <2> TAKE m \in Nat
    <2>1. Wire(m) \in Seqs BY Ranges
    <2>2. Wire(m) \in Nat BY <2>1, Ranges
    <2> QED BY <2>2, Ranges
  <1>4. h1 = IF n > h THEN n ELSE h
    <2>1. accepted' = accepted \cup {n} BY DEF ReceivePacket
    <2>2. CASE n > h
      <3>1. \A m \in accepted \cup {n} : m <= n
        <4>1. \A m \in accepted : m \in Nat /\ m <= h BY <1>1, <1>2
        <4> HIDE DEF h
        <4> QED BY <1>1, <1>2, <2>2, <4>1
      <3> QED BY <1>1, <2>1, <2>2, <3>1, TopIs DEF Highest
    <2>3. CASE ~(n > h)
      <3>1. \A m \in accepted \cup {n} : m <= h
        <4>1. n <= h BY <1>1, <1>2, <2>3
        <4> QED BY <1>2, <4>1
      <3> QED BY <1>1, <1>2, <2>1, <2>3, <3>1, TopIs DEF Highest
    <2> QED BY <2>2, <2>3
  <1> HIDE DEF h, h1
  <1>5. n - h <= MaxSeqDist /\ h - n <= MaxSeqDist
    <2>1. SeqDist(Wire(n), Wire(h)) <= MaxSeqDist /\ next - n <= MaxDelay + 1
      BY <1>2 DEF ReceivePacket
    <2>2. n - h < Half /\ h - n < Half
      BY <1>1, <1>2, <2>1
    <2>3. SeqDiff(Wire(n), Wire(h)) = n - h
      BY <1>1, <1>2, <2>2, WindowOrder
    <2> QED BY <1>1, <1>2, <2>1, <2>3 DEF SeqDist
  <1>6. n \notin accepted
    <2> SUFFICES ASSUME n \in accepted PROVE FALSE OBVIOUS
    <2>1. recvBuf[slot(n)] = Wire(n)
      BY <1>5 DEF DedupInv, h
    <2> QED BY <2>1 DEF ReceivePacket, RecvBufExists
  <1>7. repeated' = {}
    BY <1>6 DEF ReceivePacket, DedupInv
  <1>8. ASSUME NEW m \in accepted', h1 - m <= MaxSeqDist
        PROVE  recvBuf'[slot(m)] = Wire(m)
    <2>1. recvBuf' = [recvBuf EXCEPT ![slot(n)] = Wire(n)] /\ accepted' = accepted \cup {n}
      BY DEF ReceivePacket
    <2>2. CASE m = n
      BY <1>1, <1>3, <2>1, <2>2
    <2>3. CASE m # n
      <3>1. m \in accepted /\ m \in Nat /\ m <= h
        <4>1. m \in accepted BY <1>8, <2>1, <2>3
        <4> QED BY <1>1, <1>2, <4>1
      <3>2. recvBuf[slot(m)] = Wire(m)
        <4>1. h - m <= MaxSeqDist BY <1>1, <1>2, <1>4, <1>8, <3>1
        <4> QED BY <3>1, <4>1 DEF DedupInv, h
      <3>3. n - m < Ring /\ m - n < Ring
        BY <1>1, <1>2, <1>4, <1>5, <1>8, <3>1
      <3>4. slot(m) # slot(n)
        <4>1. CASE m > n BY <1>1, <3>1, <3>3, <4>1, SlotsDiffer
        <4>2. CASE n > m BY <1>1, <3>1, <3>3, <4>2, SlotsDiffer
        <4> QED BY <1>1, <2>3, <3>1, <4>1, <4>2
      <3> QED BY <1>1, <1>3, <2>1, <3>1, <3>2, <3>4
    <2> QED BY <2>2, <2>3
  <1> QED BY <1>7, <1>8 DEF DedupInv, h1

\* Every action keeps the receive ring's promise.
LEMMA DedupStep ==
    ASSUME MaxSeqDist < Ring
    PROVE  TypeInv /\ AckInv /\ DedupInv /\ [Next]_vars => DedupInv'
  <1> SUFFICES ASSUME TypeInv, AckInv, DedupInv, [Next]_vars PROVE DedupInv' OBVIOUS
  <1>1. ASSUME UNCHANGED <<accepted, repeated, recvBuf>> PROVE DedupInv'
    BY <1>1 DEF DedupInv, Highest
  <1>2. CASE \E n \in 0 .. (next - 1) : ReceivePacket(n)
    BY <1>2, DedupReceive
  <1>3. CASE SendUntracked \/ SendTracked
    BY <1>1, <1>3 DEF SendUntracked, SendTracked, recvVars, history
  <1>4. CASE SendHeader \/ \E h \in headers : LoseHeader(h)
    BY <1>1, <1>4 DEF SendHeader, LoseHeader, recvVars, history
  <1>5. CASE \E h \in headers : ReceiveHeader(h)
    BY <1>1, <1>5 DEF ReceiveHeader, recvVars
  <1>6. CASE UNCHANGED vars
    BY <1>1, <1>6 DEF vars, recvVars, history
  <1> QED BY <1>2, <1>3, <1>4, <1>5, <1>6 DEF Next

\* As long as nothing older than the ring was accepted, what was numbered within a ring
\* of the next packet is still in the receive ring.
EarlyInv ==
    ~late => /\ repeated = {}
             /\ \A m \in accepted : next - m <= Ring => recvBuf[Slot(Wire(m))] = Wire(m)

\* An arrival that is not late is told from a repetition, and what it displaces from the
\* ring is a ring older or newer than itself.
LEMMA EarlyReceive ==
    ASSUME TypeInv, EarlyInv, NEW n \in 0 .. (next - 1), ReceivePacket(n)
    PROVE  EarlyInv'
  <1> SUFFICES ASSUME ~late'
               PROVE  /\ repeated' = {}
                      /\ \A m \in accepted' : next' - m <= Ring => recvBuf'[Slot(Wire(m))] = Wire(m)
    BY DEF EarlyInv
  <1>1. /\ accepted \subseteq 0 .. (next - 1) /\ next \in Nat /\ n \in Nat
        /\ recvBuf \in [Slots -> Seqs \cup {Empty}]
    BY DEF TypeInv, TypeOK
  <1>2. ~late /\ ~(next - n > Ring)
    BY DEF ReceivePacket
  <1>3. next - n <= Ring /\ Ring \in Nat
    BY <1>1, <1>2, RingAssumption
  <1>4. /\ next' = next /\ accepted' = accepted \cup {n}
        /\ recvBuf' = [recvBuf EXCEPT ![Slot(Wire(n))] = Wire(n)]
    BY DEF ReceivePacket, sendVars
  <1>5. /\ repeated = {}
        /\ \A m \in accepted : next - m <= Ring => recvBuf[Slot(Wire(m))] = Wire(m)
    BY <1>2 DEF EarlyInv
  <1>6. n \notin accepted
    BY <1>3, <1>5 DEF ReceivePacket, RecvBufExists
  <1>7. repeated' = {}
    BY <1>5, <1>6 DEF ReceivePacket
  <1>8. \A m \in Nat : Slot(Wire(m)) \in Slots
    <2> TAKE m \in Nat
    <2>1. Wire(m) \in Seqs BY Ranges
    <2>2. Wire(m) \in Nat BY <2>1, Ranges
    <2> QED BY <2>2, Ranges
  <1>9. ASSUME NEW m \in accepted', next' - m <= Ring
        PROVE  recvBuf'[Slot(Wire(m))] = Wire(m)
    <2>1. CASE m = n
      BY <1>1, <1>4, <1>8, <2>1
    <2>2. CASE m # n
      <3>1. m \in accepted /\ m \in Nat /\ m < next /\ next - m <= Ring
        BY <1>1, <1>4, <1>9, <2>2
      <3>2. recvBuf[Slot(Wire(m))] = Wire(m)
        BY <1>5, <3>1
      <3>3. n - m < Ring /\ m - n < Ring
        BY <1>1, <1>3, <3>1
      <3>4. Slot(Wire(m)) # Slot(Wire(n))
        <4>1. CASE m > n BY <1>1, <3>1, <3>3, <4>1, SlotsDiffer
        <4>2. CASE n > m BY <1>1, <3>1, <3>3, <4>2, SlotsDiffer
        <4> QED BY <1>1, <2>2, <3>1, <4>1, <4>2
      <3> QED BY <1>1, <1>4, <1>8, <3>1, <3>2, <3>4
    <2> QED BY <2>1, <2>2
  <1> QED BY <1>7, <1>9

\* Every action keeps the receive ring's promise; a new number only ends it for an old one.
LEMMA EarlyStep == TypeInv /\ EarlyInv /\ [Next]_vars => EarlyInv'
  <1> SUFFICES ASSUME TypeInv, EarlyInv, [Next]_vars PROVE EarlyInv' OBVIOUS
  <1>0. next \in Nat /\ accepted \subseteq Nat /\ Ring \in Nat
    BY RingAssumption DEF TypeInv, TypeOK
  <1>1. ASSUME UNCHANGED <<accepted, repeated, late, recvBuf>>, next' = next \/ next' = next + 1
        PROVE  EarlyInv'
    BY <1>0, <1>1 DEF EarlyInv
  <1>2. CASE \E n \in 0 .. (next - 1) : ReceivePacket(n)
    BY <1>2, EarlyReceive
  <1>3. CASE SendUntracked \/ SendTracked
    BY <1>1, <1>3 DEF SendUntracked, SendTracked, recvVars, history
  <1>4. CASE SendHeader \/ \E h \in headers : LoseHeader(h)
    BY <1>1, <1>4 DEF SendHeader, LoseHeader, sendVars, recvVars, history
  <1>5. CASE \E h \in headers : ReceiveHeader(h)
    BY <1>1, <1>5 DEF ReceiveHeader, recvVars
  <1>6. CASE UNCHANGED vars
    BY <1>1, <1>6 DEF vars, sendVars, recvVars, history
  <1> QED BY <1>2, <1>3, <1>4, <1>5, <1>6 DEF Next

\* No packet is accepted twice, on any circle, in any ring and at any distance at which
\* packets are still looked at (the code's defaults are a ring of 256 and a distance of
\* 32768): until one is accepted that is older than the ring spans, and even then if the
\* distance is less than the ring.
THEOREM AcceptedAtMostOnce == Spec => []AcceptedOnce
  <1>1. Init => TypeInv /\ AckInv /\ EarlyInv /\ DedupInv
    BY TypeInit, AckInit DEF Init, EarlyInv, DedupInv
  <1>2. TypeInv /\ AckInv /\ EarlyInv /\ [Next]_vars => (TypeInv /\ AckInv /\ EarlyInv)'
    BY TypeStep, AckStep, EarlyStep
  <1>3. CASE MaxSeqDist < Ring
    <2>1. TypeInv /\ AckInv /\ DedupInv /\ [Next]_vars => (TypeInv /\ AckInv /\ DedupInv)'
      BY <1>3, TypeStep, AckStep, DedupStep
    <2>2. DedupInv => AcceptedOnce
      BY DEF DedupInv, AcceptedOnce
    <2> QED BY <1>1, <2>1, <2>2, PTL DEF Spec
  <1>4. CASE ~(MaxSeqDist < Ring)
    <2>1. EarlyInv => AcceptedOnce
      BY <1>4 DEF EarlyInv, AcceptedOnce
    <2> QED BY <1>1, <1>2, <2>1, PTL DEF Spec
  <1> QED BY <1>3, <1>4

-----------------------------------------------------------------------------
(* What the sender learns from headers, until its numbers wrap.            *)

\* A header is the receiver's word at the time it was written: everything it
\* acknowledges had arrived, everything it denies had not.
HeaderInv ==
    /\ \A h \in headers :
        /\ h.ack \in (accepted \cup {0}) \cap (0 .. (SeqSpace - 1))
        /\ \A m \in h.seen : m \in Nat /\ m <= h.ack
        /\ \A d \in 1 .. WireBits :
               /\ d \in h.bits => h.ack - d \in accepted \cup {0}
               /\ h.ack - d \in h.seen => d \in h.bits
    /\ released \subseteq accepted \cup {0}

\* The residue of a number on the circle, or just before it.
LEMMA Residue ==
    ASSUME NEW i \in Int, -SeqSpace <= i, i < SeqSpace
    PROVE  i % SeqSpace = IF i >= 0 THEN i ELSE i + SeqSpace
  <1> DEFINE M == SeqSpace
  <1>1. M \in Nat \ {0}
    BY Ranges
  <1> HIDE DEF M
  <1>2. \A j \in Int : -M <= j /\ j < M => j % M = IF j >= 0 THEN j ELSE j + M
    BY <1>1, Z3
  <1> QED BY <1>2 DEF M

\* The ack bits reach less than once around the circle.
LEMMA WireBitsBound == WireBits \in Nat /\ WireBits < SeqSpace
  <1> DEFINE M == SeqSpace
  <1>1. M \in Nat \ {0} /\ Ring \in Nat \ {0} /\ M % Ring = 0 /\ WireBits < Ring
        /\ WireBits \in Nat
    BY Ranges, RingAssumption
  <1> HIDE DEF M
  <1>2. Ring <= M
    BY <1>1, Z3
  <1> QED BY <1>1, <1>2 DEF M

\* Before the wrap a number on the wire names one packet.
LEMMA NumOfWire ==
    ASSUME TypeInv, MaxPackets <= SeqSpace, NEW k \in Slots, NEW s \in Seqs,
           Names(k, s)
    PROVE  sentBuf[k].num = s
  <1>1. sentBuf[k].num \in Nat /\ sentBuf[k].num < next /\ next <= MaxPackets
    BY RingAssumption DEF TypeInv, TypeOK, SentBufOK, Names, Records
  <1>2. sentBuf[k].num \in Int /\ sentBuf[k].num < SeqSpace /\ sentBuf[k].num >= 0
    BY <1>1, Ranges, RingAssumption DEF TypeInv, TypeOK
  <1>3. Wire(sentBuf[k].num) = sentBuf[k].num
    BY <1>2, Residue, Ranges DEF Wire
  <1> QED BY <1>3 DEF Names

\* A new header repeats the receiver's ack state.
LEMMA HeaderSend ==
    ASSUME TypeInv, AckInv, HeaderInv, MaxPackets <= SeqSpace, SendHeader
    PROVE  HeaderInv'
  <1> USE RingAssumption, HalfAssumption
  <1>1. accepted \subseteq 0 .. (next - 1) /\ next \in 0 .. MaxPackets
    BY DEF TypeInv, TypeOK
  <1>2. SeqSpace \in Nat \ {0}
    BY Ranges
  <1>3. Highest \in Nat /\ Highest < SeqSpace /\ Highest \in accepted \cup {0}
    BY <1>1, <1>2 DEF AckInv
  <1>4. remoteSeq = Highest
    <2>1. Wire(Highest) = Highest BY <1>2, <1>3, Residue DEF Wire
    <2> QED BY <2>1 DEF AckInv
  <1> DEFINE g == [ack |-> remoteSeq, bits |-> ackBits \cap (1 .. WireBits),
                   seen |-> accepted, at |-> next]
  <1>5. UNCHANGED <<accepted, released>> /\ headers' = headers \cup {g}
    BY DEF SendHeader, sendVars, recvVars, history
  <1>6. /\ g.ack = Highest /\ g.seen = accepted /\ g.bits = ackBits \cap (1 .. WireBits)
    BY <1>4
  <1> HIDE DEF g
  <1>7. g.ack \in (accepted \cup {0}) \cap (0 .. (SeqSpace - 1))
    BY <1>2, <1>3, <1>6
  <1>8. \A m \in g.seen : m \in Nat /\ m <= g.ack
    <2>1. \A m \in accepted : m \in Nat /\ m <= Highest
      BY <1>1 DEF AckInv
    <2> QED BY <1>6, <2>1
  <1>9. \A d \in 1 .. WireBits :
            /\ d \in g.bits => g.ack - d \in accepted \cup {0}
            /\ g.ack - d \in g.seen => d \in g.bits
    BY <1>6 DEF AckInv
  <1> QED BY <1>5, <1>7, <1>8, <1>9 DEF HeaderInv

\* A header releases only what it acknowledges.
LEMMA HeaderReceive ==
    ASSUME TypeInv, AckInv, HeaderInv, MaxPackets <= SeqSpace,
           NEW h \in headers, ReceiveHeader(h)
    PROVE  HeaderInv'
  <1> USE RingAssumption, HalfAssumption
  <1>1. /\ UNCHANGED accepted /\ headers' \subseteq headers
        /\ released' = released \cup {sentBuf[k].num : k \in AckedSlots(h)}
    BY DEF ReceiveHeader
  <1>2. h.ack \in accepted \cup {0} /\ h.ack \in 0 .. (SeqSpace - 1) /\ SeqSpace \in Nat
    BY Ranges DEF HeaderInv
  <1>3. ASSUME NEW k \in AckedSlots(h) PROVE sentBuf[k].num \in accepted \cup {0}
    <2>1. k \in Slots
      BY DEF AckedSlots
    <2>2. CASE Names(k, h.ack)
      <3>1. h.ack \in Seqs BY <1>2 DEF Seqs
      <3> QED BY <1>2, <2>1, <2>2, <3>1, NumOfWire
    <2>3. CASE \E d \in h.bits : Names(k, (h.ack - d) % SeqSpace)
      <3>1. PICK d \in h.bits : Names(k, (h.ack - d) % SeqSpace)
        BY <2>3
      <3>2. d \in 1 .. WireBits
        BY DEF TypeInv, TypeOK
      <3>3. h.ack - d \in accepted \cup {0}
        BY <3>2 DEF HeaderInv
      <3>4. h.ack - d \in Int /\ h.ack - d >= 0 /\ h.ack - d < SeqSpace
        BY <1>2, <3>2, <3>3 DEF TypeInv, TypeOK
      <3>5. (h.ack - d) % SeqSpace = h.ack - d
        BY <1>2, <3>4, Residue
      <3>6. h.ack - d \in Seqs
        BY <1>2, <3>4 DEF Seqs
      <3> QED BY <2>1, <3>1, <3>3, <3>5, <3>6, NumOfWire
    <2> QED BY <2>2, <2>3 DEF AckedSlots
  <1> QED BY <1>1, <1>3 DEF HeaderInv

\* Every action keeps the headers truthful.
LEMMA HeaderStep ==
    ASSUME MaxPackets <= SeqSpace
    PROVE  TypeInv /\ AckInv /\ HeaderInv /\ [Next]_vars => HeaderInv'
  <1> SUFFICES ASSUME TypeInv, AckInv, HeaderInv, [Next]_vars PROVE HeaderInv' OBVIOUS
  <1>1. ASSUME accepted \subseteq accepted', headers' \subseteq headers,
               UNCHANGED released
        PROVE  HeaderInv'
    BY <1>1 DEF HeaderInv
  <1>2. CASE \E n \in 0 .. (next - 1) : ReceivePacket(n)
    BY <1>1, <1>2 DEF ReceivePacket, network
  <1>3. CASE SendUntracked \/ SendTracked
    BY <1>1, <1>3 DEF SendUntracked, SendTracked, network, history
  <1>4. CASE SendHeader
    BY <1>4, HeaderSend
  <1>5. CASE \E h \in headers : LoseHeader(h)
    BY <1>1, <1>5 DEF LoseHeader, history
  <1>6. CASE \E h \in headers : ReceiveHeader(h)
    BY <1>6, HeaderReceive
  <1>7. CASE UNCHANGED vars
    BY <1>1, <1>7 DEF vars, network, history
  <1> QED BY <1>2, <1>3, <1>4, <1>5, <1>6, <1>7 DEF Next

\* A header counts against a packet only if the packet had not arrived.
LEMMA NackStep ==
    ASSUME MaxPackets <= SeqSpace, TypeInv, HeaderInv, [Next]_vars,
           NEW k \in Slots, sentBuf[k] # Empty, sentBuf'[k] # Empty,
           sentBuf'[k].nacks > sentBuf[k].nacks
    PROVE  \E h \in headers \ headers' : sentBuf[k].num \notin h.seen
  <1>0. sentBuf[k].nacks \in Nat
    BY DEF TypeInv, TypeOK, Records
  <1>1. CASE \E h \in headers : ReceiveHeader(h)
    <2>1. PICK h \in headers : ReceiveHeader(h)
      BY <1>1
    <2>2. h \in headers \ headers'
      BY <2>1 DEF ReceiveHeader
    <2>3. k \in NackedSlots(h)
      BY <1>0, <2>1 DEF ReceiveHeader
    <2>4. PICK d \in (1 .. WireBits) \ h.bits : Names(k, (h.ack - d) % SeqSpace)
      BY <2>3 DEF NackedSlots
    <2>5. /\ h.ack \in 0 .. (SeqSpace - 1) /\ h.ack - d \notin h.seen
          /\ \A m \in h.seen : m \in Nat /\ m <= h.ack
      BY DEF HeaderInv
    <2>6. /\ h.ack \in Nat /\ d \in Nat \ {0} /\ d < SeqSpace /\ SeqSpace \in Nat
          /\ h.ack < SeqSpace
      BY <2>5, WireBitsBound, Ranges
    <2> DEFINE i == h.ack - d
    <2>7. i \in Int /\ -SeqSpace <= i /\ i < SeqSpace
      BY <2>6
    <2>8. i % SeqSpace = (IF i >= 0 THEN i ELSE i + SeqSpace) /\ i % SeqSpace \in Seqs
      BY <2>7, Residue, Ranges
    <2>9. sentBuf[k].num = i % SeqSpace
      BY <2>4, <2>8, NumOfWire
    <2>10. i % SeqSpace \notin h.seen
      BY <2>5, <2>6, <2>8
    <2> QED BY <2>2, <2>9, <2>10
  <1>2. CASE SendTracked
    <2>1. [num |-> next, nacks |-> 0].nacks = 0
      OBVIOUS
    <2> QED BY <1>0, <1>2, <2>1 DEF SendTracked, TypeInv, TypeOK
  <1>3. ASSUME UNCHANGED sentBuf PROVE FALSE
    BY <1>0, <1>3
  <1> QED BY <1>1, <1>2, <1>3 DEF Next, SendUntracked, ReceivePacket, SendHeader,
          LoseHeader, vars, sendVars

\* Until the numbers wrap, the sender takes for acknowledged only what arrived.
THEOREM AckedArrived == MaxPackets <= SeqSpace => (Spec => []AckedWasReceived)
  <1> SUFFICES ASSUME MaxPackets <= SeqSpace PROVE Spec => []AckedWasReceived OBVIOUS
  <1>1. Init => TypeInv /\ AckInv /\ HeaderInv
    <2>1. Init => HeaderInv BY DEF Init, HeaderInv
    <2> QED BY <2>1, TypeInit, AckInit
  <1>2. TypeInv /\ AckInv /\ HeaderInv /\ [Next]_vars => (TypeInv /\ AckInv /\ HeaderInv)'
    BY TypeStep, AckStep, HeaderStep
  <1>3. HeaderInv => AckedWasReceived
    BY DEF HeaderInv, AckedWasReceived
  <1> QED BY <1>1, <1>2, <1>3, PTL DEF Spec

\* And what it counts as lost had not arrived when the receiver said so.
THEOREM NackedWasMissing == MaxPackets <= SeqSpace => (Spec => NackMeansMissing)
  <1> SUFFICES ASSUME MaxPackets <= SeqSpace PROVE Spec => NackMeansMissing OBVIOUS
  <1> DEFINE Inv == TypeInv /\ AckInv /\ HeaderInv
             Evidence == \A k \in Slots :
                 (/\ sentBuf[k] # Empty /\ sentBuf'[k] # Empty
                  /\ sentBuf'[k].nacks > sentBuf[k].nacks)
                 => \E h \in headers \ headers' : sentBuf[k].num \notin h.seen
  <1>1. Init => Inv
    <2>1. Init => HeaderInv BY DEF Init, HeaderInv
    <2> QED BY <2>1, TypeInit, AckInit
  <1>2. Inv /\ [Next]_vars => Inv'
    BY TypeStep, AckStep, HeaderStep
  <1>3. Inv /\ [Next]_vars => [Evidence]_vars
    BY NackStep
  <1>4. NackMeansMissing <=> [][Evidence]_vars
    BY DEF NackMeansMissing
  <1> HIDE DEF Inv, Evidence
  <1> QED BY <1>1, <1>2, <1>3, <1>4, PTL DEF Spec
=============================================================================

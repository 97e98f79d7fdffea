---------------------------- MODULE Reliability ----------------------------
(***************************************************************************)
(* Packet-level reliability (NovaNet/Reliability.hs, cbits/nn_seq.c,       *)
(* cbits/nn_ack_process.c): one endpoint numbers packets and remembers the *)
(* reliable ones in a ring, the other deduplicates what arrives and        *)
(* reports it in the (ack, ack bits) pair of its own packets' headers.     *)
(*                                                                         *)
(* A packet is named by its number n \in Nat; on the wire it is Wire(n).   *)
(* The network may deliver any packet sent, any number of times and in any *)
(* order, as long as it is not older than MaxDelay packets; a packet never *)
(* delivered is lost, and no more than MaxDelay are lost in a row (the     *)
(* connection times out long before half the circle is lost).              *)
(***************************************************************************)
EXTENDS SeqNum, FiniteSets

CONSTANTS
    Ring,           \* NN_SEQ_RING_SIZE: slots of either ring (256)
    AckWindow,      \* NN_ACK_BITS_WINDOW: ack bits kept (64)
    WireBits,       \* NN_ACK_BITFIELD_BITS: ack bits sent (32)
    MaxSeqDist,     \* ncMaxSequenceDistance (1..32768, default 32768)
    MaxDelay,       \* the network's reordering and loss bursts, in packets
    MaxPackets,     \* bound: packets sent
    MaxHeaders,     \* bound: headers written by the receiver
    Empty           \* an unoccupied slot

ASSUME RingAssumption ==
    /\ Ring \in Nat \ {0} /\ SeqSpace % Ring = 0
    /\ WireBits \in Nat \ {0} /\ AckWindow \in Nat
    /\ WireBits < AckWindow /\ WireBits < Ring
    /\ MaxSeqDist \in 1 .. Half
    /\ MaxDelay \in 0 .. (Half - 2)
    /\ MaxPackets \in Nat /\ MaxHeaders \in Nat
    /\ Empty \notin [num : Nat, nacks : Nat] /\ Empty \notin Nat

VARIABLES
    next,           \* packets numbered so far; reLocalSeq is Wire(next)
    sentBuf,        \* reSentBuf: slot -> record of an unacknowledged packet
    sentCount,      \* nn_sent_buf.count
    totals,         \* reTotalSent, reTotalAcked, reTotalLost
    recvBuf,        \* reRecvBuf: slot -> last sequence number accepted there
    remoteSeq,      \* reRemoteSeq
    ackBits,        \* reAckBits: the set of d with "remoteSeq - d received"
    headers,        \* ack information on its way back
    written,        \* headers written so far (bounded by MaxHeaders)
    accepted,       \* history: packets accepted by the receiver
    repeated,       \* history: packets accepted more than once
    released,       \* history: packets taken for acknowledged by the sender
    late            \* history: whether a packet was accepted when more than Ring had
                    \* been numbered since

sendVars == <<next, sentBuf, sentCount, totals>>
recvVars == <<recvBuf, remoteSeq, ackBits>>
history  == <<accepted, repeated, released, late>>
network  == <<headers, written>>
vars     == <<sendVars, recvVars, network, history>>

Slots   == 0 .. (Ring - 1)
Slot(s) == s % Ring
Records == [num : Nat, nacks : Nat]
Top(S)  == CHOOSE n \in S \cup {0} : \A m \in S : m <= n
Highest == Top(accepted)

Init ==
    /\ next = 0
    /\ sentBuf = [k \in Slots |-> Empty]
    /\ sentCount = 0
    /\ totals = [sent |-> 0, acked |-> 0, lost |-> 0]
    /\ recvBuf = [k \in Slots |-> Empty]
    /\ remoteSeq = initialSeq
    /\ ackBits = {}
    /\ headers = {} /\ written = 0
    /\ accepted = {} /\ repeated = {} /\ released = {} /\ late = FALSE

-----------------------------------------------------------------------------
CanSend == next < MaxPackets /\ next - Highest <= MaxDelay + 1

\* allocateSeq for a packet nobody tracks: an unreliable message, a keepalive.
SendUntracked ==
    /\ CanSend
    /\ next' = next + 1
    /\ UNCHANGED <<sentBuf, sentCount, totals, recvVars, network, history>>

\* nn_sent_buf_insert: an eviction leaves the cached count alone.
CountEvictionAsNew(k) == sentCount + 1
CountAfterInsert(k)   == IF sentBuf[k] = Empty THEN sentCount + 1 ELSE sentCount

\* allocateSeq and onPacketSent: whatever held the slot is evicted.
SendTracked ==
    /\ CanSend
    /\ LET k == Slot(Wire(next))
       IN  /\ sentBuf' = [sentBuf EXCEPT ![k] = [num |-> next, nacks |-> 0]]
           /\ sentCount' = CountAfterInsert(k)
    /\ totals' = [totals EXCEPT !.sent = @ + 1]
    /\ next' = next + 1
    /\ UNCHANGED <<recvVars, network, history>>

-----------------------------------------------------------------------------
\* The bits d numbers later: the old remoteSeq becomes bit d, the rest shift.
ShiftedWithoutOldHead(d) == {b \in 1 .. AckWindow : b - d \in ackBits}
ShiftedBits(d) ==
    IF d < AckWindow
    THEN {b \in 1 .. AckWindow : b = d \/ b - d \in ackBits}
    ELSE {}

\* ackUpdate: shift the bits under a newer number, or set an older one's.
AckUpdate(s) ==
    IF SeqGt(s, remoteSeq)
    THEN /\ remoteSeq' = s
         /\ ackBits' = ShiftedBits(SeqDiff(s, remoteSeq))
    ELSE LET d == SeqDiff(remoteSeq, s)
         IN  /\ ackBits' = IF d \in 1 .. AckWindow THEN ackBits \cup {d} ELSE ackBits
             /\ UNCHANGED remoteSeq

\* nn_recv_buf_exists: the slot holds this very number.
NeverDuplicate(s) == FALSE
RecvBufExists(s)  == recvBuf[Slot(s)] = s

\* onPacketReceived: stale and duplicate packets leave no trace.
ReceivePacket(n) ==
    /\ n < next
    /\ next - n <= MaxDelay + 1
    /\ SeqDist(Wire(n), remoteSeq) <= MaxSeqDist
    /\ ~RecvBufExists(Wire(n))
    /\ recvBuf' = [recvBuf EXCEPT ![Slot(Wire(n))] = Wire(n)]
    /\ AckUpdate(Wire(n))
    /\ repeated' = IF n \in accepted THEN repeated \cup {n} ELSE repeated
    /\ accepted' = accepted \cup {n}
    /\ late' = (late \/ next - n > Ring)
    /\ UNCHANGED <<sendVars, network, released>>

\* getAckInfo: any packet the receiver sends carries its ack state.
SendHeader ==
    /\ written < MaxHeaders
    /\ written' = written + 1
    /\ headers' = headers \cup {[ack  |-> remoteSeq,
                                 bits |-> ackBits \cap (1 .. WireBits),
                                 seen |-> accepted, at |-> next]}
    /\ UNCHANGED <<sendVars, recvVars, history>>

LoseHeader(h) ==
    /\ headers' = headers \ {h}
    /\ UNCHANGED <<written, sendVars, recvVars, history>>

-----------------------------------------------------------------------------
\* nn_ack_process: the slots a header acknowledges, and those it denies.
Names(k, s)   == sentBuf[k] # Empty /\ Wire(sentBuf[k].num) = s
AckedFromHead(h) ==
    {k \in Slots : \/ Names(k, h.ack)
                   \/ \E d \in h.bits : Names(k, (h.ack - d - 1) % SeqSpace)}
AckedSlots(h) ==
    {k \in Slots : \/ Names(k, h.ack)
                   \/ \E d \in h.bits : Names(k, (h.ack - d) % SeqSpace)}
NackedOneTooFar(h) ==
    {k \in Slots : \E d \in (1 .. WireBits + 1) \ h.bits :
                       Names(k, (h.ack - d) % SeqSpace)}
NackedSlots(h) ==
    {k \in Slots : \E d \in (1 .. WireBits) \ h.bits :
                       Names(k, (h.ack - d) % SeqSpace)}

\* processIncomingAck.
ReceiveHeader(h) ==
    /\ next - h.at <= MaxDelay
    /\ headers' = headers \ {h}
    /\ LET acked  == AckedSlots(h)
           nacked == NackedSlots(h)
       IN  /\ sentBuf' = [k \in Slots |->
                             IF k \in acked THEN Empty
                             ELSE IF k \in nacked THEN [sentBuf[k] EXCEPT !.nacks = @ + 1]
                             ELSE sentBuf[k]]
           /\ sentCount' = sentCount - Cardinality(acked)
           /\ totals' = [totals EXCEPT !.acked = @ + Cardinality(acked),
                                       !.lost  = @ + Cardinality(nacked)]
           /\ released' = released \cup {sentBuf[k].num : k \in acked}
    /\ UNCHANGED <<next, written, recvVars, accepted, repeated, late>>

Next ==
    \/ SendUntracked
    \/ SendTracked
    \/ \E n \in 0 .. (next - 1) : ReceivePacket(n)
    \/ SendHeader
    \/ \E h \in headers : LoseHeader(h) \/ ReceiveHeader(h)

Spec == Init /\ [][Next]_vars
-----------------------------------------------------------------------------
\* Type invariant.
TypeOK ==
    /\ next \in 0 .. MaxPackets
    /\ sentBuf \in [Slots -> Records \cup {Empty}]
    /\ sentCount \in Int
    /\ totals \in [sent : Nat, acked : Nat, lost : Nat]
    /\ recvBuf \in [Slots -> Seqs \cup {Empty}]
    /\ remoteSeq \in Seqs
    /\ ackBits \subseteq 1 .. AckWindow
    /\ \A h \in headers : /\ h.ack \in Seqs
                          /\ h.bits \subseteq 1 .. WireBits
    /\ accepted \subseteq 0 .. (next - 1)
    /\ released \subseteq 0 .. (next - 1)
    /\ late \in BOOLEAN

\* The cached count of the sent ring is the number of its occupied slots, and
\* no tracked packet is both counted acknowledged and still in flight: inserts,
\* evictions and the two kinds of delete keep packetsInFlight honest.
SentAccounting ==
    /\ sentCount = Cardinality({k \in Slots : sentBuf[k] # Empty})
    /\ totals.acked + sentCount <= totals.sent

\* The 16-bit ack pair the receiver would send stands for exactly the packets
\* it accepted among the last WireBits, across reordering, gaps and wrap-around
\* (packet 0 excepted: the initial state already claims it).
AckStateExact ==
    /\ remoteSeq = Wire(Highest)
    /\ \A d \in 1 .. WireBits :
           Highest - d >= 0 =>
               (d \in ackBits <=> Highest - d \in accepted \cup {0})

\* A packet the sender releases as acknowledged did arrive (packet 0 excepted).
AckedWasReceived == released \subseteq accepted \cup {0}

\* A packet counted against by a header had not arrived when the receiver wrote
\* that header, so every NACK is evidence of a loss or of reordering.
NackMeansMissing ==
    [][\A k \in Slots :
          (/\ sentBuf[k] # Empty /\ sentBuf'[k] # Empty
           /\ sentBuf'[k].nacks > sentBuf[k].nacks)
          => \E h \in headers \ headers' : sentBuf[k].num \notin h.seen]_vars

\* A packet is handed to the connection at most once, however old a number may be that
\* is still looked at: until one comes that is older than what the ring spans, which
\* may displace what the ring remembers, or be forgotten itself.
AcceptedOnce == (MaxSeqDist < Ring \/ ~late) => repeated = {}

\* "Bit set: peer received this packet" (nn_ack_process.c), with no exception.
EveryAckWasReceived == released \subseteq accepted
=============================================================================

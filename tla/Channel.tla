------------------------------ MODULE Channel ------------------------------
(***************************************************************************)
(* One channel between two peers (NovaNet/Channel.hs): the sending         *)
(* endpoint's buffer of unacknowledged messages, the receiving endpoint's  *)
(* reordering and deduplication state, and the link between them.          *)
(*                                                                         *)
(* A message is named by its number n \in Nat; its channel sequence number *)
(* is Wire(n).  A large message is cut into pieces, each of which takes a  *)
(* number after its own and travels like a message (Peer.hs,               *)
(* sendFragmented); the assembler that puts them together is taken to have *)
(* room and time enough here, and is the subject of Fragment.             *)
(*                                                                         *)
(* The link holds copies of messages, which it may lose or reorder;        *)
(* packet-level deduplication makes each copy arrive at most once, and the *)
(* arrival of a copy may be acknowledged whatever the channel did with it. *)
(* Each endpoint reads its own clock once per frame: a Tick is one call of *)
(* updateConnected, some time after the last one.                          *)
(***************************************************************************)
EXTENDS SeqNum, Order, Sequences, SequencesExt

CONSTANTS
    Modes,              \* the delivery modes to consider
    Policies,           \* the full-buffer policies: TRUE for BlockOnFull
    SendBufferSize,     \* ccMessageBufferSize
    MaxRetries,         \* ccMaxReliableRetries
    Rto,                \* the retransmission timeout
    OrderedTimeout,     \* ccOrderedBufferTimeoutMs
    OrderedBufferSize,  \* ccMaxOrderedBufferSize
    MaxDedupSetSize,    \* maxDedupSetSize
    Frames,             \* how long a frame may last
    Pieces,             \* pieces of a large message; 0 for none of them
    Start,              \* messages already sent, delivered and acknowledged
    MaxMessages,        \* bound: messages sent
    MaxAge,             \* bound: clocks past every timeout are not told apart
    MaxSpan             \* bound: age, in messages, of what is outstanding

DeliveryModes == {"Unreliable", "UnreliableSequenced", "ReliableUnordered",
                  "ReliableOrdered", "ReliableSequenced"}

ASSUME ChannelAssumption ==
    /\ Modes \subseteq DeliveryModes /\ Policies \subseteq BOOLEAN
    /\ SendBufferSize \in Nat \ {0} /\ OrderedBufferSize \in Nat \ {0}
    /\ MaxRetries \in Nat /\ Rto \in Nat
    /\ OrderedTimeout \in Nat \ {0} /\ MaxDedupSetSize \in Nat
    /\ Frames \subseteq Nat \ {0}
    /\ Pieces \in Nat /\ MaxMessages \in Nat /\ MaxSpan \in Nat /\ Start \in 0 .. MaxMessages
    /\ MaxAge \in Nat /\ \A d \in Frames : MaxAge >= Rto + d /\ MaxAge >= OrderedTimeout + d

VARIABLES
    mode,               \* ccDeliveryMode, fixed when the channel is made
    blocks,             \* ccFullBufferPolicy = BlockOnFull, likewise
    sent,               \* messages sent; chSendSeq is Wire(sent)
    sendBuffer,         \* chSendBuffer: sequence number -> SendEntry
    recvSeq,            \* chRecvSeq
    expectedSeq,        \* chExpectedSeq
    orderedBuffer,      \* chOrderedBuffer: sequence number -> OooEntry
    recvSeen,           \* chRecvSeen
    delivered,          \* everything ever put in chReceiveQueue
    gaveUp,             \* history: a gap was skipped by the ordered timeout
    copies,             \* the link: message -> copies in flight
    marked,             \* the link: pieces in flight in packets marked as fragments
    large,              \* history: the large messages, whose pieces follow them
    gathered,           \* history: the pieces that were given to the assembler
    arrived,            \* messages of which a copy arrived, not yet acknowledged
    acked               \* history: messages the sender knows acknowledged

config   == <<mode, blocks>>
sendVars == <<sent, sendBuffer, acked>>
recvVars == <<recvSeq, expectedSeq, orderedBuffer, recvSeen, delivered, gaveUp>>
linkVars == <<copies, marked, arrived>>
fragVars == <<large, gathered>>
vars     == <<config, sendVars, recvVars, linkVars, fragVars>>

isReliable  == mode \in {"ReliableUnordered", "ReliableOrdered", "ReliableSequenced"}
isSequenced == mode \in {"UnreliableSequenced", "ReliableSequenced"}

SendEntries == [num : Nat, age : Nat, retries : Nat]
OooEntries  == [num : Nat, age : Nat]

Without(f, S)    == [s \in DOMAIN f \ S |-> f[s]]
With(f, s, e)    == [t \in DOMAIN f \cup {s} |-> IF t = s THEN e ELSE f[t]]
Empty            == [s \in {} |-> 0]

\* d time units later (diffNs start now).
Later(age, d)        == IF age + d > MaxAge THEN MaxAge ELSE age + d
Aged(f, d) == [s \in DOMAIN f |-> [f[s] EXCEPT !.age = Later(@, d)]]

Init ==
    /\ mode \in Modes /\ blocks \in Policies
    /\ sent = Start /\ sendBuffer = Empty /\ acked = {}
    /\ recvSeq = IF isSequenced /\ Start > 0 THEN Wire(Start - 1) ELSE initialSeq
    /\ expectedSeq = IF mode = "ReliableOrdered" THEN Wire(Start) ELSE initialSeq
    /\ orderedBuffer = Empty
    /\ recvSeen = IF mode = "ReliableUnordered" THEN {Wire(n) : n \in 0 .. (Start - 1)}
                  ELSE {}
    /\ delivered = [i \in 1 .. Start |-> i - 1] /\ gaveUp = FALSE
    /\ copies = [n \in 0 .. (MaxMessages - 1) |-> 0] /\ marked = {} /\ arrived = {}
    /\ large = {} /\ gathered = {}

-----------------------------------------------------------------------------
(* Sending endpoint. *)

\* The bound MaxSpan, for k more numbers: nothing outstanding is older, and the receiver
\* is not further behind (half the circle is far more than any timeout lets pass).
Recent(n, k) == sent - n + k <= MaxSpan
Behind    == CASE isSequenced              -> (Wire(sent) - recvSeq) % SeqSpace
               [] mode = "ReliableOrdered" -> (Wire(sent) - expectedSeq) % SeqSpace
               [] OTHER                    -> 0
CanSend(k) == /\ sent + k <= MaxMessages /\ Behind + k <= MaxSpan
              /\ \A s \in DOMAIN sendBuffer : Recent(sendBuffer[s].num, k)

\* evictOldestEntry: the oldest send time, the lowest key among equals.
Oldest(f) ==
    CHOOSE s \in DOMAIN f : \A t \in DOMAIN f \ {s} :
        \/ f[s].age > f[t].age
        \/ f[s].age = f[t].age /\ s < t

BufferOverfull(buf) == Cardinality(DOMAIN buf) > SendBufferSize
BufferFull(buf)     == Cardinality(DOMAIN buf) >= SendBufferSize

\* channelSend of n: it is refused, or is in the send buffer from then on.
Tracks       == isReliable
Refused(buf) == isReliable /\ blocks /\ BufferFull(buf)
Tracked(buf, n) ==
    LET kept == IF BufferFull(buf) THEN Without(buf, {Oldest(buf)}) ELSE buf
    IN  IF Tracks THEN With(kept, Wire(n), [num |-> n, age |-> 0, retries |-> 0]) ELSE buf

\* The message is transmitted at once; what the bound makes too old is lost.
Send ==
    /\ CanSend(1)
    /\ ~Refused(sendBuffer)
    /\ sendBuffer' = Tracked(sendBuffer, sent)
    /\ copies' = [n \in DOMAIN copies |->
                     IF n = sent THEN 1 ELSE IF Recent(n, 1) THEN copies[n] ELSE 0]
    /\ marked' = {n \in marked : Recent(n, 1)}
    /\ sent' = sent + 1
    /\ UNCHANGED <<config, acked, arrived, recvVars, fragVars>>

\* sendFragmented: a number for the message (channelNextSeq), which is not in the send
\* buffer, and a channelSend for every piece; if one of them is refused, nothing is sent.
PiecesOf(n) == n + 1 .. n + Pieces
SendLarge ==
    /\ Pieces > 0 /\ CanSend(Pieces + 1)
    /\ LET buffer[k \in 0 .. Pieces] ==
               IF k = 0 THEN sendBuffer ELSE Tracked(buffer[k - 1], sent + k)
       IN  /\ \A k \in 0 .. Pieces - 1 : ~Refused(buffer[k])
           /\ sendBuffer' = buffer[Pieces]
    /\ copies' = [n \in DOMAIN copies |-> IF Recent(n, Pieces + 1) THEN copies[n] ELSE 0]
    /\ marked' = {n \in marked : Recent(n, Pieces + 1)} \cup PiecesOf(sent)
    /\ large' = large \cup {sent}
    /\ sent' = sent + Pieces + 1
    /\ UNCHANGED <<config, acked, arrived, gathered, recvVars>>

\* acknowledgeMessage, once a packet that carried n is reported received.
Acknowledge(n) ==
    /\ arrived' = arrived \ {n}
    /\ sendBuffer' = Without(sendBuffer, {Wire(n)})
    /\ acked' = acked \cup {n}
    /\ UNCHANGED <<config, sent, copies, marked, recvVars, fragVars>>

\* getRetransmitMessages: an overdue entry is sent again or, its retries spent,
\* dropped.  What is sent again is not marked as a fragment, whatever it was.
OutOfRetries(e) == e.retries >= MaxRetries
OverdueUnderBudget(e) == e.age > Rto /\ ~OutOfRetries(e)
Overdue(e)            == e.age > Rto
SenderTick(d) ==
    LET aged    == Aged(sendBuffer, d)
        overdue == {s \in DOMAIN aged : Overdue(aged[s])}
        dropped == {s \in overdue : OutOfRetries(aged[s])}
        resent  == overdue \ dropped
    IN  /\ DOMAIN sendBuffer # {}
        /\ sendBuffer' = [s \in DOMAIN aged \ dropped |->
                             IF s \in resent
                             THEN [aged[s] EXCEPT !.age = 0, !.retries = @ + 1]
                             ELSE aged[s]]
        /\ copies' = [n \in DOMAIN copies |->
                         IF \E s \in resent : aged[s].num = n
                         THEN copies[n] + 1 ELSE copies[n]]
        /\ UNCHANGED <<config, sent, acked, marked, arrived, recvVars, fragVars>>

-----------------------------------------------------------------------------
(* Receiving endpoint: onMessageReceived. *)

IgnoreMessage == UNCHANGED recvVars

\* deliverImmediate
ReceiveUnreliable(n) ==
    /\ mode = "Unreliable"
    /\ delivered' = Append(delivered, n)
    /\ UNCHANGED <<recvSeq, expectedSeq, orderedBuffer, recvSeen, gaveUp>>

\* receiveSequenced: only what is newer than everything delivered.
NewerOrEqual(s) == ~SeqGt(recvSeq, s)
Newer(s)        == SeqGt(s, recvSeq)
ReceiveSequenced(n) ==
    /\ isSequenced
    /\ \/ /\ Newer(Wire(n))
          /\ recvSeq' = Wire(n)
          /\ delivered' = Append(delivered, n)
          /\ UNCHANGED <<expectedSeq, orderedBuffer, recvSeen, gaveUp>>
       \/ ~Newer(Wire(n)) /\ IgnoreMessage

\* receiveReliableUnordered: a set of the numbers seen suppresses duplicates.
ReceiveUnordered(n) ==
    /\ mode = "ReliableUnordered"
    /\ \/ /\ Wire(n) \notin recvSeen
          /\ recvSeen' = recvSeen \cup {Wire(n)}
          /\ delivered' = Append(delivered, n)
          /\ UNCHANGED <<recvSeq, expectedSeq, orderedBuffer, gaveUp>>
       \/ Wire(n) \in recvSeen /\ IgnoreMessage

\* flushConsecutive: deliver the buffered run that starts at e.
RunLength(e, buf) ==
    CHOOSE k \in 0 .. Cardinality(DOMAIN buf) :
        /\ \A i \in 0 .. (k - 1) : Wire(e + i) \in DOMAIN buf
        /\ Wire(e + k) \notin DOMAIN buf
FlushAndClear(e, buf, queue) ==
    LET k == RunLength(e, buf)
    IN  /\ expectedSeq' = Wire(e + k)
        /\ delivered' = queue \o [i \in 1 .. k |-> buf[Wire(e + i - 1)].num]
        /\ orderedBuffer' = Empty
FlushConsecutive(e, buf, queue) ==
    LET k == RunLength(e, buf)
    IN  /\ expectedSeq' = Wire(e + k)
        /\ delivered' = queue \o [i \in 1 .. k |-> buf[Wire(e + i - 1)].num]
        /\ orderedBuffer' = Without(buf, {Wire(e + i) : i \in 0 .. (k - 1)})

ExpectedOrAhead(s) == ~SeqGt(expectedSeq, s)
Expected(s)        == s = expectedSeq

\* receiveReliableOrdered: deliver what is expected, hold back what is ahead of
\* it while there is room, drop the rest.
ReceiveOrdered(n) ==
    LET s == Wire(n)
        Ahead == SeqGt(s, expectedSeq)
        Room  == /\ s \notin DOMAIN orderedBuffer
                 /\ Cardinality(DOMAIN orderedBuffer) < OrderedBufferSize
    IN  /\ mode = "ReliableOrdered"
        /\ \/ /\ Expected(s)
              /\ FlushConsecutive(NextSeq(s), orderedBuffer, Append(delivered, n))
              /\ UNCHANGED <<recvSeq, recvSeen, gaveUp>>
           \/ /\ ~Expected(s) /\ Ahead /\ Room
              /\ orderedBuffer' = With(orderedBuffer, s, [num |-> n, age |-> 0])
              /\ UNCHANGED <<recvSeq, expectedSeq, recvSeen, delivered, gaveUp>>
           \/ ~Expected(s) /\ ~(Ahead /\ Room) /\ IgnoreMessage

\* onMessageReceived, whose queue is drained at once
OnMessageReceived(n) ==
    \/ ReceiveUnreliable(n)
    \/ ReceiveSequenced(n)
    \/ ReceiveUnordered(n)
    \/ ReceiveOrdered(n)
WillBeAcknowledged(n) == arrived' = IF isReliable THEN arrived \cup {n} ELSE arrived

\* A copy of message n arrives in a packet, which will be acknowledged
\* (processDirectMessage).
Receive(n) ==
    /\ copies[n] > 0
    /\ copies' = [copies EXCEPT ![n] = @ - 1]
    /\ WillBeAcknowledged(n)
    /\ OnMessageReceived(n)
    /\ UNCHANGED <<config, sendVars, marked, fragVars>>

\* A piece of message n arrives, marked as a fragment (processFragmentData); the last one
\* makes the assembler give out the message, with its number in front.
Whole(n, pieces) == PiecesOf(n) \subseteq pieces
ReceivePiece(n, piece) ==
    /\ piece \in marked \cap PiecesOf(n)
    /\ marked' = marked \ {piece}
    /\ gathered' = gathered \cup {piece}
    /\ WillBeAcknowledged(piece)
    /\ IF Whole(n, gathered') THEN OnMessageReceived(n) ELSE IgnoreMessage
    /\ UNCHANGED <<config, sendVars, copies, large>>

LateWhenFull(e) ==
    e.age >= OrderedTimeout /\ Cardinality(DOMAIN orderedBuffer) >= OrderedBufferSize
Late(e)         == e.age >= OrderedTimeout

\* flushTimedOutOrdered: deliver what waited too long, in key order, and move
\* on to what follows the highest key.
FlushTimedOut(aged) ==
    LET late    == {s \in DOMAIN aged : Late(aged[s])}
        order   == Ascending(late)
        highest == order[Len(order)]
        after   == IF SeqGt(NextSeq(highest), expectedSeq) THEN NextSeq(highest)
                   ELSE expectedSeq
    IN  IF late = {}
        THEN orderedBuffer' = aged /\ UNCHANGED <<expectedSeq, delivered, gaveUp>>
        ELSE /\ FlushConsecutive(after, Without(aged, late),
                                 delivered \o [i \in DOMAIN order |-> aged[order[i]].num])
             /\ gaveUp' = TRUE

\* cleanupDedupSet: keep what lies within half the circle of chRecvSeq.
Circular(s) == LET d == IF recvSeq > s THEN recvSeq - s ELSE s - recvSeq
               IN  IF d < SeqSpace - d THEN d ELSE SeqSpace - d
CleanedDedupSet ==
    IF mode = "ReliableUnordered" /\ Cardinality(recvSeen) > MaxDedupSetSize
    THEN {s \in recvSeen : Circular(s) < Half}
    ELSE recvSeen

\* channelUpdate
ReceiverTick(d) ==
    /\ DOMAIN orderedBuffer # {} \/ CleanedDedupSet # recvSeen
    /\ FlushTimedOut(Aged(orderedBuffer, d))
    /\ recvSeen' = CleanedDedupSet
    /\ UNCHANGED <<config, recvSeq, sendVars, linkVars, fragVars>>

Next ==
    \/ Send
    \/ SendLarge
    \/ \E n \in large, piece \in marked : ReceivePiece(n, piece)
    \/ \E n \in arrived : Acknowledge(n)
    \/ \E n \in DOMAIN copies : Receive(n)
    \/ \E d \in Frames : SenderTick(d) \/ ReceiverTick(d)

Spec == Init /\ [][Next]_vars

\* Both applications keep calling peerProcess.
FairSpec == /\ Spec
            /\ WF_vars(\E d \in Frames : SenderTick(d))
            /\ WF_vars(\E d \in Frames : ReceiverTick(d))
-----------------------------------------------------------------------------
TypeOK ==
    /\ mode \in Modes /\ blocks \in Policies
    /\ sent \in 0 .. MaxMessages
    /\ DOMAIN sendBuffer \subseteq Seqs
    /\ \A s \in DOMAIN sendBuffer : sendBuffer[s] \in SendEntries
    /\ recvSeq \in Seqs /\ expectedSeq \in Seqs /\ recvSeen \subseteq Seqs
    /\ DOMAIN orderedBuffer \subseteq Seqs
    /\ \A s \in DOMAIN orderedBuffer : orderedBuffer[s] \in OooEntries
    /\ delivered \in Seq(Nat) /\ gaveUp \in BOOLEAN
    /\ copies \in [0 .. (MaxMessages - 1) -> Nat]
    /\ large \subseteq 0 .. (sent - 1)
    /\ marked \cup gathered \subseteq UNION {PiecesOf(n) : n \in large}
    /\ arrived \subseteq 0 .. (sent - 1) /\ acked \subseteq 0 .. (sent - 1)

\* The channel keeps the promise of its delivery mode.
Promise == INSTANCE Delivery WITH
               Start <- Start, mode <- mode, sent <- sent, delivered <- delivered, gaveUp <- gaveUp
KeepsPromise == Promise!Spec

\* The state is well typed, neither buffer outgrows its configured size, and the
\* entry under a sequence number is the message of that number: eviction,
\* retransmission, flushing and acknowledgement never mix two messages up.
BuffersConsistent ==
    /\ TypeOK
    /\ Cardinality(DOMAIN sendBuffer) <= SendBufferSize
    /\ Cardinality(DOMAIN orderedBuffer) <= OrderedBufferSize
    /\ \A s \in DOMAIN sendBuffer : s = Wire(sendBuffer[s].num)
    /\ \A s \in DOMAIN orderedBuffer : s = Wire(orderedBuffer[s].num)

\* What the sender forgets because it was acknowledged is in good hands: it was
\* delivered, or waits in the ordered buffer, or a newer message made it stale,
\* or the receiver had given up on it; and a piece of a large message is with the
\* assembler, as long as the message is not whole and in good hands itself.
Settled(n) ==
    \/ \E i \in DOMAIN delivered : delivered[i] = n
    \/ \E s \in DOMAIN orderedBuffer : orderedBuffer[s].num = n
    \/ isSequenced /\ \E i \in DOMAIN delivered : delivered[i] > n
    \/ gaveUp
AckedIsSettled ==
    \A n \in acked :
        \/ Settled(n)
        \/ /\ n \in gathered
           /\ \A m \in large : n \in PiecesOf(m) /\ Whole(m, gathered) => Settled(m)

\* A message held back by an ordered channel does not wait forever.
HeldBackIsDelivered ==
    \A n \in Start .. (MaxMessages - 1) :
        (\E s \in DOMAIN orderedBuffer : orderedBuffer[s].num = n)
            ~> (\E i \in DOMAIN delivered : delivered[i] = n)

\* Nor does the sender wait forever for an acknowledgement.
SendBufferDrains ==
    \A n \in Start .. (MaxMessages - 1) :
        (\E s \in DOMAIN sendBuffer : sendBuffer[s].num = n)
            ~> (\A s \in DOMAIN sendBuffer : sendBuffer[s].num # n)

\* As long as nothing was given up on, an ordered channel has delivered exactly
\* the first messages sent, in order, across wrap-around and retransmission.
OrderedUntilGaveUp ==
    mode = "ReliableOrdered" /\ ~gaveUp =>
        \A i \in DOMAIN delivered : delivered[i] = i - 1

\* A sequenced channel never delivers a message after a newer one, also across
\* the wrap-around.
NewestOnly ==
    isSequenced =>
        \A i, j \in DOMAIN delivered : i < j => delivered[i] < delivered[j]

\* Both hold on every channel.
OrderHolds == OrderedUntilGaveUp /\ NewestOnly

\* What the application receives is what applications sent: fragments are for the
\* assembler, and none of them is delivered as a message.
FragmentsAreReassembled ==
    \A n \in large, i \in DOMAIN delivered : delivered[i] \notin PiecesOf(n)
=============================================================================

----------------------------- MODULE Connection -----------------------------
(***************************************************************************)
(* Two ends of an established connection (NovaNet/Connection.hs): each     *)
(* frame every end times out, retransmits, sends what congestion control   *)
(* lets through and pays the acknowledgements it owes; every packet that   *)
(* arrives carries the other end's acknowledgements back to the channels.  *)
(*                                                                         *)
(* A packet is named by its number n \in Nat and carries, as the set acks, *)
(* the packets its (ack, ack bits) pair stands for; that the pair does     *)
(* stand for them, and that a packet is accepted at most once, is what     *)
(* Reliability shows.  Of a channel only the send buffer appears: Channel  *)
(* shows what becomes of a message after it arrived.  The initial state    *)
(* chooses between a network and a congestion controller that may do       *)
(* anything and calm ones, on which nothing is lost, late or held up.      *)
(***************************************************************************)
EXTENDS Order, Sequences, SequencesExt

CONSTANTS
    Ends,               \* the two ends
    Senders,            \* the ends whose application sends messages
    Channels,           \* channel indices, in connChannelPriority order
    Reliable,           \* those whose mode isReliable
    SendBufferSize,     \* ccMessageBufferSize, under BlockOnFull
    MaxRetries,         \* ccMaxReliableRetries
    Rto,                \* the retransmission timeout
    KeepaliveInterval,  \* ncKeepaliveIntervalMs
    ConnectionTimeout,  \* ncConnectionTimeoutMs
    WireBits,           \* ackBitfieldBits
    MaxAckMapSize,      \* maxAckMapSize
    AckPruneWindow,     \* ackPruneWindow
    MaxMessages,        \* bound: messages sent on a channel
    MaxCalmMessages,    \* bound: the same in calm weather
    MaxPackets,         \* bound: packets sent by an end that sends messages
    MaxReplies,         \* bound: packets sent by an end that sends none
    MaxCalmPackets      \* bound: packets sent by either end in calm weather

ASSUME ConnectionAssumption ==
    /\ IsFiniteSet(Ends) /\ Cardinality(Ends) = 2 /\ Senders \subseteq Ends
    /\ Channels \subseteq Nat /\ IsFiniteSet(Channels) /\ Reliable \subseteq Channels
    /\ SendBufferSize \in Nat \ {0} /\ MaxRetries \in Nat /\ Rto \in Nat
    /\ KeepaliveInterval \in Nat \ {0} /\ ConnectionTimeout \in Nat
    /\ KeepaliveInterval < ConnectionTimeout
    /\ WireBits \in Nat \ {0} /\ MaxAckMapSize \in Nat
    /\ AckPruneWindow \in Nat /\ WireBits < AckPruneWindow
    /\ MaxMessages \in Nat /\ MaxCalmMessages \in Nat /\ MaxPackets \in Nat /\ MaxReplies \in Nat
    /\ MaxCalmPackets \in Nat

VARIABLES
    calm,           \* the network and congestion control interfere with nothing
    up,             \* the ends that have not timed out
    sinceSend,      \* time since connLastSendTime
    sinceRecv,      \* time since connLastRecvTime
    posted,         \* messages the application has sent on each channel
    sendBuffer,     \* chSendBuffer of the reliable channels: message -> entry
    outgoing,       \* connOutgoing: channel -> queue of messages
    next,           \* packets numbered so far
    accepted,       \* packets accepted from the other end
    ackMap,         \* connAckMap: packet -> the reliable message it carried
    pendingAck,     \* connPendingAck
    ran,            \* the ends that ran a frame in this unit of time, if calm
    net,            \* packets on their way
    carried,        \* history: what each packet carried, in their order
    acked,          \* history: messages taken for acknowledged
    reported        \* history: accepted packets some sent packet acknowledges

timers   == <<sinceSend, sinceRecv, ran>>
sendVars == <<posted, sendBuffer, outgoing>>
history  == <<carried, acked, reported>>
vars == <<calm, up, timers, sendVars, next, accepted, ackMap, pendingAck, net, history>>

Other(e) == CHOOSE f \in Ends : f # e

Messages    == [chan : Channels, id : Nat]
SendEntries == [age : 0 .. (Rto + 1), retries : 0 .. MaxRetries]
Bare        == [chan |-> -1, id |-> 0]      \* a Keepalive packet: no payload

Top(S) == CHOOSE n \in S \cup {0} : \A m \in S : m <= n

\* getAckInfo: what the ack pair of a packet sent now stands for.  (Nothing
\* accepted yet reads as packet 0 accepted.)
AckInfo(e) == LET highest == Top(accepted[e])
              IN  {n \in accepted[e] \cup {0} : highest - n <= WireBits}

Bound(e) == IF calm THEN MaxCalmPackets ELSE IF e \in Senders THEN MaxPackets ELSE MaxReplies

NoMessage     == [m \in {} |-> 0]
With(f, k, v) == [x \in DOMAIN f \cup {k} |-> IF x = k THEN v ELSE f[x]]
Without(f, S) == [k \in DOMAIN f \ S |-> f[k]]

Init ==
    /\ calm \in BOOLEAN
    /\ up = Ends
    /\ sinceSend = [e \in Ends |-> 0] /\ sinceRecv = [e \in Ends |-> 0]
    /\ posted = [e \in Ends |-> [c \in Channels |-> 0]]
    /\ sendBuffer = [e \in Ends |-> NoMessage]
    /\ outgoing = [e \in Ends |-> [c \in Channels |-> <<>>]]
    /\ next = [e \in Ends |-> 0]
    /\ accepted = [e \in Ends |-> {}]
    /\ ackMap = [e \in Ends |-> NoMessage]
    /\ pendingAck = [e \in Ends |-> FALSE]
    /\ ran = {} /\ net = {}
    /\ carried = [e \in Ends |-> <<>>]
    /\ acked = [e \in Ends |-> {}] /\ reported = [e \in Ends |-> {}]

-----------------------------------------------------------------------------
\* sendMessage: the channel keeps a reliable message until it is acknowledged,
\* and the connection queues it for the next frame.
SendMessage(e, c) ==
    LET m    == [chan |-> c, id |-> posted[e][c] + 1]
        held == {k \in DOMAIN sendBuffer[e] : k.chan = c}
    IN  /\ e \in up /\ posted[e][c] < IF calm THEN MaxCalmMessages ELSE MaxMessages
        /\ c \in Reliable => Cardinality(held) < SendBufferSize
        /\ posted' = [posted EXCEPT ![e][c] = @ + 1]
        /\ outgoing' = [outgoing EXCEPT ![e][c] = Append(@, m)]
        /\ sendBuffer' = IF c \in Reliable
                         THEN [sendBuffer EXCEPT ![e] = With(@, m, [age |-> 0, retries |-> 0])]
                         ELSE sendBuffer
        /\ UNCHANGED <<calm, up, timers, next, accepted, ackMap, pendingAck, net, history>>

-----------------------------------------------------------------------------
\* pruneAckMap, after the newest packet acknowledged.
PrunedTooSoon(map, ack) ==
    IF Cardinality(DOMAIN map) <= MaxAckMapSize THEN map
    ELSE Without(map, {n \in DOMAIN map : ack - n > 0})
Pruned(map, ack) ==
    IF Cardinality(DOMAIN map) <= MaxAckMapSize THEN map
    ELSE Without(map, {n \in DOMAIN map : ack - n > AckPruneWindow})

\* resolveChannelAcks
ResolvedOneTooFar(e, acks) == {n \in DOMAIN ackMap[e] : n \in acks \/ n - 1 \in acks}
Resolved(e, acks)          == {n \in DOMAIN ackMap[e] : n \in acks}

\* processDataPacket and processIncomingHeader.
Receive(p) ==
    LET e    == p.to
        done == Resolved(e, p.acks)
        ms   == {ackMap[e][n] : n \in done}
    IN  /\ e \in up
        /\ accepted' = [accepted EXCEPT ![e] = @ \cup {p.num}]
        /\ ackMap' = [ackMap EXCEPT ![e] = Pruned(Without(@, done), Top(p.acks))]
        /\ sendBuffer' = [sendBuffer EXCEPT ![e] = Without(@, ms)]
        /\ acked' = [acked EXCEPT ![e] = @ \cup ms]
        /\ sinceRecv' = [sinceRecv EXCEPT ![e] = 0]
        /\ pendingAck' = [pendingAck EXCEPT ![e] = TRUE]
        /\ net' = net \ {p}
        /\ UNCHANGED <<calm, up, sinceSend, ran, posted, outgoing, next, carried, reported>>

-----------------------------------------------------------------------------
(* A frame: updateTick and drainAllConnections. *)

\* updateConnected finds that nothing arrived for too long: the peer forgets the
\* connection and everything in it.
Expire(e) ==
    /\ e \in up /\ e \notin ran /\ sinceRecv[e] >= ConnectionTimeout
    /\ up' = up \ {e}
    /\ sendBuffer' = [sendBuffer EXCEPT ![e] = NoMessage]
    /\ outgoing' = [outgoing EXCEPT ![e] = [c \in Channels |-> <<>>]]
    /\ ackMap' = [ackMap EXCEPT ![e] = NoMessage]
    /\ pendingAck' = [pendingAck EXCEPT ![e] = FALSE]
    /\ sinceSend' = [sinceSend EXCEPT ![e] = 0]
    /\ sinceRecv' = [sinceRecv EXCEPT ![e] = 0]
    /\ net' = {p \in net : p.to # e}
    /\ UNCHANGED <<calm, ran, posted, next, accepted, history>>

\* processRetransmissions: overdue entries go behind what is already queued.
Overdue(e)     == {m \in DOMAIN sendBuffer[e] : sendBuffer[e][m].age > Rto}
Dropped(e)     == {m \in Overdue(e) : sendBuffer[e][m].retries >= MaxRetries}
Retransmitted(e) == Overdue(e) \ Dropped(e)
SendBufferUncounted(e) ==
    [m \in DOMAIN sendBuffer[e] \ Dropped(e) |->
        IF m \in Retransmitted(e) THEN [sendBuffer[e][m] EXCEPT !.age = 0]
        ELSE sendBuffer[e][m]]
SendBufferNow(e) ==
    [m \in DOMAIN sendBuffer[e] \ Dropped(e) |->
        IF m \in Retransmitted(e)
        THEN [age |-> 0, retries |-> sendBuffer[e][m].retries + 1]
        ELSE sendBuffer[e][m]]
Queue(e, c) ==
    LET again == {i \in 1 .. posted[e][c] : [chan |-> c, id |-> i] \in Retransmitted(e)}
    IN  outgoing[e][c] \o
            [i \in 1 .. Cardinality(again) |-> [chan |-> c, id |-> Ascending(again)[i]]]

\* The numbers of messages that congestion control may let through.
Rooms(queue) ==
    LET all == [c \in Channels |-> Len(queue[c])]
    IN  IF calm THEN {all}
        ELSE {room \in [Channels -> 0 .. MaxPackets] : \A c \in Channels : room[c] <= all[c]}

\* The messages that leave in this frame, one channel after the other.
Leaving(queue, room) ==
    LET order == Ascending(Channels)
    IN  FlattenSeq([i \in DOMAIN order |-> SubSeq(queue[order[i]], 1, room[order[i]])])

\* enqueueKeepalive, at most once in a frame: when nothing was sent for the
\* interval, or when an acknowledgement is owed and no data carries it.
KeepaliveNever(e, sent)     == FALSE
KeepaliveDue(e, sent)       == sent = <<>> /\ sinceSend[e] >= KeepaliveInterval
AckOnlyWithBacklog(e, sent) == sent = <<>> /\ pendingAck[e]
                               /\ \A c \in Channels : outgoing[e][c] = <<>>
AckOnly(e, sent)            == sent = <<>> /\ pendingAck[e]

Frame(e) ==
    LET queue == [c \in Channels |-> Queue(e, c)]
        acks  == AckInfo(e)
        first == next[e]
    IN  /\ e \in up /\ e \notin ran /\ sinceRecv[e] < ConnectionTimeout
        /\ \E room \in Rooms(queue) :
            LET sent     == Leaving(queue, room)
                bare     == KeepaliveDue(e, sent) \/ AckOnly(e, sent)
                packets  == IF bare THEN <<Bare>> ELSE sent
                reliable == {n \in first .. first + Len(packets) - 1 :
                                packets[n - first + 1].chan \in Reliable}
            IN  /\ first + Len(packets) <= Bound(e)
                /\ next' = [next EXCEPT ![e] = first + Len(packets)]
                /\ net' = net \cup {[to |-> Other(e), num |-> first + i - 1,
                                     carries |-> packets[i], acks |-> acks]
                                    : i \in DOMAIN packets}
                /\ ackMap' = [ackMap EXCEPT ![e] =
                                 [n \in DOMAIN @ \cup reliable |->
                                     IF n \in reliable THEN packets[n - first + 1] ELSE @[n]]]
                /\ outgoing' = [outgoing EXCEPT ![e] = [c \in Channels |->
                                   SubSeq(queue[c], room[c] + 1, Len(queue[c]))]]
                /\ sinceSend' = IF sent = <<>> THEN sinceSend
                                ELSE [sinceSend EXCEPT ![e] = 0]
                /\ carried' = [carried EXCEPT ![e] = @ \o packets]
                /\ reported' = IF packets = <<>> THEN reported
                               ELSE [reported EXCEPT ![e] = @ \cup acks]
        /\ sendBuffer' = [sendBuffer EXCEPT ![e] = SendBufferNow(e)]
        /\ pendingAck' = [pendingAck EXCEPT ![e] = FALSE]
        /\ ran' = IF calm THEN ran \cup {e} ELSE ran
        /\ UNCHANGED <<calm, up, sinceRecv, posted, accepted, acked>>

\* One unit of time.  In calm weather it leaves time for a frame of each end and
\* for every packet to arrive.
Later(e, age, bound) == IF e \in up /\ age < bound THEN age + 1 ELSE age
Elapse ==
    /\ calm => up \subseteq ran /\ net = {}
    /\ sinceSend' = [e \in Ends |-> Later(e, sinceSend[e], KeepaliveInterval)]
    /\ sinceRecv' = [e \in Ends |-> Later(e, sinceRecv[e], ConnectionTimeout)]
    /\ sendBuffer' = [e \in Ends |-> [m \in DOMAIN sendBuffer[e] |->
                         [sendBuffer[e][m] EXCEPT !.age = Later(e, @, Rto + 1)]]]
    /\ ran' = {}
    /\ UNCHANGED <<calm, up, posted, outgoing, next, accepted, ackMap, pendingAck,
                   net, history>>

Next ==
    \/ \E e \in Senders, c \in Channels : SendMessage(e, c)
    \/ \E p \in net : Receive(p)
    \/ \E e \in Ends : Expire(e) \/ Frame(e)
    \/ Elapse

Spec == Init /\ [][Next]_vars
-----------------------------------------------------------------------------
TypeOK ==
    /\ calm \in BOOLEAN /\ up \subseteq Ends /\ ran \subseteq Ends
    /\ \A e \in Ends :
        /\ sinceSend[e] \in 0 .. KeepaliveInterval
        /\ sinceRecv[e] \in 0 .. ConnectionTimeout
        /\ posted[e] \in [Channels -> Nat]
        /\ DOMAIN sendBuffer[e] \subseteq Messages
        /\ \A m \in DOMAIN sendBuffer[e] : sendBuffer[e][m] \in SendEntries
        /\ \A c \in Channels : outgoing[e][c] \in Seq(Messages)
        /\ next[e] \in 0 .. Bound(e)
        /\ accepted[e] \subseteq 0 .. (next[Other(e)] - 1)
        /\ DOMAIN ackMap[e] \subseteq 0 .. (next[e] - 1)
        /\ pendingAck[e] \in BOOLEAN
        /\ \A n \in DOMAIN ackMap[e] : ackMap[e][n].chan \in Reliable

\* A message its sender forgets because it was acknowledged did arrive, through
\* whichever of its packets; except what packet 0 carried, which a fresh end
\* acknowledges unseen.
AckedArrived ==
    \A e \in Ends : \A m \in acked[e] :
        \E n \in accepted[Other(e)] \cup {0} : n < next[e] /\ carried[e][n + 1] = m

\* No acknowledgement is left owing: once the frame after a packet's arrival is
\* over, some packet sent reports it (unless a burst pushed it out of the ack
\* bits), whether data, a keepalive or a bare acknowledgement carried the report.
AcksGoOut ==
    \A e \in up : ~pendingAck[e] => AckInfo(e) \cap accepted[e] \subseteq reported[e]

\* The state is well typed, and a message is queued and sent, all in all, at most
\* once more than it may be retried, however retransmission, backlog and
\* acknowledgement interleave.
Copies(q, m) == {i \in DOMAIN q : q[i] = m}
CopiesBounded ==
    /\ TypeOK
    /\ \A e \in Ends : \A c \in Channels : \A i \in 1 .. posted[e][c] :
           LET m == [chan |-> c, id |-> i]
           IN  Cardinality(Copies(carried[e], m)) + Cardinality(Copies(outgoing[e][c], m))
                   <= 1 + MaxRetries

\* In calm weather keepalives keep both ends up, however little they say.
StaysUp == calm => up = Ends

\* In calm weather every message is acknowledged before it is retransmitted.
NoNeedlessRetransmission ==
    calm => \A e \in Ends : \A m \in DOMAIN sendBuffer[e] : sendBuffer[e][m].retries = 0
=============================================================================

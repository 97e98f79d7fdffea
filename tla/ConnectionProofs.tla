-------------------------- MODULE ConnectionProofs --------------------------
(***************************************************************************)
(* Theorems about an established connection, for any number of channels,   *)
(* whatever the network does and congestion control holds back: that its   *)
(* acknowledgements are true and are paid, that what it sends is bounded,  *)
(* and that in calm weather it stays up and sends nothing twice.           *)
(***************************************************************************)
EXTENDS Connection, CommonProofs

-----------------------------------------------------------------------------
(* The state. *)

\* The messages the application has posted, on any channel and on one.
Posted(e)  == {m \in Messages : m.id \in 1 .. posted[e][m.chan]}
Ours(e, c) == {m \in Posted(e) : m.chan = c}

Clocks ==
    /\ calm \in BOOLEAN /\ up \subseteq Ends /\ ran \subseteq Ends
    /\ sinceSend \in [Ends -> 0 .. KeepaliveInterval]
    /\ sinceRecv \in [Ends -> 0 .. ConnectionTimeout]
    /\ pendingAck \in [Ends -> BOOLEAN]

\* What waits to be sent, or to be sent again, was posted.
Buffers ==
    /\ posted \in [Ends -> [Channels -> Nat]]
    /\ DOMAIN sendBuffer = Ends
    /\ \A e \in Ends :
        /\ \A m \in DOMAIN sendBuffer[e] : m \in Posted(e) /\ m.chan \in Reliable
        /\ \A m \in DOMAIN sendBuffer[e] : sendBuffer[e][m] \in SendEntries
    /\ outgoing \in [Ends -> [Channels -> Seq(Messages)]]
    /\ \A e \in Ends, c \in Channels : outgoing[e][c] \in Seq(Ours(e, c))

\* What was sent is known by its number.
Numbered ==
    /\ next \in [Ends -> Nat] /\ \A e \in Ends : next[e] <= Bound(e)
    /\ DOMAIN carried = Ends
    /\ \A e \in Ends : carried[e] \in Seq(Posted(e) \cup {Bare}) /\ Len(carried[e]) = next[e]
Mapped ==
    /\ DOMAIN ackMap = Ends
    /\ \A e \in Ends : \A n \in DOMAIN ackMap[e] :
           /\ n \in 0 .. (next[e] - 1)
           /\ ackMap[e][n] = carried[e][n + 1] /\ ackMap[e][n].chan \in Reliable

\* What arrives was sent, and acknowledges what had arrived.
Arrivals ==
    /\ DOMAIN accepted = Ends /\ DOMAIN acked = Ends /\ DOMAIN reported = Ends
    /\ \A e \in Ends : accepted[e] \subseteq 0 .. (next[Other(e)] - 1)
    /\ \A p \in net : /\ p.to \in Ends /\ p.num \in 0 .. (next[Other(p.to)] - 1)
                      /\ p.acks \subseteq accepted[Other(p.to)] \cup {0}

\* The inductive invariant.
ConnInv == Clocks /\ Buffers /\ Numbered /\ Mapped /\ Arrivals /\ AckedArrived

LEMMA Others ==
    ASSUME NEW e \in Ends
    PROVE  /\ Other(e) \in Ends /\ Other(e) # e /\ Other(Other(e)) = e
           /\ \A f \in Ends : f = e \/ f = Other(e)
<1>1. PICK a, b : a # b /\ Ends = {a, b}
  <2>1. PICK a \in Ends : TRUE
    OBVIOUS
  <2>2. IsFiniteSet(Ends \ {a}) /\ Cardinality(Ends \ {a}) = 1
    <3>1. IsFiniteSet(Ends) /\ Cardinality(Ends) = 2
      BY ConnectionAssumption
    <3> QED
      BY <3>1, FS_RemoveElement
  <2>3. PICK b : Ends \ {a} = {b}
    BY <2>2, FS_Singleton
  <2>4. a # b /\ Ends = {a, b}
    BY <2>3
  <2> QED
    BY <2>4
<1>2. \E f \in Ends : f # e
  BY <1>1
<1>3. Other(e) \in Ends /\ Other(e) # e
  BY <1>2 DEF Other
<1>4. \E f \in Ends : f # Other(e)
  BY <1>1
<1>5. Other(Other(e)) \in Ends /\ Other(Other(e)) # Other(e)
  BY <1>4 DEF Other
<1> QED
  BY <1>1, <1>3, <1>5

LEMMA PostedIs ==
    ASSUME Buffers, NEW e \in Ends, NEW c \in Channels
    PROVE  /\ posted[e][c] \in Nat
           /\ \A i \in 1 .. posted[e][c] : [chan |-> c, id |-> i] \in Ours(e, c)
           /\ \A m \in Ours(e, c) : /\ m.id \in 1 .. posted[e][c]
                                    /\ m = [chan |-> c, id |-> m.id]
           /\ \A m \in Posted(e) : m.chan \in Channels /\ m \in Ours(e, m.chan)
<1>1. posted[e][c] \in Nat
  BY DEF Buffers
<1> QED
  BY <1>1 DEF Posted, Ours, Messages

-----------------------------------------------------------------------------
(* A frame. *)

Again(e, c) == {i \in 1 .. posted[e][c] : [chan |-> c, id |-> i] \in Retransmitted(e)}

\* The queue of a frame: what was there before, and every message to be sent again once.
LEMMA QueueIs ==
    ASSUME Buffers, NEW e \in Ends, NEW c \in Channels
    PROVE  /\ Queue(e, c) \in Seq(Ours(e, c))
           /\ \A m \in Ours(e, c) :
                  CountOf(Queue(e, c), m) =
                      CountOf(outgoing[e][c], m) + (IF m \in Retransmitted(e) THEN 1 ELSE 0)
<1> DEFINE S == Again(e, c)
           k == Cardinality(S)
           tail == [i \in 1 .. k |-> [chan |-> c, id |-> Ascending(S)[i]]]
<1>1. S \in SUBSET (1 .. posted[e][c]) /\ posted[e][c] \in Nat
  BY PostedIs DEF Again
<1>2. IsFiniteSet(S) /\ S \in SUBSET Int
  <2>1. IsFiniteSet(1 .. posted[e][c])
    BY <1>1, FS_Interval
  <2> HIDE DEF S
  <2>2. IsFiniteSet(S)
    BY <1>1, <2>1, FS_Subset
  <2>3. S \in SUBSET Int
    BY <1>1
  <2> QED
    BY <2>2, <2>3
<1>3. /\ k \in Nat /\ Ascending(S) \in [1 .. k -> S]
      /\ \A s \in S : \E i \in 1 .. k : Ascending(S)[i] = s
      /\ \A i, j \in 1 .. k : i < j => Ascending(S)[i] < Ascending(S)[j]
  <2> HIDE DEF S
  <2> QED
    BY <1>2, AscendingIs
<1>4. tail \in Seq(Ours(e, c)) /\ Len(tail) = k
  <2>1. \A i \in 1 .. k : [chan |-> c, id |-> Ascending(S)[i]] \in Ours(e, c)
    <3> HIDE DEF S
    <3> QED
      BY <1>1, <1>3, PostedIs
  <2> HIDE DEF S, k
  <2> QED
    BY <1>3, <2>1
<1>5. Queue(e, c) = outgoing[e][c] \o tail
  BY DEF Queue, Again
<1>6. outgoing[e][c] \in Seq(Ours(e, c))
  BY DEF Buffers
<1>7. Queue(e, c) \in Seq(Ours(e, c))
  <2> HIDE DEF tail
  <2> QED
    BY <1>4, <1>5, <1>6
<1>8. ASSUME NEW m \in Ours(e, c)
      PROVE  CountOf(tail, m) = IF m \in Retransmitted(e) THEN 1 ELSE 0
  <2>1. m = [chan |-> c, id |-> m.id] /\ m.id \in 1 .. posted[e][c]
    BY PostedIs
  <2>2. DOMAIN tail = 1 .. k
    OBVIOUS
  <2>3. CASE m \in Retransmitted(e)
    <3>1. m.id \in S
      BY <2>1, <2>3 DEF Again
    <3>2. PICK i \in 1 .. k : Ascending(S)[i] = m.id
      <4> HIDE DEF S
      <4> QED
        BY <1>3, <3>1
    <3>3. tail[i] = m
      BY <2>1, <3>2
    <3>4. \A j \in 1 .. k : Ascending(S)[j] = Ascending(S)[i] => j = i
      <4> SUFFICES ASSUME NEW j \in 1 .. k, Ascending(S)[j] = Ascending(S)[i], j # i
                   PROVE  FALSE
        OBVIOUS
      <4>1. Ascending(S)[i] \in Int /\ Ascending(S)[j] \in Int
        <5> HIDE DEF S, k
        <5> QED
          BY <1>2, <1>3
      <4>2. i < j \/ j < i
        BY <1>3
      <4> HIDE DEF S, k
      <4> QED
        BY <1>3, <4>1, <4>2
    <3>5. \A j \in DOMAIN tail : tail[j] = tail[i] => j = i
      <4> SUFFICES ASSUME NEW j \in 1 .. k, tail[j] = tail[i]
                   PROVE  j = i
        BY <2>2
      <4>1. \A x, y : [chan |-> c, id |-> x] = [chan |-> c, id |-> y] => x = y
        OBVIOUS
      <4>2. tail[j] = [chan |-> c, id |-> Ascending(S)[j]]
            /\ tail[i] = [chan |-> c, id |-> Ascending(S)[i]]
        OBVIOUS
      <4>3. Ascending(S)[j] = Ascending(S)[i]
        <5> HIDE DEF tail, S, k
        <5> QED
          BY <4>1, <4>2
      <4> QED
        BY <3>4, <4>3
    <3> HIDE DEF tail
    <3>6. CountOf(tail, tail[i]) = 1
      BY <2>2, <3>2, <3>5, CountOnce
    <3> QED
      BY <2>3, <3>3, <3>6
  <2>4. CASE m \notin Retransmitted(e)
    <3>1. \A i \in 1 .. k : Ascending(S)[i] \in S
      <4> HIDE DEF S, k
      <4> QED
        BY <1>3
    <3>2. m.id \notin S
      BY <2>1, <2>4 DEF Again
    <3>3. \A i \in 1 .. k : tail[i].id # m.id
      BY <3>1, <3>2
    <3>4. \A i \in DOMAIN tail : tail[i] # m
      BY <2>2, <3>3
    <3> HIDE DEF tail
    <3> QED
      BY <2>4, <3>4, CountNone
  <2> QED
    BY <2>3, <2>4
<1> HIDE DEF tail
<1> QED
  BY <1>4, <1>5, <1>6, <1>7, <1>8, CountConcat

\* What leaves in a frame is, of every channel, the part there is room for.
LEMMA LeavingIs ==
    ASSUME Buffers, NEW e \in Ends, NEW queue, NEW room,
           \A c \in Channels : queue[c] \in Seq(Ours(e, c)) /\ room[c] \in 0 .. Len(queue[c])
    PROVE  /\ Leaving(queue, room) \in Seq(Posted(e))
           /\ \A c \in Channels : \A m \in Ours(e, c) :
                  CountOf(Leaving(queue, room), m) = CountOf(SubSeq(queue[c], 1, room[c]), m)
<1> DEFINE order == Ascending(Channels)
           n == Cardinality(Channels)
           part(c) == SubSeq(queue[c], 1, room[c])
           parts == [i \in DOMAIN order |-> part(order[i])]
<1>1. Channels \in SUBSET Int /\ IsFiniteSet(Channels)
  BY ConnectionAssumption
<1>2. /\ n \in Nat /\ order \in [1 .. n -> Channels]
      /\ \A c \in Channels : \E i \in 1 .. n : order[i] = c
      /\ \A i, j \in 1 .. n : i < j => order[i] < order[j]
  BY <1>1, AscendingIs
<1>3. \A c \in Channels : part(c) \in Seq(Ours(e, c)) /\ part(c) \in Seq(Posted(e))
  <2> SUFFICES ASSUME NEW c \in Channels
               PROVE  part(c) \in Seq(Ours(e, c)) /\ part(c) \in Seq(Posted(e))
    OBVIOUS
  <2>1. queue[c] \in Seq(Ours(e, c)) /\ room[c] \in 0 .. Len(queue[c])
    OBVIOUS
  <2>2. part(c) \in Seq(Ours(e, c))
    BY <2>1, CountSplit
  <2>3. Ours(e, c) \subseteq Posted(e)
    BY DEF Ours
  <2> HIDE DEF part
  <2> QED
    BY <2>2, <2>3
<1>4. parts \in Seq(Seq(Posted(e))) /\ Len(parts) = n
  <2>1. \A i \in 1 .. n : part(order[i]) \in Seq(Posted(e))
    <3> HIDE DEF part, order, n
    <3> QED
      BY <1>2, <1>3
  <2> HIDE DEF part, order, n
  <2> QED
    BY <1>2, <2>1
<1>5. Leaving(queue, room) = FlattenSeq(parts)
  BY DEF Leaving
<1>6. Leaving(queue, room) \in Seq(Posted(e))
  <2> HIDE DEF parts
  <2> QED
    BY <1>4, <1>5, FlattenIs
<1>7. ASSUME NEW c \in Channels, NEW m \in Ours(e, c)
      PROVE  CountOf(Leaving(queue, room), m) = CountOf(part(c), m)
  <2>1. PICK k \in 1 .. n : order[k] = c
    BY <1>2
  <2>2. \A i \in 1 .. n : i # k => order[i] # c
    <3> HIDE DEF order, n
    <3>1. order[k] \in Int /\ \A i \in 1 .. n : order[i] \in Int
      BY <1>1, <1>2
    <3>2. \A i \in 1 .. n : i # k => i < k \/ k < i
      BY <1>2
    <3> QED
      BY <1>2, <2>1, <3>1, <3>2
  <2>3. ASSUME NEW i \in 1 .. n, i # k
        PROVE  CountOf(parts[i], m) = 0
    <3>1. order[i] \in Channels /\ order[i] # c
      BY <1>2, <2>2, <2>3
    <3>2. part(order[i]) \in Seq(Ours(e, order[i])) /\ parts[i] = part(order[i])
      <4> HIDE DEF part
      <4> QED
        BY <1>2, <1>3, <3>1
    <3>3. m \notin Ours(e, order[i])
      BY <3>1 DEF Ours
    <3>4. \A j \in DOMAIN part(order[i]) : part(order[i])[j] # m
      <4> HIDE DEF part
      <4> QED
        BY <3>2, <3>3
    <3>5. CountOf(part(order[i]), m) = 0
      <4> HIDE DEF part
      <4> QED
        BY <3>4, CountNone
    <3> QED
      BY <3>2, <3>5
  <2>4. parts[k] = part(c) /\ k \in 1 .. Len(parts)
    BY <1>2, <1>4, <2>1
  <2> HIDE DEF parts, part, n
  <2>5. CountOf(FlattenSeq(parts), m) = CountOf(parts[k], m)
    BY <1>4, <2>3, <2>4, FlattenCount
  <2> QED
    BY <1>5, <2>4, <2>5
<1> QED
  BY <1>6, <1>7

Queues(e) == [c \in Channels |-> Queue(e, c)]

\* The messages, and the packets, of a frame that has this room.
Sent(e, room) == Leaving(Queues(e), room)
Bares(e, room) == KeepaliveDue(e, Sent(e, room)) \/ AckOnly(e, Sent(e, room))
Out(e, room)  == IF Bares(e, room) THEN <<Bare>> ELSE Sent(e, room)

LEMMA FrameSends ==
    ASSUME Buffers, NEW e \in Ends, NEW room \in Rooms(Queues(e))
    PROVE  /\ \A c \in Channels : room[c] \in 0 .. Len(Queue(e, c))
           /\ Sent(e, room) \in Seq(Posted(e)) /\ Out(e, room) \in Seq(Posted(e) \cup {Bare})
           /\ \A c \in Channels : \A m \in Ours(e, c) :
                  CountOf(Out(e, room), m) = CountOf(SubSeq(Queue(e, c), 1, room[c]), m)
<1>1. \A c \in Channels : Queue(e, c) \in Seq(Ours(e, c)) /\ Queues(e)[c] = Queue(e, c)
  BY QueueIs DEF Queues
<1>2. \A c \in Channels : Len(Queue(e, c)) \in Nat
  BY <1>1
<1>3. \A c \in Channels : room[c] \in 0 .. Len(Queue(e, c))
  <2> DEFINE all == [c \in Channels |-> Len(Queues(e)[c])]
  <2>1. \A c \in Channels : all[c] = Len(Queue(e, c))
    BY <1>1
  <2>2. room = all \/ (room \in [Channels -> 0 .. MaxPackets] /\ \A c \in Channels : room[c] <= all[c])
    BY DEF Rooms
  <2> HIDE DEF all
  <2>3. CASE room = all
    BY <1>2, <2>1, <2>3
  <2>4. CASE room \in [Channels -> 0 .. MaxPackets] /\ \A c \in Channels : room[c] <= all[c]
    <3>1. MaxPackets \in Nat
      BY ConnectionAssumption
    <3> QED
      BY <1>2, <2>1, <2>4, <3>1
  <2> QED
    BY <2>2, <2>3, <2>4
<1>4. /\ Sent(e, room) \in Seq(Posted(e))
      /\ \A c \in Channels : \A m \in Ours(e, c) :
             CountOf(Sent(e, room), m) = CountOf(SubSeq(Queue(e, c), 1, room[c]), m)
  <2>1. \A c \in Channels : Queues(e)[c] \in Seq(Ours(e, c)) /\ room[c] \in 0 .. Len(Queues(e)[c])
    BY <1>1, <1>3
  <2>2. /\ Leaving(Queues(e), room) \in Seq(Posted(e))
        /\ \A c \in Channels : \A m \in Ours(e, c) :
             CountOf(Leaving(Queues(e), room), m) = CountOf(SubSeq(Queues(e)[c], 1, room[c]), m)
    BY <2>1, LeavingIs
  <2> QED
    BY <1>1, <2>2 DEF Sent
<1>5. CASE Bares(e, room)
  <2>1. Out(e, room) = <<Bare>>
    BY <1>5 DEF Out
  <2>2. Sent(e, room) = <<>>
    BY <1>5 DEF Bares, KeepaliveDue, AckOnly
  <2>3. ASSUME NEW c \in Channels, NEW m \in Ours(e, c)
        PROVE  CountOf(<<Bare>>, m) = CountOf(Sent(e, room), m)
    <3>1. m.chan \in Nat
      BY ConnectionAssumption DEF Ours, Posted, Messages
    <3>2. m # Bare
      BY <3>1 DEF Bare
    <3>3. CountOf(<<Bare>>, m) = 0 /\ CountOf(<<>>, m) = 0
      BY <3>2, CountNone
    <3> QED
      BY <2>2, <3>3
  <2>4. <<Bare>> \in Seq(Posted(e) \cup {Bare})
    OBVIOUS
  <2> QED
    BY <1>3, <1>4, <2>1, <2>3, <2>4
<1>6. CASE ~Bares(e, room)
  <2>1. Out(e, room) = Sent(e, room)
    BY <1>6 DEF Out
  <2>2. Sent(e, room) \in Seq(Posted(e) \cup {Bare})
    <3> DEFINE q == Sent(e, room)
    <3>1. q \in Seq(Posted(e))
      BY <1>4
    <3> HIDE DEF q
    <3>2. q \in Seq(Posted(e) \cup {Bare})
      BY <3>1
    <3> QED
      BY <3>2 DEF q
  <2> QED
    BY <1>3, <1>4, <2>1, <2>2
<1> QED
  BY <1>5, <1>6

\* A frame, as its proofs speak of it.
FrameWith(e, room) ==
    /\ next[e] + Len(Out(e, room)) <= Bound(e)
    /\ next' = [next EXCEPT ![e] = next[e] + Len(Out(e, room))]
    /\ net' = net \cup {[to |-> Other(e), num |-> next[e] + i - 1, carries |-> Out(e, room)[i],
                         acks |-> AckInfo(e)] : i \in DOMAIN Out(e, room)}
    /\ ackMap' = [ackMap EXCEPT ![e] =
           LET reliable == {n \in next[e] .. next[e] + Len(Out(e, room)) - 1 :
                                Out(e, room)[n - next[e] + 1].chan \in Reliable}
           IN  [n \in DOMAIN @ \cup reliable |->
                   IF n \in reliable THEN Out(e, room)[n - next[e] + 1] ELSE @[n]]]
    /\ outgoing' = [outgoing EXCEPT ![e] = [c \in Channels |->
                       SubSeq(Queues(e)[c], room[c] + 1, Len(Queues(e)[c]))]]
    /\ sinceSend' = IF Sent(e, room) = <<>> THEN sinceSend ELSE [sinceSend EXCEPT ![e] = 0]
    /\ carried' = [carried EXCEPT ![e] = @ \o Out(e, room)]
    /\ reported' = IF Out(e, room) = <<>> THEN reported
                   ELSE [reported EXCEPT ![e] = @ \cup AckInfo(e)]

LEMMA FrameIs ==
    ASSUME NEW e \in Ends, Frame(e)
    PROVE  /\ e \in up /\ e \notin ran /\ sinceRecv[e] < ConnectionTimeout
           /\ \E room \in Rooms(Queues(e)) : FrameWith(e, room)
           /\ sendBuffer' = [sendBuffer EXCEPT ![e] = SendBufferNow(e)]
           /\ pendingAck' = [pendingAck EXCEPT ![e] = FALSE]
           /\ ran' = IF calm THEN ran \cup {e} ELSE ran
           /\ UNCHANGED <<calm, up, sinceRecv, posted, accepted, acked>>
<1>1. \E room \in Rooms(Queues(e)) : FrameWith(e, room)
  BY Zenon DEF Frame, FrameWith, Out, Bares, Sent, Queues
<1> QED
  BY <1>1 DEF Frame

-----------------------------------------------------------------------------
(* What every action keeps. *)

LEMMA InitConn == Init => ConnInv
<1> SUFFICES ASSUME Init PROVE ConnInv
  OBVIOUS
<1> USE DEF Init
<1>1. Clocks
  BY ConnectionAssumption DEF Clocks
<1>2. Buffers
  <2>1. posted \in [Ends -> [Channels -> Nat]]
    OBVIOUS
  <2>2. \A e \in Ends, c \in Channels : outgoing[e][c] = <<>>
    OBVIOUS
  <2>3. \A S : <<>> \in Seq(S)
    OBVIOUS
  <2>4. \A e \in Ends : DOMAIN sendBuffer[e] = {}
    BY DEF NoMessage
  <2>5. outgoing \in [Ends -> [Channels -> Seq(Messages)]]
    OBVIOUS
  <2> QED
    BY <2>1, <2>2, <2>3, <2>4, <2>5 DEF Buffers
<1>3. Numbered
  BY ConnectionAssumption DEF Numbered, Bound
<1>4. Mapped
  BY DEF Mapped, NoMessage
<1>5. Arrivals
  BY DEF Arrivals
<1>6. AckedArrived
  BY DEF AckedArrived
<1> QED
  BY <1>1, <1>2, <1>3, <1>4, <1>5, <1>6 DEF ConnInv

LEMMA Sames ==
    ASSUME UNCHANGED posted
    PROVE  \A e \in Ends : Posted(e)' = Posted(e) /\ \A c \in Channels : Ours(e, c)' = Ours(e, c)
BY DEF Posted, Ours

LEMMA SendStep ==
    ASSUME ConnInv, NEW e \in Senders, NEW c \in Channels, SendMessage(e, c)
    PROVE  /\ ConnInv'
           /\ \A f \in Ends : Posted(f) \subseteq Posted(f)'
           /\ [chan |-> c, id |-> posted[e][c] + 1] \notin Posted(e)
<1> DEFINE m == [chan |-> c, id |-> posted[e][c] + 1]
<1>0. e \in Ends /\ Clocks /\ Buffers /\ Numbered /\ Mapped /\ Arrivals /\ AckedArrived
  BY ConnectionAssumption DEF ConnInv
<1>1. UNCHANGED <<calm, up, sinceSend, sinceRecv, ran, next, accepted, ackMap, pendingAck, net,
                  carried, acked, reported>>
  BY DEF SendMessage, timers, history
<1>2. /\ posted' \in [Ends -> [Channels -> Nat]]
      /\ \A f \in Ends, d \in Channels :
             posted'[f][d] = IF f = e /\ d = c THEN posted[f][d] + 1 ELSE posted[f][d]
  BY <1>0 DEF SendMessage, Buffers
<1>3. /\ \A f \in Ends : Posted(f) \subseteq Posted(f)'
      /\ \A f \in Ends, d \in Channels : Ours(f, d) \subseteq Ours(f, d)'
  <2>1. \A f \in Ends, d \in Channels : posted[f][d] \in Nat
    BY <1>0 DEF Buffers
  <2> QED
    BY <1>2, <2>1 DEF Posted, Ours, Messages
<1>4. m \in Messages /\ m \notin Posted(e) /\ m \in Ours(e, c)' /\ m.chan = c
  <2>1. posted[e][c] \in Nat
    BY <1>0 DEF Buffers
  <2> QED
    BY <1>0, <1>2, <2>1 DEF Posted, Ours, Messages
<1>5. Clocks'
  BY <1>0, <1>1 DEF Clocks
<1>6. Buffers'
  <2>1. outgoing' = [outgoing EXCEPT ![e][c] = Append(@, m)]
    BY DEF SendMessage
  <2>2. outgoing \in [Ends -> [Channels -> Seq(Messages)]]
    BY <1>0 DEF Buffers
  <2>3. \A f \in Ends, d \in Channels :
            outgoing'[f][d] = IF f = e /\ d = c THEN Append(outgoing[f][d], m) ELSE outgoing[f][d]
    <3> HIDE DEF m
    <3> QED
      BY <1>0, <2>1, <2>2
  <2>4. outgoing' \in [Ends -> [Channels -> Seq(Messages)]]
    <3> HIDE DEF m
    <3>1. Append(outgoing[e][c], m) \in Seq(Messages)
      BY <1>0, <1>4, <2>2
    <3> QED
      BY <1>0, <2>1, <2>2, <3>1
  <2>5. ASSUME NEW f \in Ends, NEW d \in Channels
        PROVE  outgoing'[f][d] \in Seq(Ours(f, d)')
    <3>1. outgoing[f][d] \in Seq(Ours(f, d)) /\ Ours(f, d) \subseteq Ours(f, d)'
      BY <1>0, <1>3 DEF Buffers
    <3>2. outgoing[f][d] \in Seq(Ours(f, d)')
      BY <3>1
    <3>3. CASE f = e /\ d = c
      <4>1. m \in Ours(f, d)'
        BY <1>4, <3>3
      <4>2. outgoing'[f][d] = Append(outgoing[f][d], m)
        BY <2>3, <3>3
      <4> HIDE DEF m
      <4> QED
        BY <3>2, <4>1, <4>2
    <3>4. CASE ~(f = e /\ d = c)
      BY <2>3, <3>2, <3>4
    <3> QED
      BY <3>3, <3>4
  <2>6. /\ DOMAIN sendBuffer' = Ends
        /\ \A f \in Ends : \A k \in DOMAIN sendBuffer'[f] :
              \/ k \in DOMAIN sendBuffer[f] /\ sendBuffer'[f][k] = sendBuffer[f][k]
              \/ f = e /\ k = m /\ c \in Reliable /\ sendBuffer'[f][k] = [age |-> 0, retries |-> 0]
    <3>1. DOMAIN sendBuffer = Ends
      BY <1>0 DEF Buffers
    <3>2. sendBuffer' = IF c \in Reliable
                        THEN [sendBuffer EXCEPT ![e] = With(@, m, [age |-> 0, retries |-> 0])]
                        ELSE sendBuffer
      BY DEF SendMessage
    <3> HIDE DEF m
    <3> QED
      BY <1>0, <3>1, <3>2 DEF With
  <2>7. [age |-> 0, retries |-> 0] \in SendEntries
    BY ConnectionAssumption DEF SendEntries
  <2>8. \A f \in Ends : \A k \in DOMAIN sendBuffer'[f] :
            k \in Posted(f)' /\ k.chan \in Reliable /\ sendBuffer'[f][k] \in SendEntries
    <3>1. m \in Posted(e)'
      BY <1>4 DEF Ours
    <3> HIDE DEF m
    <3> QED
      BY <1>0, <1>3, <1>4, <2>6, <2>7, <3>1 DEF Buffers
  <2> QED
    BY <1>2, <2>4, <2>5, <2>6, <2>8 DEF Buffers
<1>7. Numbered'
  <2>1. \A f \in Ends : carried'[f] \in Seq(Posted(f)' \cup {Bare})
    <3> SUFFICES ASSUME NEW f \in Ends PROVE carried'[f] \in Seq(Posted(f)' \cup {Bare})
      OBVIOUS
    <3>1. carried'[f] \in Seq(Posted(f) \cup {Bare})
      BY <1>0, <1>1 DEF Numbered
    <3>2. Posted(f) \subseteq Posted(f)'
      BY <1>3
    <3> QED
      BY <3>1, <3>2
  <2> QED
    BY <1>0, <1>1, <2>1 DEF Numbered, Bound
<1>8. Mapped' /\ Arrivals' /\ AckedArrived'
  BY <1>0, <1>1 DEF Mapped, Arrivals, AckedArrived
<1> QED
  BY <1>3, <1>4, <1>5, <1>6, <1>7, <1>8 DEF ConnInv

LEMMA ReceiveStep ==
    ASSUME ConnInv, NEW p \in net, Receive(p)
    PROVE  ConnInv'
<1> DEFINE e == p.to  done == Resolved(e, p.acks)  ms == {ackMap[e][n] : n \in done}
<1>0. Clocks /\ Buffers /\ Numbered /\ Mapped /\ Arrivals /\ AckedArrived
  BY DEF ConnInv
<1>1. e \in Ends
  BY <1>0 DEF Arrivals
<1>2. UNCHANGED <<calm, up, sinceSend, ran, posted, outgoing, next, carried, reported>>
  BY DEF Receive
<1>3. \A f \in Ends : Posted(f)' = Posted(f) /\ \A c \in Channels : Ours(f, c)' = Ours(f, c)
  BY <1>2, Sames
<1>4. Clocks'
  BY <1>0, <1>1, <1>2, ConnectionAssumption DEF Clocks, Receive
<1>5. Buffers'
  <2>1. sendBuffer' = [sendBuffer EXCEPT ![e] = Without(@, ms)]
    BY DEF Receive
  <2>2. DOMAIN sendBuffer' = Ends /\ \A f \in Ends : \A k \in DOMAIN sendBuffer'[f] :
            k \in DOMAIN sendBuffer[f] /\ sendBuffer'[f][k] = sendBuffer[f][k]
    <3> HIDE DEF e, ms
    <3> QED
      BY <1>0, <1>1, <2>1 DEF Without, Buffers
  <2> QED
    BY <1>0, <1>2, <1>3, <2>2 DEF Buffers
<1>6. Numbered'
  BY <1>0, <1>2, <1>3 DEF Numbered, Bound
<1>7. Mapped'
  <2>1. ackMap' = [ackMap EXCEPT ![e] = Pruned(Without(@, done), Top(p.acks))]
    BY DEF Receive
  <2>2. \A f, S : DOMAIN Without(f, S) \subseteq DOMAIN f /\ \A n \in DOMAIN Without(f, S) : Without(f, S)[n] = f[n]
    BY DEF Without
  <2>3. \A f, t : DOMAIN Pruned(f, t) \subseteq DOMAIN f /\ \A n \in DOMAIN Pruned(f, t) : Pruned(f, t)[n] = f[n]
    BY <2>2 DEF Pruned
  <2>4. DOMAIN ackMap' = Ends /\ \A f \in Ends : \A n \in DOMAIN ackMap'[f] :
            n \in DOMAIN ackMap[f] /\ ackMap'[f][n] = ackMap[f][n]
    <3> HIDE DEF e, done
    <3> QED
      BY <1>0, <1>1, <2>1, <2>2, <2>3 DEF Mapped
  <2> QED
    BY <1>0, <1>2, <2>4 DEF Mapped
<1>8. accepted' = [accepted EXCEPT ![e] = @ \cup {p.num}] /\ DOMAIN accepted = Ends
      /\ \A f \in Ends : accepted[f] \subseteq accepted'[f]
  <2> HIDE DEF e
  <2>1. accepted' = [accepted EXCEPT ![e] = @ \cup {p.num}]
    BY DEF Receive, e
  <2> QED
    BY <1>0, <1>1, <2>1 DEF Arrivals
<1>9. acked' = [acked EXCEPT ![e] = @ \cup ms] /\ DOMAIN acked = Ends
  BY <1>0 DEF Receive, Arrivals
<1>10. Arrivals'
  <2>1. \A f \in Ends : accepted'[f] \subseteq 0 .. (next[Other(f)] - 1)
    BY <1>0, <1>1, <1>8 DEF Arrivals
  <2>2. net' \subseteq net
    BY DEF Receive
  <2>3. \A q \in net' : /\ q.to \in Ends /\ q.num \in 0 .. (next[Other(q.to)] - 1)
                       /\ q.acks \subseteq accepted'[Other(q.to)] \cup {0}
    BY <1>0, <1>8, <2>2, Others DEF Arrivals
  <2>4. DOMAIN accepted' = Ends /\ DOMAIN acked' = Ends /\ DOMAIN reported' = Ends
    BY <1>0, <1>2, <1>8, <1>9 DEF Arrivals
  <2> QED
    BY <1>2, <2>1, <2>3, <2>4 DEF Arrivals
<1>11. AckedArrived'
  <2> SUFFICES ASSUME NEW f \in Ends, NEW m \in acked'[f]
               PROVE  \E n \in accepted'[Other(f)] \cup {0} : n < next[f] /\ carried[f][n + 1] = m
    BY <1>2 DEF AckedArrived
  <2>1. accepted[Other(f)] \subseteq accepted'[Other(f)]
    BY <1>8, Others
  <2>2. CASE m \in acked[f]
    BY <1>0, <2>1, <2>2 DEF AckedArrived
  <2>3. CASE m \notin acked[f]
    <3>1. f = e /\ m \in ms
      <4> HIDE DEF e, ms
      <4> QED
        BY <1>1, <1>9, <2>3
    <3>2. PICK n \in DOMAIN ackMap[f] : n \in p.acks /\ ackMap[f][n] = m
      BY <3>1 DEF Resolved
    <3>3. n \in 0 .. (next[f] - 1) /\ carried[f][n + 1] = m
      BY <1>0, <3>2 DEF Mapped
    <3>4. n \in accepted[Other(f)] \cup {0}
      BY <1>0, <3>1, <3>2 DEF Arrivals
    <3>5. next[f] \in Nat
      BY <1>0 DEF Numbered
    <3>6. n < next[f]
      BY <3>3, <3>5
    <3> QED
      BY <2>1, <3>3, <3>4, <3>6
  <2> QED
    BY <2>2, <2>3
<1> QED
  BY <1>4, <1>5, <1>6, <1>7, <1>10, <1>11 DEF ConnInv

LEMMA ExpireStep ==
    ASSUME ConnInv, NEW e \in Ends, Expire(e)
    PROVE  ConnInv'
<1>0. Clocks /\ Buffers /\ Numbered /\ Mapped /\ Arrivals /\ AckedArrived
  BY DEF ConnInv
<1>1. UNCHANGED <<calm, ran, posted, next, accepted, carried, acked, reported>>
  BY DEF Expire, history
<1>2. \A f \in Ends : Posted(f)' = Posted(f) /\ \A c \in Channels : Ours(f, c)' = Ours(f, c)
  BY <1>1, Sames
<1>3. Clocks'
  BY <1>0, <1>1, ConnectionAssumption DEF Clocks, Expire
<1>4. Buffers'
  <2>1. DOMAIN sendBuffer' = Ends /\ \A f \in Ends : \A k \in DOMAIN sendBuffer'[f] :
            k \in DOMAIN sendBuffer[f] /\ sendBuffer'[f][k] = sendBuffer[f][k]
    BY <1>0 DEF Expire, Buffers, NoMessage
  <2>2. outgoing' = [outgoing EXCEPT ![e] = [c \in Channels |-> <<>>]]
        /\ outgoing \in [Ends -> [Channels -> Seq(Messages)]]
    BY <1>0 DEF Expire, Buffers
  <2>3. \A S : <<>> \in Seq(S)
    OBVIOUS
  <2>4. outgoing' \in [Ends -> [Channels -> Seq(Messages)]]
    BY <2>2, <2>3
  <2>5. \A f \in Ends, c \in Channels : outgoing'[f][c] = IF f = e THEN <<>> ELSE outgoing[f][c]
    BY <2>2
  <2>6. \A f \in Ends, c \in Channels : outgoing'[f][c] \in Seq(Ours(f, c)')
    BY <1>0, <1>2, <2>3, <2>5 DEF Buffers
  <2> QED
    BY <1>0, <1>1, <1>2, <2>1, <2>4, <2>6 DEF Buffers
<1>5. Numbered'
  BY <1>0, <1>1, <1>2 DEF Numbered, Bound
<1>6. Mapped'
  BY <1>0, <1>1 DEF Mapped, Expire, NoMessage
<1>7. Arrivals'
  BY <1>0, <1>1 DEF Arrivals, Expire
<1>8. AckedArrived'
  BY <1>0, <1>1 DEF AckedArrived
<1> QED
  BY <1>3, <1>4, <1>5, <1>6, <1>7, <1>8 DEF ConnInv

LEMMA ElapseStep ==
    ASSUME ConnInv, Elapse
    PROVE  ConnInv'
<1>0. Clocks /\ Buffers /\ Numbered /\ Mapped /\ Arrivals /\ AckedArrived
  BY DEF ConnInv
<1>1. UNCHANGED <<calm, up, posted, outgoing, next, accepted, ackMap, pendingAck, net,
                  carried, acked, reported>>
  BY DEF Elapse, history
<1>2. \A f \in Ends : Posted(f)' = Posted(f) /\ \A c \in Channels : Ours(f, c)' = Ours(f, c)
  BY <1>1, Sames
<1>3. \A f \in Ends : \A b \in Nat : \A x \in 0 .. b : Later(f, x, b) \in 0 .. b
  BY DEF Later
<1>4. Clocks'
  <2>1. sinceSend' \in [Ends -> 0 .. KeepaliveInterval]
    BY <1>0, <1>3, ConnectionAssumption DEF Clocks, Elapse
  <2>2. sinceRecv' \in [Ends -> 0 .. ConnectionTimeout]
    <3>1. ConnectionTimeout \in Nat
      BY <1>0, ConnectionAssumption DEF Clocks
    <3> QED
      BY <1>0, <1>3, <3>1 DEF Clocks, Elapse
  <2>3. ran' \subseteq Ends
    BY DEF Elapse
  <2> QED
    BY <1>0, <1>1, <2>1, <2>2, <2>3 DEF Clocks
<1>5. Buffers'
  <2>1. sendBuffer' = [f \in Ends |-> [m \in DOMAIN sendBuffer[f] |->
                         [sendBuffer[f][m] EXCEPT !.age = Later(f, @, Rto + 1)]]]
    BY DEF Elapse
  <2>2. DOMAIN sendBuffer' = Ends /\ \A f \in Ends : DOMAIN sendBuffer'[f] = DOMAIN sendBuffer[f]
    BY <2>1
  <2>3. \A f \in Ends : \A x \in SendEntries : [x EXCEPT !.age = Later(f, @, Rto + 1)] \in SendEntries
    BY <1>3, ConnectionAssumption DEF SendEntries
  <2>4. \A f \in Ends : \A m \in DOMAIN sendBuffer'[f] : sendBuffer'[f][m] \in SendEntries
    BY <1>0, <2>1, <2>2, <2>3 DEF Buffers
  <2> QED
    BY <1>0, <1>1, <1>2, <2>2, <2>4 DEF Buffers
<1>6. Numbered'
  BY <1>0, <1>1, <1>2 DEF Numbered, Bound
<1>7. Mapped' /\ Arrivals' /\ AckedArrived'
  BY <1>0, <1>1 DEF Mapped, Arrivals, AckedArrived
<1> QED
  BY <1>4, <1>5, <1>6, <1>7 DEF ConnInv

\* What a frame leaves in the send buffer.
LEMMA NowIs ==
    ASSUME Buffers, NEW e \in Ends
    PROVE  /\ DOMAIN SendBufferNow(e) \subseteq DOMAIN sendBuffer[e]
           /\ \A m \in DOMAIN SendBufferNow(e) :
                 /\ SendBufferNow(e)[m] \in SendEntries
                 /\ SendBufferNow(e)[m].retries = sendBuffer[e][m].retries +
                        (IF m \in Retransmitted(e) THEN 1 ELSE 0)
           /\ Retransmitted(e) \subseteq DOMAIN SendBufferNow(e)
<1>1. \A m \in DOMAIN sendBuffer[e] : sendBuffer[e][m] \in SendEntries
  BY DEF Buffers
<1>2. MaxRetries \in Nat /\ Rto \in Nat
  BY ConnectionAssumption
<1>3. DOMAIN SendBufferNow(e) = DOMAIN sendBuffer[e] \ Dropped(e)
  BY DEF SendBufferNow
<1>4. Retransmitted(e) \subseteq DOMAIN SendBufferNow(e)
  BY <1>3 DEF Retransmitted, Overdue
<1>5. ASSUME NEW m \in DOMAIN SendBufferNow(e)
      PROVE  /\ SendBufferNow(e)[m] \in SendEntries
             /\ SendBufferNow(e)[m].retries = sendBuffer[e][m].retries +
                    (IF m \in Retransmitted(e) THEN 1 ELSE 0)
  <2>1. m \in DOMAIN sendBuffer[e] /\ m \notin Dropped(e)
    BY <1>3
  <2>2. SendBufferNow(e)[m] = IF m \in Retransmitted(e)
                              THEN [age |-> 0, retries |-> sendBuffer[e][m].retries + 1]
                              ELSE sendBuffer[e][m]
    BY <2>1 DEF SendBufferNow
  <2>3. sendBuffer[e][m].retries \in 0 .. MaxRetries
    BY <1>1, <2>1 DEF SendEntries
  <2>4. CASE m \in Retransmitted(e)
    <3>1. ~(sendBuffer[e][m].retries >= MaxRetries)
      BY <2>1, <2>4 DEF Retransmitted, Dropped
    <3>2. sendBuffer[e][m].retries + 1 \in 0 .. MaxRetries
      BY <1>2, <2>3, <3>1
    <3> QED
      BY <1>2, <2>2, <2>4, <3>2 DEF SendEntries
  <2>5. CASE m \notin Retransmitted(e)
    BY <1>1, <2>1, <2>2, <2>3, <2>5
  <2> QED
    BY <2>4, <2>5
<1> QED
  BY <1>3, <1>4, <1>5

LEMMA FrameStep ==
    ASSUME ConnInv, NEW e \in Ends, Frame(e)
    PROVE  ConnInv'
<1>0. Clocks /\ Buffers /\ Numbered /\ Mapped /\ Arrivals /\ AckedArrived
  BY DEF ConnInv
<1>1. PICK room \in Rooms(Queues(e)) : FrameWith(e, room)
  BY FrameIs
<1> DEFINE out == Out(e, room)
           first == next[e]
           reliable == {n \in first .. first + Len(out) - 1 : out[n - first + 1].chan \in Reliable}
<1>2. UNCHANGED <<calm, up, sinceRecv, posted, accepted, acked>>
  BY FrameIs
<1>3. \A f \in Ends : Posted(f)' = Posted(f) /\ \A c \in Channels : Ours(f, c)' = Ours(f, c)
  BY <1>2, Sames
<1>4. out \in Seq(Posted(e) \cup {Bare}) /\ \A c \in Channels : room[c] \in 0 .. Len(Queue(e, c))
  BY <1>0, FrameSends
<1>5. first \in Nat /\ Len(out) \in Nat
  BY <1>0, <1>4 DEF Numbered
<1>6. Clocks'
  <2>1. sinceSend' \in [Ends -> 0 .. KeepaliveInterval]
    BY <1>0, <1>1, ConnectionAssumption, SMTT(30) DEF Clocks, FrameWith
  <2>2. ran' \subseteq Ends
    BY <1>0, FrameIs DEF Clocks
  <2>3. pendingAck' \in [Ends -> BOOLEAN]
    BY <1>0, FrameIs DEF Clocks
  <2> QED
    BY <1>0, <1>2, <2>1, <2>2, <2>3 DEF Clocks
<1>7. Buffers'
  <2> DEFINE rest(c) == SubSeq(Queue(e, c), room[c] + 1, Len(Queue(e, c)))
  <2>1. outgoing' = [outgoing EXCEPT ![e] = [c \in Channels |-> rest(c)]]
    BY <1>1, Zenon DEF FrameWith, Queues
  <2>2. \A c \in Channels : rest(c) \in Seq(Ours(e, c))
    <3> SUFFICES ASSUME NEW c \in Channels PROVE rest(c) \in Seq(Ours(e, c))
      OBVIOUS
    <3>1. Queue(e, c) \in Seq(Ours(e, c)) /\ room[c] \in 0 .. Len(Queue(e, c))
      BY <1>0, <1>4, QueueIs
    <3> QED
      BY <3>1, CountSplit
  <2>3. \A c \in Channels : Ours(e, c) \subseteq Messages
    BY DEF Ours, Posted
  <2>4. \A c \in Channels : rest(c) \in Seq(Messages)
    <3> HIDE DEF rest
    <3> QED
      BY <2>2, <2>3
  <2> HIDE DEF rest
  <2>5. outgoing \in [Ends -> [Channels -> Seq(Messages)]]
    BY <1>0 DEF Buffers
  <2>6. outgoing' \in [Ends -> [Channels -> Seq(Messages)]]
    BY <2>1, <2>4, <2>5
  <2>7. \A f \in Ends, c \in Channels : outgoing'[f][c] = IF f = e THEN rest(c) ELSE outgoing[f][c]
    BY <2>1, <2>5
  <2>8. \A f \in Ends, c \in Channels : outgoing'[f][c] \in Seq(Ours(f, c)')
    <3>1. ASSUME NEW f \in Ends, NEW c \in Channels PROVE outgoing'[f][c] \in Seq(Ours(f, c)')
      <4>1. outgoing[f][c] \in Seq(Ours(f, c)) /\ Ours(f, c)' = Ours(f, c)
        BY <1>0, <1>3 DEF Buffers
      <4>2. CASE f = e
        BY <2>2, <2>7, <4>1, <4>2, Zenon
      <4>3. CASE f # e
        BY <2>7, <4>1, <4>3, Zenon
      <4> QED
        BY <4>2, <4>3
    <3> QED
      BY <3>1, Zenon
  <2>9. sendBuffer' = [sendBuffer EXCEPT ![e] = SendBufferNow(e)] /\ DOMAIN sendBuffer = Ends
    BY <1>0, FrameIs DEF Buffers
  <2>10. \A f \in Ends : \A m \in DOMAIN sendBuffer'[f] :
            m \in DOMAIN sendBuffer[f] /\ sendBuffer'[f][m] \in SendEntries
    BY <1>0, <2>9, NowIs DEF Buffers
  <2> QED
    BY <1>0, <1>2, <1>3, <2>6, <2>8, <2>9, <2>10 DEF Buffers
<1>8. /\ carried' = [carried EXCEPT ![e] = @ \o out] /\ DOMAIN carried = Ends
      /\ carried[e] \in Seq(Posted(e) \cup {Bare}) /\ Len(carried[e]) = first
  BY <1>0, <1>1, Zenon DEF FrameWith, Numbered
<1>9. next' = [next EXCEPT ![e] = first + Len(out)] /\ next \in [Ends -> Nat]
  BY <1>0, <1>1, Zenon DEF FrameWith, Numbered
<1> DEFINE all == carried[e] \o out
<1>10. all \in Seq(Posted(e) \cup {Bare}) /\ Len(all) = first + Len(out)
       /\ (\A n \in 0 .. (first - 1) : all[n + 1] = carried[e][n + 1])
       /\ \A n \in first .. first + Len(out) - 1 : all[n + 1] = out[n - first + 1]
  <2> DEFINE old == carried[e]
  <2>1. old \in Seq(Posted(e) \cup {Bare}) /\ Len(old) = first
    BY <1>8
  <2> HIDE DEF old, out, first
  <2>2. old \o out \in Seq(Posted(e) \cup {Bare}) /\ Len(old \o out) = first + Len(out)
    BY <1>4, <2>1
  <2>3. \A n \in 0 .. (first - 1) : (old \o out)[n + 1] = old[n + 1]
    BY <1>4, <1>5, <2>1
  <2>4. \A n \in first .. first + Len(out) - 1 : (old \o out)[n + 1] = out[n - first + 1]
    BY <1>4, <1>5, <2>1
  <2> QED
    BY <2>2, <2>3, <2>4 DEF old
<1>11. /\ DOMAIN carried' = Ends /\ \A f \in Ends : carried'[f] = IF f = e THEN all ELSE carried[f]
  BY <1>8, Zenon
<1>12. /\ next' \in [Ends -> Nat]
       /\ \A f \in Ends : next'[f] = IF f = e THEN first + Len(out) ELSE next[f]
  <2> HIDE DEF out, first
  <2> QED
    BY <1>5, <1>9
<1>13. Numbered'
  <2>1. first + Len(out) <= Bound(e)
    BY <1>1 DEF FrameWith
  <2>2. \A f \in Ends : next'[f] <= Bound(f)'
    <3>1. \A f \in Ends : Bound(f)' = Bound(f) /\ next[f] <= Bound(f)
      BY <1>0, <1>2 DEF Bound, Numbered
    <3> HIDE DEF out, first
    <3> QED
      BY <1>12, <2>1, <3>1
  <2>3. \A f \in Ends : carried'[f] \in Seq(Posted(f)' \cup {Bare}) /\ Len(carried'[f]) = next'[f]
    <3> HIDE DEF out, first, all
    <3> QED
      BY <1>0, <1>3, <1>10, <1>11, <1>12 DEF Numbered
  <2> QED
    BY <1>11, <1>12, <2>2, <2>3 DEF Numbered
<1>14. Mapped'
  <2> DEFINE map == [n \in DOMAIN ackMap[e] \cup reliable |->
                        IF n \in reliable THEN out[n - first + 1] ELSE ackMap[e][n]]
  <2>1. ackMap' = [ackMap EXCEPT ![e] = map] /\ DOMAIN ackMap = Ends
    BY <1>0, <1>1, Zenon DEF FrameWith, Mapped
  <2>2. ASSUME NEW n \in DOMAIN map
        PROVE  /\ n \in 0 .. (first + Len(out) - 1)
               /\ map[n] = all[n + 1] /\ map[n].chan \in Reliable
    <3>1. CASE n \in reliable
      <4>1. n \in first .. first + Len(out) - 1 /\ out[n - first + 1].chan \in Reliable
        BY <3>1
      <4>2. map[n] = out[n - first + 1]
        BY <3>1
      <4> HIDE DEF map, out, all, first
      <4> QED
        BY <1>5, <1>10, <4>1, <4>2
    <3>2. CASE n \notin reliable
      <4>1. n \in DOMAIN ackMap[e] /\ map[n] = ackMap[e][n]
        BY <3>2
      <4>2. n \in 0 .. (first - 1) /\ map[n] = carried[e][n + 1] /\ map[n].chan \in Reliable
        BY <1>0, <4>1 DEF Mapped
      <4> HIDE DEF map, out, all, first
      <4> QED
        BY <1>5, <1>10, <4>2
    <3> QED
      BY <3>1, <3>2
  <2> HIDE DEF map, out, all, first
  <2>3. DOMAIN ackMap' = Ends /\ \A f \in Ends : ackMap'[f] = IF f = e THEN map ELSE ackMap[f]
    BY <2>1
  <2>4. ASSUME NEW f \in Ends, NEW n \in DOMAIN ackMap'[f]
        PROVE  /\ n \in 0 .. (next'[f] - 1)
               /\ ackMap'[f][n] = carried'[f][n + 1] /\ ackMap'[f][n].chan \in Reliable
    <3>1. CASE f = e
      <4>1. ackMap'[f] = map /\ carried'[f] = all /\ next'[f] = first + Len(out)
        BY <1>11, <1>12, <2>3, <3>1
      <4>2. n \in DOMAIN map
        BY <4>1
      <4>3. n \in 0 .. (first + Len(out) - 1) /\ map[n] = all[n + 1] /\ map[n].chan \in Reliable
        BY <2>2, <4>2
      <4> QED
        BY <1>5, <4>1, <4>3
    <3>2. CASE f # e
      <4>1. ackMap'[f] = ackMap[f] /\ carried'[f] = carried[f] /\ next'[f] = next[f]
        BY <1>11, <1>12, <2>3, <3>2
      <4> QED
        BY <1>0, <4>1 DEF Mapped
    <3> QED
      BY <3>1, <3>2
  <2> QED
    BY <2>3, <2>4 DEF Mapped
<1>15. Arrivals'
  <2> DEFINE fresh(i) == [to |-> Other(e), num |-> first + i - 1, carries |-> out[i],
                          acks |-> AckInfo(e)]
  <2>1. net' = net \cup {fresh(i) : i \in DOMAIN out}
    BY <1>1 DEF FrameWith
  <2>2. \A f \in Ends : next[f] <= next'[f] /\ next[f] \in Nat /\ next'[f] \in Nat
    BY <1>0, <1>5, <1>12 DEF Numbered
  <2>3. \A f \in Ends : accepted[f] \subseteq 0 .. (next'[Other(f)] - 1)
    <3> SUFFICES ASSUME NEW f \in Ends PROVE accepted[f] \subseteq 0 .. (next'[Other(f)] - 1)
      OBVIOUS
    <3>1. accepted[f] \subseteq 0 .. (next[Other(f)] - 1) /\ Other(f) \in Ends
      BY <1>0, Others DEF Arrivals
    <3> QED
      BY <2>2, <3>1
  <2>4. ASSUME NEW p \in net'
        PROVE  /\ p.to \in Ends /\ p.num \in 0 .. (next'[Other(p.to)] - 1)
               /\ p.acks \subseteq accepted[Other(p.to)] \cup {0}
    <3>1. CASE p \in net
      <4>1. p.to \in Ends /\ p.num \in 0 .. (next[Other(p.to)] - 1) /\ Other(p.to) \in Ends
            /\ p.acks \subseteq accepted[Other(p.to)] \cup {0}
        BY <1>0, <3>1, Others DEF Arrivals
      <4> QED
        BY <2>2, <4>1
    <3>2. CASE p \notin net
      <4>1. PICK i \in DOMAIN out : p = fresh(i)
        BY <2>1, <3>2
      <4>2. i \in 1 .. Len(out)
        BY <1>4, <4>1
      <4>3. p.to = Other(e) /\ p.num = first + i - 1 /\ p.acks = AckInfo(e)
        BY <4>1
      <4>4. Other(p.to) = e /\ p.to \in Ends
        BY <4>3, Others
      <4>5. AckInfo(e) \subseteq accepted[e] \cup {0}
        BY DEF AckInfo
      <4>6. next'[e] = first + Len(out)
        BY <1>12
      <4>7. p.num \in 0 .. (next'[e] - 1)
        <5> HIDE DEF fresh, out, first
        <5> QED
          BY <1>5, <4>2, <4>3, <4>6
      <4> QED
        BY <4>3, <4>4, <4>5, <4>7
    <3> QED
      BY <3>1, <3>2
  <2>5. DOMAIN reported' = Ends
    BY <1>0, <1>1 DEF Arrivals, FrameWith
  <2> QED
    BY <1>0, <1>2, <2>3, <2>4, <2>5 DEF Arrivals
<1>16. AckedArrived'
  <2> SUFFICES ASSUME NEW f \in Ends, NEW m \in acked[f]
               PROVE  \E n \in accepted[Other(f)] \cup {0} : n < next'[f] /\ carried'[f][n + 1] = m
    BY <1>2 DEF AckedArrived
  <2>1. PICK n \in accepted[Other(f)] \cup {0} : n < next[f] /\ carried[f][n + 1] = m
    BY <1>0 DEF AckedArrived
  <2>2. n \in Nat /\ next[f] \in Nat
    <3>1. accepted[Other(f)] \subseteq 0 .. (next[Other(Other(f))] - 1)
      BY <1>0, Others DEF Arrivals
    <3>2. next[f] \in Nat /\ Other(Other(f)) = f
      BY <1>0, Others DEF Numbered
    <3> QED
      BY <2>1, <3>1, <3>2
  <2>3. n < next'[f] /\ carried'[f][n + 1] = carried[f][n + 1]
    <3> HIDE DEF out, all
    <3> QED
      BY <1>5, <1>10, <1>11, <1>12, <2>1, <2>2, SMTT(30)
  <2> QED
    BY <2>1, <2>3
<1> QED
  BY <1>6, <1>7, <1>13, <1>14, <1>15, <1>16 DEF ConnInv

LEMMA StepConn == ConnInv /\ [Next]_vars => ConnInv'
<1> SUFFICES ASSUME ConnInv, [Next]_vars PROVE ConnInv'
  OBVIOUS
<1>1. CASE \E e \in Senders, c \in Channels : SendMessage(e, c)
  BY <1>1, SendStep
<1>2. CASE \E p \in net : Receive(p)
  BY <1>2, ReceiveStep
<1>3. CASE \E e \in Ends : Expire(e)
  BY <1>3, ExpireStep
<1>4. CASE \E e \in Ends : Frame(e)
  BY <1>4, FrameStep
<1>5. CASE Elapse
  BY <1>5, ElapseStep
<1>6. CASE UNCHANGED vars
  <2>1. UNCHANGED <<calm, up, sinceSend, sinceRecv, ran, posted, sendBuffer, outgoing, next, accepted,
                    ackMap, pendingAck, net, carried, acked, reported>>
    BY <1>6 DEF vars, timers, sendVars, history
  <2>2. \A f \in Ends : Posted(f)' = Posted(f) /\ \A c \in Channels : Ours(f, c)' = Ours(f, c)
    BY <2>1, Sames
  <2>3. Clocks' /\ Mapped' /\ Arrivals' /\ AckedArrived'
    BY <2>1 DEF ConnInv, Clocks, Mapped, Arrivals, AckedArrived
  <2>4. Buffers'
    BY <2>1, <2>2 DEF ConnInv, Buffers
  <2>5. Numbered'
    BY <2>1, <2>2 DEF ConnInv, Numbered, Bound
  <2> QED
    BY <2>3, <2>4, <2>5 DEF ConnInv
<1> QED
  BY <1>1, <1>2, <1>3, <1>4, <1>5, <1>6 DEF Next

LEMMA AlwaysConn == Spec => []ConnInv
BY InitConn, StepConn, PTL DEF Spec

\* A message its sender takes for acknowledged did arrive: whatever was pruned from
\* the acknowledgement map, sent twice, lost or given up in between
\* (resolveChannelAcks, pruneAckMap).
THEOREM AcksAreTrue == Spec => []AckedArrived
<1>1. ConnInv => AckedArrived
  BY DEF ConnInv
<1> QED
  BY <1>1, AlwaysConn, PTL

-----------------------------------------------------------------------------
(* Acknowledgements go out. *)

LEMMA InitGoOut == Init => AcksGoOut
BY DEF Init, AcksGoOut

LEMMA StepGoOut == ConnInv /\ AcksGoOut /\ [Next]_vars => AcksGoOut'
<1> SUFFICES ASSUME ConnInv, AcksGoOut, [Next]_vars,
                    NEW f \in up', ~pendingAck'[f]
             PROVE  AckInfo(f)' \cap accepted'[f] \subseteq reported'[f]
  BY DEF AcksGoOut
<1>0. /\ up \subseteq Ends /\ pendingAck \in [Ends -> BOOLEAN]
      /\ DOMAIN accepted = Ends /\ DOMAIN reported = Ends
  BY DEF ConnInv, Clocks, Arrivals
<1>1. ASSUME f \in up, pendingAck'[f] = pendingAck[f], accepted'[f] = accepted[f],
             reported'[f] = reported[f]
      PROVE  AckInfo(f)' \cap accepted'[f] \subseteq reported'[f]
  <2>1. AckInfo(f)' = AckInfo(f)
    BY <1>1 DEF AckInfo
  <2> QED
    BY <1>1, <2>1 DEF AcksGoOut
<1>2. CASE \E e \in Senders, c \in Channels : SendMessage(e, c)
  BY <1>1, <1>2 DEF SendMessage, history
<1>3. CASE \E p \in net : Receive(p)
  <2>1. PICK p \in net : Receive(p)
    BY <1>3
  <2>2. f \in up /\ UNCHANGED reported /\ p.to \in Ends
    BY <2>1 DEF Receive, ConnInv, Arrivals
  <2>3. /\ pendingAck' = [pendingAck EXCEPT ![p.to] = TRUE]
        /\ accepted' = [accepted EXCEPT ![p.to] = @ \cup {p.num}]
    BY <2>1 DEF Receive
  <2>4. f # p.to
    BY <1>0, <2>2, <2>3
  <2>5. pendingAck'[f] = pendingAck[f] /\ accepted'[f] = accepted[f]
    BY <1>0, <2>2, <2>3, <2>4
  <2> QED
    BY <1>1, <2>2, <2>5
<1>4. CASE \E e \in Ends : Expire(e)
  BY <1>0, <1>1, <1>4 DEF Expire, history
<1>5. ASSUME NEW e \in Ends, Frame(e)
      PROVE  AckInfo(f)' \cap accepted'[f] \subseteq reported'[f]
  <2>1. PICK room \in Rooms(Queues(e)) : FrameWith(e, room)
    BY <1>5, FrameIs
  <2>2. UNCHANGED <<up, accepted>> /\ pendingAck' = [pendingAck EXCEPT ![e] = FALSE]
    BY <1>5, FrameIs
  <2>3. f \in up /\ AckInfo(f)' = AckInfo(f)
    BY <2>2 DEF AckInfo
  <2>4. reported' = IF Out(e, room) = <<>> THEN reported
                    ELSE [reported EXCEPT ![e] = @ \cup AckInfo(e)]
    BY <2>1 DEF FrameWith
  <2>5. CASE f # e
    BY <1>0, <1>1, <2>2, <2>3, <2>4, <2>5
  <2>6. CASE f = e /\ Out(e, room) # <<>>
    BY <1>0, <2>3, <2>4, <2>6
  <2>7. CASE f = e /\ Out(e, room) = <<>>
    <3>1. ~Bares(e, room) /\ Sent(e, room) = <<>>
      BY <2>7 DEF Out
    <3>2. ~pendingAck[e]
      BY <3>1 DEF Bares, AckOnly
    <3> QED
      BY <2>2, <2>3, <2>4, <2>7, <3>2 DEF AcksGoOut
  <2> QED
    BY <2>5, <2>6, <2>7
<1>6. CASE Elapse
  BY <1>1, <1>6 DEF Elapse, history
<1>7. CASE UNCHANGED vars
  BY <1>1, <1>7 DEF vars, history
<1> QED
  BY <1>2, <1>3, <1>4, <1>5, <1>6, <1>7 DEF Next

\* No acknowledgement stays owed: after a frame every accepted packet that the ack
\* bits still reach has been reported (drainConnection, enqueueKeepalive).
THEOREM AcksArePaid == Spec => []AcksGoOut
BY InitGoOut, StepGoOut, AlwaysConn, PTL DEF Spec

-----------------------------------------------------------------------------
(* Calm weather. *)

Awaits(e) == \E p \in net : p.to = e

\* Nobody is silent for longer than the keepalive interval: time since the last
\* arrival is time since the other end's last message, or something is on its way.
CalmInv ==
    calm => /\ up = Ends
            /\ \A e \in Ends :
                  /\ sinceRecv[e] <= KeepaliveInterval
                  /\ Awaits(e) \/ sinceRecv[e] <= sinceSend[Other(e)]
                  /\ Other(e) \in ran =>
                        Awaits(e) \/ sinceRecv[e] = 0 \/ sinceSend[Other(e)] < KeepaliveInterval

LEMMA InitCalm == Init => CalmInv
BY Others, ConnectionAssumption DEF Init, CalmInv

LEMMA StepCalm == ConnInv /\ CalmInv /\ [Next]_vars => CalmInv'
<1> SUFFICES ASSUME ConnInv, CalmInv, [Next]_vars, calm'
             PROVE  CalmInv'
  BY DEF CalmInv
<1>0. /\ KeepaliveInterval \in Nat \ {0} /\ ConnectionTimeout \in Nat
      /\ KeepaliveInterval < ConnectionTimeout /\ Senders \subseteq Ends
  BY ConnectionAssumption
<1>1. sinceSend \in [Ends -> 0 .. KeepaliveInterval] /\ sinceRecv \in [Ends -> 0 .. ConnectionTimeout]
  BY SMTT(30) DEF ConnInv, Clocks
<1>2. calm
  BY ZenonT(30) DEF Next, SendMessage, Receive, Expire, Frame, Elapse, vars
<1>3. /\ up = Ends
      /\ \A e \in Ends :
            /\ sinceRecv[e] <= KeepaliveInterval
            /\ Awaits(e) \/ sinceRecv[e] <= sinceSend[Other(e)]
            /\ Other(e) \in ran =>
                  Awaits(e) \/ sinceRecv[e] = 0 \/ sinceSend[Other(e)] < KeepaliveInterval
  BY <1>2 DEF CalmInv
<1>4. CASE UNCHANGED <<calm, up, sinceSend, sinceRecv, ran, net>>
  BY <1>3, <1>4 DEF CalmInv, Awaits
<1>5. CASE \E e \in Senders, c \in Channels : SendMessage(e, c)
  BY <1>4, <1>5 DEF SendMessage, timers
<1>6. ASSUME NEW p \in net, Receive(p)
      PROVE  CalmInv'
  <2>1. p.to \in Ends
    BY DEF ConnInv, Arrivals
  <2>2. /\ UNCHANGED <<up, sinceSend, ran>> /\ net' = net \ {p}
        /\ sinceRecv' = [sinceRecv EXCEPT ![p.to] = 0]
    BY <1>6 DEF Receive
  <2> SUFFICES ASSUME NEW e \in Ends
               PROVE  /\ sinceRecv'[e] <= KeepaliveInterval
                      /\ Awaits(e)' \/ sinceRecv'[e] <= sinceSend[Other(e)]
                      /\ Other(e) \in ran =>
                            Awaits(e)' \/ sinceRecv'[e] = 0 \/ sinceSend[Other(e)] < KeepaliveInterval
    BY <1>3, <2>2 DEF CalmInv
  <2>3. CASE e = p.to
    <3>1. sinceRecv'[e] = 0
      BY <1>1, <2>1, <2>2, <2>3
    <3>2. sinceSend[Other(e)] \in Nat
      BY <1>0, <1>1, Others
    <3> QED
      BY <1>0, <3>1, <3>2
  <2>4. CASE e # p.to
    <3>1. sinceRecv'[e] = sinceRecv[e]
      BY <1>1, <2>1, <2>2, <2>4
    <3>2. Awaits(e)' <=> Awaits(e)
      BY <2>2, <2>4 DEF Awaits
    <3> QED
      BY <1>3, <3>1, <3>2
  <2> QED
    BY <2>3, <2>4
<1>7. ASSUME NEW e \in Ends, Expire(e)
      PROVE  FALSE
  <2>1. sinceRecv[e] >= ConnectionTimeout /\ sinceRecv[e] <= KeepaliveInterval
        /\ sinceRecv[e] \in 0 .. ConnectionTimeout
    BY <1>1, <1>3, <1>7 DEF Expire
  <2> QED
    BY <1>0, <2>1
<1>8. ASSUME NEW f \in Ends, Frame(f)
      PROVE  CalmInv'
  <2>1. PICK room \in Rooms(Queues(f)) : FrameWith(f, room)
    BY <1>8, FrameIs
  <2>2. UNCHANGED <<up, sinceRecv>> /\ ran' = ran \cup {f}
    BY <1>2, <1>8, FrameIs
  <2>3. /\ sinceSend' = IF Sent(f, room) = <<>> THEN sinceSend ELSE [sinceSend EXCEPT ![f] = 0]
        /\ net \subseteq net'
    BY <2>1 DEF FrameWith
  <2>4. \/ Awaits(Other(f))'
        \/ UNCHANGED sinceSend /\ sinceSend[f] < KeepaliveInterval
    <3>1. CASE Out(f, room) = <<>>
      <4>1. ~Bares(f, room) /\ Sent(f, room) = <<>>
        BY <3>1 DEF Out
      <4>2. ~(sinceSend[f] >= KeepaliveInterval) /\ UNCHANGED sinceSend
        BY <2>3, <4>1 DEF Bares, KeepaliveDue
      <4>3. sinceSend[f] \in 0 .. KeepaliveInterval
        BY <1>1
      <4> QED
        BY <1>0, <4>2, <4>3
    <3>2. CASE Out(f, room) # <<>>
      <4> DEFINE out == Out(f, room)
                 fresh(i) == [to |-> Other(f), num |-> next[f] + i - 1, carries |-> out[i],
                              acks |-> AckInfo(f)]
      <4>1. out \in Seq(Posted(f) \cup {Bare})
        BY FrameSends DEF ConnInv
      <4>2. net' = net \cup {fresh(i) : i \in DOMAIN out}
        BY <2>1 DEF FrameWith
      <4>3. 1 \in DOMAIN out
        <5> HIDE DEF out
        <5>1. out # <<>>
          BY <3>2 DEF out
        <5> QED
          BY <4>1, <5>1
      <4>4. fresh(1) \in net' /\ fresh(1).to = Other(f)
        BY <4>2, <4>3
      <4> QED
        BY <4>4 DEF Awaits
    <3> QED
      BY <3>1, <3>2
  <2>5. \A e \in Ends : Awaits(e) => Awaits(e)'
    BY <2>3 DEF Awaits
  <2> SUFFICES ASSUME NEW e \in Ends
               PROVE  /\ sinceRecv[e] <= KeepaliveInterval
                      /\ Awaits(e)' \/ sinceRecv[e] <= sinceSend'[Other(e)]
                      /\ Other(e) \in ran' =>
                            Awaits(e)' \/ sinceRecv[e] = 0 \/ sinceSend'[Other(e)] < KeepaliveInterval
    BY <1>3, <2>2 DEF CalmInv
  <2>6. CASE f = Other(e)
    <3>1. Other(f) = e
      BY <2>6, Others
    <3> QED
      BY <1>3, <2>4, <2>5, <2>6, <3>1
  <2>7. CASE f # Other(e)
    <3>1. sinceSend'[Other(e)] = sinceSend[Other(e)] /\ (Other(e) \in ran' => Other(e) \in ran)
      BY <1>1, <2>2, <2>3, <2>7, Others
    <3> QED
      BY <1>3, <2>5, <3>1
  <2> QED
    BY <2>6, <2>7
<1>9. CASE Elapse
  <2>1. /\ up \subseteq ran /\ net = {} /\ ran' = {} /\ UNCHANGED <<up, net>>
        /\ sinceSend' = [e \in Ends |-> Later(e, sinceSend[e], KeepaliveInterval)]
        /\ sinceRecv' = [e \in Ends |-> Later(e, sinceRecv[e], ConnectionTimeout)]
    BY <1>2, <1>9 DEF Elapse
  <2> SUFFICES ASSUME NEW e \in Ends
               PROVE  sinceRecv'[e] <= KeepaliveInterval /\ sinceRecv'[e] <= sinceSend'[Other(e)]
    BY <1>3, <2>1 DEF CalmInv
  <2> DEFINE r == sinceRecv[e]  s == sinceSend[Other(e)]
  <2>2. Other(e) \in Ends /\ Other(e) \in ran /\ ~Awaits(e)
    BY <1>3, <2>1, Others DEF Awaits
  <2>3. r \in 0 .. ConnectionTimeout /\ s \in 0 .. KeepaliveInterval /\ r <= KeepaliveInterval
        /\ r <= s /\ (r = 0 \/ s < KeepaliveInterval)
    BY <1>1, <1>3, <2>2
  <2>4. sinceRecv'[e] = (IF r < ConnectionTimeout THEN r + 1 ELSE r)
        /\ sinceSend'[Other(e)] = IF s < KeepaliveInterval THEN s + 1 ELSE s
    BY <1>3, <2>1, <2>2 DEF Later
  <2> HIDE DEF r, s
  <2> QED
    BY <1>0, <2>3, <2>4
<1>10. CASE UNCHANGED vars
  BY <1>4, <1>10 DEF vars, timers
<1> QED
  BY <1>5, <1>6, <1>7, <1>8, <1>9, <1>10 DEF Next

\* Where nothing is lost or late neither end ever times out, though a keepalive does
\* not count as having sent something (updateConnected, connLastSendTime).
THEOREM CalmStaysUp == Spec => []StaysUp
<1>1. CalmInv => StaysUp
  BY DEF CalmInv, StaysUp
<1> QED
  BY <1>1, InitCalm, StepCalm, AlwaysConn, PTL DEF Spec

-----------------------------------------------------------------------------
(* How often a message is sent. *)

\* How many copies of a message may have been queued by now.
Allowed(e, m) ==
    IF m.chan \notin Reliable THEN 1
    ELSE 1 + (IF m \in DOMAIN sendBuffer[e] THEN sendBuffer[e][m].retries ELSE MaxRetries)

CopyInv ==
    \A e \in Ends, c \in Channels : \A m \in Ours(e, c) :
        CountOf(carried[e], m) + CountOf(outgoing[e][c], m) <= Allowed(e, m)

LEMMA CountsAre ==
    ASSUME ConnInv, NEW e \in Ends, NEW c \in Channels, NEW m
    PROVE  CountOf(carried[e], m) \in Nat /\ CountOf(outgoing[e][c], m) \in Nat
<1>1. carried[e] \in Seq(Posted(e) \cup {Bare}) /\ outgoing[e][c] \in Seq(Ours(e, c))
  BY DEF ConnInv, Numbered, Buffers
<1> QED
  BY <1>1, CountNat

LEMMA RetriesAre ==
    ASSUME ConnInv, NEW e \in Ends
    PROVE  \A m \in DOMAIN sendBuffer[e] : sendBuffer[e][m].retries \in 0 .. MaxRetries
BY ConnectionAssumption DEF ConnInv, Buffers, SendEntries

\* What does not send or queue anything, and forgets or ages entries at most.
LEMMA CopiesSame ==
    ASSUME ConnInv, CopyInv, UNCHANGED <<posted, carried>>,
           \A e \in Ends : \A m \in DOMAIN sendBuffer'[e] :
               m \in DOMAIN sendBuffer[e] /\ sendBuffer'[e][m].retries = sendBuffer[e][m].retries,
           \A e \in Ends, c \in Channels :
               outgoing'[e][c] = outgoing[e][c] \/ outgoing'[e][c] = <<>>
    PROVE  CopyInv'
<1> SUFFICES ASSUME NEW e \in Ends, NEW c \in Channels, NEW m \in Ours(e, c)
             PROVE  CountOf(carried[e], m) + CountOf(outgoing'[e][c], m) <= Allowed(e, m)'
  BY Sames DEF CopyInv
<1>1. CountOf(carried[e], m) \in Nat /\ CountOf(outgoing[e][c], m) \in Nat
      /\ CountOf(carried[e], m) + CountOf(outgoing[e][c], m) <= Allowed(e, m)
  BY CountsAre DEF CopyInv
<1>2. CountOf(<<>>, m) = 0
  BY CountNone
<1>3. MaxRetries \in Nat
  BY ConnectionAssumption
<1>4. Allowed(e, m) \in Nat /\ Allowed(e, m) <= Allowed(e, m)' /\ Allowed(e, m)' \in Nat
  BY <1>3, RetriesAre DEF Allowed
<1>5. CountOf(outgoing'[e][c], m) = CountOf(outgoing[e][c], m) \/ CountOf(outgoing'[e][c], m) = 0
  BY <1>2
<1> QED
  BY <1>1, <1>4, <1>5

LEMMA InitCopies == Init => CopyInv
<1> SUFFICES ASSUME Init, NEW e \in Ends, NEW c \in Channels, NEW m \in Ours(e, c)
             PROVE  FALSE
  BY DEF CopyInv
<1>1. m.id \in 1 .. 0
  BY DEF Init, Ours, Posted
<1> QED
  BY <1>1

\* A message that is posted is queued once, and nothing else is queued with it.
LEMMA SendCounts ==
    ASSUME ConnInv, NEW e \in Senders, NEW c \in Channels, SendMessage(e, c),
           NEW f \in Ends, NEW d \in Channels, NEW k \in Ours(f, d)'
    PROVE  \/ /\ f = e /\ d = c /\ k = [chan |-> c, id |-> posted[e][c] + 1]
              /\ CountOf(carried'[f], k) + CountOf(outgoing'[f][d], k) = 1
           \/ /\ k \in Ours(f, d) /\ ~(f = e /\ k = [chan |-> c, id |-> posted[e][c] + 1])
              /\ CountOf(carried'[f], k) = CountOf(carried[f], k)
              /\ CountOf(outgoing'[f][d], k) = CountOf(outgoing[f][d], k)
<1> DEFINE m == [chan |-> c, id |-> posted[e][c] + 1]
<1>0. e \in Ends
  BY ConnectionAssumption
<1>1. /\ m \notin Posted(e) /\ UNCHANGED carried
      /\ outgoing' = [outgoing EXCEPT ![e][c] = Append(@, m)]
  BY SendStep DEF SendMessage, history
<1>2. /\ outgoing \in [Ends -> [Channels -> Seq(Messages)]]
      /\ posted \in [Ends -> [Channels -> Nat]]
      /\ posted' = [posted EXCEPT ![e][c] = @ + 1]
  BY DEF ConnInv, Buffers, SendMessage
<1>3. \A g \in Ends, b \in Channels :
          outgoing'[g][b] = IF g = e /\ b = c THEN Append(outgoing[g][b], m) ELSE outgoing[g][b]
  <2> HIDE DEF m
  <2> QED
    BY <1>0, <1>1, <1>2
<1>4. m.chan = c /\ m = [chan |-> c, id |-> posted[e][c] + 1]
  OBVIOUS
<1> HIDE DEF m
<1>5. k \in Ours(f, d) \/ (f = e /\ d = c /\ k = m)
  <2>1. k \in Messages /\ k.chan = d /\ k.id \in 1 .. posted'[f][d] /\ k = [chan |-> d, id |-> k.id]
    BY DEF Ours, Posted, Messages
  <2>2. posted[f][d] \in Nat
    BY <1>2
  <2>3. CASE f = e /\ d = c
    <3>1. posted'[f][d] = posted[f][d] + 1
      BY <1>0, <1>2, <2>3
    <3>2. k.id \in 1 .. posted[f][d] \/ k.id = posted[f][d] + 1
      BY <2>1, <2>2, <3>1
    <3> QED
      BY <1>4, <2>1, <2>3, <3>2 DEF Ours, Posted
  <2>4. CASE ~(f = e /\ d = c)
    <3>1. posted'[f][d] = posted[f][d]
      BY <1>0, <1>2, <2>4
    <3> QED
      BY <2>1, <3>1 DEF Ours, Posted
  <2> QED
    BY <2>3, <2>4
<1>6. CASE f = e /\ d = c /\ k = m
  <2>1. carried[e] \in Seq(Posted(e) \cup {Bare}) /\ outgoing[e][c] \in Seq(Ours(e, c))
    BY <1>0 DEF ConnInv, Numbered, Buffers
  <2>2. m # Bare
    <3>1. m.chan \in Nat
      BY <1>4, ConnectionAssumption
    <3> QED
      BY <3>1 DEF Bare
  <2>3. \A i \in DOMAIN carried[e] : carried[e][i] # m
    <3>1. m \notin Posted(e) \cup {Bare}
      BY <1>1, <2>2
    <3> QED
      BY <2>1, <3>1
  <2>4. \A i \in DOMAIN outgoing[e][c] : outgoing[e][c][i] # m
    <3>1. m \notin Ours(e, c)
      BY <1>1 DEF Ours
    <3> QED
      BY <2>1, <3>1
  <2>5. CountOf(carried[e], m) = 0 /\ CountOf(outgoing[e][c], m) = 0
    BY <2>3, <2>4, CountNone
  <2>6. CountOf(Append(outgoing[e][c], m), m) = 1
    <3> DEFINE q == outgoing[e][c]
    <3>1. q \in Seq(Ours(e, c) \cup {m}) /\ <<m>> \in Seq(Ours(e, c) \cup {m})
      <4>1. q \in Seq(Ours(e, c))
        BY <2>1
      <4> HIDE DEF q
      <4> QED
        BY <4>1
    <3>2. CountOf(<<m>>, m) = 1
      <4>1. 1 \in DOMAIN <<m>> /\ <<m>>[1] = m /\ \A i \in DOMAIN <<m>> : i = 1
        OBVIOUS
      <4> QED
        BY <4>1, CountOnce
    <3>3. CountOf(q, m) = 0
      BY <2>5
    <3> HIDE DEF q
    <3>4. Append(q, m) = q \o <<m>>
      BY <3>1
    <3>5. CountOf(q \o <<m>>, m) = CountOf(q, m) + CountOf(<<m>>, m)
      BY <3>1, CountConcat
    <3> QED
      BY <3>2, <3>3, <3>4, <3>5 DEF q
  <2>7. outgoing'[f][d] = Append(outgoing[e][c], m)
    BY <1>3, <1>6
  <2> QED
    BY <1>1, <1>4, <1>6, <2>5, <2>6, <2>7
<1>7. CASE k \in Ours(f, d) /\ ~(f = e /\ d = c /\ k = m)
  <2>2. CountOf(outgoing'[f][d], k) = CountOf(outgoing[f][d], k)
    <3>1. CASE f = e /\ d = c
      <4> DEFINE q == outgoing[e][c]
      <4>1. q \in Seq(Ours(e, c) \cup {m}) /\ <<m>> \in Seq(Ours(e, c) \cup {m})
        <5>1. q \in Seq(Ours(e, c))
          BY <1>0 DEF ConnInv, Buffers
        <5> HIDE DEF q
        <5> QED
          BY <5>1
      <4>2. CountOf(<<m>>, k) = 0
        <5>1. k # m
          BY <1>7, <3>1
        <5>2. \A i \in DOMAIN <<m>> : <<m>>[i] = m
          OBVIOUS
        <5> QED
          BY <5>1, <5>2, CountNone
      <4>3. CountOf(q, k) \in Nat
        BY <3>1, CountsAre
      <4>4. outgoing'[f][d] = Append(q, m) /\ q = outgoing[f][d]
        BY <1>3, <3>1
      <4> HIDE DEF q
      <4>5. Append(q, m) = q \o <<m>>
        BY <4>1
      <4>6. CountOf(q \o <<m>>, k) = CountOf(q, k) + 0
        BY <4>1, <4>2, CountConcat
      <4> QED
        BY <4>3, <4>4, <4>5, <4>6
    <3>2. CASE ~(f = e /\ d = c)
      BY <1>3, <3>2
    <3> QED
      BY <3>1, <3>2
  <2>3. f # e \/ k # m
    <3>1. k.chan = d
      BY <1>7 DEF Ours
    <3> QED
      BY <1>4, <1>7, <3>1
  <2> QED
    BY <1>1, <1>4, <1>7, <2>2, <2>3
<1> QED
  BY <1>5, <1>6, <1>7

LEMMA SendCopies ==
    ASSUME ConnInv, CopyInv, NEW e \in Senders, NEW c \in Channels, SendMessage(e, c)
    PROVE  CopyInv'
<1> DEFINE m == [chan |-> c, id |-> posted[e][c] + 1]
<1>0. e \in Ends /\ MaxRetries \in Nat
  BY ConnectionAssumption
<1>1. /\ sendBuffer' = IF c \in Reliable
                       THEN [sendBuffer EXCEPT ![e] = With(@, m, [age |-> 0, retries |-> 0])]
                       ELSE sendBuffer
      /\ DOMAIN sendBuffer = Ends
  BY DEF SendMessage, ConnInv, Buffers
<1> SUFFICES ASSUME NEW f \in Ends, NEW d \in Channels, NEW k \in Ours(f, d)'
             PROVE  CountOf(carried'[f], k) + CountOf(outgoing'[f][d], k) <= Allowed(f, k)'
  BY DEF CopyInv
<1>2. \/ /\ f = e /\ k = m
         /\ CountOf(carried'[f], k) + CountOf(outgoing'[f][d], k) = 1
      \/ /\ k \in Ours(f, d) /\ ~(f = e /\ k = m)
         /\ CountOf(carried'[f], k) = CountOf(carried[f], k)
         /\ CountOf(outgoing'[f][d], k) = CountOf(outgoing[f][d], k)
  BY SendCounts
<1> HIDE DEF m
<1>3. CASE f = e /\ k = m /\ CountOf(carried'[f], k) + CountOf(outgoing'[f][d], k) = 1
  <2>1. m \in DOMAIN sendBuffer'[e] => sendBuffer'[e][m].retries \in 0 .. MaxRetries
    <3>1. ConnInv'
      BY SendStep
    <3> QED
      BY <1>0, <3>1, ConnectionAssumption DEF ConnInv, Buffers, SendEntries
  <2>2. Allowed(f, k)' >= 1 /\ Allowed(f, k)' \in Nat
    BY <1>0, <1>3, <2>1 DEF Allowed
  <2> QED
    BY <1>3, <2>2
<1>4. CASE /\ k \in Ours(f, d) /\ ~(f = e /\ k = m)
           /\ CountOf(carried'[f], k) = CountOf(carried[f], k)
           /\ CountOf(outgoing'[f][d], k) = CountOf(outgoing[f][d], k)
  <2>1. CountOf(carried[f], k) + CountOf(outgoing[f][d], k) <= Allowed(f, k)
    BY <1>4 DEF CopyInv
  <2>2. /\ k \in DOMAIN sendBuffer'[f] <=> k \in DOMAIN sendBuffer[f]
        /\ k \in DOMAIN sendBuffer[f] => sendBuffer'[f][k] = sendBuffer[f][k]
    BY <1>0, <1>1, <1>4 DEF With
  <2>3. Allowed(f, k)' = Allowed(f, k)
    BY <2>2 DEF Allowed
  <2> QED
    BY <1>4, <2>1, <2>3
<1> QED
  BY <1>2, <1>3, <1>4

\* A frame queues again what is to be sent again, and moves messages from the queue to
\* the packets.
LEMMA FrameCounts ==
    ASSUME ConnInv, NEW e \in Ends, Frame(e), NEW f \in Ends, NEW c \in Channels, NEW m \in Ours(f, c)
    PROVE  CountOf(carried'[f], m) + CountOf(outgoing'[f][c], m) =
               CountOf(carried[f], m) + CountOf(outgoing[f][c], m)
                   + (IF f = e /\ m \in Retransmitted(e) THEN 1 ELSE 0)
<1>0. Buffers /\ Numbered
  BY DEF ConnInv
<1>1. PICK room \in Rooms(Queues(e)) : FrameWith(e, room)
  BY FrameIs
<1> DEFINE out == Out(e, room)
           rest(b) == SubSeq(Queue(e, b), room[b] + 1, Len(Queue(e, b)))
<1>3. outgoing' = [outgoing EXCEPT ![e] = [b \in Channels |-> rest(b)]]
      /\ outgoing \in [Ends -> [Channels -> Seq(Messages)]]
  BY <1>0, <1>1, Zenon DEF FrameWith, Queues, Buffers
<1>4. carried' = [carried EXCEPT ![e] = @ \o out] /\ DOMAIN carried = Ends
  BY <1>0, <1>1, Zenon DEF FrameWith, Numbered
<1>5. CountOf(carried[f], m) \in Nat /\ CountOf(outgoing[f][c], m) \in Nat
  BY CountsAre
<1>6. CASE f # e
  <2>1. carried'[f] = carried[f] /\ outgoing'[f] = outgoing[f]
    <3> HIDE DEF rest, out
    <3> QED
      BY <1>3, <1>4, <1>6
  <2> QED
    BY <1>5, <1>6, <2>1
<1>7. CASE f = e
  <2> DEFINE again == IF m \in Retransmitted(e) THEN 1 ELSE 0
             part == SubSeq(Queue(e, c), 1, room[c])
             x == CountOf(carried[e], m)
             y == CountOf(outgoing[e][c], m)
             u == CountOf(part, m)
             v == CountOf(rest(c), m)
  <2>1. m \in Ours(e, c) /\ Queue(e, c) \in Seq(Ours(e, c)) /\ room[c] \in 0 .. Len(Queue(e, c))
        /\ CountOf(Queue(e, c), m) = y + again
    BY <1>0, <1>7, QueueIs, FrameSends, ZenonT(30)
  <2>2. y + again = u + v /\ u \in Nat /\ v \in Nat
    <3>1. part \in Seq(Ours(e, c)) /\ rest(c) \in Seq(Ours(e, c))
          /\ CountOf(Queue(e, c), m) = u + v
      BY <2>1, CountSplit
    <3>2. u \in Nat /\ v \in Nat
      <4> HIDE DEF part, rest
      <4> QED
        BY <3>1, CountNat
    <3> QED
      BY <2>1, <3>1, <3>2
  <2>3. CountOf(carried'[e], m) = x + u
    <3> DEFINE old == carried[e]
    <3>1. out \in Seq(Posted(e) \cup {Bare}) /\ old \in Seq(Posted(e) \cup {Bare})
          /\ CountOf(out, m) = u
      BY <1>0, <2>1, FrameSends, ZenonT(30) DEF Numbered
    <3>2. carried'[e] = old \o out
      BY <1>4
    <3> HIDE DEF out, old, u
    <3>3. CountOf(old \o out, m) = CountOf(old, m) + CountOf(out, m)
      BY <3>1, CountConcat
    <3> QED
      BY <3>1, <3>2, <3>3 DEF old
  <2>4. CountOf(outgoing'[e][c], m) = v
    <3> HIDE DEF rest
    <3>1. outgoing'[e][c] = rest(c)
      BY <1>3
    <3> QED
      BY <3>1
  <2>9. x \in Nat /\ y \in Nat /\ again \in Nat
    BY <1>5, <1>7
  <2>10. again = IF f = e /\ m \in Retransmitted(e) THEN 1 ELSE 0
    BY <1>7
  <2> HIDE DEF x, y, u, v, again
  <2>11. (x + u) + v = x + y + again
    BY <2>2, <2>9
  <2> QED
    BY <1>7, <2>3, <2>4, <2>10, <2>11 DEF x, y
<1> QED
  BY <1>6, <1>7

LEMMA FrameCopies ==
    ASSUME ConnInv, CopyInv, NEW e \in Ends, Frame(e)
    PROVE  CopyInv'
<1>0. Buffers /\ Numbered
  BY DEF ConnInv
<1>2. UNCHANGED posted /\ sendBuffer' = [sendBuffer EXCEPT ![e] = SendBufferNow(e)]
      /\ DOMAIN sendBuffer = Ends
  BY <1>0, FrameIs DEF Buffers
<1> SUFFICES ASSUME NEW f \in Ends, NEW c \in Channels, NEW m \in Ours(f, c)
             PROVE  CountOf(carried'[f], m) + CountOf(outgoing'[f][c], m) <= Allowed(f, m)'
  BY <1>2, Sames DEF CopyInv
<1> DEFINE old == CountOf(carried[f], m) + CountOf(outgoing[f][c], m)
           new == CountOf(carried'[f], m) + CountOf(outgoing'[f][c], m)
           again == IF f = e /\ m \in Retransmitted(e) THEN 1 ELSE 0
<1>5. old \in Nat /\ old <= Allowed(f, m)
  <2>1. CountOf(carried[f], m) \in Nat /\ CountOf(outgoing[f][c], m) \in Nat
    BY CountsAre
  <2>2. CountOf(carried[f], m) + CountOf(outgoing[f][c], m) <= Allowed(f, m)
    BY DEF CopyInv
  <2> QED
    BY <2>1, <2>2
<1>6. new = old + again
  BY FrameCounts
<1> HIDE DEF old, new
<1>7. Allowed(f, m) + again <= Allowed(f, m)' /\ Allowed(f, m) \in Nat /\ Allowed(f, m)' \in Nat
  <2>1. MaxRetries \in Nat /\ \A k \in DOMAIN sendBuffer[f] : sendBuffer[f][k].retries \in 0 .. MaxRetries
    BY RetriesAre, ConnectionAssumption
  <2>2. CASE f # e
    <3>1. sendBuffer'[f] = sendBuffer[f]
      BY <1>2, <2>2
    <3> QED
      BY <2>1, <2>2, <3>1 DEF Allowed
  <2>3. CASE f = e
    <3>1. sendBuffer'[e] = SendBufferNow(e)
      BY <1>2
    <3>2. \A k \in DOMAIN SendBufferNow(e) : SendBufferNow(e)[k].retries \in 0 .. MaxRetries
      BY <1>0, NowIs DEF SendEntries
    <3>3. CASE m \in Retransmitted(e)
      <4>1. m \in DOMAIN SendBufferNow(e) /\ m \in DOMAIN sendBuffer[e] /\ m.chan \in Reliable
        BY <1>0, <3>3, NowIs DEF Buffers
      <4>2. SendBufferNow(e)[m].retries = sendBuffer[e][m].retries + 1
        BY <1>0, <3>3, <4>1, NowIs
      <4> QED
        BY <2>1, <2>3, <3>1, <3>2, <3>3, <4>1, <4>2 DEF Allowed
    <3>4. CASE m \notin Retransmitted(e) /\ m \in DOMAIN SendBufferNow(e)
      <4>1. m \in DOMAIN sendBuffer[e] /\ SendBufferNow(e)[m].retries = sendBuffer[e][m].retries
        <5>1. m \in DOMAIN sendBuffer[e] /\ SendBufferNow(e)[m].retries = sendBuffer[e][m].retries + 0
          BY <1>0, <3>4, NowIs
        <5> QED
          BY <2>1, <2>3, <5>1
      <4> QED
        BY <2>1, <2>3, <3>1, <3>4, <4>1 DEF Allowed
    <3>5. CASE m \notin Retransmitted(e) /\ m \notin DOMAIN SendBufferNow(e)
      BY <2>1, <2>3, <3>1, <3>5 DEF Allowed
    <3> QED
      BY <3>3, <3>4, <3>5
  <2> QED
    BY <2>2, <2>3
<1>8. new <= Allowed(f, m)'
  <2> HIDE DEF again
  <2>1. again \in Nat
    BY DEF again
  <2> QED
    BY <1>5, <1>6, <1>7, <2>1
<1> QED
  BY <1>8 DEF new

LEMMA StepCopies == ConnInv /\ CopyInv /\ [Next]_vars => CopyInv'
<1> SUFFICES ASSUME ConnInv, CopyInv, [Next]_vars PROVE CopyInv'
  OBVIOUS
<1>0. DOMAIN sendBuffer = Ends /\ outgoing \in [Ends -> [Channels -> Seq(Messages)]]
  BY DEF ConnInv, Buffers
<1>1. CASE \E e \in Senders, c \in Channels : SendMessage(e, c)
  BY <1>1, SendCopies
<1>2. ASSUME NEW p \in net, Receive(p)
      PROVE  CopyInv'
  <2> DEFINE ms == {ackMap[p.to][n] : n \in Resolved(p.to, p.acks)}
  <2>1. UNCHANGED <<posted, carried, outgoing>>
        /\ sendBuffer' = [sendBuffer EXCEPT ![p.to] = Without(@, ms)]
    BY <1>2 DEF Receive
  <2>2. \A e \in Ends : \A m \in DOMAIN sendBuffer'[e] :
            m \in DOMAIN sendBuffer[e] /\ sendBuffer'[e][m].retries = sendBuffer[e][m].retries
    <3> HIDE DEF ms
    <3> QED
      BY <1>0, <2>1 DEF Without
  <2> QED
    BY <2>1, <2>2, CopiesSame
<1>3. ASSUME NEW e \in Ends, Expire(e)
      PROVE  CopyInv'
  <2>1. /\ UNCHANGED <<posted, carried>> /\ sendBuffer' = [sendBuffer EXCEPT ![e] = NoMessage]
        /\ outgoing' = [outgoing EXCEPT ![e] = [c \in Channels |-> <<>>]]
    BY <1>3 DEF Expire, history
  <2>2. \A f \in Ends : \A m \in DOMAIN sendBuffer'[f] :
            m \in DOMAIN sendBuffer[f] /\ sendBuffer'[f][m].retries = sendBuffer[f][m].retries
    BY <1>0, <2>1 DEF NoMessage
  <2>3. \A f \in Ends, c \in Channels : outgoing'[f][c] = outgoing[f][c] \/ outgoing'[f][c] = <<>>
    BY <1>0, <2>1
  <2> QED
    BY <2>1, <2>2, <2>3, CopiesSame
<1>4. CASE \E e \in Ends : Frame(e)
  BY <1>4, FrameCopies
<1>5. CASE Elapse
  <2>1. /\ UNCHANGED <<posted, carried, outgoing>>
        /\ sendBuffer' = [e \in Ends |-> [m \in DOMAIN sendBuffer[e] |->
                         [sendBuffer[e][m] EXCEPT !.age = Later(e, @, Rto + 1)]]]
    BY <1>5 DEF Elapse, history
  <2>2. \A e \in Ends : \A x \in SendEntries : [x EXCEPT !.age = Later(e, @, Rto + 1)].retries = x.retries
    BY DEF SendEntries
  <2>3. \A e \in Ends : \A m \in DOMAIN sendBuffer[e] : sendBuffer[e][m] \in SendEntries
    BY DEF ConnInv, Buffers
  <2>4. \A e \in Ends : \A m \in DOMAIN sendBuffer'[e] :
            m \in DOMAIN sendBuffer[e] /\ sendBuffer'[e][m].retries = sendBuffer[e][m].retries
    BY <2>1, <2>2, <2>3
  <2> QED
    BY <2>1, <2>4, CopiesSame
<1>6. CASE UNCHANGED vars
  BY <1>6, CopiesSame DEF vars, sendVars, history
<1> QED
  BY <1>1, <1>2, <1>3, <1>4, <1>5, <1>6 DEF Next

LEMMA TypedByConn == ConnInv => TypeOK
<1> SUFFICES ASSUME ConnInv PROVE TypeOK
  OBVIOUS
<1>1. calm \in BOOLEAN /\ up \subseteq Ends /\ ran \subseteq Ends
  BY DEF ConnInv, Clocks
<1> SUFFICES ASSUME NEW e \in Ends
             PROVE  /\ sinceSend[e] \in 0 .. KeepaliveInterval
                    /\ sinceRecv[e] \in 0 .. ConnectionTimeout
                    /\ posted[e] \in [Channels -> Nat]
                    /\ DOMAIN sendBuffer[e] \subseteq Messages
                    /\ \A m \in DOMAIN sendBuffer[e] : sendBuffer[e][m] \in SendEntries
                    /\ \A c \in Channels : outgoing[e][c] \in Seq(Messages)
                    /\ next[e] \in 0 .. Bound(e)
                    /\ accepted[e] \subseteq 0 .. (next[Other(e)] - 1)
                    /\ DOMAIN ackMap[e] \subseteq 0 .. (next[e] - 1)
                    /\ pendingAck[e] \in BOOLEAN
                    /\ \A n \in DOMAIN ackMap[e] : ackMap[e][n].chan \in Reliable
  BY <1>1 DEF TypeOK
<1>2. /\ sinceSend[e] \in 0 .. KeepaliveInterval /\ sinceRecv[e] \in 0 .. ConnectionTimeout
      /\ pendingAck[e] \in BOOLEAN
  BY DEF ConnInv, Clocks
<1>3. /\ posted[e] \in [Channels -> Nat] /\ DOMAIN sendBuffer[e] \subseteq Messages
      /\ \A m \in DOMAIN sendBuffer[e] : sendBuffer[e][m] \in SendEntries
      /\ \A c \in Channels : outgoing[e][c] \in Seq(Messages)
  BY DEF ConnInv, Buffers, Posted
<1>4. next[e] \in 0 .. Bound(e)
  BY ConnectionAssumption DEF ConnInv, Numbered, Bound
<1>5. /\ accepted[e] \subseteq 0 .. (next[Other(e)] - 1) /\ DOMAIN ackMap[e] \subseteq 0 .. (next[e] - 1)
      /\ \A n \in DOMAIN ackMap[e] : ackMap[e][n].chan \in Reliable
  BY DEF ConnInv, Arrivals, Mapped
<1> QED
  BY <1>2, <1>3, <1>4, <1>5

\* The state stays well typed, and however retransmission, backlog and
\* acknowledgement interleave, a message is queued and sent at most once more than
\* it may be retried (processRetransmissions, drainChannel).
THEOREM SentSparingly == Spec => []CopiesBounded
<1>1. ConnInv /\ CopyInv => CopiesBounded
  <2> SUFFICES ASSUME ConnInv, CopyInv, NEW e \in Ends, NEW c \in Channels, NEW i \in 1 .. posted[e][c]
               PROVE  LET m == [chan |-> c, id |-> i]
                      IN  Cardinality(Copies(carried[e], m)) + Cardinality(Copies(outgoing[e][c], m))
                              <= 1 + MaxRetries
    BY TypedByConn DEF CopiesBounded
  <2> DEFINE m == [chan |-> c, id |-> i]
  <2>1. m \in Ours(e, c)
    BY PostedIs DEF ConnInv
  <2>2. /\ Cardinality(Copies(carried[e], m)) = CountOf(carried[e], m)
        /\ Cardinality(Copies(outgoing[e][c], m)) = CountOf(outgoing[e][c], m)
    BY DEF Copies, CountOf
  <2> HIDE DEF m
  <2>3. CountOf(carried[e], m) + CountOf(outgoing[e][c], m) <= Allowed(e, m)
        /\ CountOf(carried[e], m) \in Nat /\ CountOf(outgoing[e][c], m) \in Nat
    BY <2>1, CountsAre DEF CopyInv
  <2>4. Allowed(e, m) <= 1 + MaxRetries /\ Allowed(e, m) \in Nat /\ MaxRetries \in Nat
    BY RetriesAre, ConnectionAssumption DEF Allowed
  <2>5. CountOf(carried[e], m) + CountOf(outgoing[e][c], m) <= 1 + MaxRetries
    BY <2>3, <2>4
  <2> QED
    BY <2>2, <2>5 DEF m
<1> QED
  BY <1>1, AlwaysConn, InitCopies, StepCopies, PTL DEF Spec

-----------------------------------------------------------------------------
(* Calm weather: nothing is sent twice. *)

\* The message waits for the frame of its end, which is this unit's or the next one's.
Waiting(e, m) ==
    /\ \E i \in DOMAIN outgoing[e][m.chan] : outgoing[e][m.chan][i] = m
    /\ sendBuffer[e][m].age <= 1 /\ (e \in ran => sendBuffer[e][m].age = 0)

\* The packets without data that were sent after packet n
BaresSince(e, n) == {k \in n + 1 .. next[e] - 1 : carried[e][k + 1] = Bare}

\* Packet n is on its way, has arrived and will be reported, or the report is on its way;
\* each takes its end to the end of a unit of time at most.
OnItsWay(e, n, age) ==
    /\ \E p \in net : p.to = Other(e) /\ p.num = n
    /\ e \in ran /\ age <= 1 /\ BaresSince(e, n) = {}
Owed(e, n, age) ==
    /\ n \in accepted[Other(e)] /\ pendingAck[Other(e)]
    /\ Other(e) \in ran => e \in ran /\ age <= 1 /\ BaresSince(e, n) = {}
Returning(e, n) == Other(e) \in ran /\ \E p \in net : p.to = e /\ n \in p.acks
Travels(e, n, age) ==
    /\ age <= 2
    /\ \A j, k \in BaresSince(e, n) : j = k
    /\ e \notin ran => BaresSince(e, n) = {}
    /\ OnItsWay(e, n, age) \/ Owed(e, n, age) \/ Returning(e, n)

Prompt(e, m) ==
    /\ sendBuffer[e][m].retries = 0
    /\ \/ Waiting(e, m)
       \/ \E n \in DOMAIN ackMap[e] : ackMap[e][n] = m /\ Travels(e, n, sendBuffer[e][m].age)

\* Nothing is sent twice, and every message is acknowledged in time.
SentOnce ==
    calm => \A e \in Ends, c \in Channels :
                /\ posted[e][c] <= MaxCalmMessages
                /\ \A m \in Ours(e, c) : CountOf(carried[e], m) + CountOf(outgoing[e][c], m) <= 1
AllPrompt == calm => \A e \in Ends : \A m \in DOMAIN sendBuffer[e] : Prompt(e, m)

\* All that can be posted in calm weather fits in the ack bits, and a unit of time for
\* the message and one for its acknowledgement in the retransmission timeout.
TimeAndRoom ==
    /\ 2 <= Rto
    /\ Cardinality(Channels) * MaxCalmMessages <= WireBits

LEMMA OnlyOnce ==
    ASSUME NEW S, NEW q \in Seq(S), NEW m, CountOf(q, m) <= 1,
           NEW i \in DOMAIN q, NEW j \in DOMAIN q, q[i] = m, q[j] = m
    PROVE  i = j
<1> DEFINE P == {k \in DOMAIN q : q[k] = m}
<1>1. IsFiniteSet(P) /\ Cardinality(P) \in Nat /\ Cardinality(P) <= 1
  BY CountNat DEF CountOf
<1>2. {i, j} \in SUBSET P
  OBVIOUS
<1>3. ASSUME i # j PROVE FALSE
  <2>1. IsFiniteSet({i}) /\ Cardinality({i}) = 1
    BY FS_Singleton
  <2>2. j \notin {i} /\ {i} \cup {j} = {i, j}
    BY <1>3
  <2>3. Cardinality({i} \cup {j}) = IF j \in {i} THEN Cardinality({i}) ELSE Cardinality({i}) + 1
    BY <2>1, FS_AddElement
  <2>4. Cardinality({i, j}) = 2
    BY <2>1, <2>2, <2>3
  <2> HIDE DEF P
  <2>5. Cardinality({i, j}) <= Cardinality(P)
    BY <1>1, <1>2, FS_Subset
  <2> QED
    BY <1>1, <2>4, <2>5
<1> QED
  BY <1>3

LEMMA CountHas ==
    ASSUME NEW S, NEW q \in Seq(S), NEW m, CountOf(q, m) # 0
    PROVE  \E i \in DOMAIN q : q[i] = m
BY CountNone

LEMMA HasCount ==
    ASSUME NEW S, NEW q \in Seq(S), NEW m, NEW i \in DOMAIN q, q[i] = m
    PROVE  CountOf(q, m) >= 1
<1> DEFINE P == {k \in DOMAIN q : q[k] = m}
<1>1. IsFiniteSet(P) /\ Cardinality(P) \in Nat
  BY CountNat DEF CountOf
<1>2. Cardinality(P) # 0
  BY <1>1, FS_EmptySet
<1> QED
  BY <1>1, <1>2 DEF CountOf

\* The messages of calm weather, and how many there are.
CalmMessages == [chan : Channels, id : 1 .. MaxCalmMessages]

LEMMA CalmMessagesFit ==
    /\ IsFiniteSet(CalmMessages)
    /\ Cardinality(CalmMessages) <= Cardinality(Channels) * MaxCalmMessages
    /\ Cardinality(CalmMessages) \in Nat /\ Cardinality(Channels) * MaxCalmMessages \in Nat
<1> DEFINE N == MaxCalmMessages
           P == Channels \X (1 .. N)
           f == [m \in CalmMessages |-> <<m.chan, m.id>>]
<1>1. N \in Nat /\ IsFiniteSet(Channels) /\ Cardinality(Channels) \in Nat
  BY ConnectionAssumption, FS_CardinalityType
<1>2. IsFiniteSet(1 .. N) /\ Cardinality(1 .. N) = N
  BY <1>1, OneTo
<1>3. IsFiniteSet(P) /\ Cardinality(P) = Cardinality(Channels) * N
  BY <1>1, <1>2, FS_Product
<1>4. f \in [CalmMessages -> P]
  BY DEF CalmMessages
<1>5. ASSUME NEW m \in CalmMessages, NEW k \in CalmMessages, f[m] = f[k] PROVE m = k
  <2>1. <<m.chan, m.id>> = <<k.chan, k.id>>
    BY <1>5
  <2>2. m.chan = k.chan /\ m.id = k.id
    BY <2>1
  <2> QED
    BY <2>2 DEF CalmMessages
<1> HIDE DEF f
<1>6. f \in Injection(CalmMessages, P)
  BY <1>4, <1>5 DEF Injection, IsInjective
<1>7. IsFiniteSet(CalmMessages) /\ Cardinality(CalmMessages) <= Cardinality(P)
  BY <1>3, <1>6, FS_Injection
<1>8. Cardinality(CalmMessages) \in Nat /\ Cardinality(P) \in Nat
  BY <1>3, <1>7, FS_CardinalityType
<1> QED
  BY <1>3, <1>7, <1>8

\* With the messages so few, a packet with data stays within the ack bits of what was
\* sent after it.
LEMMA StaysInReach ==
    ASSUME ConnInv, SentOnce, TimeAndRoom, calm, NEW e \in Ends, NEW n \in 0 .. next[e] - 1,
           carried[e][n + 1] # Bare, \A j, k \in BaresSince(e, n) : j = k
    PROVE  next[e] - 1 - n <= WireBits
<1> DEFINE q == carried[e]
           D == {k \in n .. next[e] - 1 : q[k + 1] # Bare}
           B == BaresSince(e, n)
           I == n .. next[e] - 1
           f == [k \in D |-> q[k + 1]]
<1>1. q \in Seq(Posted(e) \cup {Bare}) /\ Len(q) = next[e] /\ next[e] \in Nat /\ n \in Nat
      /\ \A c \in Channels : posted[e][c] <= MaxCalmMessages /\ posted[e][c] \in Nat
  <2>1. q \in Seq(Posted(e) \cup {Bare}) /\ Len(q) = next[e] /\ next[e] \in Nat
    BY DEF ConnInv, Numbered
  <2>2. \A c \in Channels : posted[e][c] <= MaxCalmMessages /\ posted[e][c] \in Nat
    BY DEF ConnInv, SentOnce, Buffers
  <2> QED
    BY <2>1, <2>2
<1>2. \A k \in I : k + 1 \in DOMAIN q
  BY <1>1
<1>3. f \in [D -> CalmMessages]
  <2> SUFFICES ASSUME NEW k \in D PROVE q[k + 1] \in CalmMessages
    OBVIOUS
  <2>1. q[k + 1] \in Posted(e)
    BY <1>1, <1>2
  <2>2. PICK m \in Messages : m = q[k + 1] /\ m.id \in 1 .. posted[e][m.chan]
    BY <2>1 DEF Posted
  <2>3. m.chan \in Channels /\ m.id \in 1 .. MaxCalmMessages /\ m = [chan |-> m.chan, id |-> m.id]
    <3>1. m.chan \in Channels /\ m.id \in Nat /\ m = [chan |-> m.chan, id |-> m.id]
      BY DEF Messages
    <3>2. posted[e][m.chan] <= MaxCalmMessages /\ posted[e][m.chan] \in Nat /\ MaxCalmMessages \in Nat
      BY <1>1, <3>1, ConnectionAssumption
    <3> QED
      BY <2>2, <3>1, <3>2
  <2> QED
    BY <2>2, <2>3 DEF CalmMessages
<1>4. ASSUME NEW j \in D, NEW k \in D, f[j] = f[k] PROVE j = k
  <2>1. q[j + 1] \in Posted(e) /\ q[j + 1] = q[k + 1] /\ j + 1 \in DOMAIN q /\ k + 1 \in DOMAIN q
    BY <1>1, <1>2, <1>4
  <2>2. PICK m : m = q[j + 1] /\ m \in Ours(e, m.chan) /\ m.chan \in Channels
    BY <2>1, PostedIs DEF Ours, Posted, Messages
  <2>3. CountOf(q, m) + CountOf(outgoing[e][m.chan], m) <= 1
        /\ CountOf(q, m) \in Nat /\ CountOf(outgoing[e][m.chan], m) \in Nat
    BY <2>2, CountsAre DEF SentOnce
  <2>4. CountOf(q, m) <= 1
    BY <2>3
  <2>5. j + 1 = k + 1
    <3> HIDE DEF q
    <3> QED
      BY <1>1, <2>1, <2>2, <2>4, OnlyOnce
  <2> QED
    BY <1>1, <2>5
<1> HIDE DEF f
<1>5. f \in Injection(D, CalmMessages)
  BY <1>3, <1>4 DEF Injection, IsInjective
<1>6. IsFiniteSet(D) /\ Cardinality(D) <= Cardinality(CalmMessages)
  BY <1>5, CalmMessagesFit, FS_Injection
<1>7. IsFiniteSet(B) /\ Cardinality(B) <= 1
  <2>1. CASE B = {}
    BY <2>1, FS_EmptySet
  <2>2. CASE B # {}
    <3>1. PICK k \in B : TRUE
      BY <2>2
    <3>2. B = {k}
      BY <3>1
    <3>3. IsFiniteSet({k}) /\ Cardinality({k}) = 1
      BY FS_Singleton
    <3> HIDE DEF B
    <3> QED
      BY <3>2, <3>3
  <2> QED
    BY <2>1, <2>2
<1>8. I = D \cup B /\ D \cap B = {}
  BY <1>1 DEF BaresSince
<1>9. IsFiniteSet(I) /\ Cardinality(I) = next[e] - n
  <2>1. n \in Int /\ next[e] - 1 \in Int /\ n <= next[e] - 1
    BY <1>1
  <2>2. IsFiniteSet(I) /\ Cardinality(I) = IF n > next[e] - 1 THEN 0 ELSE next[e] - 1 - n + 1
    BY <2>1, FS_Interval
  <2> HIDE DEF I
  <2> QED
    BY <1>1, <2>1, <2>2
<1>10. Cardinality(D \cup B) = Cardinality(D) + Cardinality(B) - Cardinality(D \cap B)
  BY <1>6, <1>7, FS_Union
<1>11. Cardinality(D) \in Nat /\ Cardinality(B) \in Nat /\ Cardinality(D \cap B) = 0
  BY <1>6, <1>7, <1>8, FS_CardinalityType, FS_EmptySet
<1>12. Cardinality(CalmMessages) <= WireBits /\ Cardinality(CalmMessages) \in Nat /\ WireBits \in Nat
  BY CalmMessagesFit, ConnectionAssumption DEF TimeAndRoom
<1> HIDE DEF D, B, I
<1> QED
  BY <1>1, <1>6, <1>7, <1>8, <1>9, <1>10, <1>11, <1>12

\* Where a message is acknowledged in time its packet is in reach of the next report.
LEMMA InReach ==
    ASSUME ConnInv, SentOnce, TimeAndRoom, calm, NEW e \in Ends,
           NEW n \in DOMAIN ackMap[e], NEW age, Travels(e, n, age)
    PROVE  /\ n \in Nat /\ n < next[e] /\ next[e] \in Nat /\ next[e] - 1 - n <= WireBits
           /\ WireBits \in Nat /\ WireBits < AckPruneWindow /\ AckPruneWindow \in Nat
           /\ accepted[Other(e)] \subseteq 0 .. next[e] - 1
<1>1. n \in 0 .. next[e] - 1 /\ next[e] \in Nat /\ ackMap[e][n] = carried[e][n + 1]
      /\ ackMap[e][n].chan \in Reliable
  BY DEF ConnInv, Numbered, Mapped
<1>2. carried[e][n + 1] # Bare
  <2>1. Reliable \subseteq Nat
    BY ConnectionAssumption
  <2>2. ackMap[e][n].chan \in Nat
    BY <1>1, <2>1
  <2>3. Bare.chan = -1
    BY DEF Bare
  <2> QED
    BY <1>1, <2>2, <2>3
<1>3. next[e] - 1 - n <= WireBits
  BY <1>1, <1>2, StaysInReach DEF Travels
<1>4. accepted[Other(e)] \subseteq 0 .. next[Other(Other(e))] - 1
  BY Others DEF ConnInv, Arrivals
<1> QED
  BY <1>1, <1>3, <1>4, Others, ConnectionAssumption

\* The newest of a set of packets is among them, or none is.
LEMMA TopIs ==
    ASSUME NEW S \in SUBSET Nat, NEW n \in Nat, \A x \in S : x <= n
    PROVE  Top(S) \in S \cup {0} /\ \A x \in S : x <= Top(S)
<1>1. PICK k \in S \cup {0} : \A x \in S : x <= k
  <2>1. CASE S = {}
    BY <2>1
  <2>2. CASE S # {}
    BY <2>2, GreatestOf
  <2> QED
    BY <2>1, <2>2
<1> QED
  BY <1>1 DEF Top

-----------------------------------------------------------------------------
\* Nothing is sent twice.
LEMMA OnceSame ==
    ASSUME SentOnce, UNCHANGED <<calm, posted, carried, outgoing>>
    PROVE  SentOnce'
<1>1. \A e \in Ends, c \in Channels : Ours(e, c)' = Ours(e, c)
  BY Sames
<1> QED
  BY <1>1 DEF SentOnce

LEMMA NothingOverdue ==
    ASSUME ConnInv, AllPrompt, calm, TimeAndRoom, NEW e \in Ends
    PROVE  Overdue(e) = {} /\ Retransmitted(e) = {}
           /\ DOMAIN SendBufferNow(e) = DOMAIN sendBuffer[e]
           /\ \A m \in DOMAIN sendBuffer[e] : SendBufferNow(e)[m] = sendBuffer[e][m]
<1>1. Rto \in Nat /\ 2 <= Rto
  BY ConnectionAssumption DEF TimeAndRoom
<1>2. \A m \in DOMAIN sendBuffer[e] : sendBuffer[e][m].age \in Nat /\ sendBuffer[e][m].age <= 2
  <2> SUFFICES ASSUME NEW m \in DOMAIN sendBuffer[e]
               PROVE  sendBuffer[e][m].age \in Nat /\ sendBuffer[e][m].age <= 2
    OBVIOUS
  <2>1. sendBuffer[e][m] \in SendEntries
    BY DEF ConnInv, Buffers
  <2>2. sendBuffer[e][m].age \in Nat
    BY <1>1, <2>1 DEF SendEntries
  <2>3. Prompt(e, m)
    BY DEF AllPrompt
  <2>4. sendBuffer[e][m].age <= 1 \/ sendBuffer[e][m].age <= 2
    BY <2>3 DEF Prompt, Waiting, Travels
  <2> QED
    BY <2>2, <2>4
<1>3. Overdue(e) = {}
  BY <1>1, <1>2 DEF Overdue
<1>4. Dropped(e) = {} /\ Retransmitted(e) = {}
  BY <1>3 DEF Dropped, Retransmitted
<1>5. SendBufferNow(e) = [m \in DOMAIN sendBuffer[e] |-> sendBuffer[e][m]]
  BY <1>4 DEF SendBufferNow
<1> QED
  BY <1>3, <1>4, <1>5

LEMMA SendOnce ==
    ASSUME ConnInv, SentOnce, calm, NEW e \in Senders, NEW c \in Channels, SendMessage(e, c)
    PROVE  SentOnce'
<1> SUFFICES ASSUME NEW f \in Ends, NEW d \in Channels
             PROVE  /\ posted'[f][d] <= MaxCalmMessages
                    /\ \A m \in Ours(f, d)' : CountOf(carried'[f], m) + CountOf(outgoing'[f][d], m) <= 1
  BY DEF SentOnce
<1>1. posted'[f][d] <= MaxCalmMessages
  <2>1. posted \in [Ends -> [Channels -> Nat]] /\ posted' = [posted EXCEPT ![e][c] = @ + 1]
        /\ posted[e][c] < MaxCalmMessages /\ MaxCalmMessages \in Nat /\ posted[f][d] <= MaxCalmMessages
        /\ e \in Ends
    BY ConnectionAssumption DEF ConnInv, Buffers, SendMessage, SentOnce
  <2>2. posted'[f][d] = IF f = e /\ d = c THEN posted[f][d] + 1 ELSE posted[f][d]
    BY <2>1
  <2> QED
    BY <2>1, <2>2
<1>2. ASSUME NEW m \in Ours(f, d)'
      PROVE  CountOf(carried'[f], m) + CountOf(outgoing'[f][d], m) <= 1
  <2>1. \/ CountOf(carried'[f], m) + CountOf(outgoing'[f][d], m) = 1
        \/ /\ m \in Ours(f, d)
           /\ CountOf(carried'[f], m) = CountOf(carried[f], m)
           /\ CountOf(outgoing'[f][d], m) = CountOf(outgoing[f][d], m)
    BY SendCounts
  <2>2. m \in Ours(f, d) => CountOf(carried[f], m) + CountOf(outgoing[f][d], m) <= 1
    BY DEF SentOnce
  <2> QED
    BY <2>1, <2>2
<1> QED
  BY <1>1, <1>2

LEMMA FrameOnce ==
    ASSUME ConnInv, SentOnce, AllPrompt, TimeAndRoom, calm, NEW e \in Ends, Frame(e)
    PROVE  SentOnce'
<1>1. UNCHANGED posted
  BY FrameIs
<1> SUFFICES ASSUME NEW f \in Ends, NEW d \in Channels
             PROVE  /\ posted[f][d] <= MaxCalmMessages
                    /\ \A m \in Ours(f, d) : CountOf(carried'[f], m) + CountOf(outgoing'[f][d], m) <= 1
  BY <1>1, Sames DEF SentOnce
<1>2. ASSUME NEW m \in Ours(f, d)
      PROVE  CountOf(carried'[f], m) + CountOf(outgoing'[f][d], m) <= 1
  <2>1. CountOf(carried'[f], m) + CountOf(outgoing'[f][d], m) =
            CountOf(carried[f], m) + CountOf(outgoing[f][d], m) + (IF f = e /\ m \in Retransmitted(e) THEN 1 ELSE 0)
    BY FrameCounts
  <2>2. CountOf(carried[f], m) + CountOf(outgoing[f][d], m) <= 1
        /\ CountOf(carried[f], m) \in Nat /\ CountOf(outgoing[f][d], m) \in Nat
    BY CountsAre DEF SentOnce
  <2>3. m \notin Retransmitted(e)
    BY NothingOverdue
  <2> QED
    BY <2>1, <2>2, <2>3
<1> QED
  BY <1>2 DEF SentOnce

-----------------------------------------------------------------------------
\* Every message is acknowledged in time: what each step leaves of that.
LEMMA SendPrompt ==
    ASSUME ConnInv, AllPrompt, calm, NEW e \in Senders, NEW c \in Channels, SendMessage(e, c)
    PROVE  AllPrompt'
<1> DEFINE m == [chan |-> c, id |-> posted[e][c] + 1]
<1>0. e \in Ends
  BY ConnectionAssumption
<1>1. /\ outgoing' = [outgoing EXCEPT ![e][c] = Append(@, m)]
      /\ sendBuffer' = IF c \in Reliable
                       THEN [sendBuffer EXCEPT ![e] = With(@, m, [age |-> 0, retries |-> 0])]
                       ELSE sendBuffer
      /\ UNCHANGED <<calm, ran, next, accepted, ackMap, pendingAck, net, carried>>
  BY DEF SendMessage, timers, history
<1>2. /\ outgoing \in [Ends -> [Channels -> Seq(Messages)]] /\ DOMAIN sendBuffer = Ends
      /\ \A f \in Ends : \A k \in DOMAIN sendBuffer[f] : k.chan \in Channels
  BY ConnectionAssumption DEF ConnInv, Buffers
<1>3. m.chan = c /\ posted[e][c] \in Nat /\ m \in Messages
  BY <1>0 DEF ConnInv, Buffers, Messages
<1> HIDE DEF m
<1>4. \A f \in Ends, d \in Channels :
          outgoing'[f][d] = IF f = e /\ d = c THEN Append(outgoing[f][d], m) ELSE outgoing[f][d]
  BY <1>0, <1>1, <1>2
<1>5. ASSUME NEW f \in Ends, NEW d \in Channels, NEW i \in DOMAIN outgoing[f][d]
      PROVE  i \in DOMAIN outgoing'[f][d] /\ outgoing'[f][d][i] = outgoing[f][d][i]
  <2> DEFINE q == outgoing[f][d]
  <2>1. q \in Seq(Messages)
    BY <1>2
  <2>2. CASE f = e /\ d = c
    <3>1. outgoing'[f][d] = Append(q, m)
      BY <1>4, <2>2
    <3>2. i \in DOMAIN q
      OBVIOUS
    <3> HIDE DEF q
    <3>3. i \in DOMAIN Append(q, m) /\ Append(q, m)[i] = q[i]
      BY <1>3, <2>1, <3>2
    <3> QED
      BY <3>1, <3>3 DEF q
  <2>3. CASE ~(f = e /\ d = c)
    BY <1>4, <2>3
  <2> QED
    BY <2>2, <2>3
<1> SUFFICES ASSUME NEW f \in Ends, NEW k \in DOMAIN sendBuffer'[f]
             PROVE  Prompt(f, k)'
  BY DEF AllPrompt
<1>6. CASE f = e /\ k = m /\ c \in Reliable
  <2>1. sendBuffer'[f][k] = [age |-> 0, retries |-> 0]
    BY <1>0, <1>1, <1>2, <1>6 DEF With
  <2>2. \E i \in DOMAIN outgoing'[e][c] : outgoing'[e][c][i] = m
    <3>1. outgoing[e][c] \in Seq(Messages) /\ outgoing'[e][c] = Append(outgoing[e][c], m)
      BY <1>0, <1>2, <1>4
    <3>2. Len(outgoing[e][c]) + 1 \in DOMAIN outgoing'[e][c]
          /\ outgoing'[e][c][Len(outgoing[e][c]) + 1] = m
      BY <1>3, <3>1
    <3> QED
      BY <3>2
  <2>3. Waiting(f, k)'
    BY <1>3, <1>6, <2>1, <2>2 DEF Waiting
  <2> QED
    BY <2>1, <2>3 DEF Prompt
<1>7. CASE ~(f = e /\ k = m /\ c \in Reliable)
  <2>1. k \in DOMAIN sendBuffer[f] /\ sendBuffer'[f][k] = sendBuffer[f][k]
    BY <1>0, <1>1, <1>2, <1>7 DEF With
  <2>2. Prompt(f, k)
    BY <2>1 DEF AllPrompt
  <2>3. CASE Waiting(f, k)
    <3>0. k.chan \in Channels
      BY <1>2, <2>1
    <3>1. PICK i \in DOMAIN outgoing[f][k.chan] : outgoing[f][k.chan][i] = k
      BY <2>3 DEF Waiting
    <3>2. i \in DOMAIN outgoing'[f][k.chan] /\ outgoing'[f][k.chan][i] = k
      BY <1>5, <3>0, <3>1
    <3>3. sendBuffer'[f][k].age <= 1 /\ (f \in ran' => sendBuffer'[f][k].age = 0)
      BY <1>1, <2>1, <2>3 DEF Waiting
    <3>4. Waiting(f, k)'
      BY <3>2, <3>3 DEF Waiting
    <3> QED
      BY <2>1, <2>2, <3>4 DEF Prompt
  <2>4. CASE \E n \in DOMAIN ackMap[f] : ackMap[f][n] = k /\ Travels(f, n, sendBuffer[f][k].age)
    <3>1. PICK n \in DOMAIN ackMap[f] : ackMap[f][n] = k /\ Travels(f, n, sendBuffer[f][k].age)
      BY <2>4
    <3>2. Travels(f, n, sendBuffer[f][k].age)'
      BY <1>1, <2>1, <3>1 DEF Travels, OnItsWay, Owed, Returning, BaresSince
    <3> QED
      BY <1>1, <2>1, <2>2, <3>1, <3>2 DEF Prompt
  <2> QED
    BY <2>2, <2>3, <2>4 DEF Prompt
<1> QED
  BY <1>6, <1>7

LEMMA ElapsePrompt ==
    ASSUME ConnInv, CalmInv, AllPrompt, TimeAndRoom, calm, Elapse
    PROVE  AllPrompt'
<1>1. /\ up = Ends /\ Ends \subseteq ran /\ net = {}
      /\ sendBuffer' = [e \in Ends |-> [m \in DOMAIN sendBuffer[e] |->
                         [sendBuffer[e][m] EXCEPT !.age = Later(e, @, Rto + 1)]]]
      /\ ran' = {}
      /\ UNCHANGED <<calm, outgoing, next, accepted, ackMap, pendingAck, net, carried>>
  BY DEF Elapse, CalmInv, history
<1> SUFFICES ASSUME NEW e \in Ends, NEW m \in DOMAIN sendBuffer'[e]
             PROVE  Prompt(e, m)'
  BY DEF AllPrompt
<1>2. m \in DOMAIN sendBuffer[e] /\ Rto \in Nat /\ sendBuffer[e][m] \in SendEntries
  BY <1>1, ConnectionAssumption DEF ConnInv, Buffers
<1>3. /\ sendBuffer[e][m].age \in Nat /\ sendBuffer'[e][m].age \in Nat
      /\ sendBuffer'[e][m].age <= sendBuffer[e][m].age + 1
      /\ sendBuffer'[e][m].retries = sendBuffer[e][m].retries
  BY <1>1, <1>2 DEF Later, SendEntries
<1>4. Prompt(e, m)
  BY <1>2 DEF AllPrompt
<1>5. CASE Waiting(e, m)
  <2>1. Waiting(e, m)'
    BY <1>1, <1>3, <1>5 DEF Waiting
  <2> QED
    BY <1>3, <1>4, <2>1 DEF Prompt
<1>6. CASE \E n \in DOMAIN ackMap[e] : ackMap[e][n] = m /\ Travels(e, n, sendBuffer[e][m].age)
  <2>1. PICK n \in DOMAIN ackMap[e] : ackMap[e][n] = m /\ Travels(e, n, sendBuffer[e][m].age)
    BY <1>6
  <2>2. Owed(e, n, sendBuffer[e][m].age)
    BY <1>1, <2>1 DEF Travels, OnItsWay, Returning
  <2>3. Other(e) \in ran
    BY <1>1, Others
  <2>4. sendBuffer[e][m].age <= 1 /\ BaresSince(e, n) = {} /\ n \in accepted[Other(e)]
        /\ pendingAck[Other(e)]
    BY <2>2, <2>3 DEF Owed
  <2>5. sendBuffer'[e][m].age <= 2 /\ BaresSince(e, n)' = {}
    BY <1>1, <1>3, <2>4 DEF BaresSince
  <2>6. Travels(e, n, sendBuffer[e][m].age)'
    BY <1>1, <2>4, <2>5 DEF Travels, Owed
  <2> QED
    BY <1>1, <1>3, <1>4, <2>1, <2>6 DEF Prompt
<1> QED
  BY <1>4, <1>5, <1>6 DEF Prompt

LEMMA ReceivePrompt ==
    ASSUME ConnInv, SentOnce, AllPrompt, TimeAndRoom, calm, NEW p \in net, Receive(p)
    PROVE  AllPrompt'
<1> DEFINE r == p.to  done == Resolved(r, p.acks)  ms == {ackMap[r][n] : n \in done}
<1>1. /\ UNCHANGED <<calm, ran, outgoing, next, carried>>
      /\ net' = net \ {p}
      /\ accepted' = [accepted EXCEPT ![r] = @ \cup {p.num}]
      /\ pendingAck' = [pendingAck EXCEPT ![r] = TRUE]
      /\ sendBuffer' = [sendBuffer EXCEPT ![r] = Without(@, ms)]
      /\ ackMap' = [ackMap EXCEPT ![r] = Pruned(Without(@, done), Top(p.acks))]
  BY DEF Receive
<1>2. /\ r \in Ends /\ DOMAIN accepted = Ends /\ DOMAIN pendingAck = Ends
      /\ DOMAIN sendBuffer = Ends /\ DOMAIN ackMap = Ends
      /\ p.acks \subseteq accepted[Other(r)] \cup {0}
  BY DEF ConnInv, Arrivals, Buffers, Mapped, Clocks
<1> HIDE DEF r, ms, done
<1> SUFFICES ASSUME NEW e \in Ends, NEW m \in DOMAIN sendBuffer'[e]
             PROVE  Prompt(e, m)'
  BY DEF AllPrompt
<1>3. m \in DOMAIN sendBuffer[e] /\ sendBuffer'[e][m] = sendBuffer[e][m]
      /\ (e = r => m \notin ms)
  BY <1>1, <1>2 DEF Without
<1>4. Prompt(e, m)
  BY <1>3 DEF AllPrompt
<1>5. CASE Waiting(e, m)
  <2>1. Waiting(e, m)'
    BY <1>1, <1>3, <1>5 DEF Waiting
  <2> QED
    BY <1>3, <1>4, <2>1 DEF Prompt
<1>6. CASE \E n \in DOMAIN ackMap[e] : ackMap[e][n] = m /\ Travels(e, n, sendBuffer[e][m].age)
  <2>1. PICK n \in DOMAIN ackMap[e] : ackMap[e][n] = m /\ Travels(e, n, sendBuffer[e][m].age)
    BY <1>6
  <2>2. BaresSince(e, n)' = BaresSince(e, n)
    BY <1>1 DEF BaresSince
  <2>3. Other(e) \in Ends /\ Other(e) # e
    BY Others
  <2>4. CASE e = r
    <3>1. n \notin done /\ n \notin p.acks
      BY <1>3, <2>1, <2>4 DEF ms, done, Resolved
    <3>2. ~(Top(p.acks) - n > AckPruneWindow)
      <4>1. /\ n \in Nat /\ n < next[e] /\ next[e] \in Nat /\ next[e] - 1 - n <= WireBits
            /\ WireBits \in Nat /\ WireBits < AckPruneWindow /\ AckPruneWindow \in Nat
            /\ accepted[Other(e)] \subseteq 0 .. next[e] - 1
        BY <2>1, InReach
      <4>2. p.acks \in SUBSET Nat /\ next[e] - 1 \in Nat /\ \A x \in p.acks : x <= next[e] - 1
        BY <1>2, <2>4, <4>1
      <4>3. Top(p.acks) \in p.acks \cup {0}
        BY <4>2, TopIs
      <4>4. Top(p.acks) \in Nat /\ Top(p.acks) <= next[e] - 1
        BY <4>1, <4>2, <4>3
      <4> QED
        BY <4>1, <4>4
    <3>3. n \in DOMAIN ackMap'[e] /\ ackMap'[e][n] = m
      <4>1. ackMap'[e] = Pruned(Without(ackMap[e], done), Top(p.acks))
        BY <1>1, <1>2, <2>4
      <4>2. n \in DOMAIN Without(ackMap[e], done) /\ Without(ackMap[e], done)[n] = m
        BY <2>1, <3>1 DEF Without
      <4> QED
        BY <3>2, <4>1, <4>2 DEF Pruned, Without
    <3>4. accepted'[Other(e)] = accepted[Other(e)] /\ pendingAck'[Other(e)] = pendingAck[Other(e)]
      BY <1>1, <1>2, <2>3, <2>4
    <3>5. \A q \in net : q.to = Other(e) => q \in net'
      BY <1>1, <2>3, <2>4 DEF r
    <3>6. \A q \in net : n \in q.acks => q \in net'
      BY <1>1, <3>1
    <3>7. Travels(e, n, sendBuffer[e][m].age)'
      <4>1. CASE OnItsWay(e, n, sendBuffer[e][m].age)
        BY <1>1, <1>3, <2>1, <2>2, <3>5, <4>1 DEF Travels, OnItsWay
      <4>2. CASE Owed(e, n, sendBuffer[e][m].age)
        BY <1>1, <1>3, <2>1, <2>2, <3>4, <4>2 DEF Travels, Owed
      <4>3. CASE Returning(e, n)
        BY <1>1, <1>3, <2>1, <2>2, <3>6, <4>3 DEF Travels, Returning
      <4> QED
        BY <2>1, <4>1, <4>2, <4>3 DEF Travels
    <3> QED
      BY <1>3, <1>4, <3>3, <3>7 DEF Prompt
  <2>5. CASE e # r
    <3>1. Other(e) = r
      BY <1>2, <2>5, Others
    <3>2. ackMap'[e] = ackMap[e]
      BY <1>1, <2>5
    <3>3. accepted'[Other(e)] = accepted[Other(e)] \cup {p.num} /\ pendingAck'[Other(e)] = TRUE
      BY <1>1, <1>2, <3>1
    <3>4. \A q \in net : q # p => q \in net'
      BY <1>1
    <3>5. Travels(e, n, sendBuffer[e][m].age)'
      <4>1. CASE OnItsWay(e, n, sendBuffer[e][m].age)
        <5>1. PICK q \in net : q.to = Other(e) /\ q.num = n
          BY <4>1 DEF OnItsWay
        <5>2. CASE q # p
          BY <1>1, <1>3, <2>1, <2>2, <3>4, <4>1, <5>1, <5>2 DEF Travels, OnItsWay
        <5>3. CASE q = p
          BY <1>1, <1>3, <2>1, <2>2, <3>3, <4>1, <5>1, <5>3 DEF Travels, OnItsWay, Owed
        <5> QED
          BY <5>2, <5>3
      <4>2. CASE Owed(e, n, sendBuffer[e][m].age)
        BY <1>1, <1>3, <2>1, <2>2, <3>3, <4>2 DEF Travels, Owed
      <4>3. CASE Returning(e, n)
        <5>1. PICK q \in net : q.to = e /\ n \in q.acks
          BY <4>3 DEF Returning
        <5>2. q # p
          BY <2>5, <5>1 DEF r
        <5> QED
          BY <1>1, <1>3, <2>1, <2>2, <3>4, <4>3, <5>1, <5>2 DEF Travels, Returning
      <4> QED
        BY <2>1, <4>1, <4>2, <4>3 DEF Travels
    <3> QED
      BY <1>3, <1>4, <2>1, <3>2, <3>5 DEF Prompt
  <2> QED
    BY <2>4, <2>5
<1> QED
  BY <1>4, <1>5, <1>6 DEF Prompt

\* What a frame sends gets the next numbers, the ack map remembers the reliable part of
\* it, and in calm weather everything queued leaves.
LEMMA FrameLists ==
    ASSUME ConnInv, NEW e \in Ends, NEW room \in Rooms(Queues(e)), FrameWith(e, room)
    PROVE  /\ Out(e, room) \in Seq(Posted(e) \cup {Bare})
           /\ \A f \in Ends \ {e} : /\ next'[f] = next[f] /\ carried'[f] = carried[f]
                                    /\ ackMap'[f] = ackMap[f] /\ outgoing'[f] = outgoing[f]
           /\ next[e] \in Nat /\ next'[e] = next[e] + Len(Out(e, room))
           /\ \A n \in 0 .. next[e] - 1 : carried'[e][n + 1] = carried[e][n + 1]
           /\ \A i \in DOMAIN Out(e, room) : carried'[e][next[e] + i] = Out(e, room)[i]
           /\ \A n \in DOMAIN ackMap[e] : n \in DOMAIN ackMap'[e] /\ ackMap'[e][n] = ackMap[e][n]
           /\ \A i \in DOMAIN Out(e, room) : Out(e, room)[i].chan \in Reliable =>
                  next[e] + i - 1 \in DOMAIN ackMap'[e]
                  /\ ackMap'[e][next[e] + i - 1] = Out(e, room)[i]
           /\ \A i \in DOMAIN Out(e, room) :
                  \E q \in net' : /\ q.to = Other(e) /\ q.num = next[e] + i - 1
                                  /\ q.acks = AckInfo(e)
           /\ net \subseteq net'
           /\ calm => \A c \in Channels : \A m \in Ours(e, c) :
                          CountOf(Out(e, room), m) = CountOf(Queue(e, c), m)
<1> DEFINE out == Out(e, room)  first == next[e]  old == carried[e]
           reliable == {n \in first .. first + Len(out) - 1 : out[n - first + 1].chan \in Reliable}
           map == [n \in DOMAIN ackMap[e] \cup reliable |->
                      IF n \in reliable THEN out[n - first + 1] ELSE ackMap[e][n]]
           fresh(i) == [to |-> Other(e), num |-> first + i - 1, carries |-> out[i],
                        acks |-> AckInfo(e)]
<1>1. out \in Seq(Posted(e) \cup {Bare})
      /\ \A c \in Channels : /\ room[c] \in 0 .. Len(Queue(e, c))
                             /\ \A m \in Ours(e, c) :
                                   CountOf(out, m) = CountOf(SubSeq(Queue(e, c), 1, room[c]), m)
  BY FrameSends DEF ConnInv
<1>2. /\ carried' = [carried EXCEPT ![e] = old \o out] /\ DOMAIN carried = Ends
      /\ old \in Seq(Posted(e) \cup {Bare}) /\ Len(old) = first /\ first \in Nat
      /\ next' = [next EXCEPT ![e] = first + Len(out)] /\ DOMAIN next = Ends
      /\ \A n \in DOMAIN ackMap[e] : n \in 0 .. (first - 1)
      /\ ackMap' = [ackMap EXCEPT ![e] = map] /\ DOMAIN ackMap = Ends
  <2>1. /\ carried' = [carried EXCEPT ![e] = old \o out] /\ DOMAIN carried = Ends
        /\ old \in Seq(Posted(e) \cup {Bare}) /\ Len(old) = first
    BY Zenon DEF FrameWith, ConnInv, Numbered
  <2>2. next' = [next EXCEPT ![e] = first + Len(out)] /\ DOMAIN next = Ends /\ first \in Nat
    BY DEF FrameWith, ConnInv, Numbered
  <2>3. \A n \in DOMAIN ackMap[e] : n \in 0 .. (first - 1)
    BY DEF ConnInv, Mapped
  <2>4. ackMap' = [ackMap EXCEPT ![e] = map] /\ DOMAIN ackMap = Ends
    BY Zenon DEF FrameWith, ConnInv, Mapped
  <2> QED
    BY <2>1, <2>2, <2>3, <2>4
<1>3. /\ DOMAIN outgoing = Ends
      /\ outgoing' = [outgoing EXCEPT ![e] = [c \in Channels |->
                         SubSeq(Queues(e)[c], room[c] + 1, Len(Queues(e)[c]))]]
  BY DEF FrameWith, ConnInv, Buffers
<1>4. net' = net \cup {fresh(i) : i \in DOMAIN out}
  BY DEF FrameWith
<1>5. \A f \in Ends \ {e} : /\ next'[f] = next[f] /\ carried'[f] = carried[f]
                            /\ ackMap'[f] = ackMap[f] /\ outgoing'[f] = outgoing[f]
  <2> HIDE DEF out, first, old, map
  <2> QED
    BY <1>2, <1>3
<1>6. next'[e] = first + Len(out) /\ carried'[e] = old \o out /\ ackMap'[e] = map
  <2> HIDE DEF out, first, old, map
  <2> QED
    BY <1>2
<1>7. \A n \in 0 .. first - 1 : (old \o out)[n + 1] = old[n + 1]
  <2> HIDE DEF out, first, old
  <2> QED
    BY <1>1, <1>2
<1>8. \A i \in DOMAIN out : (old \o out)[first + i] = out[i]
  <2> HIDE DEF out, first, old
  <2> QED
    BY <1>1, <1>2
<1>9. \A n \in DOMAIN ackMap[e] : n \in DOMAIN map /\ map[n] = ackMap[e][n]
  <2> SUFFICES ASSUME NEW n \in DOMAIN ackMap[e] PROVE n \in DOMAIN map /\ map[n] = ackMap[e][n]
    OBVIOUS
  <2>1. n \in 0 .. (first - 1)
    BY <1>2
  <2>2. n \notin first .. first + Len(out) - 1
    <3> HIDE DEF out, first
    <3> QED
      BY <1>1, <1>2, <2>1
  <2> QED
    BY <2>2
<1>10. \A i \in DOMAIN out : out[i].chan \in Reliable =>
           first + i - 1 \in DOMAIN map /\ map[first + i - 1] = out[i]
  <2> SUFFICES ASSUME NEW i \in DOMAIN out, out[i].chan \in Reliable
               PROVE  first + i - 1 \in DOMAIN map /\ map[first + i - 1] = out[i]
    OBVIOUS
  <2> DEFINE k == first + i - 1
  <2>1. k \in first .. first + Len(out) - 1 /\ k - first + 1 = i
    <3> HIDE DEF out, first
    <3> QED
      BY <1>1, <1>2
  <2> HIDE DEF k
  <2>2. out[k - first + 1].chan \in Reliable
    BY <2>1, Zenon
  <2>3. k \in reliable
    BY <2>1, <2>2
  <2>4. k \in DOMAIN map /\ map[k] = out[k - first + 1]
    BY <2>3
  <2>5. k \in DOMAIN map /\ map[k] = out[i]
    <3> HIDE DEF out, map
    <3> QED
      BY <2>1, <2>4
  <2> QED
    BY <2>5 DEF k
<1>11. \A i \in DOMAIN out : \E q \in net' : /\ q.to = Other(e) /\ q.num = first + i - 1
                                             /\ q.acks = AckInfo(e)
  <2> SUFFICES ASSUME NEW i \in DOMAIN out
               PROVE  \E q \in net' : /\ q.to = Other(e) /\ q.num = first + i - 1
                                      /\ q.acks = AckInfo(e)
    OBVIOUS
  <2>1. fresh(i) \in net'
    BY <1>4
  <2>2. fresh(i).to = Other(e) /\ fresh(i).num = first + i - 1 /\ fresh(i).acks = AckInfo(e)
    OBVIOUS
  <2> HIDE DEF fresh
  <2> QED
    BY <2>1, <2>2
<1>12. ASSUME calm, NEW c \in Channels, NEW m \in Ours(e, c)
       PROVE  CountOf(out, m) = CountOf(Queue(e, c), m)
  <2> DEFINE q == Queue(e, c)
  <2>1. q \in Seq(Ours(e, c))
    BY QueueIs DEF ConnInv
  <2>2. room[c] = Len(q)
    BY <1>12 DEF Rooms, Queues
  <2>3. CountOf(out, m) = CountOf(SubSeq(q, 1, room[c]), m)
    BY <1>1
  <2> HIDE DEF q
  <2>4. SubSeq(q, 1, Len(q)) = q
    BY <2>1
  <2> HIDE DEF out
  <2> QED
    BY <2>2, <2>3, <2>4 DEF q
<1>13. net \subseteq net'
  BY <1>4
<1> HIDE DEF map, reliable
<1>14. /\ \A n \in 0 .. next[e] - 1 : carried'[e][n + 1] = carried[e][n + 1]
       /\ \A i \in DOMAIN Out(e, room) : carried'[e][next[e] + i] = Out(e, room)[i]
  BY <1>6, <1>7, <1>8, Zenon
<1>15. /\ \A n \in DOMAIN ackMap[e] : n \in DOMAIN ackMap'[e] /\ ackMap'[e][n] = ackMap[e][n]
       /\ \A i \in DOMAIN Out(e, room) : Out(e, room)[i].chan \in Reliable =>
              next[e] + i - 1 \in DOMAIN ackMap'[e]
              /\ ackMap'[e][next[e] + i - 1] = Out(e, room)[i]
  BY <1>6, <1>9, <1>10, Zenon
<1>16. next[e] \in Nat /\ next'[e] = next[e] + Len(Out(e, room))
  BY <1>2, <1>6
<1>17. calm => \A c \in Channels : \A m \in Ours(e, c) :
           CountOf(Out(e, room), m) = CountOf(Queue(e, c), m)
  BY <1>12
<1>18. Out(e, room) \in Seq(Posted(e) \cup {Bare})
  BY <1>1
<1> QED
  BY <1>5, <1>11, <1>13, <1>14, <1>15, <1>16, <1>17, <1>18

\* A frame adds a packet without data, alone, or none.
LEMMA FrameBares ==
    ASSUME ConnInv, NEW e \in Ends, NEW room \in Rooms(Queues(e)), FrameWith(e, room)
    PROVE  \/ Out(e, room) = <<Bare>>
           \/ Out(e, room) \in Seq(Posted(e)) /\ (pendingAck[e] => Out(e, room) # <<>>)
<1>1. CASE Bares(e, room)
  BY <1>1 DEF Out
<1>2. CASE ~Bares(e, room)
  <2>1. Out(e, room) = Sent(e, room)
    BY <1>2 DEF Out
  <2>2. pendingAck[e] => Sent(e, room) # <<>>
    BY <1>2 DEF Bares, AckOnly
  <2>3. Sent(e, room) \in Seq(Posted(e))
    BY FrameSends DEF ConnInv
  <2> QED
    BY <2>1, <2>2, <2>3
<1> QED
  BY <1>1, <1>2

LEMMA OneBare ==
    ASSUME ConnInv, NEW e \in Ends, NEW room \in Rooms(Queues(e)), FrameWith(e, room),
           NEW n \in 0 .. next[e] - 1, BaresSince(e, n) = {}
    PROVE  \A j, k \in BaresSince(e, n)' : j = k
<1> DEFINE out == Out(e, room)
<1>1. /\ out \in Seq(Posted(e) \cup {Bare}) /\ next[e] \in Nat /\ next'[e] = next[e] + Len(out)
      /\ \A i \in 0 .. next[e] - 1 : carried'[e][i + 1] = carried[e][i + 1]
      /\ \A i \in DOMAIN out : carried'[e][next[e] + i] = out[i]
  BY FrameLists
<1>2. out = <<Bare>> \/ out \in Seq(Posted(e))
  BY FrameBares
<1>3. Bare \notin Posted(e)
  <2>1. \A m \in Posted(e) : m.chan \in Nat
    BY ConnectionAssumption DEF Posted, Messages
  <2>2. Bare.chan = -1
    BY DEF Bare
  <2> QED
    BY <2>1, <2>2
<1> HIDE DEF out
<1>4. ASSUME NEW k \in BaresSince(e, n)'
      PROVE  out = <<Bare>> /\ k = next[e]
  <2>1. k \in n + 1 .. next'[e] - 1 /\ carried'[e][k + 1] = Bare
    BY DEF BaresSince
  <2>2. ~(k < next[e])
    <3> SUFFICES ASSUME k < next[e] PROVE FALSE
      OBVIOUS
    <3>1. k \in n + 1 .. next[e] - 1 /\ k \in 0 .. next[e] - 1
      BY <1>1, <2>1
    <3>2. carried[e][k + 1] = Bare
      BY <1>1, <2>1, <3>1
    <3> QED
      BY <3>1, <3>2 DEF BaresSince
  <2>3. PICK i \in DOMAIN out : k + 1 = next[e] + i
    <3>1. k + 1 - next[e] \in 1 .. Len(out)
      BY <1>1, <2>1, <2>2
    <3>2. k + 1 = next[e] + (k + 1 - next[e])
      BY <1>1, <2>1
    <3> QED
      BY <1>1, <3>1, <3>2
  <2>4. out[i] = Bare
    BY <1>1, <2>1, <2>3
  <2>5. out = <<Bare>>
    <3>1. out \in Seq(Posted(e)) => out[i] \in Posted(e)
      OBVIOUS
    <3> QED
      BY <1>2, <1>3, <2>4, <3>1
  <2>6. i = 1
    BY <2>5
  <2> QED
    BY <1>1, <2>1, <2>3, <2>5, <2>6
<1> QED
  BY <1>4

LEMMA FramePrompt ==
    ASSUME ConnInv, SentOnce, AllPrompt, TimeAndRoom, calm, NEW g \in Ends, Frame(g)
    PROVE  AllPrompt'
<1>1. PICK room \in Rooms(Queues(g)) : FrameWith(g, room)
  BY FrameIs
<1>2. /\ g \notin ran /\ ran' = ran \cup {g} /\ UNCHANGED <<calm, posted, accepted>>
      /\ sendBuffer' = [sendBuffer EXCEPT ![g] = SendBufferNow(g)] /\ DOMAIN sendBuffer = Ends
      /\ pendingAck' = [pendingAck EXCEPT ![g] = FALSE] /\ DOMAIN pendingAck = Ends
  BY FrameIs DEF ConnInv, Buffers, Clocks
<1> DEFINE out == Out(g, room)
<1>3. /\ out \in Seq(Posted(g) \cup {Bare})
      /\ \A f \in Ends \ {g} : /\ next'[f] = next[f] /\ carried'[f] = carried[f]
                               /\ ackMap'[f] = ackMap[f] /\ outgoing'[f] = outgoing[f]
      /\ next[g] \in Nat /\ next'[g] = next[g] + Len(out)
      /\ \A n \in DOMAIN ackMap[g] : n \in DOMAIN ackMap'[g] /\ ackMap'[g][n] = ackMap[g][n]
      /\ net \subseteq net'
  BY <1>1, FrameLists
<1>4. /\ \A i \in DOMAIN out : out[i].chan \in Reliable =>
             next[g] + i - 1 \in DOMAIN ackMap'[g] /\ ackMap'[g][next[g] + i - 1] = out[i]
      /\ \A i \in DOMAIN out : carried'[g][next[g] + i] = out[i]
      /\ \A i \in DOMAIN out : \E q \in net' : /\ q.to = Other(g) /\ q.num = next[g] + i - 1
                                               /\ q.acks = AckInfo(g)
      /\ \A c \in Channels : \A k \in Ours(g, c) : CountOf(out, k) = CountOf(Queue(g, c), k)
  BY <1>1, FrameLists
<1>5. out = <<Bare>> \/ (out \in Seq(Posted(g)) /\ (pendingAck[g] => out # <<>>))
  BY <1>1, FrameBares
<1> HIDE DEF out
<1> SUFFICES ASSUME NEW e \in Ends, NEW m \in DOMAIN sendBuffer'[e]
             PROVE  Prompt(e, m)'
  BY DEF AllPrompt
<1>6. m \in DOMAIN sendBuffer[e] /\ sendBuffer'[e][m] = sendBuffer[e][m]
  <2>1. DOMAIN SendBufferNow(g) = DOMAIN sendBuffer[g]
        /\ \A k \in DOMAIN sendBuffer[g] : SendBufferNow(g)[k] = sendBuffer[g][k]
    BY NothingOverdue
  <2> QED
    BY <1>2, <2>1
<1>7. Prompt(e, m)
  BY <1>6 DEF AllPrompt
<1> DEFINE age == sendBuffer[e][m].age
<1>8. m \in Posted(e) /\ m.chan \in Reliable /\ m.chan \in Channels /\ m \in Ours(e, m.chan)
  BY <1>6, PostedIs DEF ConnInv, Buffers, Posted, Messages, Ours
<1>9. ASSUME NEW n \in DOMAIN ackMap'[e], ackMap'[e][n] = m, Travels(e, n, age)'
      PROVE  Prompt(e, m)'
  BY <1>6, <1>7, <1>9 DEF Prompt
<1>10. CASE e = g /\ Waiting(e, m)
  <2>1. age <= 1 /\ age <= 2
    <3>1. sendBuffer[e][m] \in SendEntries /\ Rto \in Nat
      BY <1>6, ConnectionAssumption DEF ConnInv, Buffers
    <3>2. age \in Nat /\ age <= 1
      BY <1>10, <3>1 DEF Waiting, SendEntries
    <3> QED
      BY <3>2
  <2>2. PICK i \in DOMAIN out : out[i] = m
    <3>1. outgoing[e][m.chan] \in Seq(Ours(e, m.chan))
          /\ \E j \in DOMAIN outgoing[e][m.chan] : outgoing[e][m.chan][j] = m
      BY <1>8, <1>10 DEF Waiting, ConnInv, Buffers
    <3>2. CountOf(outgoing[e][m.chan], m) >= 1
      BY <3>1, HasCount
    <3>3. CountOf(Queue(e, m.chan), m) =
              CountOf(outgoing[e][m.chan], m) + (IF m \in Retransmitted(e) THEN 1 ELSE 0)
      BY <1>8, QueueIs DEF ConnInv
    <3>4. Retransmitted(e) = {} /\ CountOf(outgoing[e][m.chan], m) \in Nat
      BY <1>8, NothingOverdue, CountsAre
    <3>5. CountOf(out, m) # 0
      BY <1>4, <1>8, <1>10, <3>2, <3>3, <3>4
    <3> QED
      BY <1>3, <3>5, CountHas
  <2>0. PICK n : n = next[g] + i - 1
    OBVIOUS
  <2>3. i \in 1 .. Len(out) /\ Len(out) \in Nat
    BY <1>3, <2>2
  <2>4. n \in DOMAIN ackMap'[e] /\ ackMap'[e][n] = m
    BY <1>4, <1>8, <1>10, <2>0, <2>2
  <2>5. \E p \in net' : p.to = Other(e) /\ p.num = n
    BY <1>4, <1>10, <2>0, <2>2
  <2>6. out \in Seq(Posted(g))
    <3>1. m.chan \in Nat /\ Bare.chan = -1
      BY <1>8, ConnectionAssumption DEF Bare
    <3>2. m # Bare
      BY <3>1
    <3>3. out # <<Bare>>
      BY <2>2, <2>3, <3>2
    <3> QED
      BY <1>5, <3>3
  <2>7. BaresSince(e, n)' = {}
    <3> SUFFICES ASSUME NEW k \in n + 1 .. next'[g] - 1, carried'[g][k + 1] = Bare PROVE FALSE
      BY <1>10 DEF BaresSince
    <3>1. PICK j \in DOMAIN out : k + 1 = next[g] + j
      <4>1. n \in Nat /\ n >= next[g] /\ next[g] \in Nat /\ next'[g] = next[g] + Len(out)
            /\ Len(out) \in Nat
        BY <1>3, <2>0, <2>3, SMTT(30)
      <4>2. k \in Int /\ n + 1 <= k /\ k <= next'[g] - 1
        BY <4>1
      <4>3. k + 1 - next[g] \in 1 .. Len(out) /\ k + 1 = next[g] + (k + 1 - next[g])
        BY <4>1, <4>2
      <4> QED
        BY <1>3, <4>3
    <3>2. out[j] = Bare /\ out[j] \in Posted(g)
      BY <1>4, <2>6, <3>1
    <3>3. Bare.chan \in Nat
      BY <3>2, ConnectionAssumption DEF Posted, Messages
    <3> QED
      BY <3>3 DEF Bare
  <2>8. e \in ran'
    BY <1>2, <1>10
  <2>9. Travels(e, n, age)'
    BY <1>6, <2>1, <2>5, <2>7, <2>8 DEF Travels, OnItsWay
  <2> QED
    BY <1>9, <2>4, <2>9
<1>11. CASE e # g /\ Waiting(e, m)
  <2>1. outgoing'[e] = outgoing[e] /\ (e \in ran' => e \in ran)
    BY <1>2, <1>3, <1>11
  <2>2. Waiting(e, m)'
    BY <1>6, <1>11, <2>1 DEF Waiting
  <2> QED
    BY <1>6, <1>7, <2>2 DEF Prompt
<1>12. CASE \E n \in DOMAIN ackMap[e] : ackMap[e][n] = m /\ Travels(e, n, age)
  <2>1. PICK n \in DOMAIN ackMap[e] : ackMap[e][n] = m /\ Travels(e, n, age)
    BY <1>12
  <2>2. n \in DOMAIN ackMap'[e] /\ ackMap'[e][n] = m
    BY <1>3, <2>1
  <2>3. Other(e) \in Ends /\ Other(e) # e /\ Other(Other(e)) = e /\ (g = e \/ g = Other(e))
    BY Others
  <2>4. CASE g = e
    <3>1. e \notin ran /\ e \in ran' /\ (Other(e) \in ran <=> Other(e) \in ran')
      BY <1>2, <2>3, <2>4
    <3>2. \A j, k \in BaresSince(e, n)' : j = k
      <4>1. BaresSince(e, n) = {} /\ n \in 0 .. next[e] - 1
        BY <2>1, <3>1 DEF Travels, ConnInv, Mapped
      <4> QED
        BY <1>1, <2>4, <4>1, OneBare
    <3>3. pendingAck'[Other(e)] = pendingAck[Other(e)]
      BY <1>2, <2>3, <2>4
    <3>4. CASE Owed(e, n, age)
      <4>1. Other(e) \notin ran'
        BY <3>1, <3>4 DEF Owed
      <4>2. Travels(e, n, age)'
        BY <1>2, <1>6, <2>1, <3>1, <3>2, <3>3, <3>4, <4>1 DEF Travels, Owed
      <4> QED
        BY <1>9, <2>2, <4>2
    <3>5. CASE Returning(e, n)
      <4>1. Travels(e, n, age)'
        BY <1>3, <1>6, <2>1, <3>1, <3>2, <3>5 DEF Travels, Returning
      <4> QED
        BY <1>9, <2>2, <4>1
    <3> QED
      BY <2>1, <3>1, <3>4, <3>5 DEF Travels, OnItsWay
  <2>5. CASE g = Other(e)
    <3>1. /\ next'[e] = next[e] /\ carried'[e] = carried[e]
          /\ (e \in ran <=> e \in ran') /\ Other(e) \notin ran /\ Other(e) \in ran'
      BY <1>2, <1>3, <2>3, <2>5
    <3>2. BaresSince(e, n)' = BaresSince(e, n)
      BY <3>1 DEF BaresSince
    <3>3. CASE OnItsWay(e, n, age)
      <4>1. OnItsWay(e, n, age)'
        BY <1>3, <1>6, <3>1, <3>2, <3>3 DEF OnItsWay
      <4>2. Travels(e, n, age)'
        BY <1>6, <2>1, <3>1, <3>2, <4>1 DEF Travels
      <4> QED
        BY <1>9, <2>2, <4>2
    <3>4. CASE Owed(e, n, age)
      <4>1. n \in accepted[g] /\ pendingAck[g]
        BY <2>5, <3>4 DEF Owed
      <4>2. /\ n \in Nat /\ n < next[e] /\ next[e] \in Nat /\ next[e] - 1 - n <= WireBits
            /\ WireBits \in Nat /\ accepted[g] \subseteq 0 .. next[e] - 1
        BY <2>1, <2>5, InReach
      <4>3. accepted[g] \in SUBSET Nat /\ next[e] - 1 \in Nat /\ \A x \in accepted[g] : x <= next[e] - 1
        BY <4>2
      <4>4. Top(accepted[g]) \in accepted[g] \cup {0}
        BY <4>3, TopIs
      <4>5. Top(accepted[g]) \in Nat /\ Top(accepted[g]) <= next[e] - 1
        BY <4>2, <4>3, <4>4
      <4>6. n \in AckInfo(g)
        BY <4>1, <4>2, <4>5 DEF AckInfo
      <4>7. 1 \in DOMAIN out
        <5>1. out = <<Bare>> \/ (out \in Seq(Posted(g)) /\ out # <<>>)
          BY <1>5, <4>1
        <5> QED
          BY <1>3, <5>1
      <4>8. \E p \in net' : p.to = e /\ n \in p.acks
        BY <1>4, <2>3, <2>5, <4>6, <4>7
      <4>9. Travels(e, n, age)'
        BY <1>6, <2>1, <3>1, <3>2, <4>8 DEF Travels, Returning
      <4> QED
        BY <1>9, <2>2, <4>9
    <3> QED
      BY <2>1, <3>1, <3>3, <3>4 DEF Travels, Returning
  <2> QED
    BY <2>3, <2>4, <2>5
<1> QED
  BY <1>7, <1>10, <1>11, <1>12 DEF Prompt

-----------------------------------------------------------------------------
LEMMA InitPrompt == Init => SentOnce /\ AllPrompt
<1> SUFFICES ASSUME Init PROVE SentOnce /\ AllPrompt
  OBVIOUS
<1>1. \A e \in Ends : DOMAIN sendBuffer[e] = {}
  BY DEF Init, NoMessage
<1>2. \A e \in Ends, c \in Channels : posted[e][c] = 0 /\ 0 <= MaxCalmMessages
  BY ConnectionAssumption DEF Init
<1>3. \A e \in Ends, c \in Channels : Ours(e, c) = {}
  BY <1>2 DEF Ours, Posted, Messages
<1> QED
  BY <1>1, <1>2, <1>3 DEF SentOnce, AllPrompt

LEMMA StepPrompt ==
    TimeAndRoom /\ ConnInv /\ CalmInv /\ SentOnce /\ AllPrompt /\ [Next]_vars
        => (SentOnce /\ AllPrompt)'
<1> SUFFICES ASSUME TimeAndRoom, ConnInv, CalmInv, SentOnce, AllPrompt, [Next]_vars, calm'
             PROVE  SentOnce' /\ AllPrompt'
  BY SMTT(30) DEF SentOnce, AllPrompt
<1>1. calm
  BY ZenonT(30) DEF Next, SendMessage, Receive, Expire, Frame, Elapse, vars
<1>2. ASSUME NEW e \in Senders, NEW c \in Channels, SendMessage(e, c)
      PROVE  SentOnce' /\ AllPrompt'
  BY <1>1, <1>2, SendOnce, SendPrompt
<1>3. ASSUME NEW p \in net, Receive(p) PROVE SentOnce' /\ AllPrompt'
  <2>1. UNCHANGED <<calm, posted, carried, outgoing>>
    BY <1>3 DEF Receive
  <2> QED
    BY <1>1, <1>3, <2>1, OnceSame, ReceivePrompt
<1>4. ASSUME NEW e \in Ends, Expire(e) PROVE FALSE
  <2>1. /\ sinceRecv[e] >= ConnectionTimeout /\ sinceRecv[e] <= KeepaliveInterval
        /\ sinceRecv[e] \in 0 .. ConnectionTimeout
    BY <1>1, <1>4 DEF Expire, CalmInv, ConnInv, Clocks
  <2> QED
    BY <2>1, ConnectionAssumption
<1>5. ASSUME NEW e \in Ends, Frame(e) PROVE SentOnce' /\ AllPrompt'
  BY <1>1, <1>5, FrameOnce, FramePrompt
<1>6. CASE Elapse
  <2>1. UNCHANGED <<calm, posted, carried, outgoing>>
    BY <1>6 DEF Elapse, history
  <2> QED
    BY <1>1, <1>6, <2>1, OnceSame, ElapsePrompt
<1>7. CASE UNCHANGED vars
  <2>1. UNCHANGED <<calm, ran, posted, sendBuffer, outgoing, next, accepted, ackMap, pendingAck,
                    net, carried>>
    BY <1>7 DEF vars, timers, sendVars, history
  <2>2. SentOnce'
    BY <2>1, OnceSame
  <2>3. AllPrompt'
    BY <2>1 DEF AllPrompt, Prompt, Waiting, Travels, OnItsWay, Owed, Returning, BaresSince
  <2> QED
    BY <2>2, <2>3
<1> QED
  BY <1>2, <1>3, <1>4, <1>5, <1>6, <1>7 DEF Next

\* In calm weather nothing is ever sent twice and nothing is given up: where the timeout
\* leaves time for a message and its acknowledgement, and the ack bits cover all that
\* can be under way, every entry of the send buffer is acknowledged before it is overdue
\* (updateTick, processRetransmissions, processIncomingHeader, pruneAckMap).
THEOREM CalmNeverRepeats == TimeAndRoom => (Spec => []NoNeedlessRetransmission)
<1>1. SentOnce /\ AllPrompt => NoNeedlessRetransmission
  BY DEF AllPrompt, Prompt, NoNeedlessRetransmission
<1>2. Init => CalmInv
  BY InitCalm
<1> SUFFICES ASSUME TimeAndRoom PROVE Spec => []NoNeedlessRetransmission
  OBVIOUS
<1>3. ConnInv /\ CalmInv /\ SentOnce /\ AllPrompt /\ [Next]_vars
         => CalmInv' /\ (SentOnce /\ AllPrompt)'
  BY StepCalm, StepPrompt
<1> QED
  BY <1>1, <1>2, <1>3, InitPrompt, AlwaysConn, PTL DEF Spec
=============================================================================

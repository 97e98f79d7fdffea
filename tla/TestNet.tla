------------------------------- MODULE TestNet ------------------------------
(***************************************************************************)
(* The pure network the tests run peers on (NovaNet/TestNet.hs): a world   *)
(* of peers with an inbox each, in which a packet stays with its sender    *)
(* until the world's time has passed its delay.  The deterministic random  *)
(* numbers are choices.                                                    *)
(***************************************************************************)
EXTENDS Order, Sequences, SequencesExt

CONSTANTS
    WorldPeers,         \* number of peers; a peer is its place in the map's order
    Latency,            \* tncLatencyNs
    ExtraDelays,        \* what jitter and reordering may add to it
    MayLose, MayDuplicate,      \* whether tncLossRate and tncDuplicateChance are above 0
    MaxWorldPackets     \* bound: packets sent

ASSUME TestNetAssumption ==
    /\ WorldPeers \in Nat \ {0} /\ Latency \in Nat /\ ExtraDelays \subseteq Nat /\ 0 \in ExtraDelays
    /\ MayLose \in BOOLEAN /\ MayDuplicate \in BOOLEAN /\ MaxWorldPackets \in Nat

VARIABLES
    inFlight,           \* tnsInFlight: peer -> packets, with the time left
    inbox,              \* tnsInbox: peer -> packets
    closed,             \* the peers with tnsClosed
    routes,             \* history: the packets sent: from, to, and their ages
    copies,             \* history: packet -> copies put in flight
    taken               \* history: packet -> copies received

worldVars == <<inFlight, inbox, closed, routes, copies, taken>>

Members == 1 .. WorldPeers

\* newTestWorld with its peers added
WorldInit ==
    /\ inFlight = [p \in Members |-> <<>>] /\ inbox = [p \in Members |-> <<>>]
    /\ closed = {} /\ routes = <<>> /\ copies = <<>> /\ taken = <<>>

\* netSend, of a socket that is not closed: no copy, one or two.
Schedules ==
    (IF MayLose THEN {<<>>} ELSE {})
    \cup {<<Latency + d>> : d \in ExtraDelays}
    \cup (IF MayDuplicate
          THEN {<<Latency + d, Latency + d + e>> : d \in ExtraDelays, e \in ExtraDelays}
          ELSE {})
NetSend(p, q, delays) ==
    LET n == Len(routes) + 1
    IN  /\ p \notin closed /\ n <= MaxWorldPackets
        /\ inFlight' = [inFlight EXCEPT ![p] = @ \o
               [i \in DOMAIN delays |-> [packet |-> n, from |-> p, to |-> q, left |-> delays[i]]]]
        /\ routes' = Append(routes, [from |-> p, to |-> q, age |-> 0])
        /\ copies' = Append(copies, Len(delays)) /\ taken' = Append(taken, 0)
        /\ UNCHANGED <<inbox, closed>>

\* netRecv and netClose
NetRecv(p) ==
    /\ inbox[p] # <<>>
    /\ inbox' = [inbox EXCEPT ![p] = Tail(@)]
    /\ taken' = [taken EXCEPT ![Head(inbox[p]).packet] = @ + 1]
    /\ UNCHANGED <<inFlight, closed, routes, copies>>
NetClose(p) ==
    /\ closed' = closed \cup {p}
    /\ UNCHANGED <<inFlight, inbox, routes, copies, taken>>

\* worldAdvanceTime with deliverPackets.  Both folds go from the right, so what is
\* kept and what is delivered ends up in the opposite order.
Elapsed(pkts, d) ==
    [i \in DOMAIN pkts |-> [pkts[i] EXCEPT !.left = IF @ < d THEN 0 ELSE @ - d]]
Ready(pkts)          == {i \in DOMAIN pkts : pkts[i].left = 0}
NotReady(pkts)       == DOMAIN pkts \ Ready(pkts)
AddressedTo(pkts, q) == Picked(pkts, {i \in DOMAIN pkts : pkts[i].to = q})
Arrivals(pkts)       == [i \in DOMAIN pkts |-> [packet |-> pkts[i].packet, from |-> pkts[i].from]]
WorldAdvanceTime(d) ==
    LET now == [p \in Members |-> Elapsed(inFlight[p], d)]
        all == FlattenSeq(now)
        ready == Picked(all, Ready(all))
    IN  /\ inFlight' = [p \in Members |-> Reverse(Picked(now[p], NotReady(now[p])))]
        /\ inbox' = [q \in Members |-> inbox[q] \o Arrivals(Reverse(AddressedTo(ready, q)))]
        /\ routes' = [n \in DOMAIN routes |->
               [routes[n] EXCEPT !.age = IF @ + d < Latency THEN @ + d ELSE Latency]]
        /\ UNCHANGED <<closed, copies, taken>>

WorldNext ==
    \/ \E p, q \in Members, delays \in Schedules : NetSend(p, q, delays)
    \/ \E p \in Members : NetRecv(p) \/ NetClose(p)
    \/ \E d \in 0 .. 1 : WorldAdvanceTime(d)
WorldSpec == WorldInit /\ [][WorldNext]_worldVars
-----------------------------------------------------------------------------
WorldTypeOK ==
    /\ closed \subseteq Members /\ Len(routes) <= MaxWorldPackets
    /\ Len(copies) = Len(routes) /\ Len(taken) = Len(routes)

\* Every copy put in flight is in flight, in an inbox or received, and none is there
\* that was not put in flight; it is in the inbox of the peer it was sent to, under
\* the name of the one that sent it, and not before the latency has passed.
Occurrences(pkts, n) == Cardinality({i \in DOMAIN pkts : pkts[i].packet = n})
DeliveredAsSent ==
    /\ \A n \in DOMAIN routes :
        copies[n] = taken[n] + Occurrences(FlattenSeq([p \in Members |-> inFlight[p]]), n)
                             + Occurrences(FlattenSeq([p \in Members |-> inbox[p]]), n)
    /\ \A q \in Members : \A i \in DOMAIN inbox[q] :
        LET route == routes[inbox[q][i].packet]
        IN  route.to = q /\ route.from = inbox[q][i].from /\ route.age >= Latency
=============================================================================

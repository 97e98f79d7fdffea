----------------------------- MODULE Handshake -----------------------------
(***************************************************************************)
(* The life of connections between peers (NovaNet/Peer.hs,                 *)
(* NovaNet/Peer/Handshake.hs, and the connection states of                 *)
(* NovaNet/Connection.hs): the four-way handshake, its retries and its     *)
(* clean-up, keep-alive, time-out and disconnection, over a network that   *)
(* loses, delays, reorders and (if Duplicates) repeats packets.            *)
(*                                                                         *)
(* A call of peerProcess hands packets to dispatchPacket one by one and    *)
(* then runs its maintenance; here each packet is an action and so is the  *)
(* maintenance (Update), all at the peer's present time, which Tick        *)
(* advances.  A request dropped by the rate limiter is a lost packet, and  *)
(* migration is disabled, as it is by default.  Ages saturate at the       *)
(* time-out that reads them.                                               *)
(***************************************************************************)
EXTENDS Integers, FiniteSets

CONSTANTS
    Peers,
    Callers,            \* the peers whose application calls peerConnect
    Foreign,            \* the peers that may have another ncProtocolId
    MaxClients,         \* ncMaxClients
    MaxPending,         \* ncMaxPending
    RequestTimeout,     \* ncConnectionRequestTimeoutMs
    RequestRetries,     \* ncConnectionRequestMaxRetries
    ConnectionTimeout,  \* ncConnectionTimeoutMs; a peer sends more often
    DisconnectTimeout,  \* ncDisconnectRetryTimeoutMs
    DisconnectRetries,  \* ncDisconnectRetries
    Duplicates,         \* whether the network repeats handshake packets
    MaxCalls,           \* bound: calls of the applications, and restarts
    MaxSalt,            \* bound: salts drawn
    None                \* no entry

ASSUME HandshakeAssumption ==
    /\ IsFiniteSet(Peers) /\ Callers \subseteq Peers /\ Foreign \subseteq Peers
    /\ MaxClients \in Nat \ {0} /\ MaxPending \in Nat \ {0}
    /\ RequestTimeout \in Nat \ {0} /\ RequestRetries \in Nat
    /\ ConnectionTimeout \in Nat \ {0}
    /\ DisconnectTimeout \in Nat \ {0} /\ DisconnectRetries \in Nat
    /\ Duplicates \in BOOLEAN /\ MaxCalls \in Nat /\ MaxSalt \in Nat

VARIABLES
    conns,      \* npConnections: peer -> peer -> Connection or None
    pending,    \* npPending: peer -> peer -> PendingConnection or None
    foreign,    \* the peers with another ncProtocolId than the rest
    secret,     \* npCookieSecret: drawn when the peer is started
    net,        \* packets on their way
    view,       \* history: the last PeerConnected or PeerDisconnected event
    salts,      \* salts drawn so far (they never repeat); 0 is "none yet"
    calls       \* calls made so far

vars == <<conns, pending, foreign, secret, net, view, salts, calls>>

PendingTimeout == RequestTimeout * (RequestRetries + 1)

PendingConnections ==
    [dir : {"Inbound", "Outbound"}, serverSalt : Nat, clientSalt : Nat,
     age : Nat, sinceRetry : Nat, retries : Nat]
Connections ==
    [state : {"Connected", "Disconnecting"}, salt : Nat,
     age : Nat, retries : Nat]

ASSUME NoneAssumption == None \notin PendingConnections /\ None \notin Connections

Connected(p) == {q \in Peers : conns[p][q] # None}
Waiting(p)   == {q \in Peers : pending[p][q] # None}
Calling(p)   == {q \in Waiting(p) : pending[p][q].dir = "Outbound"}

NoEntries == [q \in Peers |-> None]

Init ==
    /\ conns = [p \in Peers |-> NoEntries]
    /\ pending = [p \in Peers |-> NoEntries]
    /\ foreign \in SUBSET Foreign
    /\ secret = [p \in Peers |-> 0]
    /\ net = {}
    /\ view = [p \in Peers |-> [q \in Peers |-> "down"]]
    /\ salts = 0 /\ calls = 0

-----------------------------------------------------------------------------
(* Packets.  computeCookie binds a challenge to its salt and its addressee. *)

Protocol(p) == IF p \in foreign THEN 1 ELSE 0

Cookie(p, s, q) == [secret |-> secret[p], salt |-> s, for |-> q]

Request(p, q)         == [type |-> "Request", from |-> p, to |-> q, protocol |-> Protocol(p)]
Challenge(p, q, s)    == [type |-> "Challenge", from |-> p, to |-> q,
                          serverSalt |-> s, cookie |-> Cookie(p, s, q)]
Response(p, q, c, ch) == [type |-> "Response", from |-> p, to |-> q, clientSalt |-> c,
                          serverSalt |-> ch.serverSalt, cookie |-> ch.cookie]
Plain(t, p, q)        == [type |-> t, from |-> p, to |-> q]

Once == {"Keepalive"}      \* connection-level deduplication sees to these

\* Take m from the network and put the replies on it.
Exchange(m, replies) ==
    net' = replies \cup (IF Duplicates /\ m.type \notin Once THEN net ELSE net \ {m})

-----------------------------------------------------------------------------
(* The application. *)

Call == calls < MaxCalls /\ calls' = calls + 1

\* peerConnect: nothing to do for a peer already known.
Connect(p, q) ==
    /\ Call /\ salts < MaxSalt
    /\ conns[p][q] = None /\ pending[p][q] = None
    /\ salts' = salts + 1
    /\ pending' = [pending EXCEPT ![p][q] =
                      [dir |-> "Outbound", serverSalt |-> 0, clientSalt |-> salts',
                       age |-> 0, sinceRetry |-> 0, retries |-> 0]]
    /\ net' = net \cup {Request(p, q)}
    /\ UNCHANGED <<conns, foreign, secret, view>>

\* peerDisconnect: an established connection is taken down in steps, a pending
\* one forgotten at once.
Disconnect(p, q) ==
    /\ Call
    /\ \/ /\ conns[p][q] # None
          /\ conns' = [conns EXCEPT ![p][q] =
                          [@ EXCEPT !.state = "Disconnecting", !.age = 0, !.retries = 0]]
          /\ UNCHANGED pending
       \/ /\ conns[p][q] = None /\ pending[p][q] # None
          /\ pending' = [pending EXCEPT ![p][q] = None]
          /\ UNCHANGED conns
    /\ UNCHANGED <<foreign, secret, net, view, salts>>

\* The process ends and is started again: newPeerState.
Restart(p) ==
    /\ Call
    /\ conns' = [conns EXCEPT ![p] = NoEntries]
    /\ pending' = [pending EXCEPT ![p] = NoEntries]
    /\ secret' = [secret EXCEPT ![p] = @ + 1]
    /\ view' = [view EXCEPT ![p] = [q \in Peers |-> "down"]]
    /\ UNCHANGED <<foreign, net, salts>>

-----------------------------------------------------------------------------
(* dispatchPacket. *)

FullNoClients(p) == Cardinality(Waiting(p)) >= MaxPending
Full(p)          == \/ Cardinality(Waiting(p)) >= MaxPending
                    \/ Cardinality(Connected(p)) >= MaxClients

\* acceptAsServer: challenge q, replacing whatever was pending with it.
AcceptAsServer(p, q, m) ==
    /\ salts < MaxSalt
    /\ salts' = salts + 1
    /\ pending' = [pending EXCEPT ![p][q] =
                      [dir |-> "Inbound", serverSalt |-> salts', clientSalt |-> 0,
                       age |-> 0, sinceRetry |-> 0, retries |-> 0]]
    /\ Exchange(m, {Challenge(p, q, salts')})

CompatibleIfCalling(p, m) == m.from \in Calling(p) \/ m.protocol = Protocol(p)
Compatible(p, m)          == m.protocol = Protocol(p)

KnownNever(p, q) == FALSE
Known(p, q)      == conns[p][q] # None

\* handleConnectionRequest
ReceiveRequest(p, m) ==
    LET q == m.from
    IN  /\ m.type = "Request"
        /\ \/ /\ Known(p, q)
              /\ Exchange(m, {Plain("Accepted", p, q)})
              /\ UNCHANGED <<pending, salts>>
           \/ /\ ~Known(p, q) /\ ~Compatible(p, m)
              /\ Exchange(m, {Plain("Denied", p, q)})
              /\ UNCHANGED <<pending, salts>>
           \/ /\ ~Known(p, q) /\ Compatible(p, m) /\ q \notin Calling(p) /\ Full(p)
              /\ Exchange(m, {Plain("Denied", p, q)})
              /\ UNCHANGED <<pending, salts>>
           \/ /\ ~Known(p, q) /\ Compatible(p, m) /\ (q \in Calling(p) \/ ~Full(p))
              /\ AcceptAsServer(p, q, m)
        /\ UNCHANGED <<conns, foreign, secret, view, calls>>

\* handleConnectionChallenge
ReceiveChallenge(p, m) ==
    LET q == m.from
    IN  /\ m.type = "Challenge"
        /\ \/ /\ q \in Calling(p)
              /\ pending' = [pending EXCEPT ![p][q].serverSalt = m.serverSalt]
              /\ Exchange(m, {Response(p, q, pending[p][q].clientSalt, m)})
           \/ /\ q \notin Calling(p)
              /\ Exchange(m, {})
              /\ UNCHANGED pending
        /\ UNCHANGED <<conns, foreign, secret, view, salts, calls>>

EstablishKeepingPending(p, q, salt, dir) ==
    /\ conns' = [conns EXCEPT ![p][q] =
                    [state |-> "Connected", salt |-> salt, age |-> 0, retries |-> 0]]
    /\ view' = [view EXCEPT ![p][q] = dir]
    /\ UNCHANGED pending

\* newConnection and markConnected, with the event PeerConnected.
Establish(p, q, salt, dir) ==
    /\ conns' = [conns EXCEPT ![p][q] =
                    [state |-> "Connected", salt |-> salt, age |-> 0, retries |-> 0]]
    /\ pending' = [pending EXCEPT ![p][q] = None]
    /\ view' = [view EXCEPT ![p][q] = dir]

\* The response answers the challenge that p has outstanding with q.
Answers(p, q, m) ==
    /\ q \in Waiting(p) /\ pending[p][q].dir = "Inbound"
    /\ m.serverSalt = pending[p][q].serverSalt
    /\ m.clientSalt # 0 /\ m.serverSalt # 0 /\ m.clientSalt # m.serverSalt
    /\ m.cookie = Cookie(p, m.serverSalt, q)

\* handleConnectionResponse
ReceiveResponse(p, m) ==
    LET q == m.from
    IN  /\ m.type = "Response"
        /\ \/ /\ Answers(p, q, m)
              /\ Establish(p, q, m.clientSalt, "Inbound")
              /\ Exchange(m, {Plain("Accepted", p, q)})
           \/ /\ ~Answers(p, q, m)
              /\ Exchange(m, {})
              /\ UNCHANGED <<conns, pending, view>>
        /\ UNCHANGED <<foreign, secret, salts, calls>>

\* handleConnectionAccepted
ReceiveAccepted(p, m) ==
    LET q == m.from
    IN  /\ m.type = "Accepted"
        /\ \/ /\ q \in Calling(p)
              /\ Establish(p, q, pending[p][q].clientSalt, "Outbound")
           \/ /\ q \notin Calling(p)
              /\ UNCHANGED <<conns, pending, view>>
        /\ Exchange(m, {})
        /\ UNCHANGED <<foreign, secret, salts, calls>>

\* handleConnectionDenied: PeerDisconnected, whatever the direction.
ReceiveDenied(p, m) ==
    LET q == m.from
    IN  /\ m.type = "Denied"
        /\ pending' = [pending EXCEPT ![p][q] = None]
        /\ view' = IF q \in Waiting(p) THEN [view EXCEPT ![p][q] = "down"] ELSE view
        /\ Exchange(m, {})
        /\ UNCHANGED <<conns, foreign, secret, salts, calls>>

\* handleDisconnect
ReceiveDisconnect(p, m) ==
    LET q == m.from
    IN  /\ m.type = "Disconnect"
        /\ conns' = [conns EXCEPT ![p][q] = None]
        /\ view' = IF Known(p, q) THEN [view EXCEPT ![p][q] = "down"] ELSE view
        /\ Exchange(m, {})
        /\ UNCHANGED <<pending, foreign, secret, salts, calls>>

\* processDataPacket: whatever is accepted from a known peer restarts its
\* time-out (which a connection being taken down no longer reads).
ReceiveKeepalive(p, m) ==
    LET q == m.from
    IN  /\ m.type = "Keepalive"
        /\ conns' = IF Known(p, q) /\ conns[p][q].state = "Connected"
                    THEN [conns EXCEPT ![p][q].age = 0] ELSE conns
        /\ Exchange(m, {})
        /\ UNCHANGED <<pending, foreign, secret, view, salts, calls>>

Receive(m) ==
    \/ ReceiveRequest(m.to, m)
    \/ ReceiveChallenge(m.to, m)
    \/ ReceiveResponse(m.to, m)
    \/ ReceiveAccepted(m.to, m)
    \/ ReceiveDenied(m.to, m)
    \/ ReceiveDisconnect(m.to, m)
    \/ ReceiveKeepalive(m.to, m)

\* With Duplicates a packet never received stands for a lost one.
Lose(m) ==
    /\ ~Duplicates
    /\ net' = net \ {m}
    /\ UNCHANGED <<conns, pending, foreign, secret, view, salts, calls>>

-----------------------------------------------------------------------------
(* Time and the maintenance at the end of peerProcess. *)

Later(age, bound) == IF age < bound THEN age + 1 ELSE age
DisconnectBound   == DisconnectTimeout * (DisconnectRetries + 1)

AgedConnection(c) ==
    IF c = None THEN None
    ELSE [c EXCEPT !.age = Later(@, IF c.state = "Connected" THEN ConnectionTimeout
                                                             ELSE DisconnectBound)]
AgedPending(w) ==
    IF w = None THEN None
    ELSE [w EXCEPT !.age = Later(@, PendingTimeout),
                   !.sinceRetry = Later(@, RequestTimeout)]

\* One unit of time passes at p.
Tick(p) ==
    /\ conns' = [conns EXCEPT ![p] = [q \in Peers |-> AgedConnection(conns[p][q])]]
    /\ pending' = [pending EXCEPT ![p] = [q \in Peers |-> AgedPending(pending[p][q])]]
    /\ UNCHANGED <<foreign, secret, net, view, salts, calls>>

\* updateTick: time-outs, and the end of a disconnection.
SilentSinceSend(c) == FALSE         \* p itself sends in every frame
Silent(c)    == c.state = "Connected" /\ c.age >= ConnectionTimeout
Finished(c)  == c.state = "Disconnecting" /\ c.retries >= DisconnectRetries
\* updateDisconnecting: the time of the next Disconnect packet.
Insisting(c) == /\ c.state = "Disconnecting" /\ c.retries < DisconnectRetries
                /\ c.age >= DisconnectTimeout * (c.retries + 1)
\* retryPendingConnections
Retrying(w)  == /\ w.dir = "Outbound" /\ w.retries < RequestRetries
                /\ w.sinceRetry >= RequestTimeout
\* cleanupPending
ExpiredOutbound(w) == w.dir = "Outbound" /\ w.age >= PendingTimeout
Expired(w)         == w.age >= PendingTimeout

\* What maintenance makes of an entry.
MaintainedConnection(c) ==
    IF c = None \/ Silent(c) \/ Finished(c) THEN None
    ELSE IF Insisting(c) THEN [c EXCEPT !.retries = @ + 1] ELSE c
MaintainedPending(w) ==
    IF w = None \/ Expired(w) THEN None
    ELSE IF Retrying(w) THEN [w EXCEPT !.retries = @ + 1, !.sinceRetry = 0] ELSE w

Update(p) ==
    LET ended    == {q \in Connected(p) : MaintainedConnection(conns[p][q]) = None}
        alive    == {q \in Connected(p) \ ended : conns[p][q].state = "Connected"}
        farewell == {q \in Connected(p) : Insisting(conns[p][q])}
        retried  == {q \in Waiting(p) : Retrying(pending[p][q])}
        expired  == {q \in Waiting(p) : Expired(pending[p][q])}
    IN  /\ conns' = [conns EXCEPT ![p] =
                        [q \in Peers |-> MaintainedConnection(conns[p][q])]]
        /\ pending' = [pending EXCEPT ![p] =
                          [q \in Peers |-> MaintainedPending(pending[p][q])]]
        /\ view' = [view EXCEPT ![p] = [q \in Peers |->
                       IF q \in ended \cup expired THEN "down" ELSE view[p][q]]]
        /\ net' = net \cup {Plain("Keepalive", p, q) : q \in alive}
                      \cup {Plain("Disconnect", p, q) : q \in farewell}
                      \cup {Request(p, q) : q \in retried}
        /\ UNCHANGED <<foreign, secret, salts, calls>>

Next ==
    \/ \E p \in Callers : \E q \in Peers \ {p} : Connect(p, q)
    \/ \E p, q \in Peers : Disconnect(p, q)
    \/ \E p \in Peers : Restart(p) \/ Tick(p) \/ Update(p)
    \/ \E m \in net : Receive(m) \/ Lose(m)

Spec == Init /\ [][Next]_vars

\* Time passes everywhere, and every application keeps calling peerProcess.
FairSpec == Spec /\ \A p \in Peers : WF_vars(Tick(p)) /\ WF_vars(Update(p))
-----------------------------------------------------------------------------
TypeOK ==
    /\ conns \in [Peers -> [Peers -> Connections \cup {None}]]
    /\ pending \in [Peers -> [Peers -> PendingConnections \cup {None}]]
    /\ secret \in [Peers -> Nat]
    /\ view \in [Peers -> [Peers -> {"down", "Inbound", "Outbound"}]]
    /\ salts \in Nat /\ calls \in Nat
    /\ \A m \in net : m.from \in Peers /\ m.to \in Peers

\* No peer is at once connected and being connected to: whatever order requests,
\* answers and calls arrive in, the two tables stay disjoint.
OnePhase == \A p \in Peers : Connected(p) \cap Waiting(p) = {}

\* What the events told the application is what the tables say: the last event
\* about a peer is PeerConnected exactly as long as there is a connection.
EventsMatchState ==
    \A p, q \in Peers : view[p][q] # "down" <=> q \in Connected(p)

\* A peer that only answers holds fewer connections, established and pending,
\* than the two limits together, although the limit on clients is checked only
\* when a handshake starts.
AdmissionBound ==
    \A p \in Peers \ Callers :
        Cardinality(Connected(p)) + Cardinality(Waiting(p)) < MaxClients + MaxPending

\* No connection joins peers that speak different protocols, whichever of them
\* calls and whatever either calls in the meantime.
ForeignRefused ==
    \A p, q \in Peers : q \in Connected(p) => Protocol(p) = Protocol(q)

\* A pending connection does not stay pending.
PendingResolves ==
    \A p, q \in Peers : q \in Waiting(p) ~> q \notin Waiting(p)

\* A connection the other end does not have does not last.
OneSidedEnds ==
    \A p, q \in Peers :
        (q \in Connected(p) /\ p \notin Connected(q))
            ~> (q \notin Connected(p) \/ p \in Connected(q))

\* "Simultaneous connect tiebreak (lower address = server)": at most one of two
\* peers takes the server's role.
SimultaneousTiebreak ==
    \A p, q \in Peers :
        ~(q \in Waiting(p) \ Calling(p) /\ p \in Waiting(q) \ Calling(q))
=============================================================================

-------------------------- MODULE HandshakeProofs --------------------------
(***************************************************************************)
(* Theorems about connections, for any number of peers and callers, any    *)
(* limits and time-outs, with or without duplicates.                       *)
(***************************************************************************)
EXTENDS Handshake, FiniteSetTheorems, TLAPS

\* The salts in packets are salts.
NetOK ==
    \A m \in net :
        /\ m.from \in Peers /\ m.to \in Peers
        /\ m.type = "Response" => m.clientSalt \in Nat
        /\ m.type = "Challenge" => m.serverSalt \in Nat

TypeInv == TypeOK /\ NetOK

\* The types of the tables, entry by entry.
LEMMA Entries ==
    ASSUME TypeOK, NEW p \in Peers, NEW q \in Peers
    PROVE  /\ conns[p] \in [Peers -> Connections \cup {None}]
           /\ conns[p][q] \in Connections \cup {None}
           /\ pending[p] \in [Peers -> PendingConnections \cup {None}]
           /\ pending[p][q] \in PendingConnections \cup {None}
           /\ view[p] \in [Peers -> {"down", "Inbound", "Outbound"}]
BY DEF TypeOK

\* A new entry for one peer leaves a table well typed.
LEMMA NewEntries ==
    ASSUME TypeOK, NEW p \in Peers, NEW q \in Peers
    PROVE  /\ \A c \in Connections \cup {None} :
                  [conns EXCEPT ![p][q] = c] \in [Peers -> [Peers -> Connections \cup {None}]]
           /\ \A w \in PendingConnections \cup {None} :
                  [pending EXCEPT ![p][q] = w]
                      \in [Peers -> [Peers -> PendingConnections \cup {None}]]
           /\ \A e \in {"down", "Inbound", "Outbound"} :
                  [view EXCEPT ![p][q] = e]
                      \in [Peers -> [Peers -> {"down", "Inbound", "Outbound"}]]
BY DEF TypeOK

\* Taking a packet and answering it with well-formed packets.
LEMMA ExchangeOK ==
    ASSUME NetOK, NEW m \in net, NEW replies, Exchange(m, replies),
           \A r \in replies :
               /\ r.from \in Peers /\ r.to \in Peers
               /\ r.type = "Response" => r.clientSalt \in Nat
               /\ r.type = "Challenge" => r.serverSalt \in Nat
    PROVE  NetOK'
BY DEF NetOK, Exchange

\* A new connection is well typed, and so are the tables that lose or gain it.
LEMMA EstablishTypes ==
    ASSUME TypeOK, NEW p \in Peers, NEW q \in Peers, NEW salt \in Nat,
           NEW dir \in {"Inbound", "Outbound"}, Establish(p, q, salt, dir)
    PROVE  /\ conns' \in [Peers -> [Peers -> Connections \cup {None}]]
           /\ pending' \in [Peers -> [Peers -> PendingConnections \cup {None}]]
           /\ view' \in [Peers -> [Peers -> {"down", "Inbound", "Outbound"}]]
  <1> DEFINE c == [state |-> "Connected", salt |-> salt, age |-> 0, retries |-> 0]
  <1>1. c \in Connections
    BY DEF Connections
  <1>2. /\ conns' = [conns EXCEPT ![p][q] = c]
        /\ pending' = [pending EXCEPT ![p][q] = None]
        /\ view' = [view EXCEPT ![p][q] = dir]
    BY DEF Establish
  <1> HIDE DEF c
  <1> QED BY <1>1, <1>2, NewEntries

\* Nothing is known to anyone at first.
LEMMA TypeInit == Init => TypeInv
BY DEF Init, TypeInv, TypeOK, NetOK, NoEntries

\* The application's calls keep the types.
LEMMA CallTypes ==
    ASSUME TypeInv, NEW p \in Peers, NEW q \in Peers,
           Connect(p, q) \/ Disconnect(p, q) \/ Restart(p)
    PROVE  TypeInv'
  <1> USE DEF TypeInv
  <1>1. CASE Connect(p, q)
    <2> DEFINE w == [dir |-> "Outbound", serverSalt |-> 0, clientSalt |-> salts',
                     age |-> 0, sinceRetry |-> 0, retries |-> 0]
    <2>1. salts' = salts + 1 /\ salts' \in Nat /\ calls' \in Nat
      BY <1>1 DEF Connect, Call, TypeOK
    <2>2. w \in PendingConnections
      BY <2>1 DEF PendingConnections
    <2>3. /\ pending' = [pending EXCEPT ![p][q] = w]
          /\ net' = net \cup {Request(p, q)} /\ UNCHANGED <<conns, secret, view>>
      BY <1>1 DEF Connect
    <2> HIDE DEF w
    <2>4. pending' \in [Peers -> [Peers -> PendingConnections \cup {None}]]
      BY <2>2, <2>3, NewEntries
    <2>5. NetOK'
      BY <2>3 DEF NetOK, Request
    <2> QED BY <2>1, <2>3, <2>4, <2>5 DEF TypeOK, NetOK
  <1>2. CASE Disconnect(p, q)
    <2>1. UNCHANGED <<secret, net, view, salts>> /\ calls' \in Nat
      BY <1>2 DEF Disconnect, Call, TypeOK
    <2>2. /\ conns' \in [Peers -> [Peers -> Connections \cup {None}]]
          /\ pending' \in [Peers -> [Peers -> PendingConnections \cup {None}]]
      <3>1. CASE conns[p][q] # None /\ UNCHANGED pending
        <4> DEFINE c == [conns[p][q] EXCEPT !.state = "Disconnecting", !.age = 0,
                                            !.retries = 0]
        <4>1. c \in Connections
          BY <3>1, Entries DEF Connections
        <4>2. conns' = [conns EXCEPT ![p][q] = c]
          BY <1>2, <3>1, Entries DEF Disconnect, TypeOK
        <4> HIDE DEF c
        <4> QED BY <3>1, <4>1, <4>2, NewEntries DEF TypeOK
      <3>2. CASE pending' = [pending EXCEPT ![p][q] = None] /\ UNCHANGED conns
        BY <3>2, NewEntries DEF TypeOK
      <3> QED BY <1>2, <3>1, <3>2 DEF Disconnect
    <2> QED BY <2>1, <2>2 DEF TypeOK, NetOK
  <1>3. CASE Restart(p)
    <2>1. NoEntries \in [Peers -> Connections \cup {None}]
          /\ NoEntries \in [Peers -> PendingConnections \cup {None}]
      BY DEF NoEntries
    <2>2. UNCHANGED <<net, salts>> /\ calls' \in Nat
      BY <1>3 DEF Restart, Call, TypeOK
    <2>3. /\ conns' \in [Peers -> [Peers -> Connections \cup {None}]]
          /\ pending' \in [Peers -> [Peers -> PendingConnections \cup {None}]]
      BY <1>3, <2>1 DEF Restart, TypeOK
    <2>4. /\ secret' \in [Peers -> Nat]
          /\ view' \in [Peers -> [Peers -> {"down", "Inbound", "Outbound"}]]
      BY <1>3 DEF Restart, TypeOK
    <2> QED BY <2>2, <2>3, <2>4 DEF TypeOK, NetOK
  <1> QED BY <1>1, <1>2, <1>3

\* So do the packets: each handler writes well-formed entries and packets.
LEMMA ReceiveTypes ==
    ASSUME TypeInv, NEW m \in net, Receive(m)
    PROVE  TypeInv'
  <1> DEFINE p == m.to
             q == m.from
  <1> USE DEF TypeInv
  <1>0. p \in Peers /\ q \in Peers
    BY DEF NetOK
  <1> HIDE DEF p, q
  <1>1. CASE ReceiveRequest(p, m)
    <2>1. UNCHANGED <<conns, secret, view, calls>>
      BY <1>1 DEF ReceiveRequest
    <2>2. CASE \E t \in {"Accepted", "Denied"} :
                   Exchange(m, {Plain(t, p, q)}) /\ UNCHANGED <<pending, salts>>
      <3>1. PICK t \in {"Accepted", "Denied"} : Exchange(m, {Plain(t, p, q)})
        BY <2>2
      <3>2. NetOK'
        BY <1>0, <3>1, ExchangeOK DEF Plain
      <3> QED BY <2>1, <2>2, <3>2 DEF TypeOK, NetOK
    <2>3. CASE AcceptAsServer(p, q, m)
      <3> DEFINE w == [dir |-> "Inbound", serverSalt |-> salts', clientSalt |-> 0,
                       age |-> 0, sinceRetry |-> 0, retries |-> 0]
      <3>1. salts' \in Nat
        BY <2>3 DEF AcceptAsServer, TypeOK
      <3>2. w \in PendingConnections
        BY <3>1 DEF PendingConnections
      <3>3. pending' = [pending EXCEPT ![p][q] = w]
        BY <2>3 DEF AcceptAsServer
      <3> HIDE DEF w
      <3>4. NetOK'
        BY <1>0, <2>3, <3>1, ExchangeOK DEF AcceptAsServer, Challenge
      <3> QED BY <1>0, <2>1, <3>1, <3>2, <3>3, <3>4, NewEntries DEF TypeOK, NetOK
    <2> QED BY <1>1, <2>2, <2>3 DEF ReceiveRequest, q
  <1>2. CASE ReceiveChallenge(p, m)
    <2>1. UNCHANGED <<conns, secret, view, salts, calls>>
      BY <1>2 DEF ReceiveChallenge
    <2>2. CASE q \in Calling(p)
      <3>1. /\ pending' = [pending EXCEPT ![p][q].serverSalt = m.serverSalt]
            /\ Exchange(m, {Response(p, q, pending[p][q].clientSalt, m)})
            /\ m.type = "Challenge"
        BY <1>2, <2>2 DEF ReceiveChallenge, q
      <3> DEFINE w == [pending[p][q] EXCEPT !.serverSalt = m.serverSalt]
      <3>2. pending[p][q] \in PendingConnections
        BY <1>0, <2>2, Entries DEF Calling, Waiting
      <3>3. w \in PendingConnections /\ pending[p][q].clientSalt \in Nat
        BY <3>1, <3>2 DEF PendingConnections, NetOK
      <3>4. pending' = [pending EXCEPT ![p][q] = w]
        BY <1>0, <3>1, Entries DEF TypeOK, NetOK
      <3> HIDE DEF w
      <3>5. NetOK'
        BY <1>0, <3>1, <3>3, ExchangeOK DEF Response
      <3> QED BY <1>0, <2>1, <3>3, <3>4, <3>5, NewEntries DEF TypeOK, NetOK
    <2>3. CASE q \notin Calling(p)
      <3>1. UNCHANGED pending /\ Exchange(m, {})
        BY <1>2, <2>3 DEF ReceiveChallenge, q
      <3> QED BY <2>1, <3>1, ExchangeOK DEF TypeOK, NetOK
    <2> QED BY <2>2, <2>3
  <1>3. CASE ReceiveResponse(p, m)
    <2>1. UNCHANGED <<secret, salts, calls>> /\ m.clientSalt \in Nat
      BY <1>3 DEF ReceiveResponse, NetOK
    <2>2. CASE Establish(p, q, m.clientSalt, "Inbound")
               /\ Exchange(m, {Plain("Accepted", p, q)})
      <3>1. NetOK'
        BY <1>0, <2>2, ExchangeOK DEF Plain
      <3> QED BY <1>0, <2>1, <2>2, <3>1, EstablishTypes DEF TypeOK, NetOK
    <2>3. CASE Exchange(m, {}) /\ UNCHANGED <<conns, pending, view>>
      BY <2>1, <2>3, ExchangeOK DEF TypeOK, NetOK
    <2> QED BY <1>3, <2>2, <2>3 DEF ReceiveResponse, q
  <1>4. CASE ReceiveAccepted(p, m)
    <2>1. UNCHANGED <<secret, salts, calls>> /\ NetOK'
      BY <1>4, ExchangeOK DEF ReceiveAccepted
    <2>2. CASE q \in Calling(p) /\ Establish(p, q, pending[p][q].clientSalt, "Outbound")
      <3>1. pending[p][q] \in PendingConnections
        BY <1>0, <2>2, Entries DEF Calling, Waiting
      <3>2. pending[p][q].clientSalt \in Nat
        BY <3>1 DEF PendingConnections
      <3> QED BY <1>0, <2>1, <2>2, <3>2, EstablishTypes DEF TypeOK, NetOK
    <2>3. CASE UNCHANGED <<conns, pending, view>>
      BY <2>1, <2>3 DEF TypeOK, NetOK
    <2> QED BY <1>4, <2>2, <2>3 DEF ReceiveAccepted, q
  <1>5. CASE ReceiveDenied(p, m)
    <2>1. UNCHANGED <<conns, secret, salts, calls>> /\ NetOK'
      BY <1>5, ExchangeOK DEF ReceiveDenied
    <2>2. pending' = [pending EXCEPT ![p][q] = None]
          /\ (view' = [view EXCEPT ![p][q] = "down"] \/ view' = view)
      BY <1>5 DEF ReceiveDenied, q
    <2>3. pending' \in [Peers -> [Peers -> PendingConnections \cup {None}]]
      BY <1>0, <2>2, NewEntries
    <2>4. view' \in [Peers -> [Peers -> {"down", "Inbound", "Outbound"}]]
      <3>1. CASE view' = [view EXCEPT ![p][q] = "down"]
        BY <1>0, <3>1, NewEntries
      <3>2. CASE view' = view
        BY <3>2 DEF TypeOK
      <3> QED BY <2>2, <3>1, <3>2
    <2> QED BY <2>1, <2>3, <2>4 DEF TypeOK, NetOK
  <1>6. CASE ReceiveDisconnect(p, m)
    <2>1. UNCHANGED <<pending, secret, salts, calls>> /\ NetOK'
      BY <1>6, ExchangeOK DEF ReceiveDisconnect
    <2>2. conns' = [conns EXCEPT ![p][q] = None]
          /\ (view' = [view EXCEPT ![p][q] = "down"] \/ view' = view)
      BY <1>6 DEF ReceiveDisconnect, q
    <2>3. conns' \in [Peers -> [Peers -> Connections \cup {None}]]
      BY <1>0, <2>2, NewEntries
    <2>4. view' \in [Peers -> [Peers -> {"down", "Inbound", "Outbound"}]]
      <3>1. CASE view' = [view EXCEPT ![p][q] = "down"]
        BY <1>0, <3>1, NewEntries
      <3>2. CASE view' = view
        BY <3>2 DEF TypeOK
      <3> QED BY <2>2, <3>1, <3>2
    <2> QED BY <2>1, <2>3, <2>4 DEF TypeOK, NetOK
  <1>7. CASE ReceiveKeepalive(p, m)
    <2>1. UNCHANGED <<pending, secret, view, salts, calls>> /\ NetOK'
      BY <1>7, ExchangeOK DEF ReceiveKeepalive
    <2>2. CASE Known(p, q) /\ conns' = [conns EXCEPT ![p][q].age = 0]
      <3> DEFINE c == [conns[p][q] EXCEPT !.age = 0]
      <3>1. c \in Connections
        BY <1>0, <2>2, Entries DEF Connections, Known
      <3>2. conns' = [conns EXCEPT ![p][q] = c]
        BY <1>0, <2>2, Entries DEF TypeOK, NetOK
      <3> HIDE DEF c
      <3> QED BY <1>0, <2>1, <3>1, <3>2, NewEntries DEF TypeOK, NetOK
    <2>3. CASE UNCHANGED conns
      BY <2>1, <2>3 DEF TypeOK, NetOK
    <2> QED BY <1>7, <2>2, <2>3 DEF ReceiveKeepalive, q
  <1> QED BY <1>1, <1>2, <1>3, <1>4, <1>5, <1>6, <1>7 DEF Receive, p

\* Ages and retry counts stay natural numbers: an entry aged is an entry.
LEMMA AgedTypes ==
    /\ \A c \in Connections : AgedConnection(c) \in Connections
    /\ \A w \in PendingConnections : AgedPending(w) \in PendingConnections
    /\ AgedConnection(None) = None /\ AgedPending(None) = None
  <1> USE HandshakeAssumption
  <1>1. \A age \in Nat, bound \in Int : Later(age, bound) \in Nat
    BY DEF Later
  <1>2. /\ ConnectionTimeout \in Int /\ RequestTimeout \in Int
        /\ DisconnectBound \in Int /\ PendingTimeout \in Int
    BY DEF DisconnectBound, PendingTimeout
  <1>3. ASSUME NEW c \in Connections
        PROVE  AgedConnection(c) \in Connections
    <2> DEFINE age == Later(c.age, IF c.state = "Connected" THEN ConnectionTimeout
                                                            ELSE DisconnectBound)
    <2>1. age \in Nat
      BY <1>1, <1>2 DEF Connections
    <2>2. AgedConnection(c) = [c EXCEPT !.age = age]
      BY NoneAssumption DEF AgedConnection, Connections
    <2> HIDE DEF age
    <2> QED BY <2>1, <2>2 DEF Connections
  <1>4. ASSUME NEW w \in PendingConnections
        PROVE  AgedPending(w) \in PendingConnections
    <2> DEFINE age == Later(w.age, PendingTimeout)
               since == Later(w.sinceRetry, RequestTimeout)
    <2>1. age \in Nat /\ since \in Nat
      BY <1>1, <1>2 DEF PendingConnections
    <2>2. AgedPending(w) = [w EXCEPT !.age = age, !.sinceRetry = since]
      BY NoneAssumption DEF AgedPending, PendingConnections
    <2> HIDE DEF age, since
    <2> QED BY <2>1, <2>2 DEF PendingConnections
  <1> QED BY <1>3, <1>4 DEF AgedConnection, AgedPending

\* So is an entry after maintenance.
LEMMA MaintainedTypes ==
    /\ \A c \in Connections \cup {None} :
           MaintainedConnection(c) \in Connections \cup {None}
    /\ \A w \in PendingConnections \cup {None} :
           MaintainedPending(w) \in PendingConnections \cup {None}
  <1>1. ASSUME NEW c \in Connections
        PROVE  [c EXCEPT !.retries = @ + 1] \in Connections
    <2>1. c.retries + 1 \in Nat
      BY DEF Connections
    <2> QED BY <2>1 DEF Connections
  <1>2. ASSUME NEW w \in PendingConnections
        PROVE  [w EXCEPT !.retries = @ + 1, !.sinceRetry = 0] \in PendingConnections
    <2>1. w.retries + 1 \in Nat
      BY DEF PendingConnections
    <2> QED BY <2>1 DEF PendingConnections
  <1> QED BY <1>1, <1>2 DEF MaintainedConnection, MaintainedPending

\* Time keeps the types.
LEMMA TickTypes ==
    ASSUME TypeInv, NEW p \in Peers, Tick(p)
    PROVE  TypeInv'
  <1> DEFINE cs == [q \in Peers |-> AgedConnection(conns[p][q])]
             ws == [q \in Peers |-> AgedPending(pending[p][q])]
  <1>1. /\ cs \in [Peers -> Connections \cup {None}]
        /\ ws \in [Peers -> PendingConnections \cup {None}]
    BY AgedTypes, Entries DEF TypeInv
  <1>2. /\ conns' = [conns EXCEPT ![p] = cs] /\ pending' = [pending EXCEPT ![p] = ws]
        /\ UNCHANGED <<secret, net, view, salts, calls>>
    BY DEF Tick
  <1> HIDE DEF cs, ws
  <1> QED BY <1>1, <1>2 DEF TypeInv, TypeOK, NetOK

\* The maintenance keeps the types and sends well-formed packets.
LEMMA UpdateTypes ==
    ASSUME TypeInv, NEW p \in Peers, Update(p)
    PROVE  TypeInv'
  <1> USE DEF TypeInv
  <1> DEFINE cs == [q \in Peers |-> MaintainedConnection(conns[p][q])]
             ws == [q \in Peers |-> MaintainedPending(pending[p][q])]
  <1>1. /\ cs \in [Peers -> Connections \cup {None}]
        /\ ws \in [Peers -> PendingConnections \cup {None}]
    BY MaintainedTypes, Entries
  <1>2. conns' = [conns EXCEPT ![p] = cs] /\ pending' = [pending EXCEPT ![p] = ws]
    BY DEF Update
  <1> HIDE DEF cs, ws
  <1>3. conns' \in [Peers -> [Peers -> Connections \cup {None}]]
    BY <1>1, <1>2 DEF TypeOK
  <1>4. pending' \in [Peers -> [Peers -> PendingConnections \cup {None}]]
    BY <1>1, <1>2 DEF TypeOK
  <1>5. view' \in [Peers -> [Peers -> {"down", "Inbound", "Outbound"}]]
    BY DEF Update, TypeOK
  <1>6. NetOK'
    <2>1. Connected(p) \subseteq Peers /\ Waiting(p) \subseteq Peers
      BY DEF Connected, Waiting
    <2>2. \A n \in net' : \/ n \in net
                          \/ \E t \in {"Keepalive", "Disconnect"}, q \in Peers : n = Plain(t, p, q)
                          \/ \E q \in Peers : n = Request(p, q)
      BY <2>1 DEF Update
    <2> QED BY <2>2 DEF NetOK, Plain, Request
  <1>7. UNCHANGED <<secret, salts, calls>>
    BY DEF Update
  <1> QED BY <1>3, <1>4, <1>5, <1>6, <1>7 DEF TypeOK, NetOK

\* Every step keeps the types.
LEMMA TypeStep == TypeInv /\ [Next]_vars => TypeInv'
  <1> SUFFICES ASSUME TypeInv, [Next]_vars PROVE TypeInv' OBVIOUS
  <1>1. CASE \E p \in Callers : \E q \in Peers \ {p} : Connect(p, q)
    BY <1>1, CallTypes, HandshakeAssumption
  <1>2. CASE \E p, q \in Peers : Disconnect(p, q)
    BY <1>2, CallTypes
  <1>3. CASE \E p \in Peers : Restart(p)
    BY <1>3, CallTypes
  <1>4. CASE \E p \in Peers : Tick(p)
    BY <1>4, TickTypes
  <1>5. CASE \E p \in Peers : Update(p)
    BY <1>5, UpdateTypes
  <1>6. CASE \E m \in net : Receive(m)
    BY <1>6, ReceiveTypes
  <1>7. CASE \E m \in net : Lose(m)
    BY <1>7 DEF Lose, TypeInv, TypeOK, NetOK
  <1>8. CASE UNCHANGED vars
    BY <1>8 DEF vars, TypeInv, TypeOK, NetOK
  <1> QED BY <1>1, <1>2, <1>3, <1>4, <1>5, <1>6, <1>7, <1>8 DEF Next

\* Every table and packet keeps its type.
THEOREM TypeCorrect == Spec => []TypeOK
  <1>1. TypeInv => TypeOK BY DEF TypeInv
  <1> QED BY <1>1, TypeInit, TypeStep, PTL DEF Spec

-----------------------------------------------------------------------------
(* The two tables and the events.  Both invariants are about one entry at a  *)
(* time, and together they are inductive: a Denied that removes a pending    *)
(* entry reports the peer as down, which is right only because a pending     *)
(* peer is never a connected one.                                            *)

EntryOK(c, w, v) == (c = None \/ w = None) /\ (v # "down" <=> c # None)

Coherent == \A p, q \in Peers : EntryOK(conns[p][q], pending[p][q], view[p][q])

CoherentInv == TypeInv /\ Coherent

\* A change of one entry of a table, and of one row.
LEMMA EntryChange ==
    ASSUME NEW T, NEW f \in [Peers -> [Peers -> T]], NEW p \in Peers, NEW q \in Peers, NEW v
    PROVE  \A a, b \in Peers :
               [f EXCEPT ![p][q] = v][a][b] = IF a = p /\ b = q THEN v ELSE f[a][b]
OBVIOUS

\* The same for the three tables, which are all an action on one entry changes.
LEMMA EntryStep ==
    ASSUME CoherentInv, NEW p \in Peers, NEW q \in Peers, NEW c, NEW w, NEW v,
           conns' = [conns EXCEPT ![p][q] = c],
           pending' = [pending EXCEPT ![p][q] = w],
           view' = [view EXCEPT ![p][q] = v],
           EntryOK(c, w, v)
    PROVE  Coherent'
  <1> SUFFICES ASSUME NEW a \in Peers, NEW b \in Peers
               PROVE  EntryOK(conns'[a][b], pending'[a][b], view'[a][b])
    BY DEF Coherent
  <1>1. EntryOK(conns[a][b], pending[a][b], view[a][b])
    BY DEF Coherent, CoherentInv
  <1>2. /\ conns'[a][b] = IF a = p /\ b = q THEN c ELSE conns[a][b]
        /\ pending'[a][b] = IF a = p /\ b = q THEN w ELSE pending[a][b]
        /\ view'[a][b] = IF a = p /\ b = q THEN v ELSE view[a][b]
    BY EntryChange DEF CoherentInv, TypeInv, TypeOK
  <1> QED BY <1>1, <1>2

\* An action on a whole row keeps coherence if it does entry by entry.
LEMMA RowStep ==
    ASSUME CoherentInv, NEW p \in Peers, NEW cs, NEW ws, NEW vs,
           conns' = [conns EXCEPT ![p] = cs],
           pending' = [pending EXCEPT ![p] = ws],
           view' = [view EXCEPT ![p] = vs],
           \A q \in Peers : EntryOK(cs[q], ws[q], vs[q])
    PROVE  Coherent'
  <1> SUFFICES ASSUME NEW a \in Peers, NEW b \in Peers
               PROVE  EntryOK(conns'[a][b], pending'[a][b], view'[a][b])
    BY DEF Coherent
  <1>1. EntryOK(conns[a][b], pending[a][b], view[a][b])
    BY DEF Coherent, CoherentInv
  <1>2. /\ conns'[a] = IF a = p THEN cs ELSE conns[a]
        /\ pending'[a] = IF a = p THEN ws ELSE pending[a]
        /\ view'[a] = IF a = p THEN vs ELSE view[a]
    BY DEF CoherentInv, TypeInv, TypeOK
  <1> QED BY <1>1, <1>2

\* A table is what it is with any entry of it written back.
LEMMA WriteBack ==
    ASSUME TypeOK, NEW p \in Peers, NEW q \in Peers
    PROVE  /\ conns = [conns EXCEPT ![p][q] = conns[p][q]]
           /\ pending = [pending EXCEPT ![p][q] = pending[p][q]]
           /\ view = [view EXCEPT ![p][q] = view[p][q]]
           /\ view = [view EXCEPT ![p] = view[p]]
BY DEF TypeOK

\* The packet handlers keep the tables coherent.
LEMMA ReceiveCoherent ==
    ASSUME CoherentInv, NEW m \in net, Receive(m)
    PROVE  Coherent'
  <1> DEFINE p == m.to
             q == m.from
  <1> USE DEF CoherentInv
  <1>0. p \in Peers /\ q \in Peers
    BY DEF TypeInv, NetOK
  <1>a. EntryOK(conns[p][q], pending[p][q], view[p][q])
    BY <1>0 DEF Coherent
  <1>b. /\ conns = [conns EXCEPT ![p][q] = conns[p][q]]
        /\ pending = [pending EXCEPT ![p][q] = pending[p][q]]
        /\ view = [view EXCEPT ![p][q] = view[p][q]]
    BY <1>0, WriteBack DEF TypeInv
  <1> HIDE DEF p, q
  <1>1. CASE UNCHANGED <<conns, pending, view>>
    BY <1>1 DEF Coherent
  <1>2. ASSUME NEW salt \in Nat, NEW dir \in {"Inbound", "Outbound"},
               Establish(p, q, salt, dir)
        PROVE  Coherent'
    <2> DEFINE c == [state |-> "Connected", salt |-> salt, age |-> 0, retries |-> 0]
    <2>1. /\ conns' = [conns EXCEPT ![p][q] = c]
          /\ pending' = [pending EXCEPT ![p][q] = None]
          /\ view' = [view EXCEPT ![p][q] = dir]
      BY <1>2 DEF Establish
    <2>2. c # None
      BY NoneAssumption DEF Connections
    <2> HIDE DEF c
    <2>3. EntryOK(c, None, dir)
      BY <2>2 DEF EntryOK
    <2> QED BY <1>0, <2>1, <2>3, EntryStep
  <1>3. ASSUME NEW w, pending' = [pending EXCEPT ![p][q] = w], UNCHANGED <<conns, view>>,
               conns[p][q] = None \/ w = None
        PROVE  Coherent'
    <2>1. EntryOK(conns[p][q], w, view[p][q])
      BY <1>a, <1>3 DEF EntryOK
    <2>2. /\ conns' = [conns EXCEPT ![p][q] = conns[p][q]]
          /\ view' = [view EXCEPT ![p][q] = view[p][q]]
      BY <1>b, <1>3
    <2> QED BY <1>0, <1>3, <2>1, <2>2, EntryStep
  <1>4. CASE ReceiveRequest(p, m)
    <2>1. CASE UNCHANGED <<pending, salts>>
      BY <1>1, <1>4, <2>1 DEF ReceiveRequest
    <2>2. CASE ~Known(p, q) /\ AcceptAsServer(p, q, m)
      <3>1. PICK w : pending' = [pending EXCEPT ![p][q] = w]
        BY <2>2 DEF AcceptAsServer
      <3>2. UNCHANGED <<conns, view>> /\ conns[p][q] = None
        BY <1>4, <2>2 DEF ReceiveRequest, Known
      <3> QED BY <1>3, <3>1, <3>2
    <2> QED BY <1>4, <2>1, <2>2 DEF ReceiveRequest, q
  <1>5. CASE ReceiveChallenge(p, m)
    <2>1. CASE UNCHANGED pending
      BY <1>1, <1>5, <2>1 DEF ReceiveChallenge
    <2>2. CASE q \in Calling(p) /\ pending' = [pending EXCEPT ![p][q].serverSalt = m.serverSalt]
      <3>1. PICK w : pending' = [pending EXCEPT ![p][q] = w]
        BY <1>0, <2>2 DEF TypeInv, TypeOK
      <3>2. pending[p][q] # None
        BY <2>2 DEF Calling, Waiting
      <3>3. UNCHANGED <<conns, view>> /\ conns[p][q] = None
        BY <1>a, <1>5, <3>2 DEF ReceiveChallenge, EntryOK
      <3> QED BY <1>3, <3>1, <3>3
    <2> QED BY <1>5, <2>1, <2>2 DEF ReceiveChallenge, q
  <1>6. CASE ReceiveResponse(p, m)
    <2>1. m.clientSalt \in Nat
      BY <1>6 DEF ReceiveResponse, TypeInv, NetOK
    <2> QED BY <1>1, <1>2, <1>6, <2>1 DEF ReceiveResponse, q
  <1>7. CASE ReceiveAccepted(p, m)
    <2>1. CASE q \in Calling(p)
      <3>1. pending[p][q] \in PendingConnections
        BY <1>0, <2>1, Entries DEF Calling, Waiting, TypeInv
      <3>2. pending[p][q].clientSalt \in Nat
        BY <3>1 DEF PendingConnections
      <3>3. Establish(p, q, pending[p][q].clientSalt, "Outbound")
        BY <1>7, <2>1 DEF ReceiveAccepted, q
      <3> QED BY <1>2, <3>2, <3>3
    <2>2. CASE q \notin Calling(p)
      BY <1>1, <1>7, <2>2 DEF ReceiveAccepted, q
    <2> QED BY <2>1, <2>2
  <1>8. CASE ReceiveDenied(p, m)
    <2>1. pending' = [pending EXCEPT ![p][q] = None] /\ conns' = conns
      BY <1>8 DEF ReceiveDenied, q
    <2>2. CASE q \in Waiting(p)
      <3>1. view' = [view EXCEPT ![p][q] = "down"] /\ pending[p][q] # None
        BY <1>8, <2>2 DEF ReceiveDenied, Waiting, q
      <3>2. EntryOK(conns[p][q], None, "down")
        BY <1>a, <3>1 DEF EntryOK
      <3>3. conns' = [conns EXCEPT ![p][q] = conns[p][q]]
        BY <1>b, <2>1
      <3> QED BY <1>0, <2>1, <3>1, <3>2, <3>3, EntryStep
    <2>3. CASE q \notin Waiting(p)
      <3>1. view' = view
        BY <1>8, <2>3 DEF ReceiveDenied, q
      <3> QED BY <1>3, <2>1, <3>1
    <2> QED BY <2>2, <2>3
  <1>9. CASE ReceiveDisconnect(p, m)
    <2>1. conns' = [conns EXCEPT ![p][q] = None] /\ pending' = pending
      BY <1>9 DEF ReceiveDisconnect, q
    <2>2. PICK v : view' = [view EXCEPT ![p][q] = v] /\ v = "down"
      <3>1. CASE Known(p, q)
        BY <1>9, <3>1 DEF ReceiveDisconnect, q
      <3>2. CASE ~Known(p, q)
        <4>1. view' = view /\ view[p][q] = "down"
          BY <1>9, <1>a, <3>2 DEF ReceiveDisconnect, q, Known, EntryOK
        <4>2. view' = [view EXCEPT ![p][q] = view[p][q]]
          BY <1>b, <4>1
        <4> QED BY <4>1, <4>2
      <3> QED BY <3>1, <3>2
    <2>3. EntryOK(None, pending[p][q], v)
      BY <2>2 DEF EntryOK
    <2>4. pending' = [pending EXCEPT ![p][q] = pending[p][q]]
      BY <1>b, <2>1
    <2> QED BY <1>0, <2>1, <2>2, <2>3, <2>4, EntryStep
  <1>10. CASE ReceiveKeepalive(p, m)
    <2>1. UNCHANGED <<pending, view>>
      BY <1>10 DEF ReceiveKeepalive
    <2>2. CASE UNCHANGED conns
      BY <1>1, <2>1, <2>2
    <2>3. CASE Known(p, q) /\ conns' = [conns EXCEPT ![p][q].age = 0]
      <3> DEFINE c == [conns[p][q] EXCEPT !.age = 0]
      <3>1. conns[p][q] \in Connections
        BY <1>0, <2>3, Entries DEF Known, TypeInv
      <3>2. c \in Connections
        BY <3>1 DEF Connections
      <3>3. conns' = [conns EXCEPT ![p][q] = c]
        BY <1>0, <2>3, Entries DEF TypeInv, TypeOK
      <3>4. EntryOK(c, pending[p][q], view[p][q])
        BY <1>a, <2>3, <3>2, NoneAssumption DEF EntryOK, Known
      <3> HIDE DEF c
      <3>5. /\ pending' = [pending EXCEPT ![p][q] = pending[p][q]]
            /\ view' = [view EXCEPT ![p][q] = view[p][q]]
        BY <1>b, <2>1
      <3> QED BY <1>0, <3>3, <3>4, <3>5, EntryStep
    <2> QED BY <1>10, <2>2, <2>3 DEF ReceiveKeepalive, q
  <1> QED BY <1>4, <1>5, <1>6, <1>7, <1>8, <1>9, <1>10 DEF Receive, p

\* The three tables stay coherent in every step: what a handler or the
\* maintenance writes for a peer is coherent if what was there is.
LEMMA CoherentStep == CoherentInv /\ [Next]_vars => Coherent'
  <1> SUFFICES ASSUME CoherentInv, [Next]_vars PROVE Coherent' OBVIOUS
  <1> USE DEF CoherentInv
  <1>0. ASSUME NEW p \in Peers, NEW q \in Peers
        PROVE  /\ EntryOK(conns[p][q], pending[p][q], view[p][q])
               /\ conns[p][q] \in Connections \cup {None}
               /\ pending[p][q] \in PendingConnections \cup {None}
    BY Entries DEF Coherent, TypeInv
  <1>1. ASSUME NEW p \in Peers, NEW q \in Peers, Connect(p, q) PROVE Coherent'
    <2> DEFINE w == [dir |-> "Outbound", serverSalt |-> 0, clientSalt |-> salts',
                     age |-> 0, sinceRetry |-> 0, retries |-> 0]
    <2>1. /\ pending' = [pending EXCEPT ![p][q] = w] /\ UNCHANGED <<conns, view>>
          /\ conns[p][q] = None
      BY <1>1 DEF Connect
    <2> HIDE DEF w
    <2>2. EntryOK(conns[p][q], w, view[p][q])
      BY <1>0, <2>1 DEF EntryOK
    <2>3. /\ conns' = [conns EXCEPT ![p][q] = conns[p][q]]
          /\ view' = [view EXCEPT ![p][q] = view[p][q]]
      BY <2>1, WriteBack DEF TypeInv
    <2> QED BY <2>1, <2>2, <2>3, EntryStep
  <1>2. ASSUME NEW p \in Peers, NEW q \in Peers, Disconnect(p, q) PROVE Coherent'
    <2>1. CASE conns[p][q] # None /\ UNCHANGED <<pending, view>>
               /\ conns' = [conns EXCEPT ![p][q] =
                              [@ EXCEPT !.state = "Disconnecting", !.age = 0, !.retries = 0]]
      <3> DEFINE c == [conns[p][q] EXCEPT !.state = "Disconnecting", !.age = 0, !.retries = 0]
      <3>1. c \in Connections
        BY <1>0, <2>1 DEF Connections
      <3>2. EntryOK(c, pending[p][q], view[p][q])
        BY <1>0, <2>1, <3>1, NoneAssumption DEF EntryOK
      <3>3. conns' = [conns EXCEPT ![p][q] = c]
        BY <2>1, Entries DEF TypeInv, TypeOK
      <3> HIDE DEF c
      <3>4. /\ pending' = [pending EXCEPT ![p][q] = pending[p][q]]
            /\ view' = [view EXCEPT ![p][q] = view[p][q]]
        BY <2>1, WriteBack DEF TypeInv
      <3> QED BY <3>2, <3>3, <3>4, EntryStep
    <2>2. CASE UNCHANGED <<conns, view>> /\ pending' = [pending EXCEPT ![p][q] = None]
      <3>1. EntryOK(conns[p][q], None, view[p][q])
        BY <1>0 DEF EntryOK
      <3>2. /\ conns' = [conns EXCEPT ![p][q] = conns[p][q]]
            /\ view' = [view EXCEPT ![p][q] = view[p][q]]
        BY <2>2, WriteBack DEF TypeInv
      <3> QED BY <2>2, <3>1, <3>2, EntryStep
    <2> QED BY <1>2, <2>1, <2>2 DEF Disconnect
  <1>3. ASSUME NEW p \in Peers, Restart(p) PROVE Coherent'
    <2>1. \A q \in Peers : EntryOK(NoEntries[q], NoEntries[q], [r \in Peers |-> "down"][q])
      BY DEF EntryOK, NoEntries
    <2> QED BY <1>3, <2>1, RowStep DEF Restart
  <1>4. ASSUME NEW p \in Peers, Tick(p) PROVE Coherent'
    <2> DEFINE cs == [q \in Peers |-> AgedConnection(conns[p][q])]
               ws == [q \in Peers |-> AgedPending(pending[p][q])]
    <2>1. /\ conns' = [conns EXCEPT ![p] = cs] /\ pending' = [pending EXCEPT ![p] = ws]
          /\ view' = [view EXCEPT ![p] = view[p]]
      BY <1>4, WriteBack DEF Tick, TypeInv
    <2>2. \A q \in Peers : EntryOK(cs[q], ws[q], view[p][q])
      BY <1>0, AgedTypes, NoneAssumption DEF EntryOK
    <2> HIDE DEF cs, ws
    <2> QED BY <2>1, <2>2, RowStep
  <1>5. ASSUME NEW p \in Peers, Update(p) PROVE Coherent'
    <2> DEFINE ended == {q \in Connected(p) : MaintainedConnection(conns[p][q]) = None}
               expired == {q \in Waiting(p) : Expired(pending[p][q])}
               cs == [q \in Peers |-> MaintainedConnection(conns[p][q])]
               ws == [q \in Peers |-> MaintainedPending(pending[p][q])]
               vs == [q \in Peers |-> IF q \in ended \cup expired THEN "down" ELSE view[p][q]]
    <2>1. /\ conns' = [conns EXCEPT ![p] = cs] /\ pending' = [pending EXCEPT ![p] = ws]
          /\ view' = [view EXCEPT ![p] = vs]
      BY <1>5 DEF Update
    <2>2. ASSUME NEW q \in Peers PROVE EntryOK(cs[q], ws[q], vs[q])
      <3>1. /\ conns[p][q] = None => cs[q] = None
            /\ pending[p][q] = None => ws[q] = None
        BY DEF MaintainedConnection, MaintainedPending
      <3>2. q \in ended <=> conns[p][q] # None /\ cs[q] = None
        BY DEF Connected
      <3>3. q \in expired => pending[p][q] # None
        BY DEF Waiting
      <3> QED BY <1>0, <3>1, <3>2, <3>3 DEF EntryOK
    <2> HIDE DEF cs, ws, vs
    <2> QED BY <2>1, <2>2, RowStep
  <1>6. ASSUME NEW m \in net, Receive(m) PROVE Coherent'
    BY <1>6, ReceiveCoherent
  <1>7. ASSUME NEW m \in net, Lose(m) PROVE Coherent'
    BY <1>7 DEF Lose, Coherent
  <1>8. CASE UNCHANGED vars
    BY <1>8 DEF vars, Coherent
  <1> QED BY <1>1, <1>2, <1>3, <1>4, <1>5, <1>6, <1>7, <1>8, HandshakeAssumption DEF Next

\* Coherence holds at first, and with the types it is inductive.
LEMMA CoherentHolds == Spec => []Coherent
  <1>1. Init => Coherent
    BY DEF Init, Coherent, EntryOK, NoEntries
  <1> QED BY <1>1, TypeInit, TypeStep, CoherentStep, PTL DEF Spec, CoherentInv

\* No peer is connected to a peer with which a handshake is pending, however calls,
\* answers, retries and restarts interleave (the tables npConnections and npPending).
THEOREM PhaseCorrect == Spec => []OnePhase
  <1>1. Coherent => OnePhase
    BY DEF Coherent, EntryOK, OnePhase, Connected, Waiting
  <1> QED BY <1>1, CoherentHolds, PTL

\* What the application was last told of a peer is what the table of connections says
\* (the events of handleConnectionAccepted, handleDisconnect and cleanupPending).
THEOREM EventsCorrect == Spec => []EventsMatchState
  <1>1. Coherent => EventsMatchState
    BY DEF Coherent, EntryOK, EventsMatchState, Connected
  <1> QED BY <1>1, CoherentHolds, PTL

-----------------------------------------------------------------------------
(* The bound on what a peer that only answers holds.  The limits are checked *)
(* when a request opens a pending entry and no more after that; what keeps   *)
(* the sum bounded is that a connection takes the place of a pending entry.  *)

Held(p) == Connected(p) \cup Waiting(p)

OnlyAnswers ==
    \A p \in Peers \ Callers : \A q \in Peers :
        pending[p][q] = None \/ pending[p][q].dir = "Inbound"

HeldBound == \A p \in Peers \ Callers : Cardinality(Held(p)) < MaxClients + MaxPending

AdmissionInv == OnlyAnswers /\ HeldBound

\* What is held is a finite set, counted in its two parts.
LEMMA HeldFinite ==
    ASSUME NEW p \in Peers
    PROVE  /\ IsFiniteSet(Held(p)) /\ IsFiniteSet(Connected(p)) /\ IsFiniteSet(Waiting(p))
           /\ Cardinality(Held(p)) \in Nat
           /\ Cardinality(Connected(p)) \in Nat /\ Cardinality(Waiting(p)) \in Nat
           /\ Cardinality(Held(p)) <= Cardinality(Connected(p)) + Cardinality(Waiting(p))
           /\ Connected(p) \cap Waiting(p) = {} =>
                  Cardinality(Held(p)) = Cardinality(Connected(p)) + Cardinality(Waiting(p))
  <1>1. /\ Connected(p) \subseteq Peers /\ Waiting(p) \subseteq Peers
        /\ Held(p) \subseteq Peers /\ IsFiniteSet(Peers)
    BY HandshakeAssumption DEF Connected, Waiting, Held
  <1>2. IsFiniteSet(Held(p)) /\ IsFiniteSet(Connected(p)) /\ IsFiniteSet(Waiting(p))
    BY <1>1, FS_Subset
  <1>3. IsFiniteSet(Connected(p) \cap Waiting(p))
    BY <1>2, FS_Subset, Connected(p) \cap Waiting(p) \subseteq Connected(p)
  <1>4. Cardinality(Held(p)) = Cardinality(Connected(p)) + Cardinality(Waiting(p))
                                  - Cardinality(Connected(p) \cap Waiting(p))
    BY <1>2, FS_Union DEF Held
  <1>5. /\ Cardinality(Held(p)) \in Nat /\ Cardinality(Connected(p)) \in Nat
        /\ Cardinality(Waiting(p)) \in Nat
        /\ Cardinality(Connected(p) \cap Waiting(p)) \in Nat
    BY <1>2, <1>3, FS_CardinalityType
  <1>6. Connected(p) \cap Waiting(p) = {} => Cardinality(Connected(p) \cap Waiting(p)) = 0
    BY FS_EmptySet
  <1> QED BY <1>2, <1>4, <1>5, <1>6

\* A part of a finite set is finite and no larger.
LEMMA PartOf ==
    ASSUME NEW S, IsFiniteSet(S), NEW T, T \subseteq S
    PROVE  Cardinality(T) \in Nat /\ Cardinality(S) \in Nat /\ Cardinality(T) <= Cardinality(S)
BY FS_Subset, FS_CardinalityType

\* The count when nothing is added, and when one entry is and there was room.
LEMMA HeldStep ==
    ASSUME NEW p \in Peers \ Callers, HeldBound,
           \/ Held(p)' \subseteq Held(p)
           \/ ~Full(p) /\ \E q \in Peers : Held(p)' \subseteq Held(p) \cup {q}
    PROVE  Cardinality(Held(p)') < MaxClients + MaxPending
  <1> USE HandshakeAssumption
  <1>0. /\ p \in Peers /\ IsFiniteSet(Held(p)) /\ Cardinality(Held(p)) \in Nat
        /\ Cardinality(Held(p)) < MaxClients + MaxPending
    BY HeldFinite DEF HeldBound
  <1>1. CASE Held(p)' \subseteq Held(p)
    <2>1. Cardinality(Held(p)') <= Cardinality(Held(p)) /\ Cardinality(Held(p)') \in Nat
      BY <1>0, <1>1, PartOf
    <2> QED BY <1>0, <2>1
  <1>2. ASSUME ~Full(p), NEW q \in Peers, Held(p)' \subseteq Held(p) \cup {q}
        PROVE  Cardinality(Held(p)') < MaxClients + MaxPending
    <2>1. /\ IsFiniteSet(Held(p) \cup {q})
          /\ Cardinality(Held(p) \cup {q}) <= Cardinality(Held(p)) + 1
          /\ Cardinality(Held(p) \cup {q}) \in Nat
      <3>1. /\ IsFiniteSet(Held(p) \cup {q})
            /\ Cardinality(Held(p) \cup {q}) =
                  IF q \in Held(p) THEN Cardinality(Held(p)) ELSE Cardinality(Held(p)) + 1
        BY <1>0, FS_AddElement
      <3> QED BY <1>0, <3>1
    <2>2. /\ Cardinality(Held(p)') <= Cardinality(Held(p) \cup {q})
          /\ Cardinality(Held(p)') \in Nat
      BY <1>2, <2>1, PartOf
    <2>3. /\ Cardinality(Connected(p)) < MaxClients /\ Cardinality(Waiting(p)) < MaxPending
          /\ Cardinality(Connected(p)) \in Nat /\ Cardinality(Waiting(p)) \in Nat
          /\ Cardinality(Held(p)) <= Cardinality(Connected(p)) + Cardinality(Waiting(p))
      BY <1>0, <1>2, HeldFinite DEF Full
    <2> QED BY <1>0, <2>1, <2>2, <2>3
  <1> QED BY <1>1, <1>2

\* An action on the row of p that opens no entry, or one entry when it may.
LEMMA AdmissionRow ==
    ASSUME TypeOK, AdmissionInv, NEW p \in Peers, NEW cs, NEW ws,
           conns' = [conns EXCEPT ![p] = cs],
           pending' = [pending EXCEPT ![p] = ws],
           p \notin Callers =>
               /\ \A b \in Peers : ws[b] = None \/ ws[b].dir = "Inbound"
               /\ \/ \A b \in Peers : b \in Held(p) \/ (cs[b] = None /\ ws[b] = None)
                  \/ /\ ~Full(p)
                     /\ \E q \in Peers : \A b \in Peers :
                           b = q \/ b \in Held(p) \/ (cs[b] = None /\ ws[b] = None)
    PROVE  AdmissionInv'
  <1>1. ASSUME NEW a \in Peers
        PROVE  /\ conns'[a] = IF a = p THEN cs ELSE conns[a]
               /\ pending'[a] = IF a = p THEN ws ELSE pending[a]
    BY DEF TypeOK
  <1>2. OnlyAnswers'
    BY <1>1 DEF AdmissionInv, OnlyAnswers
  <1>3. ASSUME NEW a \in Peers \ Callers
        PROVE  Cardinality(Held(a)') < MaxClients + MaxPending
    <2>1. Held(a)' = {b \in Peers : conns'[a][b] # None \/ pending'[a][b] # None}
      BY DEF Held, Connected, Waiting
    <2>2. Held(a) = {b \in Peers : conns[a][b] # None \/ pending[a][b] # None}
      BY DEF Held, Connected, Waiting
    <2>3. CASE a # p
      <3>1. Held(a)' \subseteq Held(a)
        BY <1>1, <2>1, <2>2, <2>3
      <3> QED BY <3>1, HeldStep DEF AdmissionInv
    <2>4. CASE a = p
      <3>1. Held(p)' = {b \in Peers : cs[b] # None \/ ws[b] # None}
        BY <1>1, <2>1, <2>4
      <3>2. \/ Held(p)' \subseteq Held(p)
            \/ ~Full(p) /\ \E q \in Peers : Held(p)' \subseteq Held(p) \cup {q}
        BY <2>4, <3>1
      <3> QED BY <2>4, <3>2, HeldStep DEF AdmissionInv
    <2> QED BY <2>3, <2>4
  <1>4. HeldBound'
    BY <1>3 DEF HeldBound
  <1> QED BY <1>2, <1>4 DEF AdmissionInv

\* The same for an action that writes one entry of each table.
LEMMA AdmissionEntry ==
    ASSUME TypeOK, AdmissionInv, NEW p \in Peers, NEW q \in Peers, NEW c, NEW w,
           conns' = [conns EXCEPT ![p][q] = c],
           pending' = [pending EXCEPT ![p][q] = w],
           p \notin Callers =>
               /\ w = None \/ w.dir = "Inbound"
               /\ q \in Held(p) \/ (c = None /\ w = None) \/ ~Full(p)
    PROVE  AdmissionInv'
  <1> DEFINE cs == [conns[p] EXCEPT ![q] = c]
             ws == [pending[p] EXCEPT ![q] = w]
  <1>1. conns' = [conns EXCEPT ![p] = cs] /\ pending' = [pending EXCEPT ![p] = ws]
    OBVIOUS
  <1>2. \A b \in Peers : /\ cs[b] = IF b = q THEN c ELSE conns[p][b]
                         /\ ws[b] = IF b = q THEN w ELSE pending[p][b]
    <2>1. conns[p] \in [Peers -> Connections \cup {None}]
          /\ pending[p] \in [Peers -> PendingConnections \cup {None}]
      BY DEF TypeOK
    <2> QED BY <2>1
  <1> HIDE DEF cs, ws
  <1>3. SUFFICES ASSUME p \notin Callers
                 PROVE  /\ \A b \in Peers : ws[b] = None \/ ws[b].dir = "Inbound"
                        /\ \/ \A b \in Peers : b \in Held(p) \/ (cs[b] = None /\ ws[b] = None)
                           \/ /\ ~Full(p)
                              /\ \E r \in Peers : \A b \in Peers :
                                    b = r \/ b \in Held(p) \/ (cs[b] = None /\ ws[b] = None)
    BY <1>1, AdmissionRow
  <1>4. ASSUME NEW b \in Peers, b # q, b \notin Held(p)
        PROVE  cs[b] = None /\ ws[b] = None
    BY <1>2, <1>4 DEF Held, Connected, Waiting
  <1>5. \A b \in Peers : ws[b] = None \/ ws[b].dir = "Inbound"
    BY <1>2, <1>3 DEF AdmissionInv, OnlyAnswers
  <1>6. CASE q \in Held(p) \/ (c = None /\ w = None)
    BY <1>2, <1>4, <1>5, <1>6
  <1>7. CASE ~Full(p)
    BY <1>4, <1>5, <1>7
  <1> QED BY <1>3, <1>6, <1>7

\* The packet handlers keep the bound: only a request opens an entry, for which
\* there must be room, and a connection is made only where an entry was.
LEMMA ReceiveAdmission ==
    ASSUME CoherentInv, AdmissionInv, NEW m \in net, Receive(m)
    PROVE  AdmissionInv'
  <1> DEFINE p == m.to
             q == m.from
  <1>0. p \in Peers /\ q \in Peers /\ TypeOK /\ NetOK
    BY DEF CoherentInv, TypeInv, NetOK
  <1>a. /\ conns = [conns EXCEPT ![p][q] = conns[p][q]]
        /\ pending = [pending EXCEPT ![p][q] = pending[p][q]]
    BY <1>0, WriteBack
  <1>b. /\ p \notin Callers => pending[p][q] = None \/ pending[p][q].dir = "Inbound"
        /\ q \in Held(p) \/ (conns[p][q] = None /\ pending[p][q] = None)
    BY <1>0 DEF AdmissionInv, OnlyAnswers, Held, Connected, Waiting
  <1>c. p \notin Callers => q \notin Calling(p)
    <2> SUFFICES ASSUME p \notin Callers, q \in Calling(p) PROVE FALSE OBVIOUS
    <2>1. pending[p][q] # None /\ pending[p][q].dir = "Outbound"
      BY DEF Calling, Waiting
    <2> QED BY <1>b, <2>1
  <1> HIDE DEF p, q
  <1>1. CASE UNCHANGED <<conns, pending>>
    BY <1>1 DEF AdmissionInv, OnlyAnswers, HeldBound, Held, Connected, Waiting
  <1>2. ASSUME NEW c, NEW w, conns' = [conns EXCEPT ![p][q] = c],
               pending' = [pending EXCEPT ![p][q] = w],
               p \notin Callers =>
                   /\ w = None \/ w.dir = "Inbound"
                   /\ q \in Held(p) \/ (c = None /\ w = None) \/ ~Full(p)
        PROVE  AdmissionInv'
    BY <1>0, <1>2, AdmissionEntry
  <1>3. ASSUME NEW salt, NEW dir, Establish(p, q, salt, dir), q \in Waiting(p)
        PROVE  AdmissionInv'
    <2> DEFINE c == [state |-> "Connected", salt |-> salt, age |-> 0, retries |-> 0]
    <2>1. conns' = [conns EXCEPT ![p][q] = c] /\ pending' = [pending EXCEPT ![p][q] = None]
      BY <1>3 DEF Establish
    <2> HIDE DEF c
    <2> QED BY <1>2, <1>3, <2>1 DEF Held
  <1>4. CASE ReceiveRequest(p, m)
    <2>1. CASE UNCHANGED pending
      BY <1>1, <1>4, <2>1 DEF ReceiveRequest
    <2>2. CASE (q \in Calling(p) \/ ~Full(p)) /\ AcceptAsServer(p, q, m)
      <3> DEFINE w == [dir |-> "Inbound", serverSalt |-> salts', clientSalt |-> 0,
                       age |-> 0, sinceRetry |-> 0, retries |-> 0]
      <3>1. pending' = [pending EXCEPT ![p][q] = w] /\ w.dir = "Inbound"
        BY <2>2 DEF AcceptAsServer
      <3> HIDE DEF w
      <3>2. conns' = [conns EXCEPT ![p][q] = conns[p][q]]
        BY <1>4, <1>a DEF ReceiveRequest
      <3>3. p \notin Callers => ~Full(p)
        BY <1>c, <2>2
      <3> QED BY <1>2, <3>1, <3>2, <3>3
    <2> QED BY <1>4, <2>1, <2>2 DEF ReceiveRequest, q
  <1>5. CASE ReceiveChallenge(p, m)
    <2>1. CASE UNCHANGED pending
      BY <1>1, <1>5, <2>1 DEF ReceiveChallenge
    <2>2. CASE q \in Calling(p) /\ pending' = [pending EXCEPT ![p][q].serverSalt = m.serverSalt]
      <3>1. PICK w : pending' = [pending EXCEPT ![p][q] = w]
        BY <1>0, <2>2 DEF TypeOK
      <3>2. conns' = [conns EXCEPT ![p][q] = conns[p][q]]
        BY <1>5, <1>a DEF ReceiveChallenge
      <3> QED BY <1>2, <1>c, <2>2, <3>1, <3>2
    <2> QED BY <1>5, <2>1, <2>2 DEF ReceiveChallenge, q
  <1>6. CASE ReceiveResponse(p, m)
    <2>1. CASE UNCHANGED <<conns, pending>>
      BY <1>1, <2>1
    <2>2. CASE Answers(p, q, m) /\ Establish(p, q, m.clientSalt, "Inbound")
      <3>1. q \in Waiting(p)
        BY <2>2 DEF Answers
      <3> QED BY <1>3, <2>2, <3>1
    <2> QED BY <1>6, <2>1, <2>2 DEF ReceiveResponse, q
  <1>7. CASE ReceiveAccepted(p, m)
    <2>1. CASE UNCHANGED <<conns, pending>>
      BY <1>1, <2>1
    <2>2. CASE q \in Calling(p) /\ Establish(p, q, pending[p][q].clientSalt, "Outbound")
      <3>1. q \in Waiting(p)
        BY <2>2 DEF Calling
      <3> QED BY <1>3, <2>2, <3>1
    <2> QED BY <1>7, <2>1, <2>2 DEF ReceiveAccepted, q
  <1>8. CASE ReceiveDenied(p, m)
    <2>1. /\ pending' = [pending EXCEPT ![p][q] = None]
          /\ conns' = [conns EXCEPT ![p][q] = conns[p][q]]
      BY <1>8, <1>a DEF ReceiveDenied, q
    <2> QED BY <1>2, <1>b, <2>1
  <1>9. CASE ReceiveDisconnect(p, m)
    <2>1. /\ conns' = [conns EXCEPT ![p][q] = None]
          /\ pending' = [pending EXCEPT ![p][q] = pending[p][q]]
      BY <1>9, <1>a DEF ReceiveDisconnect, q
    <2> QED BY <1>2, <1>b, <2>1
  <1>10. CASE ReceiveKeepalive(p, m)
    <2>1. CASE UNCHANGED conns
      BY <1>1, <1>10, <2>1 DEF ReceiveKeepalive
    <2>2. CASE Known(p, q) /\ conns' = [conns EXCEPT ![p][q].age = 0]
      <3>1. PICK c : conns' = [conns EXCEPT ![p][q] = c]
        BY <1>0, <2>2 DEF TypeOK
      <3>2. pending' = [pending EXCEPT ![p][q] = pending[p][q]] /\ q \in Held(p)
        BY <1>0, <1>10, <1>a, <2>2 DEF ReceiveKeepalive, Known, Held, Connected
      <3> QED BY <1>2, <1>b, <3>1, <3>2
    <2> QED BY <1>10, <2>1, <2>2 DEF ReceiveKeepalive, q
  <1> QED BY <1>4, <1>5, <1>6, <1>7, <1>8, <1>9, <1>10 DEF Receive, p

\* Every step keeps the bound.
LEMMA AdmissionStep == CoherentInv /\ AdmissionInv /\ [Next]_vars => AdmissionInv'
  <1> SUFFICES ASSUME CoherentInv, AdmissionInv, [Next]_vars PROVE AdmissionInv' OBVIOUS
  <1>0. TypeOK
    BY DEF CoherentInv, TypeInv
  <1>a. ASSUME NEW p \in Peers, NEW b \in Peers
        PROVE  /\ conns[p][b] \in Connections \cup {None}
               /\ pending[p][b] \in PendingConnections \cup {None}
               /\ p \notin Callers => pending[p][b] = None \/ pending[p][b].dir = "Inbound"
               /\ b \in Held(p) \/ (conns[p][b] = None /\ pending[p][b] = None)
    BY <1>0, Entries DEF AdmissionInv, OnlyAnswers, Held, Connected, Waiting
  <1>1. CASE UNCHANGED <<conns, pending>>
    BY <1>1 DEF AdmissionInv, OnlyAnswers, HeldBound, Held, Connected, Waiting
  <1>2. ASSUME NEW p \in Callers, NEW q \in Peers, Connect(p, q) PROVE AdmissionInv'
    <2>1. PICK w : pending' = [pending EXCEPT ![p][q] = w]
      BY <1>2 DEF Connect
    <2>2. p \in Peers /\ conns' = [conns EXCEPT ![p][q] = conns[p][q]]
      BY <1>0, <1>2, WriteBack, HandshakeAssumption DEF Connect
    <2> QED BY <1>0, <2>1, <2>2, AdmissionEntry
  <1>3. ASSUME NEW p \in Peers, NEW q \in Peers, Disconnect(p, q) PROVE AdmissionInv'
    <2>1. CASE conns[p][q] # None /\ UNCHANGED pending
               /\ conns' = [conns EXCEPT ![p][q] =
                              [@ EXCEPT !.state = "Disconnecting", !.age = 0, !.retries = 0]]
      <3>1. PICK c : conns' = [conns EXCEPT ![p][q] = c]
        BY <2>1
      <3>2. pending' = [pending EXCEPT ![p][q] = pending[p][q]] /\ q \in Held(p)
        BY <1>0, <2>1, WriteBack DEF Held, Connected
      <3> QED BY <1>0, <1>a, <3>1, <3>2, AdmissionEntry
    <2>2. CASE UNCHANGED conns /\ pending' = [pending EXCEPT ![p][q] = None]
      <3>1. conns' = [conns EXCEPT ![p][q] = conns[p][q]]
        BY <1>0, <2>2, WriteBack
      <3> QED BY <1>0, <1>a, <2>2, <3>1, AdmissionEntry
    <2> QED BY <1>3, <2>1, <2>2 DEF Disconnect
  <1>4. ASSUME NEW p \in Peers, Restart(p) PROVE AdmissionInv'
    <2>1. \A b \in Peers : NoEntries[b] = None
      BY DEF NoEntries
    <2> QED BY <1>0, <1>4, <2>1, AdmissionRow DEF Restart
  <1>5. ASSUME NEW p \in Peers, Tick(p) PROVE AdmissionInv'
    <2> DEFINE cs == [q \in Peers |-> AgedConnection(conns[p][q])]
               ws == [q \in Peers |-> AgedPending(pending[p][q])]
    <2>1. conns' = [conns EXCEPT ![p] = cs] /\ pending' = [pending EXCEPT ![p] = ws]
      BY <1>5 DEF Tick
    <2>2. ASSUME NEW b \in Peers
          PROVE  b \in Held(p) \/ (cs[b] = None /\ ws[b] = None)
      BY <1>a, AgedTypes
    <2>3. ASSUME NEW b \in Peers, p \notin Callers
          PROVE  ws[b] = None \/ ws[b].dir = "Inbound"
      <3>1. CASE pending[p][b] = None
        BY <3>1, AgedTypes
      <3>2. CASE pending[p][b] # None
        <4>1. pending[p][b] \in PendingConnections /\ pending[p][b].dir = "Inbound"
          BY <1>a, <2>3, <3>2
        <4>2. AgedPending(pending[p][b]).dir = "Inbound"
          BY <3>2, <4>1 DEF AgedPending, PendingConnections
        <4> QED BY <4>2
      <3> QED BY <3>1, <3>2
    <2> HIDE DEF cs, ws
    <2> QED BY <1>0, <2>1, <2>2, <2>3, AdmissionRow
  <1>6. ASSUME NEW p \in Peers, Update(p) PROVE AdmissionInv'
    <2> DEFINE cs == [q \in Peers |-> MaintainedConnection(conns[p][q])]
               ws == [q \in Peers |-> MaintainedPending(pending[p][q])]
    <2>1. conns' = [conns EXCEPT ![p] = cs] /\ pending' = [pending EXCEPT ![p] = ws]
      BY <1>6 DEF Update
    <2>2. ASSUME NEW b \in Peers
          PROVE  b \in Held(p) \/ (cs[b] = None /\ ws[b] = None)
      BY <1>a DEF MaintainedConnection, MaintainedPending
    <2>3. ASSUME NEW b \in Peers, p \notin Callers
          PROVE  ws[b] = None \/ ws[b].dir = "Inbound"
      <3>1. CASE pending[p][b] = None
        BY <3>1 DEF MaintainedPending
      <3>2. CASE pending[p][b] # None
        <4>1. pending[p][b] \in PendingConnections /\ pending[p][b].dir = "Inbound"
          BY <1>a, <2>3, <3>2
        <4>2. \/ MaintainedPending(pending[p][b]) = None
              \/ MaintainedPending(pending[p][b]).dir = "Inbound"
          BY <3>2, <4>1 DEF MaintainedPending, PendingConnections
        <4> QED BY <4>2
      <3> QED BY <3>1, <3>2
    <2> HIDE DEF cs, ws
    <2> QED BY <1>0, <2>1, <2>2, <2>3, AdmissionRow
  <1>7. ASSUME NEW m \in net, Receive(m) PROVE AdmissionInv'
    BY <1>7, ReceiveAdmission
  <1>8. ASSUME NEW m \in net, Lose(m) PROVE AdmissionInv'
    BY <1>1, <1>8 DEF Lose
  <1>9. CASE UNCHANGED vars
    BY <1>1, <1>9 DEF vars
  <1> QED BY <1>2, <1>3, <1>4, <1>5, <1>6, <1>7, <1>8, <1>9 DEF Next

\* A peer that only answers holds fewer connections, established and pending,
\* than ncMaxClients + ncMaxPending, however its packets are ordered.
THEOREM Admission == Spec => []AdmissionBound
  <1>1. Init => AdmissionInv
    <2> SUFFICES ASSUME Init PROVE AdmissionInv OBVIOUS
    <2>1. \A p \in Peers : Held(p) = {}
      BY DEF Init, Held, Connected, Waiting, NoEntries
    <2>2. Cardinality({}) = 0
      BY FS_EmptySet
    <2>3. HeldBound
      BY <2>1, <2>2, HandshakeAssumption DEF HeldBound
    <2>4. OnlyAnswers
      BY DEF Init, OnlyAnswers, NoEntries
    <2> QED BY <2>3, <2>4 DEF AdmissionInv
  <1>2. Init => CoherentInv
    BY TypeInit DEF Init, Coherent, EntryOK, NoEntries, CoherentInv
  <1>3. CoherentInv /\ AdmissionInv => AdmissionBound
    <2> SUFFICES ASSUME CoherentInv, AdmissionInv, NEW p \in Peers \ Callers
                 PROVE  Cardinality(Connected(p)) + Cardinality(Waiting(p))
                            < MaxClients + MaxPending
      BY DEF AdmissionBound
    <2>1. Connected(p) \cap Waiting(p) = {}
      BY DEF CoherentInv, Coherent, EntryOK, Connected, Waiting
    <2>2. Cardinality(Held(p)) < MaxClients + MaxPending
      BY DEF AdmissionInv, HeldBound
    <2>3. Cardinality(Held(p)) = Cardinality(Connected(p)) + Cardinality(Waiting(p))
      BY <2>1, HeldFinite, SMTT(30)
    <2> QED BY <2>2, <2>3
  <1> QED BY <1>1, <1>2, <1>3, TypeStep, CoherentStep, AdmissionStep, PTL
          DEF Spec, CoherentInv
-----------------------------------------------------------------------------
(* Peers of different protocols.  A connection comes from a response to a    *)
(* challenge, which is an inbound pending entry, or from an Accepted packet; *)
(* the first are only made for requests of the same protocol, the second     *)
(* only sent to peers that are connected.                                    *)

Allowed(p, q) == Protocol(p) = Protocol(q)

Guarded(c, w, p, q) == c # None \/ (w # None /\ w.dir = "Inbound") => Allowed(p, q)

TablesGuarded  == \A p, q \in Peers : Guarded(conns[p][q], pending[p][q], p, q)
PacketsGuarded ==
    \A m \in net : /\ m.type = "Request" => m.protocol = Protocol(m.from)
                   /\ m.type = "Accepted" => Allowed(m.from, m.to)

ProtocolInv == TypeInv /\ TablesGuarded /\ PacketsGuarded

\* No step changes the protocol of a peer.
LEMMA ProtocolsStay ==
    ASSUME [Next]_vars
    PROVE  foreign' = foreign
BY ZenonT(30) DEF Next, vars, Connect, Disconnect, Restart, Tick, Update, Lose, Receive,
       ReceiveRequest, ReceiveChallenge, ReceiveResponse, ReceiveAccepted,
       ReceiveDenied, ReceiveDisconnect, ReceiveKeepalive

\* An action on one entry keeps the tables guarded if the entry is.
LEMMA GuardedEntry ==
    ASSUME ProtocolInv, foreign' = foreign,
           NEW p \in Peers, NEW q \in Peers, NEW c, NEW w,
           conns' = [conns EXCEPT ![p][q] = c],
           pending' = [pending EXCEPT ![p][q] = w],
           Guarded(c, w, p, q)
    PROVE  TablesGuarded'
  <1> SUFFICES ASSUME NEW a \in Peers, NEW b \in Peers
               PROVE  Guarded(conns'[a][b], pending'[a][b], a, b)
    BY DEF TablesGuarded, Guarded, Allowed, Protocol
  <1>1. Guarded(conns[a][b], pending[a][b], a, b)
    BY DEF ProtocolInv, TablesGuarded
  <1>2. /\ conns'[a][b] = IF a = p /\ b = q THEN c ELSE conns[a][b]
        /\ pending'[a][b] = IF a = p /\ b = q THEN w ELSE pending[a][b]
    BY EntryChange DEF ProtocolInv, TypeInv, TypeOK
  <1> QED BY <1>1, <1>2

\* An action on a row keeps the tables guarded if every entry of it is.
LEMMA GuardedRow ==
    ASSUME ProtocolInv, foreign' = foreign, NEW p \in Peers, NEW cs, NEW ws,
           conns' = [conns EXCEPT ![p] = cs],
           pending' = [pending EXCEPT ![p] = ws],
           \A q \in Peers : Guarded(cs[q], ws[q], p, q)
    PROVE  TablesGuarded'
  <1> SUFFICES ASSUME NEW a \in Peers, NEW b \in Peers
               PROVE  Guarded(conns'[a][b], pending'[a][b], a, b)
    BY DEF TablesGuarded, Guarded, Allowed, Protocol
  <1>1. Guarded(conns[a][b], pending[a][b], a, b)
    BY DEF ProtocolInv, TablesGuarded
  <1>2. /\ conns'[a] = IF a = p THEN cs ELSE conns[a]
        /\ pending'[a] = IF a = p THEN ws ELSE pending[a]
    BY DEF ProtocolInv, TypeInv, TypeOK
  <1> QED BY <1>1, <1>2

\* Unchanged tables, and unchanged packets, stay guarded.
LEMMA GuardedStays ==
    ASSUME ProtocolInv, foreign' = foreign
    PROVE  /\ UNCHANGED <<conns, pending>> => TablesGuarded'
           /\ net' \subseteq net => PacketsGuarded'
BY DEF ProtocolInv, TablesGuarded, PacketsGuarded, Guarded, Allowed, Protocol

\* Packets stay guarded when the replies to one of them are.
LEMMA GuardedExchange ==
    ASSUME ProtocolInv, foreign' = foreign, NEW m \in net, NEW replies, Exchange(m, replies),
           \A r \in replies : /\ r.type = "Request" => r.protocol = Protocol(r.from)
                              /\ r.type = "Accepted" => Allowed(r.from, r.to)
    PROVE  PacketsGuarded'
BY DEF ProtocolInv, PacketsGuarded, Exchange, Allowed, Protocol

\* The handlers answer and connect only peers of their own protocol.
LEMMA ReceiveGuarded ==
    ASSUME ProtocolInv, foreign' = foreign, NEW m \in net, Receive(m)
    PROVE  TablesGuarded' /\ PacketsGuarded'
  <1> DEFINE p == m.to
             q == m.from
  <1>0. p \in Peers /\ q \in Peers /\ TypeInv
    BY DEF ProtocolInv, TypeInv, NetOK
  <1>a. Guarded(conns[p][q], pending[p][q], p, q)
    BY <1>0 DEF ProtocolInv, TablesGuarded
  <1>b. /\ conns = [conns EXCEPT ![p][q] = conns[p][q]]
        /\ pending = [pending EXCEPT ![p][q] = pending[p][q]]
    BY <1>0, WriteBack DEF TypeInv
  <1>c. /\ m.type = "Request" => m.protocol = Protocol(q)
        /\ m.type = "Accepted" => Allowed(q, p)
    BY DEF ProtocolInv, PacketsGuarded
  <1>d. Exchange(m, {}) => PacketsGuarded'
    BY GuardedExchange
  <1> HIDE DEF p, q
  <1>1. ASSUME NEW salt, NEW dir, Establish(p, q, salt, dir), Allowed(p, q)
        PROVE  TablesGuarded'
    <2> DEFINE c == [state |-> "Connected", salt |-> salt, age |-> 0, retries |-> 0]
    <2>1. /\ conns' = [conns EXCEPT ![p][q] = c]
          /\ pending' = [pending EXCEPT ![p][q] = None]
      BY <1>1 DEF Establish
    <2> HIDE DEF c
    <2>2. Guarded(c, None, p, q)
      BY <1>1 DEF Guarded
    <2> QED BY <1>0, <2>1, <2>2, GuardedEntry
  <1>2. ASSUME NEW w, pending' = [pending EXCEPT ![p][q] = w], UNCHANGED conns,
               w = None \/ w.dir = "Outbound" \/ Allowed(p, q)
        PROVE  TablesGuarded'
    <2>1. Guarded(conns[p][q], w, p, q)
      BY <1>a, <1>2 DEF Guarded
    <2>2. conns' = [conns EXCEPT ![p][q] = conns[p][q]]
      BY <1>b, <1>2
    <2> QED BY <1>0, <1>2, <2>1, <2>2, GuardedEntry
  <1>3. CASE ReceiveRequest(p, m)
    <2>1. CASE Known(p, q) /\ Exchange(m, {Plain("Accepted", p, q)}) /\ UNCHANGED <<pending, conns>>
      <3>1. Allowed(p, q)
        BY <1>a, <2>1 DEF Known, Guarded
      <3>2. PacketsGuarded'
        BY <2>1, <3>1, GuardedExchange DEF Plain
      <3> QED BY <2>1, <3>2, GuardedStays
    <2>2. CASE Exchange(m, {Plain("Denied", p, q)}) /\ UNCHANGED <<pending, conns>>
      <3>1. PacketsGuarded'
        BY <2>2, GuardedExchange DEF Plain
      <3> QED BY <2>2, <3>1, GuardedStays
    <2>3. CASE Compatible(p, m) /\ AcceptAsServer(p, q, m) /\ UNCHANGED conns
      <3>1. Allowed(p, q)
        BY <1>3, <1>c, <2>3 DEF Compatible, Allowed, ReceiveRequest
      <3>2. TablesGuarded'
        BY <1>2, <2>3, <3>1 DEF AcceptAsServer
      <3>3. PacketsGuarded'
        BY <2>3, GuardedExchange DEF AcceptAsServer, Challenge
      <3> QED BY <3>2, <3>3
    <2> QED BY <1>3, <2>1, <2>2, <2>3 DEF ReceiveRequest, q
  <1>4. CASE ReceiveChallenge(p, m)
    <2>1. PacketsGuarded'
      <3>1. CASE Exchange(m, {Response(p, q, pending[p][q].clientSalt, m)})
        BY <3>1, GuardedExchange DEF Response
      <3> QED BY <1>4, <1>d, <3>1 DEF ReceiveChallenge, q
    <2>2. CASE UNCHANGED <<pending, conns>>
      BY <2>1, <2>2, GuardedStays
    <2>3. CASE q \in Calling(p) /\ UNCHANGED conns
               /\ pending' = [pending EXCEPT ![p][q].serverSalt = m.serverSalt]
      <3> DEFINE w == [pending[p][q] EXCEPT !.serverSalt = m.serverSalt]
      <3>1. pending[p][q] \in PendingConnections /\ pending[p][q].dir = "Outbound"
        BY <1>0, <2>3, Entries DEF Calling, Waiting, TypeInv
      <3>2. w.dir = "Outbound"
        BY <3>1 DEF PendingConnections
      <3>3. pending' = [pending EXCEPT ![p][q] = w]
        BY <1>0, <2>3, Entries DEF TypeInv, TypeOK
      <3> HIDE DEF w
      <3> QED BY <1>2, <2>1, <2>3, <3>2, <3>3
    <2> QED BY <1>4, <2>2, <2>3 DEF ReceiveChallenge, q
  <1>5. CASE ReceiveResponse(p, m)
    <2>1. CASE Answers(p, q, m) /\ Establish(p, q, m.clientSalt, "Inbound")
               /\ Exchange(m, {Plain("Accepted", p, q)})
      <3>1. Allowed(p, q)
        BY <1>a, <2>1 DEF Answers, Waiting, Guarded
      <3>2. PacketsGuarded'
        BY <2>1, <3>1, GuardedExchange DEF Plain
      <3> QED BY <1>1, <2>1, <3>1, <3>2
    <2>2. CASE Exchange(m, {}) /\ UNCHANGED <<conns, pending>>
      BY <1>d, <2>2, GuardedStays
    <2> QED BY <1>5, <2>1, <2>2 DEF ReceiveResponse, q
  <1>6. CASE ReceiveAccepted(p, m)
    <2>1. PacketsGuarded' /\ Allowed(p, q)
      BY <1>6, <1>c, <1>d DEF ReceiveAccepted, Allowed
    <2>2. CASE UNCHANGED <<conns, pending>>
      BY <2>1, <2>2, GuardedStays
    <2> QED BY <1>1, <1>6, <2>1, <2>2 DEF ReceiveAccepted, q
  <1>7. CASE ReceiveDenied(p, m)
    BY <1>2, <1>7, <1>d DEF ReceiveDenied, q
  <1>8. CASE ReceiveDisconnect(p, m)
    <2>1. Guarded(None, pending[p][q], p, q)
      BY <1>a DEF Guarded
    <2>2. conns' = [conns EXCEPT ![p][q] = None] /\ pending' = [pending EXCEPT ![p][q] = pending[p][q]]
      BY <1>8, <1>b DEF ReceiveDisconnect, q
    <2> QED BY <1>0, <1>8, <1>d, <2>1, <2>2, GuardedEntry DEF ReceiveDisconnect
  <1>9. CASE ReceiveKeepalive(p, m)
    <2>1. PacketsGuarded' /\ UNCHANGED pending
      BY <1>9, <1>d DEF ReceiveKeepalive
    <2>2. CASE UNCHANGED conns
      BY <2>1, <2>2, GuardedStays
    <2>3. CASE Known(p, q) /\ conns' = [conns EXCEPT ![p][q].age = 0]
      <3> DEFINE c == [conns[p][q] EXCEPT !.age = 0]
      <3>1. conns' = [conns EXCEPT ![p][q] = c]
        BY <1>0, <2>3, Entries DEF TypeInv, TypeOK
      <3>2. Guarded(c, pending[p][q], p, q)
        BY <1>a, <2>3 DEF Guarded, Known
      <3> HIDE DEF c
      <3>3. pending' = [pending EXCEPT ![p][q] = pending[p][q]]
        BY <1>b, <2>1
      <3> QED BY <1>0, <2>1, <3>1, <3>2, <3>3, GuardedEntry
    <2> QED BY <1>9, <2>2, <2>3 DEF ReceiveKeepalive, q
  <1> QED BY <1>3, <1>4, <1>5, <1>6, <1>7, <1>8, <1>9 DEF Receive, p

\* Every step keeps peers of different protocols apart.
LEMMA ProtocolStep == ProtocolInv /\ [Next]_vars => TablesGuarded' /\ PacketsGuarded'
  <1> SUFFICES ASSUME ProtocolInv, [Next]_vars PROVE TablesGuarded' /\ PacketsGuarded'
    OBVIOUS
  <1>0. foreign' = foreign
    BY ProtocolsStay
  <1>a. ASSUME NEW p \in Peers, NEW q \in Peers
        PROVE  /\ Guarded(conns[p][q], pending[p][q], p, q)
               /\ conns[p][q] \in Connections \cup {None}
               /\ pending[p][q] \in PendingConnections \cup {None}
    BY Entries DEF ProtocolInv, TablesGuarded, TypeInv
  <1>b. TypeOK
    BY DEF ProtocolInv, TypeInv
  <1>1. ASSUME NEW p \in Peers, NEW q \in Peers, Connect(p, q)
        PROVE  TablesGuarded' /\ PacketsGuarded'
    <2> DEFINE w == [dir |-> "Outbound", serverSalt |-> 0, clientSalt |-> salts',
                     age |-> 0, sinceRetry |-> 0, retries |-> 0]
    <2>1. /\ pending' = [pending EXCEPT ![p][q] = w] /\ UNCHANGED conns
          /\ conns[p][q] = None /\ net' = net \cup {Request(p, q)}
      BY <1>1 DEF Connect
    <2>2. Guarded(None, w, p, q)
      BY DEF Guarded
    <2> HIDE DEF w
    <2>3. conns' = [conns EXCEPT ![p][q] = None]
      BY <1>b, <2>1, WriteBack
    <2>4. PacketsGuarded'
      BY <1>0, <2>1 DEF ProtocolInv, PacketsGuarded, Request, Allowed, Protocol
    <2> QED BY <1>0, <2>1, <2>2, <2>3, <2>4, GuardedEntry
  <1>2. ASSUME NEW p \in Peers, NEW q \in Peers, Disconnect(p, q)
        PROVE  TablesGuarded' /\ PacketsGuarded'
    <2>1. PacketsGuarded'
      BY <1>0, <1>2, GuardedStays DEF Disconnect
    <2>2. CASE conns[p][q] # None /\ UNCHANGED pending
               /\ conns' = [conns EXCEPT ![p][q] =
                              [@ EXCEPT !.state = "Disconnecting", !.age = 0, !.retries = 0]]
      <3> DEFINE c == [conns[p][q] EXCEPT !.state = "Disconnecting", !.age = 0, !.retries = 0]
      <3>1. conns' = [conns EXCEPT ![p][q] = c]
        BY <1>b, <2>2, Entries DEF TypeOK
      <3>2. Guarded(c, pending[p][q], p, q)
        BY <1>a, <2>2 DEF Guarded
      <3> HIDE DEF c
      <3>3. pending' = [pending EXCEPT ![p][q] = pending[p][q]]
        BY <1>b, <2>2, WriteBack
      <3> QED BY <1>0, <2>1, <3>1, <3>2, <3>3, GuardedEntry
    <2>3. CASE UNCHANGED conns /\ pending' = [pending EXCEPT ![p][q] = None]
      <3>1. Guarded(conns[p][q], None, p, q)
        BY <1>a DEF Guarded
      <3>2. conns' = [conns EXCEPT ![p][q] = conns[p][q]]
        BY <1>b, <2>3, WriteBack
      <3> QED BY <1>0, <2>1, <2>3, <3>1, <3>2, GuardedEntry
    <2> QED BY <1>2, <2>2, <2>3 DEF Disconnect
  <1>3. ASSUME NEW p \in Peers, Restart(p) PROVE TablesGuarded' /\ PacketsGuarded'
    <2>1. \A q \in Peers : Guarded(NoEntries[q], NoEntries[q], p, q)
      BY DEF Guarded, NoEntries
    <2> QED BY <1>0, <1>3, <2>1, GuardedRow, GuardedStays DEF Restart
  <1>4. ASSUME NEW p \in Peers, Tick(p) PROVE TablesGuarded' /\ PacketsGuarded'
    <2> DEFINE cs == [q \in Peers |-> AgedConnection(conns[p][q])]
               ws == [q \in Peers |-> AgedPending(pending[p][q])]
    <2>1. /\ conns' = [conns EXCEPT ![p] = cs] /\ pending' = [pending EXCEPT ![p] = ws]
          /\ PacketsGuarded'
      BY <1>0, <1>4, GuardedStays DEF Tick
    <2>2. ASSUME NEW q \in Peers PROVE Guarded(cs[q], ws[q], p, q)
      <3>1. conns[p][q] = None => cs[q] = None
        BY DEF AgedConnection
      <3>2. ws[q] # None => pending[p][q] # None /\ ws[q].dir = pending[p][q].dir
        BY <1>a DEF AgedPending, PendingConnections
      <3> QED BY <1>a, <3>1, <3>2 DEF Guarded
    <2> HIDE DEF cs, ws
    <2> QED BY <1>0, <2>1, <2>2, GuardedRow
  <1>5. ASSUME NEW p \in Peers, Update(p) PROVE TablesGuarded' /\ PacketsGuarded'
    <2> DEFINE cs == [q \in Peers |-> MaintainedConnection(conns[p][q])]
               ws == [q \in Peers |-> MaintainedPending(pending[p][q])]
    <2>1. conns' = [conns EXCEPT ![p] = cs] /\ pending' = [pending EXCEPT ![p] = ws]
      BY <1>5 DEF Update
    <2>2. ASSUME NEW q \in Peers PROVE Guarded(cs[q], ws[q], p, q)
      <3>1. conns[p][q] = None => cs[q] = None
        BY DEF MaintainedConnection
      <3>2. ws[q] # None => pending[p][q] # None /\ ws[q].dir = pending[p][q].dir
        BY <1>a DEF MaintainedPending, PendingConnections
      <3> QED BY <1>a, <3>1, <3>2 DEF Guarded
    <2>3. \A m \in net' : m \in net \/ m.type \in {"Keepalive", "Disconnect"}
                          \/ (m.type = "Request" /\ m.protocol = Protocol(m.from))
      BY <1>5 DEF Update, Plain, Request
    <2>4. PacketsGuarded'
      BY <1>0, <2>3 DEF ProtocolInv, PacketsGuarded, Allowed, Protocol
    <2> HIDE DEF cs, ws
    <2> QED BY <1>0, <2>1, <2>2, <2>4, GuardedRow
  <1>6. ASSUME NEW m \in net, Receive(m) PROVE TablesGuarded' /\ PacketsGuarded'
    BY <1>0, <1>6, ReceiveGuarded
  <1>7. ASSUME NEW m \in net, Lose(m) PROVE TablesGuarded' /\ PacketsGuarded'
    BY <1>0, <1>7, GuardedStays DEF Lose
  <1>8. CASE UNCHANGED vars
    BY <1>0, <1>8, GuardedStays DEF vars
  <1> QED BY <1>1, <1>2, <1>3, <1>4, <1>5, <1>6, <1>7, <1>8, HandshakeAssumption DEF Next

\* No connection ever joins peers of different protocols, whatever order calls,
\* requests and delayed answers come in (handleConnectionRequest's check is the
\* only one, and it is enough).
THEOREM Refusal == Spec => []ForeignRefused
  <1>1. Init => TablesGuarded /\ PacketsGuarded
    BY DEF Init, TablesGuarded, PacketsGuarded, Guarded, NoEntries
  <1>2. TypeInv /\ TablesGuarded => ForeignRefused
    BY DEF TablesGuarded, ForeignRefused, Guarded, Allowed, Connected
  <1> QED BY <1>1, <1>2, TypeInit, TypeStep, ProtocolStep, PTL DEF Spec, ProtocolInv
=============================================================================

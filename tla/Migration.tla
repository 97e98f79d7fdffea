----------------------------- MODULE Migration ------------------------------
(***************************************************************************)
(* Connections that follow their clients to new addresses (NovaNet/Peer/   *)
(* Migration.hs, called by processDataPacket of NovaNet/Peer.hs): a data   *)
(* packet from an unknown address whose number is near a connection's own  *)
(* moves that connection there, unless it has moved a moment ago.          *)
(*                                                                         *)
(* The policy is MigrationEnabled and there is an encryption key; without  *)
(* either nothing ever moves.  Addresses are numbers, in the order of the  *)
(* map npConnections; a connection is named by its client's salt.          *)
(***************************************************************************)
EXTENDS Integers, FiniteSets, SeqNum

CONSTANTS
    Addresses,          \* addresses clients may send from
    Salts,              \* connClientSalt of the connections there are
    MaxDistance,        \* ncMaxSequenceDistance
    MigrationCooldown,  \* migrationCooldownNs
    MaxNumber           \* bound: packets sent by each end of a connection

ASSUME MigrationAssumption ==
    /\ Addresses \subseteq Int /\ IsFiniteSet(Addresses) /\ IsFiniteSet(Salts)
    /\ Cardinality(Salts) <= Cardinality(Addresses)
    /\ MaxDistance \in Nat /\ MigrationCooldown \in Nat \ {0} /\ MaxNumber \in Nat

VARIABLES
    places,             \* npConnections: address -> salt
    localSeq,           \* salt -> reLocalSeq of the connection
    cooldowns,          \* npMigrationCooldowns: salt -> age
    source,             \* salt -> the address its client sends from
    clientSeq,          \* salt -> packets its client has sent
    uplink,             \* packets that may arrive: address and number
    sinceMove           \* history: salt -> time since the connection's last move

migrationVars == <<places, localSeq, cooldowns, source, clientSeq, uplink, sinceMove>>

Established == {places[a] : a \in DOMAIN places}
At(salt)    == {a \in DOMAIN places : places[a] = salt}

\* Every client is connected from an address of its own; from which does not matter,
\* since clients roam.
MigrationInit ==
    /\ source = CHOOSE f \in [Salts -> Addresses] : \A s, t \in Salts : f[s] = f[t] => s = t
    /\ places = [a \in {source[s] : s \in Salts} |-> CHOOSE s \in Salts : source[s] = a]
    /\ localSeq = [s \in Salts |-> initialSeq] /\ cooldowns = [s \in {} |-> 0]
    /\ clientSeq = [s \in Salts |-> 0] /\ uplink = {}
    /\ sinceMove = [s \in Salts |-> MigrationCooldown]

ClientSends(s) ==
    /\ clientSeq[s] < MaxNumber
    /\ uplink' = uplink \cup {[from |-> source[s], num |-> Wire(clientSeq[s])]}
    /\ clientSeq' = [clientSeq EXCEPT ![s] = @ + 1]
    /\ UNCHANGED <<places, localSeq, cooldowns, source, sinceMove>>
ConnectionSends(s) ==
    /\ s \in Established /\ localSeq[s] < MaxNumber
    /\ localSeq' = [localSeq EXCEPT ![s] = NextSeq(@)]
    /\ UNCHANGED <<places, cooldowns, source, clientSeq, uplink, sinceMove>>

\* The address of a client changes, possibly to one that another had before.
Roam(s, a) ==
    /\ \A t \in Salts : source[t] # a
    /\ source' = [source EXCEPT ![s] = a]
    /\ UNCHANGED <<places, localSeq, cooldowns, clientSeq, uplink, sinceMove>>

\* findMigrationCandidate: the first in the order of addresses.
NeverCooling(s) == FALSE
IsCoolingDown(s) == s \in DOMAIN cooldowns /\ cooldowns[s] < MigrationCooldown
Candidates(pkt) ==
    {a \in DOMAIN places \ {pkt.from} :
        /\ SeqDist(pkt.num, localSeq[places[a]]) <= MaxDistance
        /\ ~IsCoolingDown(places[a])}
FindMigrationCandidate(pkt) ==
    CHOOSE a \in Candidates(pkt) : \A b \in Candidates(pkt) : a <= b

\* processDataPacket, of a packet from an unknown address.  The packet that moves
\* a connection is not processed further.
MigrateConnection(pkt) ==
    /\ pkt.from \notin DOMAIN places /\ Candidates(pkt) # {}
    /\ LET old  == FindMigrationCandidate(pkt)
           salt == places[old]
       IN  /\ places' = [a \in (DOMAIN places \cup {pkt.from}) \ {old} |->
                            IF a = pkt.from THEN salt ELSE places[a]]
           /\ cooldowns' = [s \in DOMAIN cooldowns \cup {salt} |->
                               IF s = salt THEN 0 ELSE cooldowns[s]]
           /\ sinceMove' = [sinceMove EXCEPT ![salt] = 0]
    /\ UNCHANGED <<localSeq, source, clientSeq, uplink>>

\* The connection at an address times out.
PlaceLost(a) ==
    /\ places' = [b \in DOMAIN places \ {a} |-> places[b]]
    /\ UNCHANGED <<localSeq, cooldowns, source, clientSeq, uplink, sinceMove>>

\* The last step of peerProcess forgets the cool-downs that are over.
ForgetCooldowns ==
    /\ cooldowns' = [s \in {t \in DOMAIN cooldowns : cooldowns[t] < MigrationCooldown} |-> cooldowns[s]]
    /\ UNCHANGED <<places, localSeq, source, clientSeq, uplink, sinceMove>>

Cooler(age) == IF age < MigrationCooldown THEN age + 1 ELSE age
PlacesAge ==
    /\ cooldowns' = [s \in DOMAIN cooldowns |-> Cooler(cooldowns[s])]
    /\ sinceMove' = [s \in Salts |-> Cooler(sinceMove[s])]
    /\ UNCHANGED <<places, localSeq, source, clientSeq, uplink>>

MigrationNext ==
    \/ \E s \in Salts : ClientSends(s) \/ ConnectionSends(s) \/ \E a \in Addresses : Roam(s, a)
    \/ \E pkt \in uplink : MigrateConnection(pkt)
    \/ \E a \in DOMAIN places : PlaceLost(a)
    \/ ForgetCooldowns
    \/ PlacesAge
MigrationSpec == MigrationInit /\ [][MigrationNext]_migrationVars
-----------------------------------------------------------------------------
MigrationTypeOK ==
    /\ DOMAIN places \subseteq Addresses /\ Established \subseteq Salts
    /\ \A s \in Salts : localSeq[s] \in Seqs /\ source[s] \in Addresses
    /\ DOMAIN cooldowns \subseteq Salts
    /\ \A s \in DOMAIN cooldowns : cooldowns[s] \in 0 .. MigrationCooldown

\* A connection is in one place, and when it moves it moves to an address that was
\* free and leaves no other connection displaced; and it stays where it is for
\* the cool-down, even if late packets keep arriving from where it was.
MovesKeepConnections ==
    [][/\ \A s \in Established \cap Established' :
            /\ Cardinality(At(s)') = 1
            /\ At(s)' # At(s) => sinceMove[s] >= MigrationCooldown
       /\ Established' # Established => DOMAIN places' \subseteq DOMAIN places]_migrationVars
=============================================================================

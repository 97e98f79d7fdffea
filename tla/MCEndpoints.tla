---------------------------- MODULE MCEndpoints ----------------------------
(***************************************************************************)
(* Two questions about what arrives at a peer, for TLC: does packet-level  *)
(* reliability account for every packet (Reliability), and do the tables   *)
(* of the handshake keep their limits when two clients compete for the     *)
(* last place (Handshake)?  Each behaviour is of one of the two; they      *)
(* share no state.                                                         *)
(***************************************************************************)
EXTENDS Reliability

CONSTANTS
    Peers, Callers, Foreign, MaxClients, MaxPending, RequestTimeout, RequestRetries,
    ConnectionTimeout, DisconnectTimeout, DisconnectRetries, Duplicates, MaxCalls,
    MaxSalt, None       \* the constants of Handshake

VARIABLES
    conns, pending, foreign, secret, net, view, salts, calls,   \* those of Handshake
    question            \* the part this behaviour is of

H == INSTANCE Handshake
handshakeVars == <<conns, pending, foreign, secret, net, view, salts, calls>>

EndpointsInit ==
    /\ Init /\ H!Init
    /\ question \in {"packets", "admission"}
EndpointsNext ==
    /\ UNCHANGED question
    /\ \/ question = "packets" /\ Next /\ UNCHANGED handshakeVars
       \/ question = "admission" /\ H!Next /\ UNCHANGED vars
EndpointsSpec == EndpointsInit /\ [][EndpointsNext]_<<vars, handshakeVars, question>>

\* A server's tables never hold more than it has place for together, two clients'
\* requests, answers and disconnections interleaving (see Handshake).
AdmissionBound == H!AdmissionBound
=============================================================================

------------------------------ MODULE Delivery ------------------------------
(***************************************************************************)
(* What a channel promises the application, whatever the network does: the *)
(* delivery guarantees that DeliveryMode names (NovaNet/Types.hs).         *)
(* Messages are numbered in the order the application sent them.           *)
(***************************************************************************)
EXTENDS Naturals, Sequences, SequencesExt, FiniteSets

CONSTANT Start
VARIABLES
    mode,           \* the channel's delivery mode, which never changes
    sent,           \* messages sent so far
    delivered,      \* messages handed to the receiving application, in order
    gaveUp          \* the receiver has given up waiting for a missing message

DeliveryModes == {"Unreliable", "UnreliableSequenced", "ReliableUnordered",
                  "ReliableOrdered", "ReliableSequenced"}
isReliable(m)  == m \in {"ReliableUnordered", "ReliableOrdered", "ReliableSequenced"}
isSequenced(m) == m \in {"UnreliableSequenced", "ReliableSequenced"}
isOrdered(m)   == m = "ReliableOrdered"

AtMostOnce(d)   == IsInjective(d)
Increasing(d)   == \A i, j \in DOMAIN d : i < j => d[i] < d[j]
GapFree(d)      == \A i \in DOMAIN d : d[i] = i - 1

\* An ordered channel is gap-free until it gives up on a missing message; from
\* then on it promises no more than that nothing is delivered twice.
Kept(d, gave) ==
    CASE isSequenced(mode)          -> Increasing(d)
      [] mode = "ReliableUnordered" -> AtMostOnce(d)
      [] isOrdered(mode)            -> IF gave THEN AtMostOnce(d) ELSE GapFree(d)
      [] OTHER                      -> TRUE

\* The first Start messages have already been sent and delivered.
Init ==
    /\ mode \in DeliveryModes
    /\ sent = Start /\ delivered = [i \in 1 .. Start |-> i - 1] /\ gaveUp = FALSE

\* A large message takes a number for each of its pieces too.
Send == sent' > sent /\ UNCHANGED <<mode, delivered, gaveUp>>

\* One step may deliver several messages, and give up just before it does.
Deliver ==
    /\ IsStrictPrefix(delivered, delivered')
    /\ \A i \in DOMAIN delivered' : delivered'[i] < sent
    /\ gaveUp' \in {gaveUp, TRUE} /\ (gaveUp' # gaveUp => isOrdered(mode))
    /\ Kept(delivered', gaveUp')
    /\ UNCHANGED <<mode, sent>>

Next == Send \/ Deliver

Spec == Init /\ [][Next]_<<mode, sent, delivered, gaveUp>>
=============================================================================

----------------------------- MODULE Simulator ------------------------------
(***************************************************************************)
(* The network simulator (NovaNet/Simulator.hs): every packet may be lost, *)
(* must fit a bandwidth given by a bucket of tokens, is delayed or handed  *)
(* back at once, and may be doubled.  Random numbers are choices; a token  *)
(* is a byte, and time has PerSecond units to a second.                    *)
(***************************************************************************)
EXTENDS Order, Sequences

CONSTANTS
    SimSizes,               \* sizes of packets
    BytesPerUnit,           \* simBandwidthLimitBytesPerSec, for a unit of time
    PerSecond,              \* units of time to a second
    SimDelays,              \* total delays, latency with jitter and reordering
    DuplicateDelays,        \* what a duplicate may be late; empty if there are none
    MaxSimPackets,          \* bound: packets processed
    MaxSimTime              \* bound: time since the start

ASSUME SimulatorAssumption ==
    /\ SimSizes \subseteq Nat \ {0} /\ BytesPerUnit \in Nat /\ PerSecond \in Nat \ {0}
    /\ SimDelays \subseteq Nat /\ DuplicateDelays \subseteq Nat
    /\ MaxSimPackets \in Nat /\ MaxSimTime \in Nat

VARIABLES
    delayed,            \* nsDelayedPackets, with the time left
    bucket,             \* nsTokenBucketTokens
    sinceRefill,        \* age of nsLastTokenRefill
    clock,              \* time since newNetworkSimulator
    offered,            \* history: packets processed
    passed,             \* history: bytes that passed the bandwidth limit
    out                 \* history: packet -> copies due, copies delivered

simVars == <<delayed, bucket, sinceRefill, clock, offered, passed, out>>

\* newNetworkSimulator
SimInit ==
    /\ delayed = <<>> /\ bucket = 0 /\ sinceRefill = 0 /\ clock = 0
    /\ offered = 0 /\ passed = 0 /\ out = <<>>

\* refillTokens
RefilledBucket ==
    LET tokens == bucket + sinceRefill * BytesPerUnit
    IN  IF tokens > BytesPerUnit * PerSecond THEN BytesPerUnit * PerSecond ELSE tokens

\* checkBandwidth: with a limit, refill, and spend if it is enough.
SpentNothing(size) == sinceRefill' = 0 /\ bucket' = RefilledBucket
Spent(size) ==
    IF BytesPerUnit = 0 THEN UNCHANGED <<bucket, sinceRefill>>
    ELSE sinceRefill' = 0 /\ bucket' = RefilledBucket - size
OverBandwidth(size) == BytesPerUnit # 0 /\ RefilledBucket < size

\* simulatorProcessSend: lost; over the bandwidth; or handed back at once (a delay
\* of 0) or delayed, and perhaps doubled.  A duplicate always waits.
NoCopies == [due |-> 0, delivered |-> 0]
LosePacket ==
    /\ out' = Append(out, NoCopies)
    /\ UNCHANGED <<delayed, bucket, sinceRefill, passed>>
Drop(size) ==
    /\ OverBandwidth(size)
    /\ sinceRefill' = 0 /\ bucket' = RefilledBucket
    /\ out' = Append(out, NoCopies)
    /\ UNCHANGED <<delayed, passed>>
Pass(size, delay, extra) ==
    LET n == offered + 1
    IN  /\ ~OverBandwidth(size) /\ Spent(size)
        /\ passed' = passed + size
        /\ delayed' = delayed
               \o (IF delay = 0 THEN <<>> ELSE <<[packet |-> n, left |-> delay]>>)
               \o [i \in DOMAIN extra |-> [packet |-> n, left |-> delay + extra[i]]]
        /\ out' = Append(out, [due |-> 1 + Len(extra), delivered |-> IF delay = 0 THEN 1 ELSE 0])
ProcessSend(size) ==
    /\ offered < MaxSimPackets
    /\ offered' = offered + 1
    /\ \/ LosePacket
       \/ Drop(size)
       \/ \E delay \in SimDelays, extra \in {<<>>} \cup {<<e>> : e \in DuplicateDelays} :
            Pass(size, delay, extra)
    /\ UNCHANGED clock

\* simulatorReceiveReady
IsDue             == {i \in DOMAIN delayed : delayed[i].left = 0}
StillDelayed      == DOMAIN delayed \ IsDue
CopiesOf(pkts, n) == Cardinality({i \in DOMAIN pkts : pkts[i].packet = n})
ReceiveReady ==
    LET ready == Picked(delayed, IsDue)
    IN  /\ delayed' = Picked(delayed, StillDelayed)
        /\ out' = [n \in DOMAIN out |->
               [out[n] EXCEPT !.delivered = @ + CopiesOf(ready, n)]]
        /\ UNCHANGED <<bucket, sinceRefill, clock, offered, passed>>

SimTime ==
    /\ clock < MaxSimTime
    /\ clock' = clock + 1 /\ sinceRefill' = sinceRefill + 1
    /\ delayed' = [i \in DOMAIN delayed |->
                      [delayed[i] EXCEPT !.left = IF @ = 0 THEN 0 ELSE @ - 1]]
    /\ UNCHANGED <<bucket, offered, passed, out>>

SimNext ==
    \/ \E size \in SimSizes : ProcessSend(size)
    \/ ReceiveReady
    \/ SimTime
SimSpec == SimInit /\ [][SimNext]_simVars
-----------------------------------------------------------------------------
SimTypeOK ==
    /\ bucket \in 0 .. BytesPerUnit * PerSecond
    /\ sinceRefill \in 0 .. clock /\ clock \in 0 .. MaxSimTime
    /\ offered \in 0 .. MaxSimPackets /\ Len(out) = offered

\* In all the time since the start no more bytes pass than the bandwidth allows, what
\* the bucket holds for later included.
BandwidthHeld ==
    BytesPerUnit > 0 => passed + bucket <= (clock - sinceRefill) * BytesPerUnit

\* Every copy that is due was delivered or is still delayed, and no other.
CopiesConserved ==
    \A n \in DOMAIN out : out[n].due = out[n].delivered + CopiesOf(delayed, n)
=============================================================================

-------------------------------- MODULE Cwnd --------------------------------
(***************************************************************************)
(* Congestion control by window (cbits/nn_congestion.c, nn_cong_cwnd) as a *)
(* connection drives it: packets leave while they fit the window           *)
(* (Connection.hs, processChannelOutput), and every header that comes back *)
(* (processIncomingHeader, cbits/nn_ack_process.c) acknowledges some of    *)
(* the tracked ones and reports others missing.                            *)
(*                                                                         *)
(* Packets are named by their number n \in Nat, written modulo 2*Half; the *)
(* peer and the network are the set of packets that have arrived.  Bytes   *)
(* are whole; what the avoidance phase adds is rounded down.               *)
(***************************************************************************)
EXTENDS SeqNum, Sequences, FiniteSets, FiniteSetsExt, Functions

CONSTANTS
    PacketSizes,        \* sizes of packets
    Mss,
    InitialMss, MinMss, \* NN_CWND_INITIAL_MSS, NN_CWND_MIN_MSS
    DefaultThreshold,   \* NN_CWND_SSTHRESH_DEFAULT
    IdleAfter,          \* NN_CWND_IDLE_RTOS round trips
    AckBits,            \* NN_ACK_BITFIELD_BITS
    NackThreshold,      \* NN_FAST_RETRANSMIT_THRESHOLD
    MaxPackets          \* bound: packets sent

ASSUME CwndAssumption ==
    /\ PacketSizes \subseteq Nat \ {0} /\ Mss \in Nat \ {0}
    /\ MinMss \in Nat \ {0} /\ InitialMss \in Nat /\ MinMss <= InitialMss
    /\ DefaultThreshold \in Nat /\ InitialMss * Mss < DefaultThreshold
    /\ IdleAfter \in Nat \ {0} /\ AckBits \in Nat /\ NackThreshold \in Nat
    /\ MaxPackets \in Nat /\ MaxPackets <= SeqSpace

VARIABLES
    cwnd,           \* nn_cong_cwnd: phase, window (its cwnd), ssthresh, inFlight, recoverySeq
    idle,           \* age of last_activity_ns, counted up to IdleAfter
    measured,       \* srtt_ns > 0
    packets,        \* the sizes of the packets sent; the next number is Len(packets)
    records,        \* the sent ring: tracked packets that were not acknowledged ->
                    \* nack_count, counted up to NackThreshold
    arrived         \* packets that reached the peer

cwndVars == <<cwnd, idle, measured, packets, records, arrived>>

SentPackets   == 0 .. (Len(packets) - 1)
PacketSize(n) == packets[n + 1]
Bytes(S)      == SumFunctionOnSet([n \in S |-> PacketSize(n)], S)
Floor         == MinMss * Mss

CwndInit ==
    /\ cwnd = [phase |-> "slow start", window |-> InitialMss * Mss,
               ssthresh |-> DefaultThreshold, inFlight |-> 0, recoverySeq |-> 0]
    /\ idle = 0 /\ measured = FALSE
    /\ packets = <<>> /\ records = [n \in {} |-> 0]
    /\ arrived = {}

-----------------------------------------------------------------------------
\* The functions of nn_congestion.c, on a controller c.

AtMost(x, high) == IF x > high THEN high ELSE x
AtLeast(x, low) == IF x < low THEN low ELSE x

\* nn_cong_cwnd_can_send
CanSend(c, size) == c.inFlight + size <= c.window

\* nn_cong_cwnd_on_ack
Grown(c, bytes) ==
    IF c.phase = "slow start" THEN c.window + bytes
    ELSE IF c.phase = "avoidance" THEN c.window + (Mss * bytes) \div c.window
    ELSE c.window
OnAckSlow(c, bytes) == [c EXCEPT !.window = AtLeast(Grown(c, bytes), Floor)]
OnAck(c, bytes) ==
    [c EXCEPT !.window = AtLeast(Grown(c, bytes), Floor),
              !.phase = IF @ = "slow start" /\ Grown(c, bytes) >= c.ssthresh
                        THEN "avoidance" ELSE @]

\* nn_cong_cwnd_on_ack_seq
OnAckSeq(c, seq, bytes) ==
    [c EXCEPT !.inFlight = AtLeast(@ - bytes, 0),
              !.phase = IF @ = "recovery" /\ SeqGt(seq, c.recoverySeq)
                        THEN "avoidance" ELSE @]

\* nn_cong_cwnd_on_loss
HalfUnfloored(window) == window \div 2
HalfWindow(window)    == AtLeast(window \div 2, Floor)
OnLoss(c, seq) ==
    IF c.phase = "recovery" THEN c
    ELSE [c EXCEPT !.ssthresh = HalfWindow(c.window), !.window = HalfWindow(c.window),
                   !.phase = "recovery", !.recoverySeq = seq]

\* nn_cong_cwnd_check_idle, the first part of every frame
CheckIdle(c, age) ==
    IF measured /\ age >= IdleAfter
    THEN [c EXCEPT !.phase = "slow start", !.window = InitialMss * Mss,
                   !.ssthresh = DefaultThreshold]
    ELSE c

-----------------------------------------------------------------------------
\* A frame in which a message leaves; only those of reliable channels are
\* recorded in the sent ring.
SendPacket(size, reliable) ==
    LET c == CheckIdle(cwnd, idle)
        n == Len(packets)
    IN  /\ n < MaxPackets /\ CanSend(c, size)
        /\ cwnd' = [c EXCEPT !.inFlight = @ + size]
        /\ idle' = 0
        /\ packets' = Append(packets, size)
        /\ records' = [k \in DOMAIN records \cup (IF reliable THEN {n} ELSE {})
                          |-> IF k = n THEN 0 ELSE records[k]]
        /\ UNCHANGED <<measured, arrived>>

\* A frame in which nothing leaves, one unit of time after the last.
PassTime ==
    /\ idle' = IF idle < IdleAfter THEN idle + 1 ELSE idle
    /\ cwnd' = CheckIdle(cwnd, idle')
    /\ UNCHANGED <<measured, packets, records, arrived>>

Arrive(n) ==
    /\ arrived' = arrived \cup {n}
    /\ UNCHANGED <<cwnd, idle, measured, packets, records>>

\* The headers the peer may have written by now: the newest number it has and,
\* of the AckBits before it, those that had arrived.  Before anything arrives
\* it acknowledges number 0.
Window(high) == {n \in 0 .. (high - 1) : high - n <= AckBits}
Headers == {h \in (arrived \cup {0}) \X SUBSET arrived : h[2] \subseteq Window(h[1])}

\* The retransmit_seq of nn_ack_process: the oldest record reported missing
\* often enough, and 0 if there is none.
RetransmitSeq(nacks, missing) ==
    LET fast == {n \in missing : nacks[n] >= NackThreshold}
    IN  IF fast = {} THEN 0 ELSE Wire(Min(fast))

ReleasedUntracked(named) == SentPackets \cap named
Released(named)          == DOMAIN records \cap named

\* processIncomingHeader
Header(high, got) ==
    LET released == Released(got \cup {high})
        missing  == (DOMAIN records \cap Window(high)) \ got
        nacks    == [n \in DOMAIN records |->
                        IF n \in missing THEN AtMost(records[n] + 1, NackThreshold)
                        ELSE records[n]]
        c        == OnAckSeq(OnAck(cwnd, Bytes(released)), Wire(high), Bytes(released))
    IN  /\ cwnd' = IF missing = {} THEN c ELSE OnLoss(c, RetransmitSeq(nacks, missing))
        /\ idle' = IF missing # {} /\ c.phase # "recovery" THEN 0 ELSE idle
        /\ measured' = (measured \/ high \in DOMAIN records)
        /\ records' = [n \in DOMAIN records \ released |-> nacks[n]]
        /\ UNCHANGED <<packets, arrived>>

CwndNext ==
    \/ \E size \in PacketSizes, reliable \in BOOLEAN : SendPacket(size, reliable)
    \/ PassTime
    \/ \E n \in SentPackets \ arrived : Arrive(n)
    \/ \E h \in Headers : Header(h[1], h[2])

CwndSpec == CwndInit /\ [][CwndNext]_cwndVars
-----------------------------------------------------------------------------
CwndTypeOK ==
    /\ cwnd.phase \in {"slow start", "avoidance", "recovery"}
    /\ cwnd.window \in Nat /\ cwnd.window >= Floor
    /\ cwnd.ssthresh \in Nat /\ cwnd.ssthresh >= Floor
    /\ cwnd.inFlight \in Nat /\ cwnd.recoverySeq \in Seqs
    /\ idle \in 0 .. IdleAfter /\ measured \in BOOLEAN
    /\ packets \in Seq(PacketSizes) /\ Len(packets) <= MaxPackets
    /\ DOMAIN records \subseteq SentPackets /\ arrived \subseteq SentPackets

\* The phase says where the window stands to the slow-start threshold: below
\* it, on it or above it, through every acknowledgement, loss and idle restart.
PhaseAgrees ==
    /\ cwnd.phase = "slow start" => cwnd.window < cwnd.ssthresh
    /\ cwnd.phase = "avoidance"  => cwnd.window >= cwnd.ssthresh
    /\ cwnd.phase = "recovery"   => cwnd.window = cwnd.ssthresh

\* Whatever is acknowledged in whatever order, the count of bytes in flight
\* never falls below what was sent reliably and is still unacknowledged.
NeverUndercounts == Bytes(DOMAIN records) <= cwnd.inFlight

\* The bytes in flight are bytes of packets that have not arrived or that the
\* sender still wants acknowledged.
InFlightIsReal == cwnd.inFlight <= Bytes((SentPackets \ arrived) \cup DOMAIN records)

=============================================================================

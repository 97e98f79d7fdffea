-------------------------------- MODULE Aimd --------------------------------
(***************************************************************************)
(* Congestion control by rate (cbits/nn_congestion.c, nn_cong_aimd) as the *)
(* frame of a connection drives it (Connection.hs, updateConnected): a     *)
(* send rate that grows slowly in good conditions and is halved in bad     *)
(* ones, and a budget of packets the rate earns.                           *)
(*                                                                         *)
(* The code's doubles are fixed-point numbers, `One' to a packet; time is  *)
(* counted in units, `Hz' to a second, and kept as ages.                   *)
(***************************************************************************)
EXTENDS Integers

CONSTANTS
    One,            \* units of rate and of budget to one packet
    Hz,             \* units of time to one second
    BaseRate,       \* ncSendRate, in packets per second
    MaxMultiplier,  \* NN_CONG_AIMD_MAX_MULTIPLIER
    RecoveryMin, RecoveryMax,   \* NN_CONG_RECOVERY_MIN_NS, _MAX_NS
    DoubleWithin,   \* NN_CONG_RECOVERY_DOUBLE_NS
    HalveAfter,     \* NN_CONG_RECOVERY_HALVE_NS
    MaxFrame,       \* bound: units of time between two frames
    MaxIdle,        \* bound: ages of the last send are counted up to this
    MaxWaiting      \* bound: messages that wait to be sent

ASSUME AimdAssumption ==
    /\ One \in Nat \ {0} /\ Hz \in Nat \ {0} /\ BaseRate \in Nat \ {0}
    /\ MaxMultiplier \in Nat \ {0}
    /\ RecoveryMin \in Nat \ {0} /\ RecoveryMax \in Nat /\ RecoveryMin <= RecoveryMax
    /\ DoubleWithin \in Nat /\ HalveAfter \in Nat \ {0}
    /\ MaxFrame \in Nat \ {0} /\ MaxIdle \in Nat \ {0} /\ MaxWaiting \in Nat

VARIABLES
    mode,           \* "good" or "bad"
    rate,           \* send_rate
    budget,         \* budget
    recovery,       \* recovery_time_ns
    sinceBad,       \* age of recovery_start_ns
    sinceGood,      \* age of last_good_ns, or Unset
    sinceSend,      \* age of connLastSendTime
    congested,      \* whether loss or the round trip is over its threshold
    waiting         \* messages in connOutgoing

aimdVars == <<mode, rate, budget, recovery, sinceBad, sinceGood, sinceSend, congested, waiting>>

Smaller(a, b) == IF a < b THEN a ELSE b
Larger(a, b)  == IF a > b THEN a ELSE b
Clamp(x)      == Smaller(Larger(x, RecoveryMin), RecoveryMax)

MinRate == One
MaxRate == BaseRate * MaxMultiplier * One
Horizon == Larger(RecoveryMax, DoubleWithin)    \* ages of the bad mode end here
Unset   == -1

\* A recovery_start_ns of 0, never, is one beyond the horizon.
AimdInit ==
    /\ mode = "good" /\ rate = BaseRate * One /\ budget = 0
    /\ recovery = RecoveryMin /\ sinceBad = Horizon /\ sinceGood = Unset
    /\ sinceSend = 0 /\ congested = FALSE /\ waiting = 0

-----------------------------------------------------------------------------
\* The four cases of nn_cong_aimd_tick, d after the one before and, as its
\* caller counts, dt after the last send.

HalvedRateUnbounded(r) == r \div 2
HalvedRate(r)          == Larger(r \div 2, MinRate)
Doubled(t)             == Clamp(t * 2)
HalvedUnclamped(t)     == t \div 2
Halved(t)              == Clamp(t \div 2)

Relapse(d)       == sinceBad + d < DoubleWithin

Worsen(d) ==
    /\ mode = "good" /\ congested
    /\ mode' = "bad" /\ rate' = HalvedRate(rate)
    /\ recovery' = IF Relapse(d) THEN Doubled(recovery) ELSE recovery
    /\ sinceBad' = 0 /\ sinceGood' = Unset

Thrive(d, dt) ==
    LET good == IF sinceGood = Unset THEN 0 ELSE sinceGood + d
    IN  /\ mode = "good" /\ ~congested
        /\ rate' = Smaller(rate + (One * dt) \div Hz, MaxRate)
        /\ recovery' = IF good >= HalveAfter THEN Halved(recovery) ELSE recovery
        /\ sinceGood' = IF good >= HalveAfter THEN 0 ELSE good
        /\ sinceBad' = Smaller(sinceBad + d, Horizon)
        /\ UNCHANGED mode

RecoveredSinceTick(d) == ~congested /\ d >= recovery
Recovered(d)          == ~congested /\ sinceBad + d >= recovery

Bad(d) ==
    /\ mode = "bad"
    /\ sinceBad' = Smaller(sinceBad + d, Horizon)
    /\ \/ Recovered(d) /\ mode' = "good" /\ sinceGood' = 0
       \/ ~Recovered(d) /\ UNCHANGED <<mode, sinceGood>>
    /\ UNCHANGED <<rate, recovery>>

\* The budget is refilled and then spent, a packet at a time, by
\* processChannelOutput.
Refilled(r, dt)           == Smaller(budget + (r * dt) \div Hz, r)

Spend(b, dt) ==
    LET sent == Smaller(waiting, b \div One)
    IN  /\ budget' = b - sent * One
        /\ waiting' = waiting - sent
        /\ sinceSend' = IF sent > 0 THEN 0 ELSE Smaller(dt, MaxIdle)

\* updateConnected
Frame(d) ==
    LET dt == sinceSend + d
    IN  /\ Worsen(d) \/ Thrive(d, dt) \/ Bad(d)
        /\ Spend(Refilled(rate', dt), dt)
        /\ UNCHANGED congested

\* sendMessage, from the application
Offer ==
    /\ waiting < MaxWaiting
    /\ waiting' = waiting + 1
    /\ UNCHANGED <<mode, rate, budget, recovery, sinceBad, sinceGood, sinceSend, congested>>

\* Losses and round trips come and go.
Weather ==
    /\ congested' = ~congested
    /\ UNCHANGED <<mode, rate, budget, recovery, sinceBad, sinceGood, sinceSend, waiting>>

AimdNext ==
    \/ \E d \in 1 .. MaxFrame : Frame(d)
    \/ Offer
    \/ Weather

AimdSpec     == AimdInit /\ [][AimdNext]_aimdVars
AimdFairSpec == AimdSpec /\ WF_aimdVars(\E d \in 1 .. MaxFrame : Frame(d))
-----------------------------------------------------------------------------
AimdTypeOK ==
    /\ mode \in {"good", "bad"} /\ congested \in BOOLEAN
    /\ rate \in Nat /\ budget \in Nat
    /\ recovery \in RecoveryMin .. RecoveryMax
    /\ sinceBad \in 0 .. Horizon /\ sinceGood \in Nat \cup {Unset}
    /\ sinceSend \in 0 .. MaxIdle /\ waiting \in 0 .. MaxWaiting

\* The rate stays between its two ends and no more packets may leave at once
\* than it allows in a second, also right after it has been halved.
BudgetWithinRate ==
    /\ MinRate <= rate /\ rate <= MaxRate
    /\ 0 <= budget /\ budget <= rate

\* Two halvings of the rate are at least the shortest recovery time apart,
\* however the recovery time was doubled and halved in between.
HalvingsSpaced == [][mode = "good" /\ mode' = "bad" => sinceBad >= RecoveryMin]_aimdVars

\* The recovery time is doubled only while it is shorter than the time within
\* which a relapse doubles it, so it stays below twice that, and the code's cap
\* of a minute is never met.
RecoveryStaysShort == recovery < 2 * Larger(DoubleWithin, RecoveryMin)

\* Whatever the conditions, a message that waits does not wait forever: the
\* slowest rate still earns a packet.
WaitingIsSent == waiting > 0 ~> sinceSend = 0

\* Once the conditions stay good the controller leaves the bad mode for good.
ModeComesBack == <>[]~congested => <>[](mode = "good")
=============================================================================

----------------------------- MODULE Estimators -----------------------------
(***************************************************************************)
(* What an endpoint measures of its path as processIncomingAck feeds it:   *)
(* the smoothed round-trip time with the time-out made from it             *)
(* (cbits/nn_rtt.c), and the fraction of losses among the last outcomes    *)
(* (the loss window of cbits/nn_seq.c).  Both start afresh when the path   *)
(* changes (resetMetrics).                                                 *)
(***************************************************************************)
EXTENDS Integers, Sequences, FiniteSets

CONSTANTS
    Samples,                \* round-trip times
    RtoMin, RtoMax,         \* NN_RTT_RTO_MIN_NS, NN_RTT_RTO_MAX_NS
    Granularity,            \* NN_RTT_GRANULARITY_NS
    LossWindowSize,         \* LOSS_WINDOW_SIZE
    MaxOutcomes             \* bound: outcomes recorded

ASSUME EstimatorsAssumption ==
    /\ Samples \subseteq Nat
    /\ RtoMin \in Nat /\ RtoMax \in Nat /\ RtoMin <= RtoMax /\ Granularity \in Nat \ {0}
    /\ LossWindowSize \in Nat \ {0} /\ MaxOutcomes \in Nat

VARIABLES
    srtt, rttvar, rto,      \* nn_rtt; srtt is NoSample before the first
    least, most,            \* history: the least and the greatest sample so far
    lossBits, lossIndex, lossCount,     \* nn_loss_window
    outcomes                \* history: the outcomes recorded, TRUE for a loss

rttVars  == <<srtt, rttvar, rto, least, most>>
lossVars == <<lossBits, lossIndex, lossCount, outcomes>>

NoSample == -1

\* nn_rtt_init and nn_loss_window_init
RttInit ==
    srtt = NoSample /\ rttvar = 0 /\ rto = RtoMax /\ least = 0 /\ most = 0
LossInit ==
    /\ lossBits = [i \in 0 .. LossWindowSize - 1 |-> FALSE]
    /\ lossIndex = 0 /\ lossCount = 0 /\ outcomes = <<>>

\* nn_rtt_update.  The shifts divide, and each operand is shifted by itself.
Eighth(x)  == x \div 8
Quarter(x) == x \div 4
Gap(x, y)  == IF x < y THEN y - x ELSE x - y
SmoothedSum(x)  == IF srtt = NoSample THEN x ELSE srtt + Eighth(x)
Smoothed(x)     == IF srtt = NoSample THEN x ELSE srtt - Eighth(srtt) + Eighth(x)
Variation(x) ==
    IF srtt = NoSample THEN x \div 2
    ELSE rttvar - Quarter(rttvar) + Quarter(Gap(srtt, x))
Within(x) == IF x < RtoMin THEN RtoMin ELSE IF x > RtoMax THEN RtoMax ELSE x
Timeout(s, v) == Within(s + (IF 4 * v > Granularity THEN 4 * v ELSE Granularity))
RttUpdate(x) ==
    /\ srtt' = Smoothed(x) /\ rttvar' = Variation(x)
    /\ rto' = Timeout(Smoothed(x), Variation(x))
    /\ least' = (IF srtt = NoSample \/ x < least THEN x ELSE least)
    /\ most' = (IF srtt = NoSample \/ x > most THEN x ELSE most)
RttReset ==
    /\ srtt' = NoSample /\ rttvar' = 0 /\ rto' = RtoMax /\ least' = 0 /\ most' = 0

\* nn_loss_window_record.  The index is a uint32_t, of whose range the window is a
\* divisor, so that its wrap-around does not show.
LossRecord(lost) ==
    /\ Len(outcomes) < MaxOutcomes
    /\ lossBits' = [lossBits EXCEPT ![lossIndex % LossWindowSize] = lost]
    /\ lossIndex' = lossIndex + 1
    /\ lossCount' = IF lossCount < LossWindowSize THEN lossCount + 1 ELSE lossCount
    /\ outcomes' = Append(outcomes, lost)
LossReset ==
    /\ lossBits' = [i \in 0 .. LossWindowSize - 1 |-> FALSE]
    /\ lossIndex' = 0 /\ lossCount' = 0 /\ outcomes' = <<>>

\* nn_loss_window_percent: losses counted among the bits in use.
LossesCounted == Cardinality({i \in 0 .. lossCount - 1 : lossBits[i]})

RttNext  == (\E x \in Samples : RttUpdate(x)) \/ RttReset
LossNext == (\E lost \in BOOLEAN : LossRecord(lost)) \/ LossReset
RttSpec  == RttInit /\ [][RttNext]_rttVars
LossSpec == LossInit /\ [][LossNext]_lossVars
-----------------------------------------------------------------------------
EstimatorsTypeOK ==
    /\ srtt \in Nat \cup {NoSample} /\ rttvar \in Nat /\ rto \in RtoMin .. RtoMax
    /\ least \in Nat /\ most \in Nat
    /\ DOMAIN lossBits = 0 .. LossWindowSize - 1
    /\ \A i \in DOMAIN lossBits : lossBits[i] \in BOOLEAN
    /\ lossIndex \in Nat /\ lossCount \in 0 .. LossWindowSize

\* Rounding each operand by itself never carries the smoothed time out of the range
\* of the samples by more than what an eighth rounds away, in either direction
\* and however many samples there are; and the time-out lies beyond it unless it
\* is at its cap.
SmoothedWithinSamples ==
    srtt # NoSample =>
        /\ 8 * Eighth(least) <= srtt /\ srtt <= 8 * Eighth(most) + 7
        /\ rto < RtoMax => srtt < rto

\* The losses counted are those among the latest outcomes, as many as fit.
LossIsExact ==
    LET recent == IF Len(outcomes) < LossWindowSize THEN Len(outcomes) ELSE LossWindowSize
    IN  /\ lossCount = recent
        /\ LossesCounted =
               Cardinality({i \in DOMAIN outcomes : i > Len(outcomes) - recent /\ outcomes[i]})
=============================================================================

----------------------------- MODULE Bandwidth ------------------------------
(***************************************************************************)
(* The bandwidth tracker of a connection (cbits/nn_bandwidth.c): a ring of *)
(* the latest transfers, and the rate over those of the last moments.      *)
(* Time is in milliseconds.                                                *)
(***************************************************************************)
EXTENDS Integers, Sequences, SequencesExt, FiniteSetsExt

CONSTANTS
    TransferSizes,      \* sizes of transfers
    MaxSamples,         \* NN_BANDWIDTH_MAX_SAMPLES
    WindowMs,           \* window_ms
    MaxTransfers,       \* bound: transfers recorded
    MaxMoment            \* bound: the time

ASSUME BandwidthAssumption ==
    /\ TransferSizes \subseteq Nat /\ MaxSamples \in Nat \ {0} /\ WindowMs \in Nat \ {0}
    /\ MaxTransfers \in Nat /\ MaxMoment \in Nat

VARIABLES
    ring,               \* timestamps and sizes
    head, sampleCount,  \* head, count
    moment,             \* the monotonic clock
    transfers           \* history: all that was recorded

bandwidthVars == <<ring, head, sampleCount, moment, transfers>>

\* nn_bandwidth_init
BandwidthInit ==
    /\ ring = [i \in 0 .. MaxSamples - 1 |-> [time |-> 0, size |-> 0]]
    /\ head = 0 /\ sampleCount = 0 /\ moment = 0 /\ transfers = <<>>

\* nn_bandwidth_record
BandwidthRecord(size) ==
    /\ Len(transfers) < MaxTransfers
    /\ ring' = [ring EXCEPT ![head % MaxSamples] = [time |-> moment, size |-> size]]
    /\ head' = head + 1
    /\ sampleCount' = (IF sampleCount < MaxSamples THEN sampleCount + 1 ELSE sampleCount)
    /\ transfers' = Append(transfers, [time |-> moment, size |-> size])
    /\ UNCHANGED moment

MomentPasses ==
    moment < MaxMoment /\ moment' = moment + 1 /\ UNCHANGED <<ring, head, sampleCount, transfers>>

\* nn_bandwidth_bps, as bytes over a time of at least a millisecond
Cutoff    == IF moment > WindowMs THEN moment - WindowMs ELSE 0
InUse     == {(head - sampleCount + i) % MaxSamples : i \in 0 .. sampleCount - 1}
AllSlots  == 0 .. MaxSamples - 1
InWindow  == {i \in InUse : ring[i].time >= Cutoff}
Volume(q, S) == SumFunctionOnSet([i \in S |-> q[i].size], S)
BandwidthBps ==
    LET total  == Volume(ring, InWindow)
        oldest == Min({ring[i].time : i \in InWindow} \cup {moment})
    IN  [bytes |-> total, over |-> IF moment - oldest < 1 THEN 1 ELSE moment - oldest]

BandwidthNext == (\E size \in TransferSizes : BandwidthRecord(size)) \/ MomentPasses
BandwidthSpec == BandwidthInit /\ [][BandwidthNext]_bandwidthVars
-----------------------------------------------------------------------------
\* The rate is that of the latest transfers, as many as the ring holds, that are not
\* older than the window, over the time since the first of them.
RateIsExact ==
    LET latest == {i \in DOMAIN transfers :
                      i > Len(transfers) - MaxSamples /\ transfers[i].time >= moment - WindowMs}
    IN  /\ BandwidthBps.bytes = Volume(transfers, latest)
        /\ latest # {} =>
              LET since == moment - transfers[Min(latest)].time
              IN  BandwidthBps.over = IF since = 0 THEN 1 ELSE since
=============================================================================

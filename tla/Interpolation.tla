--------------------------- MODULE Interpolation ----------------------------
(***************************************************************************)
(* The snapshots a client plays back, a delay behind the server (NovaNet/  *)
(* Replication/Interpolation.hs): late ones are dropped, the oldest make   *)
(* room, and what is shown lies between the two around the target time.    *)
(*                                                                         *)
(* Times are whole.  The state of the server at time t is StateAt(t),      *)
(* which bends, so that it shows between which snapshots one was drawn.    *)
(* An interpolated state is a fraction, [num, den].                        *)
(***************************************************************************)
EXTENDS Integers, Sequences, SequencesExt, FiniteSets, FiniteSetsExt

CONSTANTS
    Depths,             \* sbBufferDepth
    Delays,             \* sbPlaybackDelayMs
    ServerTimes,        \* timestamps of snapshots
    RenderTimes,        \* times at which the client samples
    MaxPushed           \* bound: snapshots pushed

ASSUME InterpolationAssumption ==
    /\ Depths \subseteq Nat \ {0} /\ Delays \subseteq Nat
    /\ ServerTimes \subseteq Int /\ RenderTimes \subseteq Int /\ MaxPushed \in Nat

VARIABLES
    buffered,           \* sbSnapshots, as the timestamps
    depth, delay,       \* sbBufferDepth, sbPlaybackDelayMs
    pushed              \* history: all that was pushed since the last reset

interpolationVars == <<buffered, depth, delay, pushed>>

StateAt(t) == t * t

\* newSnapshotBufferWithConfig
InterpolationInit ==
    /\ buffered = <<>> /\ pushed = <<>>
    /\ depth \in Depths /\ delay \in Delays

\* pushSnapshot
Trimmed(seq) ==
    IF Len(seq) > 2 * depth THEN SubSeq(seq, Len(seq) - 2 * depth + 1, Len(seq)) ELSE seq
PushSnapshot(t) ==
    /\ Len(pushed) < MaxPushed
    /\ pushed' = Append(pushed, t)
    /\ buffered' = IF buffered = <<>> THEN <<t>>
                    ELSE IF t <= Last(buffered) THEN buffered
                    ELSE Trimmed(Append(buffered, t))
    /\ UNCHANGED <<depth, delay>>

SnapshotReset ==
    buffered' = <<>> /\ pushed' = <<>> /\ UNCHANGED <<depth, delay>>
SetPlaybackDelay(d) ==
    delay' = d /\ UNCHANGED <<buffered, depth, pushed>>

-----------------------------------------------------------------------------
\* sampleSnapshot with findAndInterpolate: between the first two that have the target
\* between them, or at the end that is nearer.
NoState == [num |-> 0, den |-> 0]
Brackets(target) ==
    {i \in 1 .. Len(buffered) - 1 : buffered[i] <= target /\ target <= buffered[i + 1]}
Lerp(a, b, target) ==
    [num |-> StateAt(a) * (b - a) + (StateAt(b) - StateAt(a)) * (target - a), den |-> b - a]
Boundary(target) ==
    [num |-> StateAt(IF target > Last(buffered) THEN Last(buffered) ELSE Head(buffered)), den |-> 1]
SampleSnapshot(render) ==
    LET target == render - delay
    IN  IF Len(buffered) < 2 THEN NoState
        ELSE IF Brackets(target) = {} THEN Boundary(target)
        ELSE LET i == Min(Brackets(target)) IN Lerp(buffered[i], buffered[i + 1], target)

InterpolationNext ==
    \/ \E t \in ServerTimes : PushSnapshot(t)
    \/ SnapshotReset
    \/ \E d \in Delays : SetPlaybackDelay(d)
InterpolationSpec == InterpolationInit /\ [][InterpolationNext]_interpolationVars
-----------------------------------------------------------------------------
\* What is shown is drawn between the snapshots next to the target time on either side,
\* of the latest that were newer than all before them, as many as the buffer
\* keeps; and never beyond the first and the last.
SampledIsPlayback ==
    LET newer  == {pushed[i] : i \in {j \in DOMAIN pushed : \A k \in 1 .. j - 1 : pushed[k] < pushed[j]}}
        kept   == {t \in newer : Cardinality({u \in newer : u > t}) < 2 * depth}
    IN  \A render \in RenderTimes :
            LET target == render - delay
                shown  == SampleSnapshot(render)
                lower  == Max({t \in kept : t <= target} \cup {Min(kept)})
                upper  == Min({t \in kept : t >= target} \cup {Max(kept)})
            IN  IF Cardinality(kept) < 2 THEN shown = NoState
                ELSE IF lower >= upper THEN shown.num = StateAt(lower) * shown.den
                ELSE shown.num * (upper - lower) =
                       (StateAt(lower) * (upper - target) + StateAt(upper) * (target - lower)) * shown.den
=============================================================================

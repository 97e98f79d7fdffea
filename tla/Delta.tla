------------------------------- MODULE Delta --------------------------------
(***************************************************************************)
(* Replication by deltas (NovaNet/Replication/Delta.hs): the tracker of    *)
(* the sending side encodes each snapshot against the last one it knows    *)
(* acknowledged, and the baseline manager of the receiving side keeps what *)
(* it needs to decode.                                                     *)
(*                                                                         *)
(* A snapshot is its number n \in Nat; on the wire it is written modulo    *)
(* Numbers, the last of which is also the mark that no baseline was used.  *)
(* A delta is the pair of the snapshots it leads from and to, and applied  *)
(* to any other, or taken for a full state, it yields Garbled.  The        *)
(* network loses, reorders and repeats, but nothing is so late that the    *)
(* numbers have come round meanwhile (MaxSpan + MaxLag).                   *)
(***************************************************************************)
EXTENDS Order, Sequences, SequencesExt

CONSTANTS
    NoBaseline,         \* noBaseline, which is the highest number on the wire
    MaxPending,         \* dtMaxPending
    MaxBaselines,       \* bmMaxSnapshots
    BaselineTimeout,    \* bmTimeoutNs
    MaxLag,             \* bound: snapshots sent while one or its ack is on its way
    MaxSpan,            \* bound: how far a snapshot is from its baseline
    MaxSnapshots        \* bound: snapshots sent

ASSUME DeltaAssumption ==
    /\ NoBaseline \in Nat /\ MaxPending \in Nat \ {0} /\ MaxBaselines \in Nat \ {0}
    /\ BaselineTimeout \in Nat \ {0} /\ MaxSnapshots \in Nat
    /\ MaxLag \in Nat /\ MaxSpan \in Nat /\ MaxSpan + MaxLag <= NoBaseline + 1

VARIABLES
    snapshots,      \* snapshots encoded so far
    tracker,        \* DeltaTracker: pending and confirmed
    baselines,      \* bmSnapshots, with ages
    deltas,         \* encoded snapshots on their way
    acks,           \* acknowledgements on their way
    decoded         \* history: snapshots sent -> what they were decoded to

deltaVars == <<snapshots, tracker, baselines, deltas, acks, decoded>>

None    == -1
Garbled == -2
Numbers        == NoBaseline + 1
BaselineSeq(n) == n % Numbers
NewTracker     == [pending |-> <<>>, confirmed |-> None]

DeltaInit ==
    /\ snapshots = 0 /\ tracker = NewTracker /\ baselines = <<>>
    /\ deltas = {} /\ acks = {}
    /\ decoded = {}

-----------------------------------------------------------------------------
\* deltaEncode.  The oldest snapshot makes room in a full list.
Track(pending, n) ==
    Append(IF Len(pending) >= MaxPending THEN Tail(pending) ELSE pending, n)
Encode ==
    /\ snapshots < MaxSnapshots
    /\ tracker.confirmed # None => snapshots - tracker.confirmed <= MaxSpan
    /\ deltas' = deltas \cup
            {[to |-> snapshots, from |-> tracker.confirmed,
              base |-> IF tracker.confirmed = None THEN NoBaseline
                       ELSE BaselineSeq(tracker.confirmed)]}
    /\ tracker' = [tracker EXCEPT !.pending = Track(@, snapshots)]
    /\ snapshots' = snapshots + 1
    /\ UNCHANGED <<baselines, acks, decoded>>

\* deltaOnAck: the acknowledged snapshot is the new baseline, and what is older
\* is forgotten.
Matches(seq)   == {i \in DOMAIN tracker.pending : BaselineSeq(tracker.pending[i]) = seq}
Remaining(i)   == SubSeq(tracker.pending, i + 1, Len(tracker.pending))
DeltaOnAck(a) ==
    /\ snapshots - a <= MaxLag
    /\ IF Matches(BaselineSeq(a)) = {} THEN UNCHANGED tracker
       ELSE LET i == CHOOSE i \in Matches(BaselineSeq(a)) : \A j \in Matches(BaselineSeq(a)) : i <= j
            IN  tracker' = [pending |-> Remaining(i), confirmed |-> tracker.pending[i]]
    /\ UNCHANGED <<snapshots, baselines, deltas, acks, decoded>>

-----------------------------------------------------------------------------
\* getBaseline: the newest stored under the number, old or not; None if there
\* is none.
NewestStored(seq) == IF baselines = <<>> THEN None ELSE Last(baselines).snapshot
GetBaseline(seq) ==
    LET stored == {i \in DOMAIN baselines : baselines[i].seq = seq}
    IN  IF stored = {} THEN None
        ELSE baselines[CHOOSE i \in stored : \A j \in stored : j <= i].snapshot

\* pushBaseline: first what is too old goes, then the oldest if that is not enough.
NotExpired(bs) == Picked(bs, {i \in DOMAIN bs : bs[i].age < BaselineTimeout})
PushBaseline(n, got) ==
    LET cleaned == NotExpired(baselines)
        trimmed == IF Len(cleaned) >= MaxBaselines THEN Tail(cleaned) ELSE cleaned
    IN  Append(trimmed, [seq |-> BaselineSeq(n), snapshot |-> got, age |-> 0])

\* The mark tells a full state from a delta; apply is given the state it leads from.
FullState(d)     == d.from = None
Marked(d)        == d.base = NoBaseline
Usable(d)        == Marked(d) \/ GetBaseline(d.base) # None
Apply(d, state)  == IF state = d.from THEN d.to ELSE Garbled
ReadAsFull(d)    == IF FullState(d) THEN d.to ELSE Garbled
Decode(d)        == IF Marked(d) THEN ReadAsFull(d) ELSE Apply(d, GetBaseline(d.base))

\* The receiving application: what can be decoded is stored and acknowledged.
ReceiveDelta(d) ==
    /\ snapshots - d.to <= MaxLag
    /\ Usable(d)
    /\ decoded' = decoded \cup {<<d.to, Decode(d)>>}
    /\ baselines' = PushBaseline(d.to, Decode(d))
    /\ acks' = acks \cup {d.to}
    /\ UNCHANGED <<snapshots, tracker, deltas>>

\* baselineCleanup, one unit of time after the last.
BaselineCleanup ==
    /\ baselines' = NotExpired([i \in DOMAIN baselines |-> [baselines[i] EXCEPT !.age = @ + 1]])
    /\ UNCHANGED <<snapshots, tracker, deltas, acks, decoded>>

\* deltaReset and baselineReset, when a side starts afresh.
DeltaReset ==
    /\ tracker' = NewTracker
    /\ UNCHANGED <<snapshots, baselines, deltas, acks, decoded>>
BaselineReset ==
    /\ baselines' = <<>>
    /\ UNCHANGED <<snapshots, tracker, deltas, acks, decoded>>

DeltaNext ==
    \/ Encode
    \/ \E a \in acks : DeltaOnAck(a)
    \/ \E d \in deltas : ReceiveDelta(d)
    \/ BaselineCleanup
    \/ DeltaReset
    \/ BaselineReset

DeltaSpec == DeltaInit /\ [][DeltaNext]_deltaVars
-----------------------------------------------------------------------------
DeltaTypeOK ==
    /\ snapshots \in 0 .. MaxSnapshots
    /\ \A i \in DOMAIN tracker.pending : tracker.pending[i] \in 0 .. snapshots - 1
    /\ Len(tracker.pending) <= MaxPending
    /\ tracker.confirmed \in {None} \cup 0 .. snapshots - 1
    /\ Len(baselines) <= MaxBaselines
    /\ \A i \in DOMAIN baselines :
        baselines[i].age < BaselineTimeout /\ baselines[i].seq \in 0 .. NoBaseline

\* What the sender encodes against is a snapshot the receiver has had.
ConfirmedWasDecoded ==
    tracker.confirmed # None => \E d \in decoded : d[1] = tracker.confirmed

\* A delta against the snapshot whose number is the mark was taken for a full state.
Mistaken == {d \in deltas : ~FullState(d) /\ Marked(d) /\ <<d.to, Garbled>> \in decoded}

\* Whatever is decoded is the snapshot that was sent, until a delta is mistaken for a
\* full state: no delta is applied to another baseline than the one it was made against,
\* also when numbers have come round and either side has started afresh.
DecodedIsSent == ConfirmedWasDecoded /\ (Mistaken = {} => \A d \in decoded : d[2] = d[1])
=============================================================================

------------------------------- MODULE SeqNum -------------------------------
(***************************************************************************)
(* Circular sequence numbers (cbits/nn_seq.h, NovaNet/Types.hs).  Every    *)
(* packet, every channel message and every delta-compressed snapshot is    *)
(* numbered modulo 2^16; two numbers are compared by their distance on the *)
(* circle.  The code fixes Half = 32768; the modules that use this one     *)
(* shrink the circle so that TLC meets the wrap-around.                    *)
(***************************************************************************)
EXTENDS Integers

CONSTANT Half                \* NN_SEQ_HALF_RANGE

ASSUME HalfAssumption == Half \in Nat \ {0}

SeqSpace == 2 * Half
Seqs     == 0 .. (SeqSpace - 1)

initialSeq == 0

\* nextSeq: a Word16 increment.
NextSeq(s) == (s + 1) % SeqSpace

\* nn_seq_gt: at the distance of exactly Half the larger raw number wins.
SeqGt(s, t) ==
    \/ s > t /\ s - t <= Half
    \/ s < t /\ t - s > Half

\* nn_seq_diff: the signed distance from t to s.
SeqDiff(s, t) ==
    LET diff == s - t
    IN  IF diff > Half THEN diff - SeqSpace
        ELSE IF diff < -Half THEN diff + SeqSpace
        ELSE diff

SeqDist(s, t) == LET d == SeqDiff(s, t) IN IF d < 0 THEN -d ELSE d

\* The number on the wire of the n-th item.
Wire(n) == n % SeqSpace
=============================================================================

------------------------------- MODULE Slices -------------------------------
(***************************************************************************)
(* A message cut into fragments by the library's C interface               *)
(* (cbits/nn_fragment.c): how many there are, each of them built on its    *)
(* own, in any order, and its header read back at the other end.           *)
(***************************************************************************)
EXTENDS Integers, Sequences, SequencesExt

CONSTANTS
    SliceMessages,      \* messages: sequences of bytes
    SliceSizes,         \* max_payload
    MaxFragmentCount    \* NN_MAX_FRAGMENT_COUNT

ASSUME SlicesAssumption ==
    /\ \A msg \in SliceMessages : msg \in Seq(Nat)
    /\ SliceSizes \subseteq Nat /\ MaxFragmentCount \in Nat

VARIABLES
    whole,              \* the message, and what a slice may carry: [msg, max]
    sliceCount,             \* what nn_fragment_count returned, or NotCounted
    built,              \* the fragments written: [index, count, data]
    joined              \* the data read back, by index

sliceVars  == <<whole, sliceCount, built, joined>>
NotCounted == -2
Refused    == -1

\* nn_fragment_count
FragmentCount(len, max) ==
    IF len = 0 THEN 0
    ELSE IF max = 0 THEN Refused
    ELSE LET count == (len + max - 1) \div max
         IN  IF count > MaxFragmentCount THEN Refused ELSE count

Count ==
    /\ sliceCount = NotCounted
    /\ sliceCount' = FragmentCount(Len(whole.msg), whole.max)
    /\ UNCHANGED <<whole, built, joined>>

\* The headers that nn_fragment_write and nn_fragment_read accept
Valid(index, count) == count # 0 /\ index < count

\* nn_fragment_build: offset and length of the slice
SliceOf(index) ==
    LET offset == index * whole.max
    IN  SubSeq(whole.msg, offset + 1, Min({offset + whole.max, Len(whole.msg)}))
Build(index) ==
    /\ sliceCount > 0
    /\ Valid(index, sliceCount) /\ index * whole.max <= Len(whole.msg)
    /\ built' = built \cup {[index |-> index, count |-> sliceCount, data |-> SliceOf(index)]}
    /\ UNCHANGED <<whole, sliceCount, joined>>

\* nn_fragment_read; what follows the header is the slice.
Read(fragment) ==
    /\ Valid(fragment.index, fragment.count)
    /\ joined' = [i \in DOMAIN joined \cup {fragment.index} |->
                     IF i = fragment.index THEN fragment.data ELSE joined[i]]
    /\ UNCHANGED <<whole, sliceCount, built>>

SlicesInit ==
    /\ whole \in [msg : SliceMessages, max : SliceSizes]
    /\ sliceCount = NotCounted /\ built = {} /\ joined = <<>>
SlicesNext ==
    \/ Count
    \/ \E index \in 0 .. MaxFragmentCount : Build(index)
    \/ \E fragment \in built : Read(fragment)
SlicesSpec == SlicesInit /\ [][SlicesNext]_sliceVars

-----------------------------------------------------------------------------
\* The slices that were announced, each no larger than asked for and none of them empty,
\* are the message when they are put together, whatever the order they came in.
SlicesJoin ==
    /\ \A i \in DOMAIN joined : Len(joined[i]) \in 1 .. whole.max
    /\ sliceCount > 0 /\ DOMAIN joined = 0 .. sliceCount - 1 =>
           FlattenSeq([i \in 1 .. sliceCount |-> joined[i - 1]]) = whole.msg
=============================================================================

------------------------------ MODULE Fragment ------------------------------
(***************************************************************************)
(* Messages too large for a packet (NovaNet/Fragment.hs and the senders of *)
(* NovaNet/Peer.hs): one end splits them, the link loses, reorders and     *)
(* repeats the fragments, and the other end's assembler puts them together *)
(* within a bounded memory, forgetting what takes too long.                *)
(*                                                                         *)
(* A message is named by its id n \in Nat; of a fragment's data only the   *)
(* length matters, and where in the message it belongs is its index.       *)
(***************************************************************************)
EXTENDS Integers, Sequences, FiniteSets, Functions

CONSTANTS
    MessageSizes,       \* sizes of messages, the inner header included
    MaxFragPayload,     \* data bytes a fragment may carry
    MaxFragments,       \* fragMaxCount
    MaxBufferSize,      \* ncMaxReassemblyBufferSize
    FragmentTimeout,    \* ncFragmentTimeoutMs
    Copies,             \* times the link may deliver a fragment
    MaxFragmented       \* bound: messages sent

ASSUME FragmentAssumption ==
    /\ MessageSizes \subseteq Nat \ {0} /\ MaxFragPayload \in Nat \ {0}
    /\ MaxFragments \in Nat \ {0} /\ MaxBufferSize \in Nat \ {0}
    /\ FragmentTimeout \in Nat \ {0} /\ Copies \in Nat \ {0} /\ MaxFragmented \in Nat

VARIABLES
    messages,       \* the sizes of the messages sent; the next id is Len(messages)
    link,           \* fragments on their way -> copies that may still arrive
    buffers,        \* faBuffers: id -> FragmentBuffer
    currentSize,    \* faCurrentBufferSize
    stats,          \* faStatsCompleted, faStatsTimedOut, and buffers opened
    assembled,      \* history: messages handed on, each as its fragments' data
    received,       \* history: fragments that arrived
    dropped         \* history: messages of which a buffer was given up

fragmentVars == <<messages, link, buffers, currentSize, stats, assembled, received, dropped>>

SentMessages    == 0 .. (Len(messages) - 1)
MessageSize(n)  == messages[n + 1]
FragCount(size) == (size + MaxFragPayload - 1) \div MaxFragPayload
SliceLen(size, i) ==
    IF size - i * MaxFragPayload < MaxFragPayload THEN size - i * MaxFragPayload
    ELSE MaxFragPayload

\* splitMessage
Split(n, size) ==
    {[id |-> n, idx |-> i, cnt |-> FragCount(size), len |-> SliceLen(size, i)]
        : i \in 0 .. (FragCount(size) - 1)}

Put(f, k, v)  == [x \in DOMAIN f \cup {k} |-> IF x = k THEN v ELSE f[x]]
Without(f, S) == [k \in DOMAIN f \ S |-> f[k]]
NoBuffers     == [k \in {} |-> 0]

FragmentInit ==
    /\ messages = <<>> /\ link = NoBuffers
    /\ buffers = NoBuffers /\ currentSize = 0
    /\ stats = [opened |-> 0, completed |-> 0, timedOut |-> 0]
    /\ assembled = {} /\ received = {} /\ dropped = {}

-----------------------------------------------------------------------------
\* sendFragmented: all fragments of a message or, if there are too many, none.
SendFragmented(size) ==
    LET n == Len(messages)
    IN  /\ n < MaxFragmented /\ FragCount(size) <= MaxFragments
        /\ messages' = Append(messages, size)
        /\ link' = [f \in DOMAIN link \cup Split(n, size) |->
                       IF f \in DOMAIN link THEN link[f] ELSE Copies]
        /\ UNCHANGED <<buffers, currentSize, stats, assembled, received, dropped>>

-----------------------------------------------------------------------------
\* findOldestBuffer: the first created, the lowest id among equals.
Older(bufs, k, l) ==
    \/ bufs[k].age > bufs[l].age
    \/ bufs[k].age = bufs[l].age /\ k < l
Before(bufs, k) == {l \in DOMAIN bufs : Older(bufs, l, k)}

TotalSize(bufs, S) == SumFunctionOnSet([k \in DOMAIN bufs |-> bufs[k].totalSize], S)

\* evictIfNeeded: the oldest buffers go until the rest fits.
Evicted(bufs, size) ==
    {k \in DOMAIN bufs : size - TotalSize(bufs, Before(bufs, k)) > MaxBufferSize}

\* tryComplete
CompleteAtLastIndex(b) == b.count - 1 \in DOMAIN b.fragments
Complete(b)            == Cardinality(DOMAIN b.fragments) = b.count

\* The buffer of f's message, with f in it.
NewBuffer(f)  == [fragments |-> [i \in {f.idx} |-> f.len], count |-> f.cnt,
                  age |-> 0, totalSize |-> f.len]
Buffer(f) ==
    LET b == buffers[f.id]
    IN  IF f.id \in DOMAIN buffers
        THEN [fragments |-> Put(b.fragments, f.idx, f.len), count |-> b.count,
              age |-> b.age, totalSize |-> b.totalSize + f.len]
        ELSE NewBuffer(f)

IgnoredIfFull(f) ==
    \/ f.id \in DOMAIN buffers /\ f.idx \in DOMAIN buffers[f.id].fragments
    \/ currentSize + f.len > MaxBufferSize
\* insertFragment ignores a fragment it has, or that contradicts the buffer.
Ignored(f) ==
    /\ f.id \in DOMAIN buffers
    /\ buffers[f.id].count # f.cnt \/ f.idx \in DOMAIN buffers[f.id].fragments

Insert(f) ==
    LET grown   == Put(buffers, f.id, Buffer(f))
        size    == currentSize + f.len
        evicted == Evicted(grown, size)
        kept    == Without(grown, evicted)
        done    == {k \in DOMAIN kept : k = f.id /\ Complete(kept[k])}
    IN  /\ buffers' = Without(kept, done)
        /\ currentSize' = size - TotalSize(grown, evicted) - TotalSize(kept, done)
        /\ stats' = [opened    |-> stats.opened + (IF f.id \in DOMAIN buffers THEN 0 ELSE 1),
                     completed |-> stats.completed + Cardinality(done),
                     timedOut  |-> stats.timedOut + Cardinality(evicted)]
        /\ assembled' = assembled \cup {[id |-> k, data |-> kept[k].fragments] : k \in done}
        /\ dropped' = dropped \cup evicted

\* onFragmentReceived.  A fragment that is never received is lost.
ReceiveFragment(f) ==
    /\ link' = IF link[f] = 1 THEN Without(link, {f}) ELSE [link EXCEPT ![f] = @ - 1]
    /\ received' = received \cup {f}
    /\ \/ Ignored(f) /\ UNCHANGED <<buffers, currentSize, stats, assembled, dropped>>
       \/ ~Ignored(f) /\ Insert(f)
    /\ UNCHANGED messages

\* assemblerUpdate, one unit of time after the last: what is too old goes.
\* (Ages stop at the time-out.)
Aged == [k \in DOMAIN buffers |->
            [buffers[k] EXCEPT !.age = IF @ < FragmentTimeout THEN @ + 1 ELSE @]]
ExpiredIfAlone(b) == b.age >= FragmentTimeout /\ Cardinality(DOMAIN buffers) = 1
Expired(b)        == b.age >= FragmentTimeout
AssemblerUpdate ==
    LET expired == {k \in DOMAIN Aged : Expired(Aged[k])}
    IN  /\ DOMAIN buffers # {}
        /\ buffers' = Without(Aged, expired)
        /\ currentSize' = currentSize - TotalSize(Aged, expired)
        /\ stats' = [stats EXCEPT !.timedOut = @ + Cardinality(expired)]
        /\ dropped' = dropped \cup expired
        /\ UNCHANGED <<messages, link, assembled, received>>

FragmentNext ==
    \/ \E size \in MessageSizes : SendFragmented(size)
    \/ \E f \in DOMAIN link : ReceiveFragment(f)
    \/ AssemblerUpdate

FragmentSpec == FragmentInit /\ [][FragmentNext]_fragmentVars

\* The application keeps calling peerProcess.
FragmentFairSpec == FragmentSpec /\ WF_fragmentVars(AssemblerUpdate)
-----------------------------------------------------------------------------
FragmentTypeOK ==
    /\ messages \in Seq(MessageSizes) /\ Len(messages) <= MaxFragmented
    /\ \A f \in DOMAIN link : f.id \in SentMessages /\ link[f] \in 1 .. Copies
    /\ DOMAIN buffers \subseteq SentMessages
    /\ \A k \in DOMAIN buffers :
        /\ buffers[k].age \in 0 .. FragmentTimeout
        /\ buffers[k].fragments \in [DOMAIN buffers[k].fragments -> 1 .. MaxFragPayload]
    /\ received \subseteq UNION {Split(n, MessageSize(n)) : n \in SentMessages}
    /\ dropped \subseteq SentMessages

\* What the assembler hands on is a message that was sent, whole and in order,
\* whatever was lost, repeated, evicted or timed out on the way.
AssembledWhole ==
    \A m \in assembled :
        /\ m.id \in SentMessages
        /\ m.data = [i \in 0 .. (FragCount(MessageSize(m.id)) - 1)
                        |-> SliceLen(MessageSize(m.id), i)]

\* The cached size is the size of what is held and within its bound, and every
\* buffer ever opened is held, was completed or is counted as timed out.
MemoryAccounted ==
    /\ currentSize = TotalSize(buffers, DOMAIN buffers)
    /\ currentSize <= MaxBufferSize
    /\ \A k \in DOMAIN buffers : buffers[k].totalSize = SumFunction(buffers[k].fragments)
    /\ stats.opened = stats.completed + stats.timedOut + Cardinality(DOMAIN buffers)

\* A message all of whose fragments received was handed on, or a buffer of it was
\* given up: no fragment is lost sight of in between.
NoneOverlooked ==
    \A n \in SentMessages :
        Split(n, MessageSize(n)) \subseteq received
            => n \in dropped \/ \E m \in assembled : m.id = n

\* The assembler's books are in order: of its memory, and of what it was given.
AssemblerAccounts == MemoryAccounted /\ NoneOverlooked

\* An incomplete message does not stay in memory.
BuffersDrain ==
    \A n \in 0 .. (MaxFragmented - 1) : n \in DOMAIN buffers ~> n \notin DOMAIN buffers
=============================================================================

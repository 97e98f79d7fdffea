-------------------------------- MODULE Mtu ---------------------------------
(***************************************************************************)
(* Path MTU discovery (NovaNet/Mtu.hs): a binary search with probes, each  *)
(* of which is answered if it fits the path and is not lost.  The library  *)
(* leaves it to its user to drive the search; here its user calls the four *)
(* operations in any order.                                                *)
(***************************************************************************)
EXTENDS Integers

CONSTANTS
    LowBound, HighBound,    \* the bounds given to newMtuDiscovery
    MaxAttempts,            \* mdMaxAttempts
    ProbeTimeout            \* mdProbeTimeoutNs

ASSUME MtuAssumption ==
    /\ LowBound \in Nat /\ HighBound \in Nat /\ LowBound <= HighBound
    /\ MaxAttempts \in Nat /\ ProbeTimeout \in Nat \ {0}

VARIABLES
    search,             \* MtuDiscovery: low, high, current, discovered, complete, attempts
    sinceProbe,         \* age of mdLastProbeTime, or NeverProbed
    pathMtu,            \* the largest size the path carries
    answers,            \* sizes of probes that were answered, the answers on their way
    succeeded           \* history: sizes reported as successful

mtuVars == <<search, sinceProbe, pathMtu, answers, succeeded>>

NeverProbed == -1
Midpoint(s) == (s.low + s.high) \div 2

\* newMtuDiscovery; the lower bound is a size every path carries.
MtuInit ==
    /\ search = [low |-> LowBound, high |-> HighBound, current |-> (LowBound + HighBound) \div 2,
                 discovered |-> LowBound, complete |-> FALSE, attempts |-> 0]
    /\ sinceProbe = NeverProbed
    /\ pathMtu \in LowBound .. HighBound
    /\ answers = {} /\ succeeded = {}

ProbeReady   == sinceProbe = NeverProbed \/ sinceProbe >= ProbeTimeout
Done(s)      == s.attempts >= MaxAttempts \/ s.high - s.low <= 1

\* nextProbe; the path carries the probe or does not.
NextProbe ==
    /\ ~search.complete
    /\ \/ /\ Done(search)
          /\ search' = [search EXCEPT !.complete = TRUE]
          /\ UNCHANGED <<sinceProbe, answers>>
       \/ /\ ~Done(search) /\ ProbeReady
          /\ search' = [search EXCEPT !.current = Midpoint(search), !.attempts = @ + 1]
          /\ sinceProbe' = 0
          /\ answers' = IF Midpoint(search) <= pathMtu THEN answers \cup {Midpoint(search)} ELSE answers
    /\ UNCHANGED <<pathMtu, succeeded>>

\* onProbeSuccess; an answer may come late, twice or not at all.
AtLeastSize(a, b) == IF a > b THEN a ELSE b
OnProbeSuccess(size) ==
    /\ search' = [search EXCEPT !.low = AtLeastSize(@, size), !.discovered = AtLeastSize(@, size)]
    /\ succeeded' = succeeded \cup {size}
    /\ UNCHANGED <<sinceProbe, pathMtu, answers>>

\* checkProbeTimeout with onProbeTimeout, whether the probe was answered or not.
CheckProbeTimeout ==
    /\ sinceProbe >= ProbeTimeout
    /\ search' = [search EXCEPT !.high = search.current]
    /\ UNCHANGED <<sinceProbe, pathMtu, answers, succeeded>>

ProbeAges ==
    /\ sinceProbe \in 0 .. ProbeTimeout - 1
    /\ sinceProbe' = sinceProbe + 1
    /\ UNCHANGED <<search, pathMtu, answers, succeeded>>

MtuNext ==
    \/ NextProbe
    \/ \E size \in answers : OnProbeSuccess(size)
    \/ CheckProbeTimeout
    \/ ProbeAges
MtuSpec == MtuInit /\ [][MtuNext]_mtuVars
-----------------------------------------------------------------------------
MtuTypeOK ==
    /\ search.low \in LowBound .. HighBound /\ search.high \in LowBound .. HighBound
    /\ search.current \in LowBound .. HighBound /\ search.discovered \in LowBound .. HighBound
    /\ search.complete \in BOOLEAN /\ search.attempts \in 0 .. MaxAttempts
    /\ sinceProbe \in {NeverProbed} \cup 0 .. ProbeTimeout
    /\ answers \subseteq LowBound .. HighBound

\* What is reported as discovered was carried by the path and is the largest that
\* is known to be, however late, often or out of order the answers come.
DiscoveredIsCarried ==
    /\ search.discovered <= pathMtu
    /\ \A size \in succeeded : size <= search.discovered
=============================================================================

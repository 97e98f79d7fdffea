---------------------------- MODULE RateLimiter -----------------------------
(***************************************************************************)
(* The limit on connection requests per source (NovaNet/Security.hs,       *)
(* asked by handleConnectionRequest for every request that arrives): the   *)
(* times of the requests admitted in the last second, with a clean-up that *)
(* a request triggers when the last one is long ago.                       *)
(***************************************************************************)
EXTENDS Order, Sequences

CONSTANTS
    Sources,            \* hashes of source addresses
    MaxPerSecond,       \* rlMaxPerSecond
    Second,             \* rateLimiterWindowNs
    CleanupInterval     \* cleanupIntervalNs

ASSUME RateLimiterAssumption ==
    MaxPerSecond \in Nat /\ Second \in Nat \ {0} /\ CleanupInterval \in Nat \ {0}

VARIABLES
    requests,           \* rlRequests: source -> ages of requests, newest first
    sinceCleanup,       \* age of rlLastCleanup
    admitted,           \* history: source -> ages of the requests admitted in the last second
    refused             \* history: the source just refused, if any

limiterVars == <<requests, sinceCleanup, admitted, refused>>

LimiterInit ==
    /\ requests = [s \in {} |-> <<>>] /\ sinceCleanup = 0
    /\ admitted = [s \in Sources |-> <<>>] /\ refused = {}

\* Ages are counted up to a second, from when on they make no difference.
Grow(age)     == IF age < Second THEN age + 1 ELSE age
GrowAll(ages) == [i \in DOMAIN ages |-> Grow(ages[i])]

Recent(age)        == age < Second
FilterRecent(ages) == Picked(ages, {i \in DOMAIN ages : Recent(ages[i])})

\* maybeCleanup
NotYetDue          == sinceCleanup < CleanupInterval
ClearedAll(reqs)   == [s \in {} |-> <<>>]
Cleaned(reqs) ==
    [s \in {x \in DOMAIN reqs : FilterRecent(reqs[x]) # <<>>} |-> FilterRecent(reqs[s])]
MaybeCleanup(reqs) ==
    /\ requests' = IF NotYetDue THEN reqs ELSE Cleaned(reqs)
    /\ sinceCleanup' = IF NotYetDue THEN sinceCleanup ELSE 0

\* rateLimiterAllow
Stored(s) == IF s \in DOMAIN requests THEN FilterRecent(requests[s]) ELSE <<>>
Allow(s) ==
    LET allowed == Len(Stored(s)) < MaxPerSecond
        stamps  == IF allowed THEN <<0>> \o Stored(s) ELSE Stored(s)
    IN  /\ MaybeCleanup([x \in DOMAIN requests \cup {s} |-> IF x = s THEN stamps ELSE requests[x]])
        /\ admitted' = [admitted EXCEPT ![s] =
               IF allowed THEN <<0>> \o @ ELSE @]
        /\ refused' = IF allowed THEN {} ELSE {s}

LimiterLater ==
    /\ requests' = [s \in DOMAIN requests |-> GrowAll(requests[s])]
    /\ admitted' = [s \in Sources |-> FilterRecent(GrowAll(admitted[s]))]
    /\ sinceCleanup' = IF sinceCleanup < CleanupInterval THEN sinceCleanup + 1 ELSE sinceCleanup
    /\ refused' = {}

LimiterNext == LimiterLater \/ \E s \in Sources : Allow(s)
LimiterSpec == LimiterInit /\ [][LimiterNext]_limiterVars
-----------------------------------------------------------------------------
LimiterTypeOK ==
    /\ DOMAIN requests \subseteq Sources
    /\ \A s \in DOMAIN requests : \A i \in DOMAIN requests[s] : requests[s][i] \in 0 .. Second
    /\ sinceCleanup \in 0 .. CleanupInterval
    /\ refused \subseteq Sources

\* No source gets more requests through in any second than the limit, and none
\* is refused that has not had that many in the last second, whatever the
\* clean-ups, which other sources trigger too, remove in between.
LimitIsExact ==
    /\ \A s \in Sources : Len(admitted[s]) <= MaxPerSecond
    /\ \A s \in refused : Len(admitted[s]) = MaxPerSecond
=============================================================================

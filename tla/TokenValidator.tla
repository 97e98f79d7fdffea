--------------------------- MODULE TokenValidator ---------------------------
(***************************************************************************)
(* Connect tokens (NovaNet/Security.hs): a validator that takes a token    *)
(* once, within its time, and remembers a bounded number of the clients it *)
(* took one from for as long as a token is said to live.                   *)
(***************************************************************************)
EXTENDS Integers, Sequences, FiniteSets

CONSTANTS
    Clients,            \* client identifiers, numbers
    Expiries,           \* expiry times tokens are made with
    TokenLifetime,      \* tvTokenLifetimeNs
    MaxTracked,         \* tvMaxTracked
    MaxTokens           \* bound: tokens made

ASSUME TokenAssumption ==
    /\ Clients \subseteq Int /\ Expiries \subseteq Nat
    /\ TokenLifetime \in Nat \ {0} /\ MaxTracked \in Nat \ {0} /\ MaxTokens \in Nat

VARIABLES
    tokens,             \* the tokens made: client, expiry and age
    usedTokens,         \* tvUsedTokens: client -> age of its use
    lastTaken           \* history: client -> age of the last acceptance

tokenVars == <<tokens, usedTokens, lastTaken>>

TokenInit ==
    tokens = <<>> /\ usedTokens = [c \in {} |-> 0] /\ lastTaken = [c \in {} |-> 0]

\* newConnectToken
NewToken(client, expiry) ==
    /\ Len(tokens) < MaxTokens
    /\ tokens' = Append(tokens, [client |-> client, expires |-> expiry, age |-> 0])
    /\ UNCHANGED <<usedTokens, lastTaken>>

\* isTokenExpired
IsExpired(t) == tokens[t].age >= tokens[t].expires

\* validatorCleanup
Outlived(used)  == {c \in DOMAIN used : used[c] >= TokenLifetime}
Kept(used, out) == [c \in DOMAIN used \ out |-> used[c]]

\* evictOldest: the lowest identifier among the longest used.
Youngest(used) ==
    CHOOSE c \in DOMAIN used : \A d \in DOMAIN used : used[c] < used[d] \/ (used[c] = used[d] /\ c <= d)
OldestUse(used) ==
    CHOOSE c \in DOMAIN used : \A d \in DOMAIN used : used[c] > used[d] \/ (used[c] = used[d] /\ c <= d)

\* enforceLimit: what it removes to be within capacity again.
OverLimit(used) ==
    LET cleaned == Kept(used, Outlived(used))
    IN  Outlived(used) \cup
            (IF Cardinality(DOMAIN cleaned) <= MaxTracked THEN {} ELSE {OldestUse(cleaned)})

Taken(used, client) ==
    [c \in DOMAIN used \cup {client} |-> IF c = client THEN 0 ELSE used[c]]

\* validateToken.  The two refusals change nothing.
Validate(t) ==
    LET client == tokens[t].client
        used   == Taken(usedTokens, client)
    IN  /\ ~IsExpired(t) /\ client \notin DOMAIN usedTokens
        /\ usedTokens' = Kept(used, OverLimit(used))
        /\ lastTaken' = Taken(lastTaken, client)
        /\ UNCHANGED tokens

ValidatorCleanup ==
    /\ usedTokens' = Kept(usedTokens, Outlived(usedTokens))
    /\ UNCHANGED <<tokens, lastTaken>>

\* Ages are counted until they make no difference.
AllOlder(used) ==
    [c \in DOMAIN used |-> IF used[c] < TokenLifetime THEN used[c] + 1 ELSE used[c]]
TokensAge ==
    /\ tokens' = [t \in DOMAIN tokens |->
                     [tokens[t] EXCEPT !.age = IF IsExpired(t) THEN @ ELSE @ + 1]]
    /\ usedTokens' = AllOlder(usedTokens)
    /\ lastTaken' = AllOlder(lastTaken)

TokenNext ==
    \/ \E client \in Clients, expiry \in Expiries : NewToken(client, expiry)
    \/ \E t \in DOMAIN tokens : Validate(t)
    \/ ValidatorCleanup
    \/ TokensAge

TokenSpec == TokenInit /\ [][TokenNext]_tokenVars
-----------------------------------------------------------------------------
TokenTypeOK ==
    /\ Len(tokens) <= MaxTokens
    /\ \A t \in DOMAIN tokens : tokens[t].client \in Clients
    /\ DOMAIN usedTokens \subseteq Clients
    /\ \A c \in DOMAIN usedTokens : usedTokens[c] \in 0 .. TokenLifetime
    /\ Cardinality(DOMAIN usedTokens) <= MaxTracked

\* A client whose token was taken is remembered as long as a token lives, unless
\* as many other clients as there is room for had one taken since.
RemembersRecent ==
    \A c \in DOMAIN lastTaken :
        lastTaken[c] < TokenLifetime /\ c \notin DOMAIN usedTokens
            => Cardinality({d \in DOMAIN lastTaken \ {c} : lastTaken[d] <= lastTaken[c]}) >= MaxTracked
=============================================================================

------------------------------ MODULE Priority ------------------------------
(***************************************************************************)
(* Which entities to send next (NovaNet/Replication/Priority.hs): every    *)
(* entity accumulates priority at its own rate, and the highest that fit a *)
(* budget of bytes are drained and start again from nothing.               *)
(*                                                                         *)
(* The library's user calls accumulate and drainTop in every tick of its   *)
(* own, and weights entities in between as it likes: what an observer is   *)
(* interested in up, what is far away down (Interest.hs, priorityMod).     *)
(* Several weights above 1 in one tick are one, their product.  Entities   *)
(* are numbers, in the order of the map.  Priorities are whole, in a unit  *)
(* as small as need be, and a weight rounds them down.                     *)
(***************************************************************************)
EXTENDS Integers, FiniteSets

CONSTANTS
    Entities,           \* entity ids
    SizeOf,             \* entity -> its serialized size: sizeFunc
    BasePriorities,     \* base priorities entities are registered with
    Modifiers,          \* what an entity may be weighted with, from 0 up
    Neutral,            \* the modifier that stands for 1.0
    BudgetBytes,        \* budgetBytes
    MaxWait             \* bound claimed: ticks an entity may have to wait

ASSUME PriorityAssumption ==
    /\ Entities \subseteq Int /\ SizeOf \in [Entities -> Nat \ {0}]
    /\ BasePriorities \subseteq Nat \ {0} /\ Modifiers \subseteq Nat
    /\ Neutral \in Nat \ {0} /\ BudgetBytes \in Nat /\ MaxWait \in Nat

VARIABLES
    entries,            \* paEntries: entity -> base and accumulated
    weighted,           \* entities weighted up since the last drain
    raised,             \* whether the tick's accumulate is done
    waited              \* history: entity -> ticks since it was sent, registered or
                        \* weighted down

priorityVars == <<entries, weighted, raised, waited>>

PriorityInit ==
    /\ entries = [e \in {} |-> 0] /\ waited = [e \in {} |-> 0]
    /\ weighted = {} /\ raised = FALSE

With(f, k, v) == [x \in DOMAIN f \cup {k} |-> IF x = k THEN v ELSE f[x]]
Minus(f, k)   == [x \in DOMAIN f \ {k} |-> f[x]]

\* register, also of an entity that already is, and unregister
Register(e, base) ==
    /\ entries' = With(entries, e, [base |-> base, accumulated |-> 0])
    /\ waited' = With(waited, e, 0)
    /\ UNCHANGED <<weighted, raised>>
Unregister(e) ==
    /\ entries' = Minus(entries, e) /\ waited' = Minus(waited, e)
    /\ UNCHANGED <<weighted, raised>>

\* accumulate, by one unit of time
Accumulate ==
    /\ ~raised /\ raised' = TRUE
    /\ entries' = [e \in DOMAIN entries |->
                      [entries[e] EXCEPT !.accumulated = @ + entries[e].base]]
    /\ UNCHANGED <<weighted, waited>>

\* applyModifier
ApplyModifier(e, modifier) ==
    /\ modifier > Neutral => e \notin weighted
    /\ entries' = [entries EXCEPT ![e].accumulated = (@ * modifier) \div Neutral]
    /\ weighted' = IF modifier > Neutral THEN weighted \cup {e} ELSE weighted
    /\ waited' = IF modifier < Neutral THEN [waited EXCEPT ![e] = 0] ELSE waited
    /\ UNCHANGED raised

\* drainTop: by accumulated priority, equal ones in the order of the map, with
\* selectWithinBudget, which passes over what does not fit any more.
Higher(e, f) ==
    \/ entries[e].accumulated > entries[f].accumulated
    \/ entries[e].accumulated = entries[f].accumulated /\ e < f
Sorted == [i \in 1 .. Cardinality(DOMAIN entries) |->
              CHOOSE e \in DOMAIN entries : Cardinality({f \in DOMAIN entries : Higher(f, e)}) = i - 1]
IfItFits(chosen, e) ==
    IF SizeOf[e] > chosen.remaining THEN chosen
    ELSE [ids |-> chosen.ids \cup {e}, remaining |-> chosen.remaining - SizeOf[e]]
SelectWithinBudget ==
    LET count == Cardinality(DOMAIN entries)
        chosen[i \in 0 .. count] == IF i = 0 THEN [ids |-> {}, remaining |-> BudgetBytes]
                                    ELSE IfItFits(chosen[i - 1], Sorted[i])
    IN  chosen[count].ids
DrainTop ==
    /\ raised /\ raised' = FALSE /\ weighted' = {}
    /\ entries' = [e \in DOMAIN entries |->
                      IF e \in SelectWithinBudget THEN [entries[e] EXCEPT !.accumulated = 0]
                      ELSE entries[e]]
    /\ waited' = [e \in DOMAIN waited |-> IF e \in SelectWithinBudget THEN 0 ELSE waited[e] + 1]

PriorityNext ==
    \/ \E e \in Entities, base \in BasePriorities : Register(e, base)
    \/ \E e \in DOMAIN entries : Unregister(e)
    \/ Accumulate
    \/ \E e \in DOMAIN entries, modifier \in Modifiers : ApplyModifier(e, modifier)
    \/ DrainTop
PrioritySpec == PriorityInit /\ [][PriorityNext]_priorityVars

\* The user goes on with its ticks.
PriorityFairSpec ==
    PrioritySpec /\ WF_priorityVars(Accumulate) /\ WF_priorityVars(DrainTop)
-----------------------------------------------------------------------------
PriorityTypeOK ==
    /\ DOMAIN entries \subseteq Entities /\ DOMAIN waited = DOMAIN entries
    /\ \A e \in DOMAIN entries : entries[e].base \in BasePriorities /\ entries[e].accumulated \in Nat
    /\ weighted \subseteq Entities /\ raised \in BOOLEAN

\* No entity that fits the budget, and that nobody weights down meanwhile, is passed
\* over for more than MaxWait ticks, whatever the others are registered, sized and
\* weighted like.
NothingStarves ==
    \A e \in DOMAIN entries : SizeOf[e] <= BudgetBytes => waited[e] <= MaxWait

\* "Tracks per-entity priority that grows over time, ensuring all entities eventually get
\* sent even at low priority": one that fits the budget, and stays registered, is sent
\* again and again.
Sends(e)     == DrainTop /\ e \in SelectWithinBudget
Registers(e) == \E base \in BasePriorities : Register(e, base)
EverySent ==
    \A e \in Entities : SizeOf[e] <= BudgetBytes =>
        \/ []<>(e \notin DOMAIN entries)
        \/ []<><<Registers(e)>>_priorityVars
        \/ []<><<Sends(e)>>_priorityVars

\* The sizes of the entities in the runs.
EntitySizes == [e \in Entities |-> e]
=============================================================================

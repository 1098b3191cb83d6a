-------------------------- MODULE CapacitySemaphore --------------------------
(***************************************************************************)
(* What the concurrency limit of a model promises: a counting semaphore    *)
(* whose size an administrator may change.  Lowering the limit takes       *)
(* nothing away from those who hold it; it only stops new grants.          *)
(***************************************************************************)
EXTENDS Naturals, FiniteSets

CONSTANTS
    Holders,    \* who may hold a unit
    Limits      \* the sizes an administrator may choose

VARIABLES
    limit,      \* the size now
    held        \* who holds a unit

Init ==
    /\ limit \in Limits
    /\ held = {}

Grant(h) ==
    /\ h \notin held
    /\ Cardinality(held) < limit
    /\ held' = held \cup {h}
    /\ UNCHANGED limit

Release(h) ==
    /\ h \in held
    /\ held' = held \ {h}
    /\ UNCHANGED limit

SetLimit(n) ==
    /\ limit' = n
    /\ UNCHANGED held

Next ==
    \/ \E h \in Holders : Grant(h) \/ Release(h)
    \/ \E n \in Limits : SetLimit(n)

Spec == Init /\ [][Next]_<<limit, held>>
=============================================================================

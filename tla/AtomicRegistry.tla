--------------------------- MODULE AtomicRegistry ---------------------------
(***************************************************************************)
(* What RegistryStore promises its callers: a registry of install ids that *)
(* add and forget change in one step, and that no failed or interrupted    *)
(* call leaves halfway.                                                    *)
(***************************************************************************)
CONSTANT Ids

VARIABLE held   \* the ids with a record

HeldType == held \in SUBSET Ids

Init == held = {}

Add(id) == held' = held \cup {id}

Forget(id) == held' = held \ {id}

Next == \E id \in Ids : Add(id) \/ Forget(id)

Spec == Init /\ [][Next]_held
=============================================================================

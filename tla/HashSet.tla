------------------------------ MODULE HashSet ------------------------------
(***************************************************************************)
(* What a hash table promises: a set of keys that changes only when a key  *)
(* is inserted or erased or the table is cleared.  An operation that moves *)
(* elements takes several steps, during which the set stays what it was,   *)
(* and ends by adding the key it was called for, if any.                   *)
(***************************************************************************)
CONSTANTS Keys, None

VARIABLES members,
          working,     \* an operation is moving elements
          inserting    \* the key it will add, or None

hvars == <<members, working, inserting>>

Init == members = {} /\ ~working /\ inserting = None

Insert(k) ==
    /\ ~working /\ k \notin members
    /\ members' = members \cup {k}
    /\ UNCHANGED <<working, inserting>>

Erase(k) ==
    /\ ~working /\ k \in members
    /\ members' = members \ {k}
    /\ UNCHANGED <<working, inserting>>

Clear == ~working /\ members' = {} /\ UNCHANGED <<working, inserting>>

\* A rehash or a copy, or an insertion that needs one.
Begin(k) ==
    /\ ~working /\ working' /\ inserting' = k
    /\ k \notin members
    /\ UNCHANGED members

Finish ==
    /\ working /\ ~working' /\ inserting' = None
    /\ members' = members \cup ({inserting} \ {None})

Next ==
    \/ \E k \in Keys : Insert(k) \/ Erase(k)
    \/ \E k \in Keys \cup {None} : Begin(k)
    \/ Clear \/ Finish

Spec == Init /\ [][Next]_hvars
=============================================================================

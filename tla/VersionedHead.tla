---------------------------- MODULE VersionedHead ----------------------------
(***************************************************************************)
(* What the graph repository promises: every world has a set of immutable  *)
(* revisions, which only grows, and a current one; publishing adds a child *)
(* of the current revision (or finds it stored) and makes it current;      *)
(* rolling back makes a stored revision current.                           *)
(***************************************************************************)
CONSTANTS Worlds, None

VARIABLES revision, current

Init ==
    /\ revision = [w \in Worlds |-> {}]
    /\ current = [w \in Worlds |-> None]

Publish(w) ==
    \E child \in revision'[w] :
        /\ child.parent = current[w]
        /\ current' = [current EXCEPT ![w] = child]
        /\ revision' = [revision EXCEPT ![w] = @ \cup {child}]

Rollback(w) ==
    \E target \in revision[w] :
        /\ current' = [current EXCEPT ![w] = target]
        /\ UNCHANGED revision

Next == \E w \in Worlds : Publish(w) \/ Rollback(w)

Spec == Init /\ [][Next]_<<revision, current>>
=============================================================================

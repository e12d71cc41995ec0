-------------------------- MODULE ReplicatedGroup --------------------------
(***************************************************************************)
(* What the operator promises to the users of a MySQL resource: the pods   *)
(* that accept writes are one group, which pods enter and leave one at a   *)
(* time.  A new group is formed, by a single pod, only while there is      *)
(* none.  Nothing is said about when any of this happens.                  *)
(***************************************************************************)
CONSTANT Pods

VARIABLE groups   \* the groups that accept writes, each the set of its members

Init == groups = {}

Form(p) == groups = {} /\ groups' = {{p}}

Enter(p) == \E S \in groups : p \notin S /\ groups' = (groups \ {S}) \cup {S \cup {p}}

Leave(p) == \E S \in groups : p \in S /\ groups' = (groups \ {S}) \cup {S \ {p}}

\* The group ends: its last member stops, or it has lost its quorum.
End == \E S \in groups : groups' = groups \ {S}

Next == End \/ \E p \in Pods : Form(p) \/ Enter(p) \/ Leave(p)

Spec == Init /\ [][Next]_groups

============================================================================

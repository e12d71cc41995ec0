---------------------------- MODULE MySQLGroup ----------------------------
(***************************************************************************)
(* The mysqld servers of one MySQL resource and their Group Replication    *)
(* plugin, as far as the operator can observe or change them.  None of     *)
(* this is code of the repository: it is modelled from the statements that *)
(* internal/controller/mysql/groupreplication/gr_client.go sends and from  *)
(* the options cmd/init/main.go writes (start_on_boot = off,               *)
(* bootstrap_group = off), and every definition here is external.          *)
(*                                                                         *)
(* Simplifications:                                                        *)
(*  - the members of one group that can reach each other always have the   *)
(*    same view, so a group is identified by its view;                     *)
(*  - a member whose recovery loses its last donor leaves the group at     *)
(*    once and is OFFLINE (the ERROR state is not told apart);             *)
(*  - a bootstrapping member is ONLINE when START returns.                 *)
(***************************************************************************)
EXTENDS Naturals, FiniteSets

CONSTANT N                 \* spec.replicas: pods are cluster-0 .. cluster-(N-1)

ASSUME NAssumption == N \in Nat \ {0}

Pods == 0..(N - 1)

MemberStates == {"OFFLINE", "RECOVERING", "ONLINE"}

VARIABLES
  up,          \* pods whose mysqld runs (readiness is a ping of mysqld)
  gr,          \* gr[p]: MEMBER_STATE of p in p's own performance_schema
  view,        \* view[p]: the members of p's group as p sees them
  bootGroup,   \* bootGroup[p]: the group_replication_bootstrap_group variable
  replUser     \* pods on which rpl_user@'%' exists (kept in the data volume)

mysqlVars == <<up, gr, view, bootGroup, replUser>>

MySQLTypeOK ==
  /\ up \subseteq Pods
  /\ gr \in [Pods -> MemberStates]
  /\ view \in [Pods -> SUBSET Pods]
  /\ bootGroup \in [Pods -> BOOLEAN]
  /\ replUser \subseteq Pods

MySQLInit ==
  /\ up = {}
  /\ gr = [p \in Pods |-> "OFFLINE"]
  /\ view = [p \in Pods |-> {}]
  /\ bootGroup = [p \in Pods |-> FALSE]
  /\ replUser = {}

---------------------------------------------------------------------------
(* What a server knows about its group.                                    *)

Online == {p \in Pods : gr[p] = "ONLINE"}

\* The members p can still talk to, p included; {} when p is in no group.
Reachable(p) == {q \in view[p] : view[q] = view[p]}

\* p's group can certify transactions and change its membership.
Quorate(p) == 2 * Cardinality(Reachable(p)) > Cardinality(view[p])

\* The groups p's seeds can let it into, each named by one ONLINE member.
Donors == {q \in Online : Quorate(q)}

---------------------------------------------------------------------------
(* START GROUP_REPLICATION on p, whose plugin is stopped.                  *)

CanStart(p) == bootGroup[p] \/ Donors # {}

FormGroup(p) ==
  /\ bootGroup[p]
  /\ gr' = [gr EXCEPT ![p] = "ONLINE"]
  /\ view' = [view EXCEPT ![p] = {p}]

EnterGroup(p) ==
  /\ ~bootGroup[p]
  /\ \E q \in Donors :
       view' = [r \in Pods |-> IF r \in Reachable(q) \cup {p}
                               THEN view[q] \cup {p} ELSE view[r]]
  /\ gr' = [gr EXCEPT ![p] = "RECOVERING"]

StartGroupReplication(p) ==
  /\ gr[p] = "OFFLINE"
  /\ FormGroup(p) \/ EnterGroup(p)
  /\ UNCHANGED <<up, bootGroup, replUser>>

---------------------------------------------------------------------------
(* What the servers and the kubelet do on their own.                       *)

\* Distributed recovery ends: p has fetched the data from a donor, over a
\* connection authenticated as the replication user of the donor.
Recover(p) ==
  /\ gr[p] = "RECOVERING"
  /\ Quorate(p)
  /\ Reachable(p) \cap Online \cap replUser # {}
  /\ gr' = [gr EXCEPT ![p] = "ONLINE"]
  /\ UNCHANGED <<up, view, bootGroup, replUser>>

MysqldStart(p) ==
  /\ p \notin up
  /\ up' = up \cup {p}
  /\ UNCHANGED <<gr, view, bootGroup, replUser>>

\* mysqld of p ends, orderly or not.  The others drop p from their view when
\* p told them and they had a quorum, or when they are a majority without p.
MysqldStop(p, orderly) ==
  LET rest   == Reachable(p) \ {p}
      agreed == \/ orderly /\ Quorate(p)
                \/ 2 * Cardinality(rest) > Cardinality(view[p])
      gone   == {p} \cup (IF rest \cap Online = {} THEN rest ELSE {})
  IN /\ p \in up
     /\ up' = up \ {p}
     /\ gr' = [q \in Pods |-> IF q \in gone THEN "OFFLINE" ELSE gr[q]]
     /\ view' = [q \in Pods |-> IF q \in gone THEN {}
                              ELSE IF q \in rest /\ agreed THEN view[q] \ {p}
                              ELSE view[q]]
     /\ bootGroup' = [bootGroup EXCEPT ![p] = FALSE]
     /\ UNCHANGED replUser

===========================================================================

----------------------------- MODULE GroupData -----------------------------
(***************************************************************************)
(* GRController composed with the choice of RestartCandidate and with the  *)
(* transactions of the servers: what becomes of committed transactions     *)
(* when a group ends and the operator has one of its pods form it again.   *)
(*                                                                         *)
(* The servers' part (Commit, Apply and the data each step of GRController *)
(* moves) is external.  A transaction is committed when its member has     *)
(* executed it: the others have agreed on its place and receive it at once *)
(* or later.  A majority that survives a member still delivers what was    *)
(* agreed; a member whose group loses its quorum gets nothing more.  Both  *)
(* GTID sets survive a restart of mysqld.                                  *)
(***************************************************************************)
EXTENDS GRController

CONSTANT Txns

VARIABLES
  executed,    \* executed[p]: @@GLOBAL.GTID_EXECUTED of p
  received,    \* received[p]: received_transaction_set of the applier channel of p
  committed    \* history: the transactions acknowledged to clients

dataVars == <<executed, received, committed>>

DataInit ==
  /\ Init
  /\ executed = [p \in Pods |-> {}]
  /\ received = [p \in Pods |-> {}]
  /\ committed = {}

\* A server applies what it has received before it serves.
Data(p) == executed[p] \cup received[p]

GroupHolds(p) == UNION {Data(q) : q \in Reachable(p)}

---------------------------------------------------------------------------
(* Transactions.                                                           *)

\* A client commits t on p.  Some members have received it when p answers;
\* whether p's own received set has it depends on the server.
Commit(p, t) ==
  /\ p \in Donors /\ t \notin committed
  /\ \E R \in SUBSET Reachable(p) :
       received' = [q \in Pods |-> IF q \in R THEN received[q] \cup {t} ELSE received[q]]
  /\ executed' = [executed EXCEPT ![p] = @ \cup {t}]
  /\ committed' = committed \cup {t}
  /\ UNCHANGED vars

\* A member receives and executes what its group has agreed on.
Apply(p) ==
  /\ p \in Online /\ Quorate(p)
  /\ executed[p] # GroupHolds(p)
  /\ \E R \in {received[p], GroupHolds(p)} :
       /\ received' = [received EXCEPT ![p] = R]
       /\ executed' = [executed EXCEPT ![p] = GroupHolds(p)]
  /\ UNCHANGED <<vars, committed>>

---------------------------------------------------------------------------
(* The steps of GRController that use or move data.                        *)

RC == INSTANCE RestartCandidate WITH
        sets <- [p \in Pods |-> [executed |-> executed[p], certified |-> received[p]]],
        candidate <- restartCandidate

\* The collected pods in the order the cache happened to list them.
Orders == {list \in [1..Cardinality(infos) -> infos] :
             {list[i] : i \in DOMAIN list} = infos}

\* Mutant of PickWithGTIDs: no pod is looked for that has everything.
PickLowest ==
  /\ PickRestartCandidate
  /\ \E list \in Orders : mysql'.candidate = RC!LowestOrdinal(list)
  /\ UNCHANGED dataVars

\* The end of reconcileGroupReplication's first half, with the choice made.
PickWithGTIDs ==
  /\ PickRestartCandidate
  /\ \E list \in Orders : mysql'.candidate = RC!PickRestartCandidate(list)
  /\ UNCHANGED dataVars

\* The chosen candidate lacks a committed transaction.
Loses == pc = "candidate" /\ ~(committed \subseteq Data(mysql.candidate))

\* Behaviours are followed up to such a loss: later the pods that have the
\* lost transactions are refused by the group.
WriteHarmless ==
  /\ ~Loses
  /\ WriteCandidate
  /\ UNCHANGED dataVars

\* What p's group has agreed on reaches the members that go on without p.
StopDelivers(p) ==
  /\ PodDown(p)
  /\ received' = [q \in Pods |-> IF view'[q] \notin {{}, view[q]}
                                 THEN received[q] \cup GroupHolds(p) ELSE received[q]]
  /\ UNCHANGED <<executed, committed>>

\* Distributed recovery fetches what the group has.
RecoverFetches(p) ==
  /\ MemberRecovers(p)
  /\ executed' = [executed EXCEPT ![p] = GroupHolds(p)]
  /\ UNCHANGED <<received, committed>>

Otherwise ==
  /\ \/ Reconcile \/ ReconcileResources \/ ObserveStatefulSet \/ LoadSecretsAndPods
     \/ \E p \in Pods : CollectGroupInfo(p) \/ ReconcilePod(p) \/ PodUp(p) \/ DeliverPod(p)
     \/ NoCandidateNeeded \/ BootstrapOn \/ BootstrapStart \/ BootstrapOff \/ JoinGroup
     \/ FinishPods \/ SQLError \/ FailStatus
     \/ DeliverMySQL \/ DeliverStatefulSet \/ Edit \/ OperatorRestart
  /\ UNCHANGED dataVars

DataNext ==
  \/ \E p \in Pods : Apply(p) \/ StopDelivers(p) \/ RecoverFetches(p)
  \/ \E p \in Pods, t \in Txns : Commit(p, t)
  \/ PickWithGTIDs \/ WriteHarmless \/ Otherwise

DataSpec == DataInit /\ [][DataNext]_<<vars, dataVars>> /\ Fairness

---------------------------------------------------------------------------
\* A committed transaction is never lost by accident: the group that accepts
\* writes has it, however its members died and whoever formed the group again;
\* and PickRestartCandidate names a pod without it only when none of the pods
\* was a superset of the others (its fallback to the lowest ordinal).
CommittedKept ==
  /\ \A p \in Donors : committed \subseteq GroupHolds(p)
  /\ Loses => \A p \in infos : \E q \in infos : ~RC!Superset(p, q)

\* The convergence of GRController, unless committed transactions are lost.
ConvergesOrLoses == <>Loses \/ ConvergesOrQuorumLost

============================================================================

------------------------ MODULE GRControllerProofs ------------------------
(***************************************************************************)
(* Proofs about GRController, for every number of pods and every choice of *)
(* the faults, unless a theorem restricts them.                            *)
(***************************************************************************)
EXTENDS GRController, FiniteSetTheorems, TLAPS

USE NAssumption, ConstAssumption

\* There are spec.replicas pods.
LEMMA PodsFinite == IsFiniteSet(Pods) /\ Cardinality(Pods) = N
BY FS_Interval DEF Pods

\* The number of ready pods is between 0 and spec.replicas.
LEMMA ReadyCount ==
  \A S \in SUBSET Pods : Cardinality(S) \in 0..N
<1> SUFFICES ASSUME NEW S \in SUBSET Pods PROVE Cardinality(S) \in 0..N
    OBVIOUS
<1>1. IsFiniteSet(S) /\ Cardinality(S) <= N
  BY PodsFinite, FS_Subset
<1>2. Cardinality(S) \in Nat
  BY <1>1, FS_CardinalityType
<1> QED
  BY <1>1, <1>2

---------------------------------------------------------------------------
(* Type correctness.                                                       *)

\* The status of a new object is a status.
LEMMA NewStatusType == NewStatus \in Status
<1>1. "" \in Phases /\ 0 \in 0..N /\ FALSE \in BOOLEAN /\ None \in Pods \cup {None}
  BY DEF Phases
<1> QED
  BY <1>1 DEF NewStatus, Status

\* What failStatus writes is a status.
LEMMA DegradedType ==
  ASSUME NEW s \in Status
  PROVE  [s EXCEPT !.phase = "Degraded"] \in Status
<1>1. "Degraded" \in Phases
  BY DEF Phases
<1> QED
  BY <1>1 DEF Status

\* A status write leaves statuses.
LEMMA UpdateStatusType ==
  ASSUME TypeOK, NEW s \in Status, UpdateStatus(s)
  PROVE  api' \in Status /\ cache' \in Status /\ lag' \in BOOLEAN /\ queued' \in BOOLEAN
BY DEF TypeOK, UpdateStatus, Store, NoStore

\* START and the end of recovery keep the type of the servers' state.
LEMMA StartType ==
  ASSUME MySQLTypeOK, NEW p \in Pods, StartGroupReplication(p)
  PROVE  MySQLTypeOK'
<1>1. CASE FormGroup(p)
  BY <1>1 DEF MySQLTypeOK, StartGroupReplication, FormGroup, MemberStates
<1>2. CASE EnterGroup(p)
  BY <1>2 DEF MySQLTypeOK, StartGroupReplication, EnterGroup, MemberStates, Donors, Online
<1> QED
  BY <1>1, <1>2 DEF StartGroupReplication

\* A stopping mysqld keeps the type of the servers' state.
LEMMA StopType ==
  ASSUME MySQLTypeOK, NEW p \in Pods, NEW orderly \in BOOLEAN, MysqldStop(p, orderly)
  PROVE  MySQLTypeOK'
<1> DEFINE rest == Reachable(p) \ {p}
           gone == {p} \cup (IF rest \cap Online = {} THEN rest ELSE {})
<1>1. gr' \in [Pods -> MemberStates]
  <2>1. gr' = [q \in Pods |-> IF q \in gone THEN "OFFLINE" ELSE gr[q]]
    BY DEF MysqldStop
  <2> HIDE DEF gone
  <2> QED BY <2>1 DEF MySQLTypeOK, MemberStates
<1>2. view' \in [Pods -> SUBSET Pods]
  BY DEF MysqldStop, MySQLTypeOK
<1> QED
  BY <1>1, <1>2 DEF MySQLTypeOK, MysqldStop

\* Every step keeps the type invariant: one step below per action.
LEMMA TypeStep ==
  ASSUME TypeOK, [Next]_vars
  PROVE  TypeOK'
<1> USE DEF TypeOK
<1>1. CASE Reconcile
  BY <1>1 DEF Reconcile, Steps, mysqlVars, k8sVars, loopVars, MySQLTypeOK
<1>2. CASE ReconcileResources
  BY <1>2, NewStatusType DEF ReconcileResources, Return, Steps, mysqlVars, k8sVars, loopVars, MySQLTypeOK
<1>3. CASE ObserveStatefulSet
  <2> DEFINE s == Observed(mysql, stsSeen)
  <2>1. s \in Status
    BY DEF Observed, Status, Phases
  <2>2. CASE UpdateStatus(s)
    <3>1. api' \in Status /\ cache' \in Status /\ lag' \in BOOLEAN /\ queued' \in BOOLEAN
      <4> HIDE DEF s, TypeOK
      <4> QED BY <2>1, <2>2, UpdateStatusType
    <3> HIDE DEF s
    <3>2. mysql' = s \/ mysql' = NewStatus
      BY <1>3 DEF ObserveStatefulSet, Return, s
    <3> QED BY <1>3, <2>1, <3>1, <3>2, NewStatusType DEF ObserveStatefulSet, Return, Steps, mysqlVars, loopVars, MySQLTypeOK
  <2>3. CASE NoStore /\ Return /\ UNCHANGED queued
    BY <1>3, <2>3, NewStatusType DEF ObserveStatefulSet, NoStore, Return, Steps, mysqlVars, MySQLTypeOK
  <2> QED BY <1>3, <2>2, <2>3 DEF ObserveStatefulSet
<1>4. CASE LoadSecretsAndPods
  BY <1>4 DEF LoadSecretsAndPods, Status, Steps, mysqlVars, k8sVars, MySQLTypeOK
<1>5. ASSUME NEW p \in Pods, CollectGroupInfo(p) PROVE TypeOK'
  BY <1>5 DEF CollectGroupInfo, mysqlVars, k8sVars, MySQLTypeOK
<1>6. CASE PickRestartCandidate
  BY <1>6 DEF PickRestartCandidate, Status, Steps, mysqlVars, k8sVars, loopVars, MySQLTypeOK
<1>7. CASE WriteCandidate
  <2>1. api' \in Status /\ cache' \in Status /\ lag' \in BOOLEAN /\ queued' \in BOOLEAN
    BY <1>7, UpdateStatusType DEF WriteCandidate
  <2> QED BY <1>7, <2>1, NewStatusType DEF WriteCandidate, Return, Steps, mysqlVars, MySQLTypeOK
<1>8. CASE NoCandidateNeeded
  BY <1>8 DEF NoCandidateNeeded, Steps, mysqlVars, k8sVars, loopVars, MySQLTypeOK
<1>9. ASSUME NEW p \in Pods, ReconcilePod(p) PROVE TypeOK'
  BY <1>9 DEF ReconcilePod, Steps, k8sVars, loopVars, MySQLTypeOK
<1>10. CASE BootstrapOn
  BY <1>10 DEF BootstrapOn, SetBootstrapGroup, Steps, k8sVars, loopVars, MySQLTypeOK
<1>11. CASE BootstrapStart
  <2>1. cur \in Pods
    BY <1>11 DEF BootstrapStart, MySQLTypeOK
  <2>2. MySQLTypeOK'
    BY <1>11, <2>1, StartType DEF BootstrapStart, mysqlVars, MySQLTypeOK
  <2> QED BY <1>11, <2>1, <2>2 DEF BootstrapStart, Steps, k8sVars, loopVars
<1>12. CASE BootstrapOff
  <2>1. MySQLTypeOK'
    BY <1>12 DEF BootstrapOff, SetBootstrapGroup, MySQLTypeOK
  <2>2. mysql' \in Status
    <3>1. [phase |-> mysql.phase, readyReplicas |-> mysql.readyReplicas,
           bootstrapped |-> TRUE, candidate |-> None] \in Status
      BY DEF Status
    <3> QED BY <1>12, <3>1 DEF BootstrapOff
  <2>3. bootstrapped' \in BOOLEAN /\ statusDirty' \in BOOLEAN /\ pc' \in Steps
    BY <1>12 DEF BootstrapOff, Steps
  <2> QED BY <1>12, <2>1, <2>2, <2>3 DEF BootstrapOff, k8sVars
<1>13. CASE JoinGroup
  <2>1. cur \in Pods
    BY <1>13 DEF JoinGroup, MySQLTypeOK
  <2>2. MySQLTypeOK'
    BY <1>13, <2>1, StartType DEF JoinGroup, mysqlVars, MySQLTypeOK
  <2> QED BY <1>13, <2>2 DEF JoinGroup, Steps, k8sVars, loopVars
<1>14. CASE FinishPods
  <2>1. api' \in Status /\ cache' \in Status /\ lag' \in BOOLEAN /\ queued' \in BOOLEAN
    BY <1>14, UpdateStatusType DEF FinishPods, NoStore
  <2> QED BY <1>14, <2>1, NewStatusType DEF FinishPods, Return, Steps, mysqlVars, MySQLTypeOK
<1>15. CASE SQLError
  BY <1>15 DEF SQLError, Steps, k8sVars, loopVars, MySQLTypeOK
<1>16. CASE FailStatus
  BY <1>16, NewStatusType, DegradedType DEF FailStatus, Store, NoStore, Return, Steps, mysqlVars, MySQLTypeOK
<1>17. ASSUME NEW p \in Pods, PodUp(p) PROVE TypeOK'
  <2>1. MySQLTypeOK'
    BY <1>17 DEF PodUp, MysqldStart, MySQLTypeOK
  <2> QED BY <1>17, <2>1, ReadyCount DEF PodUp, ReadinessSeen, passVars, MySQLTypeOK
<1>18. ASSUME NEW p \in Pods, PodDown(p) PROVE TypeOK'
  <2>1. MySQLTypeOK'
    BY <1>18, StopType DEF PodDown
  <2> QED BY <1>18, <2>1, ReadyCount DEF PodDown, ReadinessSeen, passVars, MySQLTypeOK
<1>19. ASSUME NEW p \in Pods, MemberRecovers(p) PROVE TypeOK'
  BY <1>19 DEF MemberRecovers, Recover, MemberStates, k8sVars, passVars, MySQLTypeOK
<1>20. ASSUME NEW p \in Pods, DeliverPod(p) PROVE TypeOK'
  BY <1>20 DEF DeliverPod, mysqlVars, passVars, MySQLTypeOK
<1>21. CASE DeliverMySQL
  BY <1>21 DEF DeliverMySQL, mysqlVars, passVars, MySQLTypeOK
<1>22. CASE DeliverStatefulSet
  BY <1>22, ReadyCount DEF DeliverStatefulSet, mysqlVars, passVars, MySQLTypeOK
<1>23. CASE Edit
  BY <1>23 DEF Edit, mysqlVars, MySQLTypeOK
<1>24. CASE OperatorRestart
  BY <1>24, ReadyCount, NewStatusType DEF OperatorRestart, Return, Steps, mysqlVars, MySQLTypeOK
<1>25. CASE UNCHANGED vars
  BY <1>25 DEF vars, mysqlVars, k8sVars, passVars, MySQLTypeOK
<1> QED
  BY <1>1, <1>2, <1>3, <1>4, <1>5, <1>6, <1>7, <1>8, <1>9, <1>10, <1>11, <1>12, <1>13,
     <1>14, <1>15, <1>16, <1>17, <1>18, <1>19, <1>20, <1>21, <1>22, <1>23, <1>24, <1>25
  DEF Next, Pass, Cluster

\* The initial state has the right types.
LEMMA TypeInit == Init => TypeOK
<1> SUFFICES ASSUME Init PROVE TypeOK
    OBVIOUS
<1>1. MySQLTypeOK
  BY DEF Init, MySQLInit, MySQLTypeOK, MemberStates
<1>2. stsSeen \in 0..N
  BY DEF Init
<1> QED
  BY <1>1, <1>2, NewStatusType DEF Init, TypeOK, Steps

\* Every variable keeps its type, whatever fails.
THEOREM TypeCorrect == Spec => []TypeOK
<1>1. Init => TypeOK
  BY TypeInit
<1>2. TypeOK /\ [Next]_vars => TypeOK'
  BY TypeStep
<1> QED
  BY <1>1, <1>2, PTL DEF Spec

---------------------------------------------------------------------------
(* One bootstrap per pass.                                                 *)

\* Where in the pass the history variable booted can be non-empty, and why the
\* switch of reconcilePods cannot choose to bootstrap once more: after an
\* initial bootstrap the local flag is set and there is no candidate, after a
\* rebootstrap the candidate has had its turn.
BootInv ==
  /\ restartCandidate # None => bootstrapped
  /\ pc = "collect" /\ bootstrapped => mysql.bootstrapped
  /\ pc \in {"idle", "resources", "status", "list", "collect", "candidate"} => booted = {}
  /\ pc \in {"bootOn", "bootStart", "bootOff"} =>
       /\ cur \in Pods /\ cur \notin todo
       /\ bootstrapped => restartCandidate = cur
  /\ pc \in {"bootOn", "bootStart"} => booted = {}
  /\ pc = "bootOff" => booted = {cur}
  /\ pc \in {"pods", "join"} /\ booted # {} =>
       bootstrapped /\ (restartCandidate = None \/ restartCandidate \notin todo)

PassInv == TypeOK /\ StatusCoherent /\ BootInv /\ OneBootstrapPerPass

\* The end of a pass preserves the parts of PassInv it touches.
LEMMA ReturnBoot ==
  ASSUME Return
  PROVE  BootInv' /\ OneBootstrapPerPass' /\ (mysql'.candidate # None => mysql'.bootstrapped)
BY DEF Return, BootInv, OneBootstrapPerPass, NewStatus

\* A write of a coherent status leaves coherent statuses.
LEMMA StoreCoherent ==
  ASSUME StatusCoherent, NEW s, s.candidate # None => s.bootstrapped,
         Store(s) \/ NoStore
  PROVE  \A t \in {api', cache'} : t.candidate # None => t.bootstrapped
BY DEF StatusCoherent, Store, NoStore

\* Every step preserves PassInv: one step below per action.
LEMMA PassStep ==
  ASSUME PassInv, [Next]_vars
  PROVE  StatusCoherent' /\ BootInv' /\ OneBootstrapPerPass'
<1>0. TypeOK /\ TypeOK'
  BY TypeStep DEF PassInv
<1> USE DEF PassInv
<1>1. CASE Reconcile
  BY <1>1 DEF Reconcile, StatusCoherent, BootInv, OneBootstrapPerPass, k8sVars, loopVars
<1>2. CASE ReconcileResources
  BY <1>2, ReturnBoot
  DEF ReconcileResources, StatusCoherent, BootInv, OneBootstrapPerPass, k8sVars, loopVars
<1>3. CASE ObserveStatefulSet
  <2> DEFINE s == Observed(mysql, stsSeen)
  <2>1. s.candidate # None => s.bootstrapped
    BY DEF Observed, StatusCoherent
  <2>2. Store(s) \/ NoStore
    BY <1>3 DEF ObserveStatefulSet, UpdateStatus
  <2>3. \A t \in {api', cache'} : t.candidate # None => t.bootstrapped
    BY <2>1, <2>2, StoreCoherent
  <2>4. CASE Return
    BY <2>3, <2>4, ReturnBoot DEF StatusCoherent
  <2>5. CASE mysql' = s /\ pc' = "list" /\ UNCHANGED <<loopVars, todo, cur, statusDirty, booted>>
    BY <1>3, <2>1, <2>3, <2>5
    DEF ObserveStatefulSet, StatusCoherent, BootInv, OneBootstrapPerPass, loopVars
  <2> QED BY <1>3, <2>4, <2>5 DEF ObserveStatefulSet
<1>4. CASE LoadSecretsAndPods
  BY <1>4 DEF LoadSecretsAndPods, StatusCoherent, BootInv, OneBootstrapPerPass, k8sVars
<1>5. ASSUME NEW p \in Pods, CollectGroupInfo(p)
      PROVE  StatusCoherent' /\ BootInv' /\ OneBootstrapPerPass'
  BY <1>5 DEF CollectGroupInfo, StatusCoherent, BootInv, OneBootstrapPerPass, k8sVars
<1>6. CASE PickRestartCandidate
  <2>1. mysql'.bootstrapped
    BY <1>0, <1>6 DEF PickRestartCandidate, NeedsCandidate, BootInv, TypeOK, Status
  <2> QED BY <1>6, <2>1
    DEF PickRestartCandidate, StatusCoherent, BootInv, OneBootstrapPerPass, k8sVars, loopVars
<1>7. CASE WriteCandidate
  <2>1. \A t \in {api', cache'} : t.candidate # None => t.bootstrapped
    BY <1>7, StoreCoherent DEF WriteCandidate, UpdateStatus, StatusCoherent
  <2> QED BY <1>7, <2>1, ReturnBoot DEF WriteCandidate, StatusCoherent
<1>8. CASE NoCandidateNeeded
  BY <1>8
  DEF NoCandidateNeeded, StatusCoherent, BootInv, OneBootstrapPerPass, k8sVars, loopVars
<1>9. ASSUME NEW p \in Pods, ReconcilePod(p)
      PROVE  StatusCoherent' /\ BootInv' /\ OneBootstrapPerPass'
  <2>1. StatusCoherent' /\ OneBootstrapPerPass'
    BY <1>9 DEF ReconcilePod, StatusCoherent, OneBootstrapPerPass, k8sVars
  <2>2. CASE gr[p] = "ONLINE"
    BY <1>9, <2>1, <2>2 DEF ReconcilePod, SelfOnline, BootInv, loopVars
  <2>3. CASE gr[p] # "ONLINE" /\ ~ShouldBootstrap(p)
    BY <1>9, <2>1, <2>3 DEF ReconcilePod, SelfOnline, BootInv, loopVars
  <2>4. CASE gr[p] # "ONLINE" /\ ShouldBootstrap(p)
    <3>1. p \in todo /\ pc = "pods" /\ (bootstrapped => restartCandidate = p)
      BY <1>9, <2>4 DEF ReconcilePod, SelfOnline, ShouldBootstrap
    <3>2. booted = {}
      BY <3>1, <2>4 DEF BootInv, ShouldBootstrap
    <3> QED BY <1>9, <2>1, <2>4, <3>1, <3>2 DEF ReconcilePod, SelfOnline, BootInv, loopVars
  <2> QED BY <2>2, <2>3, <2>4
<1>10. CASE BootstrapOn
  BY <1>10 DEF BootstrapOn, StatusCoherent, BootInv, OneBootstrapPerPass, k8sVars, loopVars
<1>11. CASE BootstrapStart
  BY <1>11 DEF BootstrapStart, StatusCoherent, BootInv, OneBootstrapPerPass, k8sVars, loopVars
<1>12. CASE BootstrapOff
  BY <1>12 DEF BootstrapOff, StatusCoherent, BootInv, OneBootstrapPerPass, k8sVars
<1>13. CASE JoinGroup
  BY <1>13 DEF JoinGroup, StatusCoherent, BootInv, OneBootstrapPerPass, k8sVars, loopVars
<1>14. CASE FinishPods
  <2>1. \A t \in {api', cache'} : t.candidate # None => t.bootstrapped
    BY <1>14, StoreCoherent DEF FinishPods, UpdateStatus, StatusCoherent
  <2> QED BY <1>14, <2>1, ReturnBoot DEF FinishPods, StatusCoherent
<1>15. CASE SQLError
  BY <1>15 DEF SQLError, StatusCoherent, BootInv, OneBootstrapPerPass, k8sVars, loopVars
<1>16. CASE FailStatus
  <2> DEFINE s == [mysql EXCEPT !.phase = "Degraded"]
  <2>1. s.candidate # None => s.bootstrapped
    BY <1>0 DEF StatusCoherent, TypeOK, Status
  <2>2. Store(s) \/ NoStore
    BY <1>16 DEF FailStatus
  <2>3. \A t \in {api', cache'} : t.candidate # None => t.bootstrapped
    <3> HIDE DEF s
    <3> QED BY <2>1, <2>2, StoreCoherent
  <2> QED BY <1>16, <2>3, ReturnBoot DEF FailStatus, StatusCoherent
<1>17. ASSUME NEW p \in Pods, PodUp(p) \/ PodDown(p) \/ MemberRecovers(p) \/ DeliverPod(p)
       PROVE  StatusCoherent' /\ BootInv' /\ OneBootstrapPerPass'
  <2>1. UNCHANGED <<api, cache, passVars>>
    BY <1>17 DEF PodUp, PodDown, MemberRecovers, DeliverPod, k8sVars
  <2> QED BY <2>1 DEF StatusCoherent, BootInv, OneBootstrapPerPass, passVars
<1>18. CASE DeliverMySQL \/ DeliverStatefulSet
  BY <1>18
  DEF DeliverMySQL, DeliverStatefulSet, StatusCoherent, BootInv, OneBootstrapPerPass, passVars
<1>19. CASE Edit
  BY <1>19 DEF Edit, StatusCoherent, BootInv, OneBootstrapPerPass
<1>20. CASE OperatorRestart
  BY <1>20, ReturnBoot DEF OperatorRestart, StatusCoherent
<1>21. CASE UNCHANGED vars
  BY <1>21 DEF vars, k8sVars, passVars, StatusCoherent, BootInv, OneBootstrapPerPass
<1> QED
  BY <1>1, <1>2, <1>3, <1>4, <1>5, <1>6, <1>7, <1>8, <1>9, <1>10, <1>11, <1>12, <1>13,
     <1>14, <1>15, <1>16, <1>17, <1>18, <1>19, <1>20, <1>21
  DEF Next, Pass, Cluster

\* PassInv is an invariant.
LEMMA PassInvariant == Spec => []PassInv
<1>1. Init => PassInv
  <2> SUFFICES ASSUME Init PROVE StatusCoherent /\ BootInv /\ OneBootstrapPerPass
    BY TypeInit DEF PassInv
  <2>1. NewStatus.candidate = None
    BY DEF NewStatus
  <2> QED BY <2>1 DEF Init, StatusCoherent, BootInv, OneBootstrapPerPass
<1>2. PassInv /\ [Next]_vars => PassInv'
  BY TypeStep, PassStep DEF PassInv
<1> QED
  BY <1>1, <1>2, PTL DEF Spec

\* A restart candidate is only ever named for a group that was bootstrapped,
\* in the stored, the cached and the in-memory status, whatever fails.
THEOREM CandidateImpliesBootstrapped == Spec => []StatusCoherent
<1>1. PassInv => StatusCoherent
  BY DEF PassInv
<1> QED
  BY <1>1, PassInvariant, PTL

\* One pass of reconcilePods forms at most one group, for every number of pods,
\* every list order and every failure.
THEOREM AtMostOneBootstrap == Spec => []OneBootstrapPerPass
<1>1. PassInv => OneBootstrapPerPass
  BY DEF PassInv
<1> QED
  BY <1>1, PassInvariant, PTL

---------------------------------------------------------------------------
(* With caches that are up to date the status forgets nothing.             *)

\* Writing s over the stored status takes nothing back that is still needed.
Keeps(s) ==
  /\ api.bootstrapped => s.bootstrapped
  /\ api.candidate # None /\ s.candidate # api.candidate
       => s.candidate = None /\ api.candidate \in booted

\* The object of the running pass may be written at any moment, and the locals
\* copied from it agree with the stored status.
KeptInv ==
  /\ cache = api /\ lag = FALSE
  /\ pc # "idle" => Keeps(mysql)
  /\ pc \in {"resources", "status", "list"} => mysql.candidate = api.candidate
  /\ pc \in {"collect", "pods", "bootOn", "bootStart", "bootOff", "join"} =>
       /\ restartCandidate = api.candidate
       /\ api.bootstrapped => bootstrapped

\* Without stale caches every step preserves KeptInv and keeps the status.
LEMMA KeptStep ==
  ASSUME "stale" \notin Faults, PassInv, KeptInv, [Next]_vars
  PROVE  KeptInv' /\ (api' = api \/ Keeps(api'))
<1>0. TypeOK /\ TypeOK'
  BY TypeStep DEF PassInv
<1>1. CASE Reconcile
  BY <1>1 DEF Reconcile, KeptInv, Keeps, k8sVars
<1>2. CASE ReconcileResources
  BY <1>2 DEF ReconcileResources, Return, KeptInv, Keeps, k8sVars, loopVars
<1>3. CASE ObserveStatefulSet
  <2> DEFINE s == Observed(mysql, stsSeen)
  <2>1. s.bootstrapped = mysql.bootstrapped /\ s.candidate = mysql.candidate
    BY DEF Observed
  <2>2. pc = "status" /\ booted = {} /\ Keeps(mysql)
    BY <1>3 DEF ObserveStatefulSet, PassInv, BootInv, KeptInv
  <2>3. (Store(s) \/ NoStore) /\ ((mysql' = s /\ pc' = "list" /\ booted' = booted) \/ Return)
    BY <1>3 DEF ObserveStatefulSet, UpdateStatus
  <2> HIDE DEF s
  <2>4. CASE Store(s)
    BY <2>1, <2>2, <2>3, <2>4 DEF Store, Return, KeptInv, Keeps
  <2>5. CASE NoStore
    BY <2>1, <2>2, <2>3, <2>5 DEF NoStore, Return, KeptInv, Keeps
  <2> QED BY <2>3, <2>4, <2>5
<1>4. CASE LoadSecretsAndPods
  BY <1>4 DEF LoadSecretsAndPods, KeptInv, Keeps, k8sVars
<1>5. ASSUME NEW p \in Pods, CollectGroupInfo(p) PROVE KeptInv' /\ api' = api
  BY <1>5 DEF CollectGroupInfo, KeptInv, Keeps, k8sVars
<1>6. CASE PickRestartCandidate
  <2>1. api.candidate = None /\ (api.bootstrapped => mysql.bootstrapped)
    BY <1>6 DEF PickRestartCandidate, NeedsCandidate, KeptInv, Keeps
  <2>2. mysql'.bootstrapped = mysql.bootstrapped
    BY <1>0, <1>6 DEF PickRestartCandidate, TypeOK, Status
  <2> QED BY <1>6, <2>1, <2>2 DEF PickRestartCandidate, KeptInv, Keeps, k8sVars
<1>7. CASE WriteCandidate
  BY <1>7 DEF WriteCandidate, UpdateStatus, Store, NoStore, Return, KeptInv, Keeps
<1>8. CASE NoCandidateNeeded
  BY <1>8 DEF NoCandidateNeeded, KeptInv, Keeps, k8sVars, loopVars
<1>9. ASSUME NEW p \in Pods, ReconcilePod(p) PROVE KeptInv' /\ api' = api
  BY <1>9 DEF ReconcilePod, KeptInv, Keeps, k8sVars, loopVars
<1>10. CASE BootstrapOn
  BY <1>10 DEF BootstrapOn, KeptInv, Keeps, k8sVars, loopVars
<1>11. CASE BootstrapStart
  BY <1>11 DEF BootstrapStart, KeptInv, Keeps, k8sVars, loopVars
<1>12. CASE BootstrapOff
  <2>1. booted = {cur} /\ (bootstrapped => restartCandidate = cur)
    BY <1>12 DEF BootstrapOff, PassInv, BootInv
  <2>2. api.candidate # None => api.bootstrapped
    BY DEF PassInv, StatusCoherent
  <2>3. api.candidate # None => api.candidate = cur
    BY <1>12, <2>1, <2>2 DEF BootstrapOff, KeptInv
  <2> QED BY <1>12, <2>1, <2>3 DEF BootstrapOff, KeptInv, Keeps, k8sVars
<1>13. CASE JoinGroup
  BY <1>13 DEF JoinGroup, KeptInv, Keeps, k8sVars, loopVars
<1>14. CASE FinishPods
  BY <1>14 DEF FinishPods, UpdateStatus, Store, NoStore, Return, KeptInv, Keeps
<1>15. CASE SQLError
  BY <1>15 DEF SQLError, KeptInv, Keeps, k8sVars, loopVars
<1>16. CASE FailStatus
  <2> DEFINE s == [mysql EXCEPT !.phase = "Degraded"]
  <2>1. s.bootstrapped = mysql.bootstrapped /\ s.candidate = mysql.candidate
    BY <1>0 DEF TypeOK, Status
  <2>2. (Store(s) \/ NoStore) /\ Return /\ pc = "fail"
    BY <1>16 DEF FailStatus
  <2> HIDE DEF s
  <2> QED BY <2>1, <2>2 DEF Store, NoStore, Return, KeptInv, Keeps
<1>17. ASSUME NEW p \in Pods, PodUp(p) \/ PodDown(p) \/ MemberRecovers(p) \/ DeliverPod(p)
       PROVE  KeptInv' /\ api' = api
  <2>1. UNCHANGED <<api, cache, lag, passVars>>
    BY <1>17 DEF PodUp, PodDown, MemberRecovers, DeliverPod, k8sVars
  <2> QED BY <2>1 DEF KeptInv, Keeps, passVars
<1>18. CASE DeliverMySQL \/ DeliverStatefulSet
  BY <1>18 DEF DeliverMySQL, DeliverStatefulSet, KeptInv, Keeps, passVars
<1>19. CASE Edit
  BY <1>19 DEF Edit, KeptInv, Keeps
<1>20. CASE OperatorRestart
  BY <1>20 DEF OperatorRestart, Return, KeptInv, Keeps
<1>21. CASE UNCHANGED vars
  BY <1>21 DEF vars, k8sVars, passVars, KeptInv, Keeps
<1> QED
  BY <1>1, <1>2, <1>3, <1>4, <1>5, <1>6, <1>7, <1>8, <1>9, <1>10, <1>11, <1>12, <1>13,
     <1>14, <1>15, <1>16, <1>17, <1>18, <1>19, <1>20, <1>21
  DEF Next, Pass, Cluster

\* When the informer cache is never behind, no write of the status takes back
\* GroupReplicationBootstrapped or drops a restart candidate that has not
\* formed the group, whatever else fails: API calls, SQL statements, servers,
\* the operator itself.
THEOREM StatusIsKept ==
  ASSUME "stale" \notin Faults
  PROVE  Spec => StatusKept
<1>1. Init => KeptInv
  BY DEF Init, KeptInv
<1>2. PassInv /\ KeptInv /\ [Next]_vars => KeptInv'
  BY KeptStep
<1>3. PassInv /\ KeptInv /\ [Next]_vars =>
        [/\ api.bootstrapped => api'.bootstrapped
         /\ api.candidate # None /\ api'.candidate # api.candidate
              => api'.candidate = None /\ api.candidate \in booted]_vars
  BY KeptStep DEF Keeps
<1> QED
  BY <1>1, <1>2, <1>3, PassInvariant, PTL DEF Spec, StatusKept


---------------------------------------------------------------------------
(* A restart candidate makes another pass follow, however far the caches   *)
(* lag.                                                                    *)

\* A pass that no event has overtaken works on the candidate that the API
\* server has, and picks one only when that is none.
TriggerInv ==
  /\ ~lag => cache = api
  /\ pc \in {"resources", "status", "list", "collect"} /\ ~lag /\ ~queued =>
       mysql.candidate = api.candidate
  /\ pc = "collect" => restartCandidate = mysql.candidate
  /\ pc = "candidate" => mysql.candidate # None
  /\ pc = "candidate" /\ ~lag /\ ~queued => api.candidate = None

\* The end of a pass leaves little to show.
LEMMA ReturnTrigger ==
  ASSUME Return, ~lag' => cache' = api'
  PROVE  TriggerInv'
BY DEF Return, TriggerInv

\* A write of the status, done or not, keeps a current cache current.
LEMMA StoreCurrent ==
  ASSUME TriggerInv, NEW s, Store(s) \/ NoStore
  PROVE  ~lag' => cache' = api'
BY DEF TriggerInv, Store, NoStore

\* Every step preserves TriggerInv: one step below per action.
LEMMA TriggerStep ==
  ASSUME TypeOK, TriggerInv, [Next]_vars
  PROVE  TriggerInv'
<1>1. CASE Reconcile
  BY <1>1 DEF Reconcile, TriggerInv, k8sVars
<1>2. CASE ReconcileResources
  BY <1>2 DEF ReconcileResources, Return, TriggerInv, k8sVars, loopVars
<1>3. CASE ObserveStatefulSet
  <2> DEFINE s == Observed(mysql, stsSeen)
  <2>1. s.candidate = mysql.candidate
    BY DEF Observed
  <2>2. Store(s) \/ NoStore
    BY <1>3 DEF ObserveStatefulSet, UpdateStatus
  <2>3. (mysql' = s /\ pc' = "list" /\ UpdateStatus(s)) \/ Return
    BY <1>3 DEF ObserveStatefulSet
  <2>4. pc = "status"
    BY <1>3 DEF ObserveStatefulSet
  <2> HIDE DEF s
  <2>5. ~lag' => cache' = api'
    BY <2>2, StoreCurrent
  <2>6. CASE Return
    BY <2>5, <2>6, ReturnTrigger
  <2>7. CASE mysql' = s /\ pc' = "list" /\ UpdateStatus(s)
    <3>1. ~lag' /\ ~queued' => s.candidate = api'.candidate
      BY <2>1, <2>4, <2>7 DEF UpdateStatus, Store, NoStore, TriggerInv
    <3> QED BY <2>5, <2>7, <3>1 DEF TriggerInv
  <2> QED BY <2>3, <2>6, <2>7
<1>4. CASE LoadSecretsAndPods
  BY <1>4 DEF LoadSecretsAndPods, TriggerInv, k8sVars
<1>5. ASSUME NEW p \in Pods, CollectGroupInfo(p) PROVE TriggerInv'
  BY <1>5 DEF CollectGroupInfo, TriggerInv, k8sVars
<1>6. CASE PickRestartCandidate
  <2>1. PICK c \in infos : mysql' = [mysql EXCEPT !.candidate = c]
    BY <1>6 DEF PickRestartCandidate
  <2>2. mysql'.candidate = c /\ c # None
    BY <2>1 DEF TypeOK, Status
  <2>3. mysql.candidate = None
    BY <1>6 DEF PickRestartCandidate, NeedsCandidate, TriggerInv
  <2> QED BY <1>6, <2>2, <2>3 DEF PickRestartCandidate, TriggerInv, k8sVars
<1>7. CASE WriteCandidate
  BY <1>7, ReturnTrigger, StoreCurrent DEF WriteCandidate, UpdateStatus
<1>8. CASE NoCandidateNeeded
  BY <1>8 DEF NoCandidateNeeded, TriggerInv, k8sVars
<1>9. ASSUME NEW p \in Pods, ReconcilePod(p) PROVE TriggerInv'
  BY <1>9 DEF ReconcilePod, TriggerInv, k8sVars
<1>10. CASE BootstrapOn \/ BootstrapStart \/ BootstrapOff \/ JoinGroup
  BY <1>10 DEF BootstrapOn, BootstrapStart, BootstrapOff, JoinGroup, TriggerInv, k8sVars
<1>11. CASE FinishPods
  BY <1>11, ReturnTrigger, StoreCurrent DEF FinishPods, UpdateStatus
<1>12. CASE SQLError
  BY <1>12 DEF SQLError, TriggerInv, k8sVars
<1>13. CASE FailStatus
  <2> DEFINE s == [mysql EXCEPT !.phase = "Degraded"]
  <2>1. (Store(s) \/ NoStore) /\ Return
    BY <1>13 DEF FailStatus
  <2> HIDE DEF s
  <2> QED BY <2>1, ReturnTrigger, StoreCurrent
<1>14. ASSUME NEW p \in Pods, PodUp(p) \/ PodDown(p) \/ MemberRecovers(p) \/ DeliverPod(p)
       PROVE  TriggerInv'
  <2>1. UNCHANGED <<api, cache, lag, passVars>> /\ (queued' = queued \/ queued')
    BY <1>14 DEF PodUp, PodDown, ReadinessSeen, MemberRecovers, DeliverPod, k8sVars
  <2> QED BY <2>1 DEF TriggerInv, passVars
<1>15. CASE DeliverMySQL \/ DeliverStatefulSet
  BY <1>15 DEF DeliverMySQL, DeliverStatefulSet, TriggerInv, passVars
<1>16. CASE Edit
  BY <1>16 DEF Edit, TriggerInv
<1>17. CASE OperatorRestart
  BY <1>17, ReturnTrigger DEF OperatorRestart
<1>18. CASE UNCHANGED vars
  BY <1>18 DEF vars, k8sVars, passVars, TriggerInv
<1> QED
  BY <1>1, <1>2, <1>3, <1>4, <1>5, <1>6, <1>7, <1>8, <1>9, <1>10, <1>11, <1>12, <1>13,
     <1>14, <1>15, <1>16, <1>17, <1>18
  DEF Next, Pass, Cluster

\* As long as status writes only fail for a cache that is behind, a pass that
\* ends after choosing a restart candidate is followed by another one, also
\* when the caches lag and other passes and events come in between.
THEOREM CandidateIsFollowedUp ==
  ASSUME "api" \notin Faults
  PROVE  Spec => CandidateTriggersReconcile
<1>1. Init => TriggerInv
  BY DEF Init, TriggerInv
<1>2. TypeOK /\ TriggerInv /\ [Next]_vars => TriggerInv'
  BY TriggerStep
<1>3. TypeOK /\ TypeOK' /\ TriggerInv /\ [Next]_vars =>
        [pc = "candidate" /\ pc' = "idle" => queued' \/ lag']_vars
  <2> SUFFICES ASSUME TypeOK, TypeOK', TriggerInv, Next, pc = "candidate", pc' = "idle"
               PROVE  queued' \/ lag'
      OBVIOUS
  <2>1. WriteCandidate \/ OperatorRestart
    <3>1. ~Pass \/ WriteCandidate
      BY DEF Pass, Reconcile, ReconcileResources, ObserveStatefulSet, LoadSecretsAndPods,
         CollectGroupInfo, PickRestartCandidate, NoCandidateNeeded, ReconcilePod, BootstrapOn,
         BootstrapStart, BootstrapOff, JoinGroup, FinishPods, SQLError, FailStatus
    <3>2. ~Cluster \/ OperatorRestart
      BY DEF Cluster, PodUp, PodDown, MemberRecovers, DeliverPod, DeliverMySQL,
         DeliverStatefulSet, Edit, passVars
    <3> QED BY <3>1, <3>2 DEF Next
  <2>2. CASE WriteCandidate
    <3>1. UpdateStatus(mysql)
      BY <2>2 DEF WriteCandidate
    <3>2. CASE lag /\ NoStore
      BY <3>2 DEF NoStore
    <3>3. CASE ~lag /\ Store(mysql)
      <4>1. queued \/ mysql # api
        BY <3>3 DEF TriggerInv
      <4>2. CASE queued
        BY <3>1, <4>2 DEF UpdateStatus
      <4>3. CASE mysql # api
        BY <3>1, <3>3, <4>3 DEF UpdateStatus, Store, TriggerInv
      <4> QED BY <4>1, <4>2, <4>3
    <3> QED BY <3>1, <3>2, <3>3 DEF UpdateStatus
  <2>3. CASE OperatorRestart
    BY <2>3 DEF OperatorRestart
  <2> QED BY <2>1, <2>2, <2>3
<1> QED
  BY <1>1, <1>2, <1>3, TypeCorrect, PTL DEF Spec, CandidateTriggersReconcile

===========================================================================

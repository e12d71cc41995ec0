-------------------------- MODULE GroupDataProofs --------------------------
(***************************************************************************)
(* Committed transactions are not lost by accident, proved for every       *)
(* number of pods and every set of transactions under the benign faults of *)
(* OneGroupProofs: whoever is called upon to form the group again has them *)
(* all, and PickRestartCandidate names a pod without them only when no pod *)
(* is a superset of the others.                                            *)
(***************************************************************************)
EXTENDS GroupData, OneGroupProofs, Sequences, WellFoundedInduction

USE NAssumption, ConstAssumption

DataTypeOK ==
  /\ executed \in [Pods -> SUBSET Txns] /\ received \in [Pods -> SUBSET Txns]
  /\ committed \subseteq Txns

Members == {p \in Pods : gr[p] # "OFFLINE"}

\* No committed transaction is gone from all servers, and while there is a group
\* that accepts writes its members have them all.
HeldInv ==
  /\ \A t \in committed : \E q \in Pods : t \in Data(q)
  /\ Donors # {} => \A t \in committed : \E q \in Members : t \in Data(q)

\* Whoever is called upon to form the group has them all.
FormerInv ==
  /\ ~api.bootstrapped /\ booted = {} => committed = {}
  /\ api.candidate # None /\ booted = {} => committed \subseteq Data(api.candidate)
  /\ pc \in {"bootOn", "bootStart"} => committed \subseteq Data(cur)

\* p has executed and received all that any pod has.
HasAll(p) ==
  \A q \in Pods : executed[q] \subseteq executed[p] /\ received[q] \subseteq received[p]

\* Every pod is compared, and one that has all is chosen if there is one.
PickedInv ==
  /\ pc = "collect" /\ bootstrapped /\ restartCandidate = None /\ ~anyOnline =>
       infos \cup todo = Pods
  /\ pc = "candidate" =>
       /\ infos = Pods /\ mysql.candidate \in Pods
       /\ (\E p \in Pods : HasAll(p)) => HasAll(mysql.candidate)

DataInv == DataTypeOK /\ HeldInv /\ FormerInv /\ PickedInv

---------------------------------------------------------------------------
(* The group's data.                                                       *)

\* The members of the group are those a donor reaches.
LEMMA GroupOfDonor ==
  ASSUME MySQLTypeOK, GroupInv, NEW p \in Pods, gr[p] # "OFFLINE"
  PROVE  /\ Reachable(p) = Members /\ p \in Members
         /\ GroupHolds(p) = UNION {Data(q) : q \in Members}
BY ReachableMembers DEF Members, GroupHolds

\* Without a group nobody is a donor.
LEMMA NoDonors ==
  ASSUME AllOffline
  PROVE  Donors = {}
BY DEF AllOffline, Donors, Online

---------------------------------------------------------------------------
(* The choice.                                                             *)

\* A nonempty set of list positions has a least element.
LEMMA LeastPosition ==
  ASSUME NEW T \in SUBSET Nat, T # {}
  PROVE  \E x \in T : \A y \in T : x <= y
<1>1. PICK x \in T : \A y \in T : ~(<<y, x>> \in OpToRel(<, Nat))
  BY NatLessThanWellFounded, WFMin
<1>2. \A y \in T : ~(y < x)
  BY <1>1 DEF OpToRel
<1> QED
  BY <1>2

\* superset compares the two GTID sets of two pods.
LEMMA SupersetMeans ==
  \A p, q \in Pods :
    RC!Superset(p, q) <=> executed[q] \subseteq executed[p] /\ received[q] \subseteq received[p]
BY DEF RC!Superset

\* Over a list of all pods PickRestartCandidate finds one that has all, if any.
LEMMA PickHasAll ==
  ASSUME NEW list \in Seq(Pods), {list[i] : i \in DOMAIN list} = Pods,
         NEW p \in Pods, HasAll(p)
  PROVE  HasAll(RC!PickRestartCandidate(list))
<1> DEFINE good == {i \in DOMAIN list : RC!IsSuperset(list, i)}
           k == CHOOSE i \in good : \A j \in good : i <= j
<1>1. PICK i \in DOMAIN list : list[i] = p
  OBVIOUS
<1>2. \A j \in DOMAIN list : list[j] \in Pods
  OBVIOUS
<1>3. i \in good
  BY <1>1, <1>2, SupersetMeans DEF HasAll, RC!IsSuperset
<1>4. good \in SUBSET Nat
  OBVIOUS
<1>5. k \in good
  <2> HIDE DEF good
  <2>1. \E x \in good : \A y \in good : x <= y
    BY <1>3, <1>4, LeastPosition
  <2> QED BY <2>1
<1>6. RC!PickRestartCandidate(list) = list[k]
  BY <1>3 DEF RC!PickRestartCandidate
<1>7. \A q \in Pods : \E j \in DOMAIN list : list[j] = q
  OBVIOUS
<1>8. HasAll(list[k])
  <2>1. k \in DOMAIN list /\ RC!IsSuperset(list, k)
    BY <1>5
  <2> HIDE DEF k
  <2>2. \A j \in DOMAIN list : list[j] = list[k] \/ RC!Superset(list[k], list[j])
    BY <2>1 DEF RC!IsSuperset
  <2> QED BY <1>2, <1>7, <2>1, <2>2, SupersetMeans DEF HasAll
<1> QED
  BY <1>6, <1>8

---------------------------------------------------------------------------
(* The steps of the servers.                                               *)

\* While some pod is a member, nobody is called upon to form a group and no
\* candidate is being chosen.
LEMMA MemberExcludes ==
  ASSUME Inv, Members # {}
  PROVE  /\ ~(~api.bootstrapped /\ booted = {}) /\ ~(api.candidate # None /\ booted = {})
         /\ pc \notin {"candidate", "bootOn", "bootStart"}
BY DEF Inv, FormInv, AllOffline, Members

\* Data that only grows keeps what the controller relies on.
LEMMA GrowingData ==
  ASSUME Inv, DataInv, Members # {}, UNCHANGED <<api, passVars>>
  PROVE  FormerInv' /\ PickedInv'
BY MemberExcludes DEF DataInv, FormerInv, PickedInv, passVars

\* A commit on a member of the group that accepts writes.
LEMMA CommitKeeps ==
  ASSUME Inv, DataInv, NEW p \in Pods, NEW t \in Txns, Commit(p, t)
  PROVE  DataInv'
<1>1. p \in Members /\ t \in executed'[p]
  BY DEF Commit, Donors, Online, Members, DataInv, DataTypeOK
<1>2. UNCHANGED <<gr, view, api, passVars>> /\ committed' = committed \cup {t}
  BY DEF Commit, vars, mysqlVars, k8sVars
<1>3. DataTypeOK'
  BY DEF Commit, DataInv, DataTypeOK
<1>4. \A q \in Pods : Data(q) \subseteq Data(q)'
  BY DEF Commit, DataInv, DataTypeOK, Data
<1>5. Members' = Members /\ Donors' = Donors /\ Members \subseteq Pods
  BY <1>2, SameServers DEF Members
<1>6. HeldInv'
  BY <1>1, <1>2, <1>4, <1>5 DEF DataInv, HeldInv, Data
<1>7. FormerInv' /\ PickedInv'
  BY <1>1, <1>2, GrowingData
<1> QED
  BY <1>3, <1>6, <1>7 DEF DataInv

\* A member executes what its group holds.
LEMMA ApplyKeeps ==
  ASSUME Inv, DataInv, NEW p \in Pods, Apply(p)
  PROVE  DataInv'
<1>1. p \in Members /\ gr[p] # "OFFLINE"
  BY DEF Apply, Online, Members
<1>2. UNCHANGED <<gr, view, api, passVars, committed>>
  BY DEF Apply, vars, mysqlVars, k8sVars
<1>3. GroupHolds(p) = UNION {Data(q) : q \in Members} /\ Members \subseteq Pods
  BY <1>1, GroupOfDonor DEF Inv, PassInv, TypeOK, Members
<1>4. GroupHolds(p) \subseteq Txns /\ Data(p) \subseteq GroupHolds(p)
  BY <1>1, <1>3 DEF DataInv, DataTypeOK, Data
<1>5. PICK R \in {received[p], GroupHolds(p)} :
        received' = [received EXCEPT ![p] = R] /\ executed' = [executed EXCEPT ![p] = GroupHolds(p)]
  BY DEF Apply
<1>6. DataTypeOK'
  BY <1>2, <1>4, <1>5 DEF DataInv, DataTypeOK
<1>7. \A q \in Pods : Data(q) \subseteq Data(q)'
  BY <1>4, <1>5 DEF DataInv, DataTypeOK, Data
<1>8. Members' = Members /\ Donors' = Donors
  BY <1>2, SameServers DEF Members
<1>9. HeldInv'
  BY <1>2, <1>3, <1>7, <1>8 DEF DataInv, HeldInv
<1>10. FormerInv' /\ PickedInv'
  BY <1>1, <1>2, GrowingData
<1> QED
  BY <1>6, <1>9, <1>10 DEF DataInv

\* A recovered member has what the group holds.
LEMMA RecoverKeeps ==
  ASSUME Inv, DataInv, NEW p \in Pods, RecoverFetches(p)
  PROVE  DataInv'
<1>1. Recover(p) /\ gr[p] = "RECOVERING" /\ p \in Members
  BY DEF RecoverFetches, MemberRecovers, Recover, Members
<1>2. UNCHANGED <<view, api, passVars, committed, received>>
      /\ executed' = [executed EXCEPT ![p] = GroupHolds(p)]
  BY DEF RecoverFetches, MemberRecovers, Recover, k8sVars
<1>3. GroupHolds(p) = UNION {Data(q) : q \in Members} /\ Members \subseteq Pods
  BY <1>1, GroupOfDonor DEF Inv, PassInv, TypeOK, Members
<1>4. GroupHolds(p) \subseteq Txns /\ Data(p) \subseteq GroupHolds(p)
  BY <1>1, <1>3 DEF DataInv, DataTypeOK, Data
<1>5. DataTypeOK'
  BY <1>2, <1>4 DEF DataInv, DataTypeOK
<1>6. \A q \in Pods : Data(q) \subseteq Data(q)'
  BY <1>2, <1>4 DEF DataInv, DataTypeOK, Data
<1>7. Members' = Members
  BY <1>1 DEF Members, Recover, Inv, PassInv, TypeOK, MySQLTypeOK
<1>8. Donors # {}
  <2>1. MySQLTypeOK /\ GroupInv
    BY DEF Inv, PassInv, TypeOK
  <2>2. Quorate(p) /\ Online # {}
    BY <1>1, <2>1, RecoverOneGroup DEF Recover
  <2>3. Groups = {view[p]}
    BY <1>1, <2>1, <2>2, TheGroup
  <2> QED BY <2>3 DEF Groups
<1>9. HeldInv'
  BY <1>2, <1>3, <1>6, <1>7, <1>8 DEF DataInv, HeldInv
<1>10. FormerInv' /\ PickedInv'
  BY <1>1, <1>2, GrowingData
<1> QED
  BY <1>5, <1>9, <1>10 DEF DataInv

\* What the group has agreed on reaches those that go on without p.
LEMMA StopKeeps ==
  ASSUME Faults \subseteq Benign, Inv, Inv', DataInv, NEW p \in Pods, StopDelivers(p)
  PROVE  DataInv'
<1>1. PICK orderly \in BOOLEAN : MysqldStop(p, orderly)
  BY DEF StopDelivers, PodDown
<1>2. pc = "idle" /\ UNCHANGED <<api, passVars, executed, committed>>
  BY DEF StopDelivers, PodDown, Benign
<1>3. received' = [q \in Pods |-> IF view'[q] \notin {{}, view[q]}
                                  THEN received[q] \cup GroupHolds(p) ELSE received[q]]
  BY DEF StopDelivers
<1>4. MySQLTypeOK /\ MySQLTypeOK' /\ GroupInv /\ GroupInv'
  BY DEF Inv, PassInv, TypeOK
<1>5. GroupHolds(p) \subseteq Txns
  BY <1>4 DEF MySQLTypeOK, DataInv, DataTypeOK, Data, GroupHolds, Reachable
<1>6. DataTypeOK'
  BY <1>2, <1>3, <1>5 DEF DataInv, DataTypeOK
<1>7. \A q \in Pods : Data(q) \subseteq Data(q)'
  BY <1>2, <1>3 DEF DataInv, DataTypeOK, Data
<1>8. FormerInv' /\ PickedInv'
  <2>1. api.candidate \in Pods \cup {None}
    BY DEF Inv, PassInv, TypeOK, Status
  <2> QED BY <1>2, <1>7, <2>1 DEF DataInv, FormerInv, PickedInv, passVars
<1>9. Donors' # {} => \A t \in committed' : \E q \in Members' : t \in Data(q)'
  <2> SUFFICES ASSUME Donors' # {}, NEW t \in committed
               PROVE  \E q \in Members' : t \in Data(q)'
      BY <1>2
  <2>1. CASE gr[p] = "OFFLINE"
    <3>1. Members' = Members /\ Donors' = Donors /\ Members \subseteq Pods
      BY <1>1, <1>4, <2>1, StopOutside, SameServers DEF Members
    <3> QED BY <1>7, <3>1 DEF DataInv, HeldInv
  <2>2. CASE gr[p] # "OFFLINE"
    <3>1. PICK q \in Pods : gr'[q] = "ONLINE"
      BY DEF Donors, Online
    <3>2. /\ Quorate(p) /\ Online # {} /\ q \in Reachable(p) \ {p}
          /\ view'[q] = view[p] \ {p}
      BY <1>1, <1>4, <2>2, <3>1, Survivors
    <3>3. q \in view'[q] /\ p \in view[q] /\ p \notin view'[q]
      BY <1>4, <2>2, <3>1, <3>2 DEF GroupInv, Reachable
    <3>4. received'[q] = received[q] \cup GroupHolds(p)
      BY <1>3, <3>3
    <3>5. Donors # {}
      <4>1. Groups = {view[p]}
        BY <1>4, <2>2, <3>2, TheGroup
      <4> QED BY <4>1 DEF Groups
    <3>6. t \in GroupHolds(p)
      BY <1>4, <2>2, <3>5, GroupOfDonor DEF DataInv, HeldInv
    <3> QED BY <3>1, <3>4, <3>6 DEF Data, Members
  <2> QED BY <2>1, <2>2
<1>10. HeldInv'
  BY <1>2, <1>7, <1>9 DEF DataInv, HeldInv
<1> QED
  BY <1>6, <1>8, <1>10 DEF DataInv

---------------------------------------------------------------------------
(* The steps of the controller.                                            *)

\* Steps that leave data and servers alone keep what is held.
LEMMA SameHeld ==
  ASSUME DataInv, UNCHANGED <<dataVars, gr, view>>
  PROVE  DataTypeOK' /\ HeldInv'
<1>1. Members' = Members /\ Donors' = Donors
  BY SameServers DEF Members
<1> QED
  BY <1>1 DEF DataInv, DataTypeOK, HeldInv, Data, dataVars

\* They keep who may form the group when they leave the status alone, too.
LEMMA SameFormer ==
  ASSUME DataInv, UNCHANGED dataVars,
         api'.bootstrapped = api.bootstrapped /\ api'.candidate = api.candidate,
         booted' = {} => booted = {},
         pc' \in {"bootOn", "bootStart"} => pc \in {"bootOn", "bootStart"} /\ cur' = cur
  PROVE  FormerInv'
BY DEF DataInv, FormerInv, Data, dataVars

\* A pass that has formed no group leaves what its status writes say of the
\* group as it is; one that has formed it says so.
LEMMA StatusWrites ==
  ASSUME Faults \subseteq Benign, Inv, ObserveStatefulSet \/ FinishPods \/ FailStatus
  PROVE  \/ /\ booted = {}
            /\ api'.bootstrapped = api.bootstrapped /\ api'.candidate = api.candidate
         \/ api'.bootstrapped /\ api'.candidate = None
<1>0. TypeOK /\ BootInv /\ cache = api /\ lag = FALSE /\ Faults \cap {"api", "stale"} = {}
  BY DEF Inv, PassInv, KeptInv, Benign, TypeOK
<1>1. CASE ObserveStatefulSet
  <2>1. booted = {} /\ pc = "status" /\ Store(Observed(mysql, stsSeen))
    BY <1>0, <1>1 DEF ObserveStatefulSet, BootInv, UpdateStatus
  <2> QED BY <2>1 DEF Store, Observed, Inv, ReadInv
<1>2. CASE FinishPods
  <2>1. pc = "pods" /\ (IF statusDirty THEN Store(mysql) ELSE NoStore)
    BY <1>0, <1>2 DEF FinishPods, UpdateStatus
  <2> QED BY <2>1 DEF Store, NoStore, Inv, ReadInv, FormInv
<1>3. CASE FailStatus
  <2>1. pc = "fail" /\ booted = {}
    BY <1>3 DEF FailStatus, Inv, FormInv
  <2>2. Store([mysql EXCEPT !.phase = "Degraded"]) \/ NoStore
    BY <1>3 DEF FailStatus
  <2> QED BY <1>0, <2>1, <2>2 DEF Store, NoStore, Inv, ReadInv, TypeOK, Status
<1> QED
  BY <1>1, <1>2, <1>3

\* The choice is made among all pods.
LEMMA PickKeeps ==
  ASSUME Inv, DataInv, PickWithGTIDs
  PROVE  DataInv'
<1>1. /\ pc = "collect" /\ todo = {} /\ bootstrapped /\ ~anyOnline /\ restartCandidate = None
      /\ pc' = "candidate"
      /\ UNCHANGED <<gr, view, api, booted, infos, dataVars>>
  BY DEF PickWithGTIDs, PickRestartCandidate, NeedsCandidate, mysqlVars, k8sVars, loopVars
<1>2. infos = Pods
  BY <1>1 DEF DataInv, PickedInv
<1>3. mysql'.candidate \in Pods
  BY <1>2 DEF PickWithGTIDs, PickRestartCandidate, Inv, PassInv, TypeOK, Status
<1>4. PICK list \in Orders : mysql'.candidate = RC!PickRestartCandidate(list)
  BY DEF PickWithGTIDs
<1>5. list \in Seq(Pods) /\ {list[i] : i \in DOMAIN list} = Pods
  <2>1. list \in [1..Cardinality(Pods) -> Pods] /\ {list[i] : i \in DOMAIN list} = Pods
    BY <1>2 DEF Orders
  <2>2. Cardinality(Pods) \in Nat
    BY PodsFinite
  <2> QED BY <2>1, <2>2
<1>6. \A p \in Pods : HasAll(p) => HasAll(mysql'.candidate)
  BY <1>4, <1>5, PickHasAll
<1>7. PickedInv'
  BY <1>1, <1>2, <1>3, <1>6 DEF PickedInv, HasAll, dataVars
<1> QED
  BY <1>1, <1>7, SameHeld, SameFormer DEF DataInv

\* The status write of a candidate that has all committed transactions.
LEMMA WriteKeeps ==
  ASSUME Inv, DataInv, WriteHarmless
  PROVE  DataInv'
<1>1. /\ pc = "candidate" /\ Return /\ (Store(mysql) \/ NoStore)
      /\ UNCHANGED <<gr, view, dataVars>> /\ committed \subseteq Data(mysql.candidate)
  BY DEF WriteHarmless, WriteCandidate, UpdateStatus, Loses, mysqlVars
<1>2. mysql.bootstrapped /\ booted = {}
  <2>1. mysql.candidate \in Pods
    BY <1>1 DEF DataInv, PickedInv
  <2> QED BY <1>1, <2>1 DEF Inv, PassInv, StatusCoherent, BootInv
<1>3. FormerInv'
  BY <1>1, <1>2 DEF DataInv, FormerInv, Data, Return, Store, NoStore, dataVars
<1>4. PickedInv'
  BY <1>1 DEF PickedInv, Return
<1> QED
  BY <1>1, <1>3, <1>4, SameHeld DEF DataInv

\* START on p with the data unchanged: p has all committed transactions if it
\* forms the group, and the members have them if it enters.
LEMMA StartHeld ==
  ASSUME Inv, DataInv, UNCHANGED dataVars, NEW p \in Pods, Starts(p),
         bootGroup[p] => committed \subseteq Data(p)
  PROVE  DataTypeOK' /\ HeldInv'
<1>1. \A q \in Pods : Data(q)' = Data(q)
  BY DEF Data, dataVars
<1>2. DataTypeOK' /\ \A t \in committed' : \E q \in Pods : t \in Data(q)'
  BY <1>1 DEF DataInv, DataTypeOK, HeldInv, dataVars
<1>3. p \in Members' /\ Members \subseteq Members' /\ Members \subseteq Pods
  BY DEF Members, Starts, StartGroupReplication, FormGroup, EnterGroup, Inv, PassInv, TypeOK,
     MySQLTypeOK
<1>4. bootGroup[p] \/ Donors # {}
  BY DEF Starts, StartGroupReplication, FormGroup, EnterGroup
<1>5. \A t \in committed' : \E q \in Members' : t \in Data(q)'
  BY <1>1, <1>3, <1>4 DEF DataInv, HeldInv, dataVars
<1> QED
  BY <1>2, <1>5 DEF HeldInv

\* The other steps of a pass: one step below per action or group of actions
\* that are alike.
LEMMA PassKeeps ==
  ASSUME Faults \subseteq Benign, Inv, DataInv, UNCHANGED dataVars,
         \/ Reconcile \/ ReconcileResources \/ ObserveStatefulSet \/ LoadSecretsAndPods
         \/ \E p \in Pods : CollectGroupInfo(p) \/ ReconcilePod(p)
         \/ NoCandidateNeeded \/ BootstrapOn \/ BootstrapStart \/ BootstrapOff \/ JoinGroup
         \/ FinishPods \/ SQLError \/ FailStatus
  PROVE  DataInv'
<1>0. BootInv /\ DataTypeOK /\ HeldInv /\ FormerInv /\ PickedInv
      /\ ReadInv /\ FormInv /\ "api" \notin Faults
  BY DEF Inv, PassInv, DataInv, Benign
<1>1. CASE Reconcile \/ ReconcileResources
  <2>1. UNCHANGED <<gr, view, api>> /\ booted = {} /\ pc' \in {"idle", "resources", "status", "fail"}
    BY <1>0, <1>1 DEF Reconcile, ReconcileResources, Return, BootInv, mysqlVars, k8sVars
  <2>2. PickedInv'
    BY <2>1 DEF PickedInv
  <2> QED BY <2>1, <2>2, SameHeld, SameFormer DEF DataInv
<1>2. CASE ObserveStatefulSet \/ FinishPods \/ FailStatus
  <2>1. UNCHANGED <<gr, view>> /\ pc' \in {"idle", "list"}
    BY <1>2 DEF ObserveStatefulSet, FinishPods, FailStatus, Return, mysqlVars
  <2>2. PickedInv'
    BY <2>1 DEF PickedInv
  <2>3. CASE /\ booted = {}
             /\ api'.bootstrapped = api.bootstrapped /\ api'.candidate = api.candidate
    BY <2>1, <2>2, <2>3, SameHeld, SameFormer DEF DataInv
  <2>4. CASE api'.bootstrapped /\ api'.candidate = None
    <3>1. FormerInv'
      BY <2>1, <2>4 DEF FormerInv
    <3> QED BY <2>1, <2>2, <3>1, SameHeld DEF DataInv
  <2> QED BY <1>2, <2>3, <2>4, StatusWrites
<1>3. CASE LoadSecretsAndPods
  <2>1. /\ pc = "list" /\ pc' = "collect" /\ todo' = podSeen
        /\ UNCHANGED <<gr, view, api, booted>>
    BY <1>0, <1>3 DEF LoadSecretsAndPods, mysqlVars, k8sVars
  <2>2. infos' \cup todo' = Pods
    BY <1>0, <1>3, <2>1 DEF ReadInv, LoadSecretsAndPods, Inv, PassInv, TypeOK
  <2>3. PickedInv'
    BY <2>1, <2>2 DEF PickedInv
  <2> QED BY <2>1, <2>3, SameHeld, SameFormer DEF DataInv
<1>4. ASSUME NEW p \in Pods, CollectGroupInfo(p) PROVE DataInv'
  <2>1. /\ pc = "collect" /\ UNCHANGED <<gr, view, api, booted, pc, cur, bootstrapped, restartCandidate>>
        /\ todo' = todo \ {p}
        /\ \/ anyOnline' = TRUE
           \/ /\ anyOnline' = anyOnline
              /\ bootstrapped /\ restartCandidate = None => infos' = infos \cup {p}
    BY <1>4 DEF CollectGroupInfo, mysqlVars, k8sVars
  <2>2. PickedInv'
    BY <1>0, <2>1 DEF PickedInv
  <2> QED BY <2>1, <2>2, SameHeld, SameFormer DEF DataInv
<1>5. ASSUME NEW p \in Pods, ReconcilePod(p) PROVE DataInv'
  <2>1. /\ pc = "pods" /\ pc' \in {"pods", "join", "bootOn"} /\ UNCHANGED <<gr, view, api, booted>>
        /\ p \in todo /\ (pc' = "bootOn" => ShouldBootstrap(p) /\ cur' = p)
    BY <1>5 DEF ReconcilePod, k8sVars
  <2>2. FormerInv'
    <3>1. CASE pc' # "bootOn"
      BY <2>1, <3>1, SameFormer
    <3>2. CASE pc' = "bootOn"
      <4>1. (~bootstrapped \/ restartCandidate = p) /\ booted = {}
        BY <1>0, <2>1, <3>2 DEF ShouldBootstrap, BootInv
      <4>2. committed \subseteq Data(p)
        BY <1>0, <2>1, <4>1 DEF FormerInv, ReadInv, Working
      <4> QED BY <1>0, <2>1, <3>2, <4>2 DEF FormerInv, Data, dataVars
    <3> QED BY <3>1, <3>2
  <2>3. PickedInv'
    BY <2>1 DEF PickedInv
  <2> QED BY <2>1, <2>2, <2>3, SameHeld DEF DataInv
<1>6. CASE NoCandidateNeeded \/ BootstrapOn \/ BootstrapOff \/ SQLError
  <2>1. /\ UNCHANGED <<gr, view, api, booted>> /\ pc' \in {"pods", "bootStart", "fail"}
        /\ pc' = "bootStart" => pc = "bootOn" /\ cur' = cur
    BY <1>6 DEF NoCandidateNeeded, BootstrapOn, BootstrapOff, SQLError, SetBootstrapGroup,
       mysqlVars, k8sVars
  <2>2. PickedInv'
    BY <2>1 DEF PickedInv
  <2> QED BY <2>1, <2>2, SameHeld, SameFormer DEF DataInv
<1>7. CASE BootstrapStart
  <2>1. pc = "bootStart" /\ cur \in Pods /\ AllOffline /\ UNCHANGED api /\ pc' \in {"bootOff", "fail"}
        /\ committed \subseteq Data(cur)
    BY <1>0, <1>7 DEF BootstrapStart, ReadInv, FormInv, FormerInv, k8sVars
  <2>2. PickedInv'
    BY <2>1 DEF PickedInv
  <2>3. FormerInv'
    BY <1>7, <2>1, SameFormer DEF BootstrapStart
  <2>4. DataTypeOK' /\ HeldInv'
    <3>1. CASE StartGroupReplication(cur)
      BY <2>1, <3>1, StartHeld DEF Starts
    <3>2. CASE UNCHANGED mysqlVars
      BY <3>2, SameHeld DEF mysqlVars
    <3> QED BY <1>7, <3>1, <3>2 DEF BootstrapStart
  <2> QED BY <2>2, <2>3, <2>4 DEF DataInv
<1>8. CASE JoinGroup
  <2>1. pc = "join" /\ cur \in Pods /\ ~bootGroup[cur] /\ UNCHANGED <<api, booted>>
        /\ pc' \in {"pods", "fail"}
    BY <1>0, <1>8 DEF JoinGroup, ReadInv, FormInv, k8sVars
  <2>2. PickedInv'
    BY <2>1 DEF PickedInv
  <2>3. FormerInv'
    BY <2>1, SameFormer
  <2>4. DataTypeOK' /\ HeldInv'
    <3>1. CASE StartGroupReplication(cur)
      BY <2>1, <3>1, StartHeld DEF Starts
    <3>2. CASE UNCHANGED mysqlVars
      BY <3>2, SameHeld DEF mysqlVars
    <3> QED BY <1>8, <3>1, <3>2 DEF JoinGroup
  <2> QED BY <2>2, <2>3, <2>4 DEF DataInv
<1> QED
  BY <1>1, <1>2, <1>3, <1>4, <1>5, <1>6, <1>7, <1>8

\* The steps of the cluster that move no data.
LEMMA ClusterKeeps ==
  ASSUME Faults \subseteq Benign, Inv, DataInv, UNCHANGED dataVars,
         \/ \E p \in Pods : PodUp(p) \/ DeliverPod(p)
         \/ DeliverMySQL \/ DeliverStatefulSet \/ Edit \/ OperatorRestart \/ UNCHANGED vars
  PROVE  DataInv'
<1>1. UNCHANGED <<gr, view, api, booted, pc, cur, mysql, bootstrapped, restartCandidate,
                  anyOnline, infos, todo>>
  <2>1. ASSUME NEW p \in Pods, PodUp(p) \/ DeliverPod(p)
        PROVE  UNCHANGED <<gr, view, api, passVars>>
    BY <2>1 DEF PodUp, MysqldStart, DeliverPod, mysqlVars
  <2>2. CASE DeliverMySQL \/ DeliverStatefulSet
    BY <2>2 DEF DeliverMySQL, DeliverStatefulSet, mysqlVars, passVars
  <2>3. CASE Edit
    BY <2>3 DEF Edit, mysqlVars
  <2>4. CASE OperatorRestart
    BY <2>4 DEF OperatorRestart, Benign
  <2>5. CASE UNCHANGED vars
    BY <2>5 DEF vars, mysqlVars, k8sVars, passVars
  <2> QED BY <2>1, <2>2, <2>3, <2>4, <2>5 DEF passVars
<1>2. PickedInv'
  BY <1>1 DEF DataInv, PickedInv, HasAll, dataVars
<1> QED
  BY <1>1, <1>2, SameHeld, SameFormer DEF DataInv

---------------------------------------------------------------------------
(* The theorem.                                                            *)

\* The transactions ride on the behaviours of GRController.
LEMMA DataOnTop == DataSpec => Spec
<1>1. DataInit => Init
  BY DEF DataInit
<1>2. [DataNext]_<<vars, dataVars>> => [Next]_vars
  <2> SUFFICES ASSUME [DataNext]_<<vars, dataVars>> PROVE [Next]_vars
      OBVIOUS
  <2>1. ASSUME NEW p \in Pods, Apply(p) \/ StopDelivers(p) \/ RecoverFetches(p) PROVE [Next]_vars
    BY <2>1 DEF Apply, StopDelivers, RecoverFetches, Next, Cluster
  <2>2. ASSUME NEW p \in Pods, NEW t \in Txns, Commit(p, t) PROVE [Next]_vars
    BY <2>2 DEF Commit
  <2>3. CASE PickWithGTIDs \/ WriteHarmless \/ Otherwise
    BY <2>3 DEF PickWithGTIDs, WriteHarmless, Otherwise, Next, Pass, Cluster
  <2>4. CASE UNCHANGED <<vars, dataVars>>
    BY <2>4
  <2> QED BY <2>1, <2>2, <2>3, <2>4 DEF DataNext
<1> QED
  BY <1>1, <1>2, PTL DEF DataSpec, Spec

\* Under benign faults DataInv is an invariant.
LEMMA DataInvariant ==
  ASSUME Faults \subseteq Benign
  PROVE  DataSpec => []DataInv
<1>1. DataInit => DataInv
  <2> SUFFICES ASSUME DataInit PROVE DataInv
      OBVIOUS
  <2>1. DataTypeOK /\ HeldInv
    BY DEF DataInit, DataTypeOK, HeldInv
  <2>2. FormerInv /\ PickedInv
    BY DEF DataInit, Init, NewStatus, FormerInv, PickedInv
  <2> QED BY <2>1, <2>2 DEF DataInv
<1>2. Inv /\ Inv' /\ DataInv /\ [DataNext]_<<vars, dataVars>> => DataInv'
  <2> SUFFICES ASSUME Inv, Inv', DataInv, [DataNext]_<<vars, dataVars>> PROVE DataInv'
      OBVIOUS
  <2>1. ASSUME NEW p \in Pods, Apply(p) \/ StopDelivers(p) \/ RecoverFetches(p) PROVE DataInv'
    BY <2>1, ApplyKeeps, StopKeeps, RecoverKeeps
  <2>2. ASSUME NEW p \in Pods, NEW t \in Txns, Commit(p, t) PROVE DataInv'
    BY <2>2, CommitKeeps
  <2>3. CASE PickWithGTIDs \/ WriteHarmless
    BY <2>3, PickKeeps, WriteKeeps
  <2>4. CASE Otherwise
    BY <2>4, PassKeeps, ClusterKeeps DEF Otherwise
  <2>5. CASE UNCHANGED <<vars, dataVars>>
    BY <2>5, ClusterKeeps
  <2> QED BY <2>1, <2>2, <2>3, <2>4, <2>5 DEF DataNext
<1> QED
  BY <1>1, <1>2, DataOnTop, OneGroupInvariant, PTL DEF DataSpec

\* Under benign faults no committed transaction is lost by accident: the group
\* that accepts writes has them all, however its members died and whoever formed
\* it again, and PickRestartCandidate names a pod that lacks one only when no pod
\* is a superset of the others.
THEOREM NothingCommittedLost ==
  ASSUME Faults \subseteq Benign
  PROVE  DataSpec => []CommittedKept
<1>1. Inv /\ DataInv => CommittedKept
  <2> SUFFICES ASSUME Inv, DataInv PROVE CommittedKept
      OBVIOUS
  <2>1. ASSUME NEW p \in Donors PROVE committed \subseteq GroupHolds(p)
    <3>1. p \in Pods /\ gr[p] # "OFFLINE" /\ Donors # {}
      BY <2>1 DEF Donors, Online
    <3>2. GroupHolds(p) = UNION {Data(q) : q \in Members}
      BY <3>1, GroupOfDonor DEF Inv, PassInv, TypeOK
    <3> QED BY <3>1, <3>2 DEF DataInv, HeldInv
  <2>2. ASSUME Loses, NEW p \in infos, \A q \in infos : RC!Superset(p, q) PROVE FALSE
    <3>1. infos = Pods /\ mysql.candidate \in Pods /\ pc = "candidate"
      BY <2>2 DEF Loses, DataInv, PickedInv
    <3>2. HasAll(p)
      BY <2>2, <3>1, SupersetMeans DEF HasAll
    <3>3. HasAll(mysql.candidate)
      BY <3>1, <3>2 DEF DataInv, PickedInv
    <3>4. committed \subseteq Data(mysql.candidate)
      BY <3>3 DEF HasAll, DataInv, HeldInv, Data
    <3> QED BY <2>2, <3>4 DEF Loses
  <2> QED BY <2>1, <2>2 DEF CommittedKept
<1> QED
  BY <1>1, DataOnTop, OneGroupInvariant, DataInvariant, PTL

=============================================================================

-------------------------- MODULE OneGroupProofs --------------------------
(***************************************************************************)
(* The operator never forms a second group, proved for every number of     *)
(* pods and for both values of forceBootstrap, as long as the caches are   *)
(* current, the API and SQL calls of a pass that reached Group Replication *)
(* succeed, and no server or operator stops in the middle of such a pass.  *)
(* Servers may stop between passes, orderly or not; owned objects may fail *)
(* to reconcile; the MySQL object may be edited at any time.  From the     *)
(* same invariant: the specification implements ReplicatedGroup.           *)
(***************************************************************************)
EXTENDS GRControllerProofs

USE NAssumption, ConstAssumption

---------------------------------------------------------------------------
(* Without stale caches, failing calls and mid-pass failures there is one  *)
(* group.                                                                  *)

AllOffline == \A p \in Pods : gr[p] = "OFFLINE"

\* All members are in one group, and a recovering one has a donor.
GroupInv ==
  /\ \A p \in Pods : IF gr[p] = "OFFLINE" THEN view[p] = {} ELSE p \in view[p]
  /\ \A p, q \in Pods : gr[p] # "OFFLINE" /\ gr[q] # "OFFLINE" => view[p] = view[q]
  /\ \A p \in Pods : gr[p] = "RECOVERING" => Online # {}

\* The steps of reconcileGroupReplication after loadSecretsAndPods.
Working == {"collect", "pods", "bootOn", "bootStart", "bootOff", "join"}

\* What the pass has read is still true.
ReadInv ==
  /\ stsSeen = Cardinality(up) /\ podSeen = up
  /\ pc \in Working \cup {"list"} => up = Pods
  /\ pc \in Working => pods = Pods
  /\ pc \in {"bootOn", "bootStart", "bootOff", "join"} => cur \in Pods
  /\ pc \notin {"idle", "candidate"} /\ booted = {} =>
       mysql.bootstrapped = api.bootstrapped /\ mysql.candidate = api.candidate
  /\ pc \in Working /\ booted = {} =>
       bootstrapped = api.bootstrapped /\ restartCandidate = api.candidate
  /\ pc = "collect" /\ ~anyOnline /\ Online # {} => Online \cap todo # {}

\* The status calls for forming a group only while there is none.
FormInv ==
  /\ (~api.bootstrapped \/ api.candidate # None) /\ booted = {} => AllOffline
  /\ pc \in {"candidate", "bootOn", "bootStart"} => AllOffline
  /\ \A p \in Pods : bootGroup[p] => pc \in {"bootStart", "bootOff"} /\ p = cur
  /\ pc = "bootStart" => bootGroup[cur]
  /\ pc \in {"pods", "join"} /\ booted # {} =>
       statusDirty /\ mysql.bootstrapped /\ mysql.candidate = None
  /\ pc \in {"bootOff", "pods", "join"} /\ booted # {} => Donors # {}
  /\ pc = "fail" => booted = {}

---------------------------------------------------------------------------
(* The servers.                                                            *)

\* Every set of pods is finite; with N members it is all of them.
LEMMA PodSets ==
  \A S \in SUBSET Pods :
    /\ IsFiniteSet(S) /\ Cardinality(S) \in Nat
    /\ Cardinality(S) = N => S = Pods
<1> SUFFICES ASSUME NEW S \in SUBSET Pods
             PROVE  /\ IsFiniteSet(S) /\ Cardinality(S) \in Nat
                    /\ Cardinality(S) = N => S = Pods
    OBVIOUS
<1>1. IsFiniteSet(S) /\ (Cardinality(Pods) = Cardinality(S) => Pods = S)
  BY PodsFinite, FS_Subset, Zenon
<1>2. Cardinality(S) \in Nat
  BY <1>1, FS_CardinalityType
<1> QED
  BY PodsFinite, <1>1, <1>2

\* One more live member keeps a quorum.
LEMMA QuorumGrows ==
  ASSUME NEW R \in SUBSET Pods, NEW V \in SUBSET Pods, NEW p \in Pods \ R,
         2 * Cardinality(R) > Cardinality(V)
  PROVE  2 * Cardinality(R \cup {p}) > Cardinality(V \cup {p})
<1>1. IsFiniteSet(R) /\ IsFiniteSet(V) /\ Cardinality(R) \in Nat /\ Cardinality(V) \in Nat
  BY PodSets
<1>2. Cardinality(R \cup {p}) = IF p \in R THEN Cardinality(R) ELSE Cardinality(R) + 1
  BY <1>1, FS_AddElement, Zenon
<1>3. Cardinality(V \cup {p}) = IF p \in V THEN Cardinality(V) ELSE Cardinality(V) + 1
  BY <1>1, FS_AddElement, Zenon
<1> QED
  BY <1>1, <1>2, <1>3

\* START keeps one group when it forms one only while there is none; and then
\* there is a group to join.
LEMMA StartOneGroup ==
  ASSUME MySQLTypeOK, GroupInv, NEW p \in Pods, StartGroupReplication(p),
         bootGroup[p] => AllOffline
  PROVE  GroupInv' /\ Donors' # {}
<1>1. CASE FormGroup(p)
  <2>1. gr'[p] = "ONLINE" /\ view'[p] = {p}
    BY <1>1 DEF FormGroup, MySQLTypeOK
  <2>2. \A q \in Pods \ {p} : gr'[q] = "OFFLINE" /\ view'[q] = view[q] /\ gr[q] = "OFFLINE"
    BY <1>1 DEF FormGroup, MySQLTypeOK, AllOffline
  <2>3. GroupInv'
    BY <2>1, <2>2 DEF GroupInv, Online
  <2>4. {q \in view'[p] : view'[q] = view'[p]} = {p}
    BY <2>1
  <2>5. Cardinality({p}) = 1
    BY FS_Singleton
  <2>6. p \in Donors'
    BY <2>1, <2>4, <2>5 DEF Donors, Online, Quorate, Reachable
  <2> QED BY <2>3, <2>6
<1>2. CASE EnterGroup(p)
  <2>1. PICK q \in Donors :
          view' = [r \in Pods |-> IF r \in Reachable(q) \cup {p}
                                  THEN view[q] \cup {p} ELSE view[r]]
    BY <1>2 DEF EnterGroup
  <2>2. q \in Pods /\ gr[q] = "ONLINE" /\ q # p /\ gr[p] = "OFFLINE"
    BY DEF Donors, Online, StartGroupReplication
  <2>3. gr'[p] = "RECOVERING" /\ \A r \in Pods \ {p} : gr'[r] = gr[r]
    BY <1>2 DEF EnterGroup, MySQLTypeOK
  <2>4. \A r \in Pods : r \in Reachable(q) <=> gr[r] # "OFFLINE"
    BY <2>2 DEF GroupInv, Reachable, MySQLTypeOK
  <2>5. \A r \in Pods : IF gr'[r] = "OFFLINE" THEN view'[r] = view[r] /\ gr[r] = "OFFLINE"
                                              ELSE view'[r] = view[q] \cup {p}
    BY <2>1, <2>2, <2>3, <2>4
  <2>6. \A r \in Pods : gr'[r] # "OFFLINE" => r \in view[q] \cup {p}
    BY <2>2, <2>3 DEF GroupInv
  <2>7. gr'[q] = "ONLINE"
    BY <2>2, <2>3
  <2>8. GroupInv'
    BY <2>2, <2>5, <2>6, <2>7 DEF GroupInv, Online
  <2>9. view'[q] = view[q] \cup {p}
    BY <2>2, <2>5, <2>7
  <2>10. Reachable(q) \cup {p} = {r \in view'[q] : view'[r] = view'[q]}
    <3>1. view[q] \in SUBSET Pods
      BY <2>2 DEF MySQLTypeOK
    <3>2. \A r \in Pods : gr'[r] = "OFFLINE" => view'[r] = {}
      BY <2>8 DEF GroupInv
    <3>3. \A r \in Pods : view'[r] = view'[q] <=> gr'[r] # "OFFLINE"
      BY <2>5, <2>9, <3>2
    <3>4. \A r \in Pods : r \in Reachable(q) \cup {p} <=> gr'[r] # "OFFLINE"
      BY <2>2, <2>3, <2>4
    <3>5. Reachable(q) \subseteq Pods
      BY <3>1 DEF Reachable
    <3> QED BY <2>6, <2>9, <3>1, <3>3, <3>4, <3>5
  <2>11. 2 * Cardinality(Reachable(q) \cup {p}) > Cardinality(view[q] \cup {p})
    <3>1. Reachable(q) \in SUBSET Pods /\ view[q] \in SUBSET Pods /\ p \notin Reachable(q)
      BY <2>2, <2>4 DEF Reachable, MySQLTypeOK
    <3>2. 2 * Cardinality(Reachable(q)) > Cardinality(view[q])
      BY DEF Donors, Quorate
    <3> QED BY <3>1, <3>2, QuorumGrows
  <2>12. q \in Donors'
    BY <2>2, <2>7, <2>9, <2>10, <2>11 DEF Donors, Online, Quorate, Reachable
  <2> QED BY <2>8, <2>12
<1> QED
  BY <1>1, <1>2 DEF StartGroupReplication

\* A stopping server keeps one group and starts none.
LEMMA StopOneGroup ==
  ASSUME MySQLTypeOK, GroupInv, NEW p \in Pods, NEW orderly \in BOOLEAN, MysqldStop(p, orderly)
  PROVE  GroupInv' /\ \A q \in Pods : gr[q] = "OFFLINE" => gr'[q] = "OFFLINE"
<1> DEFINE rest == Reachable(p) \ {p}
           agreed == \/ orderly /\ Quorate(p)
                     \/ 2 * Cardinality(rest) > Cardinality(view[p])
           gone == {p} \cup (IF rest \cap Online = {} THEN rest ELSE {})
<1>1. /\ gr' = [q \in Pods |-> IF q \in gone THEN "OFFLINE" ELSE gr[q]]
      /\ view' = [q \in Pods |-> IF q \in gone THEN {}
                                 ELSE IF q \in rest /\ agreed THEN view[q] \ {p}
                                 ELSE view[q]]
  BY DEF MysqldStop
<1>2. \A q \in Pods : q \in rest <=> q # p /\ gr[p] # "OFFLINE" /\ gr[q] # "OFFLINE"
  BY DEF GroupInv, Reachable, MySQLTypeOK
<1>3. p \in gone /\ gone \subseteq rest \cup {p}
  OBVIOUS
<1>4. rest \cap Online # {} => gone = {p}
  OBVIOUS
<1>5. rest \cap Online = {} => gone = rest \cup {p}
  OBVIOUS
<1> HIDE DEF rest, agreed, gone
<1>6. \A q \in Pods : gr'[q] # "OFFLINE" => q \notin gone /\ q # p /\ gr'[q] = gr[q]
  BY <1>1, <1>3
<1>7. \A q \in Pods : gr[q] = "OFFLINE" => gr'[q] = "OFFLINE"
  BY <1>6
<1>8. \A q \in Pods : IF gr'[q] = "OFFLINE" THEN view'[q] = {} ELSE q \in view'[q]
  <2> SUFFICES ASSUME NEW q \in Pods
               PROVE  IF gr'[q] = "OFFLINE" THEN view'[q] = {} ELSE q \in view'[q]
      OBVIOUS
  <2>1. CASE q \in gone
    BY <1>1, <2>1
  <2>2. CASE q \notin gone
    BY <1>1, <1>2, <1>3, <2>2 DEF GroupInv
  <2> QED BY <2>1, <2>2
<1>9. \A q, r \in Pods : gr'[q] # "OFFLINE" /\ gr'[r] # "OFFLINE" => view'[q] = view'[r]
  <2> SUFFICES ASSUME NEW q \in Pods, NEW r \in Pods, gr'[q] # "OFFLINE", gr'[r] # "OFFLINE"
               PROVE  view'[q] = view'[r]
      OBVIOUS
  <2>1. view[q] = view[r] /\ (q \in rest <=> r \in rest) /\ q \notin gone /\ r \notin gone
    BY <1>2, <1>6 DEF GroupInv
  <2> QED BY <1>1, <2>1
<1>10. \A q \in Pods : gr'[q] = "RECOVERING" => \E r \in Pods : gr'[r] = "ONLINE"
  <2> SUFFICES ASSUME NEW q \in Pods, gr'[q] = "RECOVERING"
               PROVE  \E r \in Pods : gr'[r] = "ONLINE"
      OBVIOUS
  <2>1. q \notin gone /\ q # p /\ gr[q] = "RECOVERING"
    BY <1>6
  <2>2. PICK r \in Pods : gr[r] = "ONLINE"
    BY <2>1 DEF GroupInv, Online
  <2>3. CASE gr[p] = "OFFLINE"
    <3>1. r \notin gone
      BY <1>2, <1>3, <2>2, <2>3
    <3> QED BY <1>1, <2>2, <3>1
  <2>4. CASE gr[p] # "OFFLINE"
    <3>1. q \in rest
      BY <1>2, <2>1, <2>4
    <3>2. rest \cap Online # {} /\ gone = {p}
      BY <1>4, <1>5, <2>1, <3>1
    <3>3. PICK s \in Pods : s \in rest /\ gr[s] = "ONLINE"
      BY <3>2 DEF Online
    <3> QED BY <1>1, <1>2, <3>2, <3>3
  <2> QED BY <2>3, <2>4
<1> QED
  BY <1>7, <1>8, <1>9, <1>10 DEF GroupInv, Online

\* A member that recovers keeps one group and all donors, and needs one.
LEMMA RecoverOneGroup ==
  ASSUME MySQLTypeOK, GroupInv, NEW p \in Pods, Recover(p)
  PROVE  GroupInv' /\ Donors \subseteq Donors' /\ Online # {} /\ Online \subseteq Online'
<1>1. view' = view /\ gr' = [gr EXCEPT ![p] = "ONLINE"] /\ gr[p] = "RECOVERING"
  BY DEF Recover
<1>2. GroupInv'
  BY <1>1 DEF GroupInv, Online, MySQLTypeOK
<1>3. Online \subseteq Online' /\ Online # {}
  BY <1>1 DEF Online, MySQLTypeOK, GroupInv
<1>4. Donors \subseteq Donors'
  BY <1>1, <1>3 DEF Donors, Quorate, Reachable
<1> QED
  BY <1>2, <1>3, <1>4

\* What the servers' variables imply is kept when those variables are.
LEMMA SameServers ==
  ASSUME UNCHANGED <<gr, view>>
  PROVE  /\ AllOffline <=> AllOffline'
         /\ Online' = Online /\ Donors' = Donors
         /\ GroupInv <=> GroupInv'
BY DEF AllOffline, Online, Donors, Quorate, Reachable, GroupInv

---------------------------------------------------------------------------
(* The controller.                                                         *)

Inv == PassInv /\ KeptInv /\ GroupInv /\ ReadInv /\ FormInv

\* The faults under which Inv is inductive.
Benign == {"kill", "edit", "resources"}

\* Going back to idle needs only what the status says about the servers.
LEMMA ReturnSafe ==
  ASSUME Inv, Return, UNCHANGED <<mysqlVars, stsSeen, podSeen>>,
         pc \notin {"bootStart", "bootOff"},
         ~api'.bootstrapped \/ api'.candidate # None => AllOffline
  PROVE  GroupInv' /\ ReadInv' /\ FormInv'
<1>1. UNCHANGED <<gr, view, up, bootGroup>>
  BY DEF mysqlVars
<1>2. GroupInv' /\ (AllOffline <=> AllOffline')
  BY <1>1, SameServers DEF Inv
<1>3. ReadInv'
  BY <1>1 DEF Inv, ReadInv, Return, Working
<1>4. FormInv'
  BY <1>1, <1>2 DEF Inv, FormInv, Return
<1> QED
  BY <1>2, <1>3, <1>4

\* Under benign faults every step preserves the inductive invariant: one step
\* below per action.
LEMMA SafeStep ==
  ASSUME Faults \subseteq Benign, Inv, [Next]_vars
  PROVE  GroupInv' /\ ReadInv' /\ FormInv'
<1>0. /\ TypeOK /\ MySQLTypeOK /\ BootInv
      /\ cache = api /\ lag = FALSE
      /\ "stale" \notin Faults /\ "api" \notin Faults /\ "sql" \notin Faults
      /\ "midpass" \notin Faults /\ "crash" \notin Faults
  BY DEF Inv, PassInv, TypeOK, KeptInv, Benign
<1>1. CASE Reconcile
  <2>1. UNCHANGED <<gr, view, up, bootGroup, api, stsSeen, podSeen, booted>> /\ mysql' = cache
        /\ pc' = "resources" /\ pc = "idle"
    BY <1>1 DEF Reconcile, mysqlVars, k8sVars
  <2>2. GroupInv' /\ (AllOffline <=> AllOffline')
    BY <2>1, SameServers DEF Inv
  <2> QED BY <1>0, <2>1, <2>2 DEF Inv, ReadInv, FormInv, Working
<1>2. CASE ReconcileResources
  <2>1. CASE Return
    <3>1. booted = {} /\ pc = "resources"
      BY <1>0, <1>2 DEF ReconcileResources, BootInv
    <3>2. UNCHANGED <<mysqlVars, stsSeen, podSeen, api>>
      BY <1>2 DEF ReconcileResources, k8sVars
    <3>3. ~api'.bootstrapped \/ api'.candidate # None => AllOffline
      BY <3>1, <3>2 DEF Inv, FormInv
    <3> QED BY <2>1, <3>1, <3>2, <3>3, ReturnSafe
  <2>2. CASE pc' \in {"status", "fail"}
    <3>1. UNCHANGED <<gr, view, up, bootGroup, api, mysql, stsSeen, podSeen, booted>>
          /\ pc = "resources" /\ booted = {}
      BY <1>0, <1>2, <2>2 DEF ReconcileResources, mysqlVars, k8sVars, Return, BootInv
    <3>2. GroupInv' /\ (AllOffline <=> AllOffline')
      BY <3>1, SameServers DEF Inv
    <3> QED BY <2>2, <3>1, <3>2 DEF Inv, ReadInv, FormInv, Working
  <2> QED BY <1>2, <2>1, <2>2 DEF ReconcileResources
<1>3. CASE ObserveStatefulSet
  <2> DEFINE s == Observed(mysql, stsSeen)
  <2>1. s.bootstrapped = mysql.bootstrapped /\ s.candidate = mysql.candidate
    BY DEF Observed
  <2>2. Store(s) /\ ((stsSeen = N /\ mysql' = s /\ pc' = "list" /\ booted' = booted) \/ Return)
    BY <1>0, <1>3 DEF ObserveStatefulSet, UpdateStatus
  <2> HIDE DEF s
  <2>3. booted = {} /\ pc = "status" /\ UNCHANGED <<mysqlVars, stsSeen, podSeen>>
    BY <1>0, <1>3 DEF ObserveStatefulSet, BootInv
  <2>4. api'.bootstrapped = api.bootstrapped /\ api'.candidate = api.candidate
    BY <2>1, <2>2, <2>3 DEF Store, Inv, ReadInv
  <2>5. ~api'.bootstrapped \/ api'.candidate # None => AllOffline
    BY <2>3, <2>4 DEF Inv, FormInv
  <2>6. CASE Return
    BY <2>3, <2>5, <2>6, ReturnSafe
  <2>7. CASE stsSeen = N /\ mysql' = s /\ pc' = "list" /\ booted' = booted
    <3>1. up = Pods
      BY <1>0, <2>7, PodSets DEF Inv, ReadInv, MySQLTypeOK
    <3>2. UNCHANGED <<gr, view, up, bootGroup>>
      BY <2>3 DEF mysqlVars
    <3>3. GroupInv' /\ (AllOffline <=> AllOffline')
      BY <3>2, SameServers DEF Inv
    <3>4. ReadInv'
      BY <2>1, <2>3, <2>4, <2>7, <3>1, <3>2, <2>2 DEF Store, Inv, ReadInv, Working
    <3>5. FormInv'
      BY <2>3, <2>5, <2>7, <3>2, <3>3 DEF Inv, FormInv
    <3> QED BY <3>3, <3>4, <3>5
  <2> QED BY <2>2, <2>6, <2>7
<1>4. CASE LoadSecretsAndPods
  <2>1. UNCHANGED <<gr, view, up, bootGroup, api, mysql, stsSeen, podSeen, booted, anyOnline>>
        /\ pc = "list" /\ pc' = "collect" /\ booted = {} /\ pods' = podSeen /\ todo' = podSeen
        /\ bootstrapped' = mysql.bootstrapped /\ restartCandidate' = mysql.candidate
    BY <1>0, <1>4 DEF LoadSecretsAndPods, mysqlVars, k8sVars, BootInv
  <2>2. GroupInv' /\ (AllOffline <=> AllOffline') /\ Online' = Online
    BY <2>1, SameServers DEF Inv
  <2>3. Online \subseteq Pods
    BY DEF Online
  <2> QED BY <2>1, <2>2, <2>3 DEF Inv, ReadInv, FormInv, Working
<1>5. ASSUME NEW p \in Pods, CollectGroupInfo(p) PROVE GroupInv' /\ ReadInv' /\ FormInv'
  <2>1. UNCHANGED <<gr, view, up, bootGroup, api, mysql, stsSeen, podSeen, booted, pods,
                    bootstrapped, restartCandidate, pc>>
        /\ pc = "collect" /\ todo' = todo \ {p}
        /\ (IF gr[p] = "ONLINE" THEN anyOnline' = TRUE ELSE anyOnline' = anyOnline)
    BY <1>5 DEF CollectGroupInfo, SelfOnline, mysqlVars, k8sVars
  <2>2. GroupInv' /\ (AllOffline <=> AllOffline') /\ Online' = Online
    BY <2>1, SameServers DEF Inv
  <2>3. pc' = "collect" /\ ~anyOnline' /\ Online' # {} => Online' \cap todo' # {}
    BY <2>1, <2>2 DEF Inv, ReadInv, Online
  <2>4. ReadInv'
    BY <2>1, <2>3 DEF Inv, ReadInv, Working
  <2> QED BY <2>1, <2>2, <2>4 DEF Inv, FormInv
<1>6. CASE PickRestartCandidate
  <2>1. UNCHANGED <<gr, view, up, bootGroup, api, stsSeen, podSeen, booted>>
        /\ pc = "collect" /\ pc' = "candidate" /\ todo = {} /\ ~anyOnline
    BY <1>6 DEF PickRestartCandidate, NeedsCandidate, mysqlVars, k8sVars
  <2>2. GroupInv' /\ (AllOffline <=> AllOffline')
    BY <2>1, SameServers DEF Inv
  <2>3. Online = {}
    BY <2>1 DEF Inv, ReadInv
  <2>4. AllOffline
    BY <1>0, <2>3 DEF Inv, GroupInv, Online, AllOffline, MySQLTypeOK, MemberStates
  <2> QED BY <2>1, <2>2, <2>4 DEF Inv, ReadInv, FormInv, Working
<1>7. CASE WriteCandidate
  <2>1. AllOffline
    BY <1>7 DEF WriteCandidate, Inv, FormInv
  <2> QED BY <1>7, <2>1, ReturnSafe DEF WriteCandidate
<1>8. CASE NoCandidateNeeded
  <2>1. UNCHANGED <<gr, view, up, bootGroup, api, mysql, stsSeen, podSeen, booted, pods,
                    bootstrapped, restartCandidate>>
        /\ pc = "collect" /\ pc' = "pods" /\ booted = {}
    BY <1>0, <1>8 DEF NoCandidateNeeded, mysqlVars, k8sVars, loopVars, BootInv
  <2>2. GroupInv' /\ (AllOffline <=> AllOffline')
    BY <2>1, SameServers DEF Inv
  <2> QED BY <2>1, <2>2 DEF Inv, ReadInv, FormInv, Working
<1>9. ASSUME NEW p \in Pods, ReconcilePod(p) PROVE GroupInv' /\ ReadInv' /\ FormInv'
  <2>1. UNCHANGED <<gr, view, up, bootGroup, api, mysql, stsSeen, podSeen, booted, pods,
                    bootstrapped, restartCandidate, statusDirty>>
        /\ pc = "pods" /\ pc' \in {"pods", "join", "bootOn"}
        /\ (pc' # "pods" => cur' = p) /\ (pc' = "bootOn" => ShouldBootstrap(p)) /\ p \in todo
    BY <1>9 DEF ReconcilePod, SelfOnline, k8sVars, loopVars
  <2>2. GroupInv' /\ (AllOffline <=> AllOffline') /\ Donors' = Donors
    BY <2>1, SameServers DEF Inv
  <2>3. pc' = "bootOn" => AllOffline
    <3> SUFFICES ASSUME pc' = "bootOn" PROVE AllOffline
        OBVIOUS
    <3>1. ~bootstrapped \/ restartCandidate = p
      BY <2>1 DEF ShouldBootstrap
    <3>2. booted = {}
      BY <1>0, <2>1 DEF BootInv, ShouldBootstrap
    <3> QED BY <2>1, <3>1, <3>2 DEF Inv, ReadInv, FormInv, Working
  <2>4. ReadInv'
    BY <2>1 DEF Inv, ReadInv, Working
  <2>5. FormInv'
    BY <2>1, <2>2, <2>3 DEF Inv, FormInv
  <2> QED BY <2>2, <2>4, <2>5
<1>10. CASE BootstrapOn
  <2>1. UNCHANGED <<gr, view, up, api, mysql, stsSeen, podSeen, booted, pods, cur,
                    bootstrapped, restartCandidate>>
        /\ pc = "bootOn" /\ pc' = "bootStart" /\ bootGroup' = [bootGroup EXCEPT ![cur] = TRUE]
    BY <1>0, <1>10 DEF BootstrapOn, SetBootstrapGroup, k8sVars, loopVars
  <2>2. GroupInv' /\ (AllOffline <=> AllOffline')
    BY <2>1, SameServers DEF Inv
  <2>3. ReadInv'
    BY <2>1 DEF Inv, ReadInv, Working
  <2>4. FormInv'
    BY <1>0, <2>1, <2>2 DEF Inv, ReadInv, FormInv, MySQLTypeOK
  <2> QED BY <2>2, <2>3, <2>4
<1>11. CASE BootstrapStart
  <2>1. pc = "bootStart" /\ cur \in Pods /\ AllOffline /\ bootGroup[cur] /\ booted = {}
    BY <1>0, <1>11 DEF BootstrapStart, Inv, ReadInv, FormInv, BootInv
  <2>2. gr[cur] = "OFFLINE" /\ CanStart(cur)
    BY <2>1 DEF AllOffline, CanStart
  <2>3. StartGroupReplication(cur) /\ pc' = "bootOff" /\ booted' = booted \cup {cur}
        /\ UNCHANGED <<api, mysql, stsSeen, podSeen, pods, cur, bootstrapped, restartCandidate>>
    BY <1>0, <1>11, <2>2 DEF BootstrapStart, k8sVars, loopVars
  <2>4. GroupInv' /\ Donors' # {}
    BY <1>0, <2>1, <2>3, StartOneGroup DEF Inv
  <2>5. UNCHANGED <<up, bootGroup>>
    BY <2>3 DEF StartGroupReplication
  <2>6. ReadInv'
    BY <2>1, <2>3, <2>5 DEF Inv, ReadInv, Working
  <2>7. FormInv'
    BY <2>1, <2>3, <2>4, <2>5 DEF Inv, FormInv
  <2> QED BY <2>4, <2>6, <2>7
<1>12. CASE BootstrapOff
  <2>1. UNCHANGED <<gr, view, up, api, stsSeen, podSeen, booted, pods, cur>>
        /\ pc = "bootOff" /\ pc' = "pods" /\ bootGroup' = [bootGroup EXCEPT ![cur] = FALSE]
        /\ mysql'.bootstrapped /\ mysql'.candidate = None /\ statusDirty'
    BY <1>0, <1>12 DEF BootstrapOff, SetBootstrapGroup, k8sVars
  <2>2. GroupInv' /\ (AllOffline <=> AllOffline') /\ Donors' = Donors
    BY <2>1, SameServers DEF Inv
  <2>3. booted # {}
    BY <1>0, <2>1 DEF BootInv
  <2>4. ReadInv'
    BY <2>1, <2>3 DEF Inv, ReadInv, Working
  <2>5. FormInv'
    BY <1>0, <2>1, <2>2, <2>3 DEF Inv, ReadInv, FormInv, MySQLTypeOK
  <2> QED BY <2>2, <2>4, <2>5
<1>13. CASE JoinGroup
  <2>1. pc = "join" /\ cur \in Pods /\ ~bootGroup[cur] /\ pc' \in {"pods", "fail"}
        /\ UNCHANGED <<api, mysql, stsSeen, podSeen, booted, pods, bootstrapped,
                       restartCandidate, statusDirty>>
    BY <1>13 DEF JoinGroup, Inv, ReadInv, FormInv, k8sVars, loopVars
  <2>2. CASE StartGroupReplication(cur) /\ pc' = "pods"
    <3>1. GroupInv' /\ Donors' # {}
      BY <1>0, <2>1, <2>2, StartOneGroup DEF Inv
    <3>2. UNCHANGED <<up, bootGroup>>
      BY <2>2 DEF StartGroupReplication
    <3>3. Donors # {}
      BY <2>1, <2>2 DEF StartGroupReplication, FormGroup, EnterGroup
    <3>4. ~AllOffline
      BY <3>3 DEF AllOffline, Donors, Online
    <3>5. ReadInv'
      BY <2>1, <2>2, <3>2 DEF Inv, ReadInv, Working
    <3>6. FormInv'
      BY <2>1, <2>2, <3>1, <3>2, <3>4 DEF Inv, FormInv
    <3> QED BY <3>1, <3>5, <3>6
  <2>3. CASE UNCHANGED mysqlVars
    <3>1. UNCHANGED <<gr, view, up, bootGroup>>
      BY <2>3 DEF mysqlVars
    <3>2. GroupInv' /\ (AllOffline <=> AllOffline') /\ Donors' = Donors
      BY <3>1, SameServers DEF Inv
    <3>3. pc' = "fail" => booted = {}
      BY <1>0, <1>13, <2>1, <3>1
      DEF JoinGroup, CanStart, Inv, FormInv, StartGroupReplication, FormGroup, EnterGroup
    <3>4. ReadInv'
      BY <2>1, <3>1 DEF Inv, ReadInv, Working
    <3>5. FormInv'
      BY <2>1, <3>1, <3>2, <3>3 DEF Inv, FormInv
    <3> QED BY <3>2, <3>4, <3>5
  <2> QED BY <1>0, <1>13, <2>2, <2>3 DEF JoinGroup
<1>14. CASE FinishPods
  <2>1. pc = "pods" /\ Return /\ UNCHANGED <<mysqlVars, stsSeen, podSeen>>
        /\ (IF statusDirty THEN Store(mysql) ELSE NoStore)
    BY <1>0, <1>14 DEF FinishPods, UpdateStatus
  <2>2. CASE booted = {}
    <3>1. api'.bootstrapped = api.bootstrapped /\ api'.candidate = api.candidate
      BY <2>1, <2>2 DEF Store, NoStore, Inv, ReadInv
    <3>2. ~api'.bootstrapped \/ api'.candidate # None => AllOffline
      BY <2>2, <3>1 DEF Inv, FormInv
    <3> QED BY <2>1, <3>2, ReturnSafe
  <2>3. CASE booted # {}
    <3>1. api'.bootstrapped /\ api'.candidate = None
      BY <2>1, <2>3 DEF Store, Inv, FormInv
    <3> QED BY <2>1, <3>1, ReturnSafe
  <2> QED BY <2>2, <2>3
<1>15. CASE SQLError
  <2>1. pc = "collect" \/ pc = "pods" \/ pc \in {"bootOn", "bootStart", "bootOff", "join"}
    BY <1>15 DEF SQLError
  <2>2. up = Pods /\ todo \subseteq Pods
    BY <1>0, <2>1 DEF Inv, ReadInv, Working, TypeOK
  <2>3. pc \in {"bootOn", "bootStart", "bootOff", "join"} => cur \in up
    BY <2>2 DEF Inv, ReadInv
  <2> QED BY <1>0, <1>15, <2>2, <2>3 DEF SQLError
<1>16. CASE FailStatus
  <2> DEFINE s == [mysql EXCEPT !.phase = "Degraded"]
  <2>1. s.bootstrapped = mysql.bootstrapped /\ s.candidate = mysql.candidate
    BY <1>0 DEF TypeOK, Status
  <2>2. pc = "fail" /\ Return /\ (Store(s) \/ NoStore) /\ UNCHANGED <<mysqlVars, stsSeen, podSeen>>
    BY <1>16 DEF FailStatus
  <2> HIDE DEF s
  <2>3. booted = {}
    BY <2>2 DEF Inv, FormInv
  <2>4. api'.bootstrapped = api.bootstrapped /\ api'.candidate = api.candidate
    BY <2>1, <2>2, <2>3 DEF Store, NoStore, Inv, ReadInv
  <2>5. ~api'.bootstrapped \/ api'.candidate # None => AllOffline
    BY <2>3, <2>4 DEF Inv, FormInv
  <2> QED BY <2>2, <2>5, ReturnSafe
<1>17. ASSUME NEW p \in Pods, PodUp(p) PROVE GroupInv' /\ ReadInv' /\ FormInv'
  <2>1. UNCHANGED <<gr, view, bootGroup, api, passVars>> /\ up' = up \cup {p}
        /\ stsSeen' = Cardinality(up') /\ podSeen' = up'
    BY <1>0, <1>17 DEF PodUp, MysqldStart, ReadinessSeen
  <2>2. GroupInv' /\ (AllOffline <=> AllOffline') /\ Donors' = Donors /\ Online' = Online
    BY <2>1, SameServers DEF Inv
  <2>3. ReadInv'
    BY <2>1, <2>2 DEF Inv, ReadInv, Working, passVars
  <2>4. FormInv'
    BY <2>1, <2>2 DEF Inv, FormInv, passVars
  <2> QED BY <2>2, <2>3, <2>4
<1>18. ASSUME NEW p \in Pods, PodDown(p) PROVE GroupInv' /\ ReadInv' /\ FormInv'
  <2>1. PICK orderly \in BOOLEAN : MysqldStop(p, orderly)
    BY <1>18 DEF PodDown
  <2>2. GroupInv' /\ \A q \in Pods : gr[q] = "OFFLINE" => gr'[q] = "OFFLINE"
    BY <1>0, <2>1, StopOneGroup DEF Inv
  <2>3. AllOffline => AllOffline'
    BY <2>2 DEF AllOffline
  <2>4. pc = "idle" /\ UNCHANGED <<api, passVars>>
        /\ stsSeen' = Cardinality(up') /\ podSeen' = up'
    BY <1>0, <1>18 DEF PodDown, ReadinessSeen
  <2>5. \A q \in Pods : bootGroup'[q] => bootGroup[q]
    BY <1>0, <2>1 DEF MysqldStop, MySQLTypeOK
  <2>6. ReadInv'
    BY <2>4 DEF Inv, ReadInv, Working, passVars
  <2>7. FormInv'
    BY <2>3, <2>4, <2>5 DEF Inv, FormInv, passVars
  <2> QED BY <2>2, <2>6, <2>7
<1>19. ASSUME NEW p \in Pods, MemberRecovers(p) PROVE GroupInv' /\ ReadInv' /\ FormInv'
  <2>1. GroupInv' /\ Donors \subseteq Donors' /\ Online # {} /\ Online \subseteq Online'
    BY <1>0, <1>19, RecoverOneGroup DEF MemberRecovers, Inv
  <2>2. UNCHANGED <<up, bootGroup, api, stsSeen, podSeen, passVars>>
    BY <1>19 DEF MemberRecovers, Recover, k8sVars
  <2>3. ~AllOffline
    BY <2>1 DEF AllOffline, Online
  <2>4. ReadInv'
    BY <2>1, <2>2 DEF Inv, ReadInv, Working, passVars
  <2>5. FormInv'
    BY <2>1, <2>2, <2>3 DEF Inv, FormInv, passVars
  <2> QED BY <2>1, <2>4, <2>5
<1>20. ASSUME NEW p \in Pods, DeliverPod(p) PROVE FALSE
  BY <1>20 DEF DeliverPod, Inv, ReadInv
<1>21. CASE DeliverMySQL
  BY <1>0, <1>21 DEF DeliverMySQL
<1>22. CASE DeliverStatefulSet
  BY <1>22 DEF DeliverStatefulSet, Inv, ReadInv
<1>23. CASE Edit
  <2>1. UNCHANGED <<gr, view, up, bootGroup, api, mysql, stsSeen, podSeen, booted, pods, todo,
                    pc, cur, bootstrapped, restartCandidate, anyOnline, statusDirty>>
    BY <1>23 DEF Edit, mysqlVars
  <2>2. GroupInv' /\ (AllOffline <=> AllOffline') /\ Donors' = Donors /\ Online' = Online
    BY <2>1, SameServers DEF Inv
  <2>3. ReadInv'
    BY <2>1, <2>2 DEF Inv, ReadInv, Working
  <2>4. FormInv'
    BY <2>1, <2>2 DEF Inv, FormInv
  <2> QED BY <2>2, <2>3, <2>4
<1>24. CASE OperatorRestart
  BY <1>0, <1>24 DEF OperatorRestart
<1>25. CASE UNCHANGED vars
  <2>1. UNCHANGED <<gr, view, up, bootGroup, api, stsSeen, podSeen, passVars>>
    BY <1>25 DEF vars, mysqlVars, k8sVars
  <2>2. GroupInv' /\ (AllOffline <=> AllOffline') /\ Donors' = Donors /\ Online' = Online
    BY <2>1, SameServers DEF Inv
  <2>3. ReadInv'
    BY <2>1, <2>2 DEF Inv, ReadInv, Working, passVars
  <2>4. FormInv'
    BY <2>1, <2>2 DEF Inv, FormInv, passVars
  <2> QED BY <2>2, <2>3, <2>4
<1> QED
  BY <1>1, <1>2, <1>3, <1>4, <1>5, <1>6, <1>7, <1>8, <1>9, <1>10, <1>11, <1>12, <1>13,
     <1>14, <1>15, <1>16, <1>17, <1>18, <1>19, <1>20, <1>21, <1>22, <1>23, <1>24, <1>25
  DEF Next, Pass, Cluster

\* Under benign faults Inv is an invariant.
LEMMA OneGroupInvariant ==
  ASSUME Faults \subseteq Benign
  PROVE  Spec => []Inv
<1>1. Init => KeptInv /\ GroupInv /\ ReadInv /\ FormInv
  <2> SUFFICES ASSUME Init PROVE KeptInv /\ GroupInv /\ ReadInv /\ FormInv
      OBVIOUS
  <2>1. AllOffline /\ GroupInv
    BY DEF Init, MySQLInit, AllOffline, GroupInv
  <2>2. Cardinality({}) = 0
    BY FS_EmptySet
  <2>3. ReadInv
    BY <2>2 DEF Init, MySQLInit, ReadInv, Working
  <2>4. FormInv
    BY <2>1 DEF Init, MySQLInit, FormInv
  <2>5. KeptInv
    BY DEF Init, KeptInv
  <2> QED BY <2>1, <2>3, <2>4, <2>5
<1>2. Inv /\ [Next]_vars => KeptInv' /\ GroupInv' /\ ReadInv' /\ FormInv'
  <2>1. "stale" \notin Faults
    BY DEF Benign
  <2> QED BY <2>1, KeptStep, SafeStep DEF Inv
<1> QED
  BY <1>1, <1>2, PassInvariant, PTL DEF Spec, Inv

\* Under benign faults a pod is told to form a group only while every pod is
\* outside of any group.
THEOREM BootstrapsAlone ==
  ASSUME Faults \subseteq Benign
  PROVE  Spec => []BootstrapWhenNoneOnline
<1>1. Inv => BootstrapWhenNoneOnline
  BY DEF Inv, FormInv, AllOffline, BootstrapWhenNoneOnline
<1> QED
  BY <1>1, OneGroupInvariant, PTL

\* Under benign faults there is never more than one group that accepts writes.
THEOREM OneGroup ==
  ASSUME Faults \subseteq Benign
  PROVE  Spec => []NoSplitBrain
<1>1. Inv => NoSplitBrain
  BY DEF Inv, GroupInv, NoSplitBrain, Donors, Online
<1> QED
  BY <1>1, OneGroupInvariant, PTL

---------------------------------------------------------------------------
(* The operator and the pods implement ReplicatedGroup.  The proof goes    *)
(* through the servers: a step of the specification leaves them as they    *)
(* are, starts Group Replication on one pod, ends its recovery or stops    *)
(* it, and each of these is a step of ReplicatedGroup or a stutter.        *)

\* The refinement mapping of GRController!RG.
Groups == {view[p] : p \in Donors}

---------------------------------------------------------------------------
(* The groups that accept writes.                                          *)

\* A set of pods with one element fewer.
LEMMA OneLess ==
  ASSUME NEW S \in SUBSET Pods, NEW p \in S
  PROVE  /\ Cardinality(S) \in Nat /\ Cardinality(S \ {p}) \in Nat
         /\ Cardinality(S \ {p}) = Cardinality(S) - 1
BY PodSets, FS_RemoveElement, Zenon

\* All members are reachable from each of them.
LEMMA ReachableMembers ==
  ASSUME MySQLTypeOK, GroupInv, NEW p \in Pods, gr[p] # "OFFLINE"
  PROVE  /\ Reachable(p) = {q \in Pods : gr[q] # "OFFLINE"}
         /\ Reachable(p) \subseteq view[p] /\ view[p] \subseteq Pods
BY DEF GroupInv, Reachable, MySQLTypeOK

\* The group that accepts writes is the view of any of its members.
LEMMA TheGroup ==
  ASSUME MySQLTypeOK, GroupInv, NEW p \in Pods, gr[p] # "OFFLINE"
  PROVE  Groups = IF Quorate(p) /\ Online # {} THEN {view[p]} ELSE {}
<1>1. \A q \in Online : view[q] = view[p] /\ (Quorate(q) <=> Quorate(p))
  <2> SUFFICES ASSUME NEW q \in Online
               PROVE  view[q] = view[p] /\ (Quorate(q) <=> Quorate(p))
      OBVIOUS
  <2>1. view[q] = view[p]
    BY DEF GroupInv, Online
  <2> QED BY <2>1 DEF Quorate, Reachable
<1>2. CASE Quorate(p) /\ Online # {}
  BY <1>1, <1>2 DEF Groups, Donors
<1>3. CASE ~(Quorate(p) /\ Online # {})
  <2>1. Donors = {}
    BY <1>1, <1>3 DEF Donors
  <2> QED BY <1>3, <2>1 DEF Groups
<1> QED
  BY <1>2, <1>3

\* Without members there is no group.
LEMMA NoGroup ==
  ASSUME AllOffline
  PROVE  Groups = {}
BY DEF AllOffline, Groups, Donors, Online

---------------------------------------------------------------------------
(* What a step does to the servers.                                        *)

\* START on p, which forms a group only while there is none.
Starts(p) == StartGroupReplication(p) /\ (bootGroup[p] => AllOffline)

\* A step of the specification leaves the servers' group state alone or is
\* one step of one server.
ServerStep ==
  \/ UNCHANGED <<gr, view>>
  \/ \E p \in Pods : Starts(p) \/ Recover(p) \/ \E orderly \in BOOLEAN : MysqldStop(p, orderly)

\* Every step is a step of at most one server; one step below per action that
\* touches Group Replication.
LEMMA StepsOfServers ==
  ASSUME Inv, [Next]_vars
  PROVE  ServerStep
<1>1. CASE BootstrapStart
  <2>1. cur \in Pods /\ AllOffline
    BY <1>1 DEF BootstrapStart, Inv, ReadInv, FormInv
  <2> QED BY <1>1, <2>1 DEF BootstrapStart, ServerStep, Starts, mysqlVars
<1>2. CASE JoinGroup
  <2>1. cur \in Pods /\ ~bootGroup[cur]
    BY <1>2 DEF JoinGroup, Inv, ReadInv, FormInv
  <2> QED BY <1>2, <2>1 DEF JoinGroup, ServerStep, Starts, mysqlVars
<1>3. ASSUME NEW p \in Pods, PodDown(p) PROVE ServerStep
  BY <1>3 DEF PodDown, ServerStep
<1>4. ASSUME NEW p \in Pods, MemberRecovers(p) PROVE ServerStep
  BY <1>4 DEF MemberRecovers, ServerStep
<1>5. ASSUME NEW p \in Pods, PodUp(p) \/ DeliverPod(p) \/ CollectGroupInfo(p) \/ ReconcilePod(p)
      PROVE  UNCHANGED <<gr, view>>
  BY <1>5 DEF PodUp, MysqldStart, DeliverPod, CollectGroupInfo, ReconcilePod, mysqlVars
<1>6. CASE \/ Reconcile \/ ReconcileResources \/ ObserveStatefulSet \/ LoadSecretsAndPods
           \/ PickRestartCandidate \/ WriteCandidate \/ NoCandidateNeeded
  BY <1>6 DEF Reconcile, ReconcileResources, ObserveStatefulSet, LoadSecretsAndPods,
     PickRestartCandidate, WriteCandidate, NoCandidateNeeded, mysqlVars, ServerStep
<1>7. CASE \/ BootstrapOn \/ BootstrapOff \/ FinishPods \/ SQLError \/ FailStatus
           \/ DeliverMySQL \/ DeliverStatefulSet \/ Edit \/ OperatorRestart
  BY <1>7 DEF BootstrapOn, BootstrapOff, SetBootstrapGroup, FinishPods, SQLError, FailStatus,
     DeliverMySQL, DeliverStatefulSet, Edit, OperatorRestart, mysqlVars, ServerStep
<1>8. CASE UNCHANGED vars
  BY <1>8 DEF vars, mysqlVars, ServerStep
<1> QED
  BY <1>1, <1>2, <1>3, <1>4, <1>5, <1>6, <1>7, <1>8 DEF Next, Pass, Cluster, ServerStep

---------------------------------------------------------------------------
(* Each of them is a step of ReplicatedGroup.                              *)

\* START forms the first group or enters the existing one, which may still
\* count p as a member.
LEMMA StartImplements ==
  ASSUME MySQLTypeOK, MySQLTypeOK', GroupInv, NEW p \in Pods, Starts(p)
  PROVE  RG!Form(p) \/ RG!Enter(p) \/ Groups' = Groups
<1>0. GroupInv' /\ Donors' # {} /\ gr[p] = "OFFLINE"
  BY StartOneGroup DEF Starts, StartGroupReplication
<1>1. CASE FormGroup(p)
  <2>1. Groups = {}
    BY <1>1, NoGroup DEF Starts, FormGroup
  <2>2. gr'[p] = "ONLINE" /\ view'[p] = {p}
    BY <1>1 DEF FormGroup, MySQLTypeOK
  <2>3. \A q \in Pods : q # p => gr'[q] = "OFFLINE"
    BY <1>1 DEF Starts, FormGroup, AllOffline
  <2>4. Donors' = {p}
    BY <1>0, <2>3 DEF Donors, Online
  <2>5. Groups' = {{p}}
    BY <2>2, <2>4 DEF Groups
  <2> QED BY <2>1, <2>5 DEF RG!Form, Groups
<1>2. CASE EnterGroup(p)
  <2>1. PICK q \in Donors :
          view' = [r \in Pods |-> IF r \in Reachable(q) \cup {p}
                                  THEN view[q] \cup {p} ELSE view[r]]
    BY <1>2 DEF EnterGroup
  <2>2. q \in Pods /\ gr[q] = "ONLINE" /\ Quorate(q) /\ q \in Online /\ q # p
    BY <1>0 DEF Donors, Online
  <2>3. Groups = {view[q]}
    BY <2>2, TheGroup
  <2>4. view'[q] = view[q] \cup {p} /\ gr'[q] = "ONLINE"
    BY <1>2, <2>1, <2>2, ReachableMembers DEF EnterGroup, MySQLTypeOK
  <2>5. Groups' = {view'[q]}
    <3>1. \A r \in Donors' : view'[r] = view'[q]
      BY <1>0, <2>2, <2>4 DEF GroupInv, Donors, Online
    <3> QED BY <1>0, <3>1 DEF Groups
  <2>6. CASE p \notin view[q]
    BY <2>3, <2>4, <2>5, <2>6 DEF RG!Enter, Groups
  <2>7. CASE p \in view[q]
    BY <2>3, <2>4, <2>5, <2>7
  <2> QED BY <2>6, <2>7
<1> QED
  BY <1>1, <1>2 DEF Starts, StartGroupReplication

\* A recovery that ends changes no group: its donor is a member that accepts
\* writes already.
LEMMA RecoverImplements ==
  ASSUME MySQLTypeOK, GroupInv, NEW p \in Pods, Recover(p)
  PROVE  Groups' = Groups
<1>1. view' = view /\ gr[p] = "RECOVERING" /\ Quorate(p)
  BY DEF Recover
<1>2. GroupInv' /\ Donors \subseteq Donors' /\ Online # {}
  BY RecoverOneGroup
<1>3. Groups = {view[p]}
  BY <1>1, <1>2, TheGroup
<1>4. gr'[p] = "ONLINE"
  BY DEF Recover, MySQLTypeOK
<1>5. \A r \in Donors' : view[r] = view[p]
  BY <1>1, <1>2, <1>4 DEF GroupInv, Donors, Online
<1> QED
  BY <1>1, <1>2, <1>3, <1>5 DEF Groups

\* A server that is in no group disturbs none when it stops.
LEMMA StopOutside ==
  ASSUME MySQLTypeOK, GroupInv, NEW p \in Pods, NEW orderly \in BOOLEAN,
         MysqldStop(p, orderly), gr[p] = "OFFLINE"
  PROVE  UNCHANGED <<gr, view>>
<1> DEFINE rest == Reachable(p) \ {p}
           gone == {p} \cup (IF rest \cap Online = {} THEN rest ELSE {})
<1>1. view[p] = {} /\ rest = {}
  BY DEF GroupInv, Reachable
<1>2. gone = {p}
  BY <1>1
<1>3. /\ gr' = [q \in Pods |-> IF q = p THEN "OFFLINE" ELSE gr[q]]
      /\ view' = [q \in Pods |-> IF q = p THEN {} ELSE view[q]]
  BY <1>1, <1>2 DEF MysqldStop
<1> QED
  BY <1>1, <1>3 DEF MySQLTypeOK

\* When the group still accepts writes after its member p has stopped, it did
\* before, it goes on with all the others, and they have dropped p.
LEMMA Survivors ==
  ASSUME MySQLTypeOK, MySQLTypeOK', GroupInv, NEW p \in Pods, NEW orderly \in BOOLEAN,
         MysqldStop(p, orderly), gr[p] # "OFFLINE", Donors' # {}
  PROVE  /\ Quorate(p) /\ Online # {}
         /\ \A q \in Pods : gr'[q] # "OFFLINE" <=> q \in Reachable(p) \ {p}
         /\ \A q \in Pods : gr'[q] # "OFFLINE" => view'[q] = view[p] \ {p}
<1> DEFINE rest == Reachable(p) \ {p}
           agreed == \/ orderly /\ Quorate(p)
                     \/ 2 * Cardinality(rest) > Cardinality(view[p])
           gone == {p} \cup (IF rest \cap Online = {} THEN rest ELSE {})
<1>1. /\ gr' = [q \in Pods |-> IF q \in gone THEN "OFFLINE" ELSE gr[q]]
      /\ view' = [q \in Pods |-> IF q \in gone THEN {}
                                 ELSE IF q \in rest /\ agreed THEN view[q] \ {p}
                                 ELSE view[q]]
  BY DEF MysqldStop
<1>2. GroupInv'
  BY StopOneGroup
<1>3. rest \cap Online # {} => gone = {p}
  OBVIOUS
<1>4. p \in gone
  OBVIOUS
<1>5. /\ Reachable(p) = {q \in Pods : gr[q] # "OFFLINE"}
      /\ Reachable(p) \subseteq view[p] /\ view[p] \subseteq Pods /\ p \in Reachable(p)
  BY ReachableMembers
<1>6. PICK q \in Donors' : TRUE
  OBVIOUS
<1>7. q \in Pods /\ gr'[q] = "ONLINE" /\ 2 * Cardinality(Reachable(q)') > Cardinality(view'[q])
  BY <1>6 DEF Donors, Online, Quorate
<1>8. q \notin gone /\ q # p /\ gr[q] = "ONLINE"
  BY <1>1, <1>4, <1>7
<1>9. q \in rest /\ gone = {p} /\ view[q] = view[p]
  BY <1>3, <1>5, <1>7, <1>8 DEF GroupInv, Online
<1>10. \A r \in Pods : gr'[r] # "OFFLINE" <=> r \in rest
  BY <1>1, <1>5, <1>9
<1>11. agreed
  <2> SUFFICES ASSUME ~agreed PROVE FALSE
      OBVIOUS
  <2>1. view'[q] = view[p]
    BY <1>1, <1>7, <1>8, <1>9
  <2>2. Reachable(q)' = rest
    <3>1. \A r \in Pods : r \in Reachable(q)' <=> gr'[r] # "OFFLINE"
      BY <1>2, <1>7 DEF GroupInv, Reachable
    <3>2. Reachable(q)' \subseteq Pods
      BY <1>5, <2>1 DEF Reachable
    <3> QED BY <1>5, <1>10, <3>1, <3>2
  <2> QED BY <1>7, <2>1, <2>2
<1>12. Quorate(p)
  <2>1. CASE 2 * Cardinality(rest) > Cardinality(view[p])
    <3>1. Cardinality(rest) = Cardinality(Reachable(p)) - 1
          /\ Cardinality(rest) \in Nat /\ Cardinality(Reachable(p)) \in Nat
      BY <1>5, OneLess
    <3>2. Cardinality(view[p]) \in Nat
      BY <1>5, PodSets
    <3> QED BY <2>1, <3>1, <3>2 DEF Quorate
  <2> QED BY <1>11, <2>1
<1>13. \A r \in Pods : gr'[r] # "OFFLINE" => view'[r] = view[p] \ {p}
  <2>1. view'[q] = view[p] \ {p}
    BY <1>1, <1>7, <1>8, <1>9, <1>11
  <2> QED BY <1>2, <1>7, <2>1 DEF GroupInv
<1> QED
  BY <1>7, <1>8, <1>10, <1>12, <1>13 DEF Online

\* A stopping server leaves the group, ends it, or was in none.
LEMMA StopImplements ==
  ASSUME MySQLTypeOK, MySQLTypeOK', GroupInv, NEW p \in Pods, NEW orderly \in BOOLEAN,
         MysqldStop(p, orderly)
  PROVE  RG!Leave(p) \/ RG!End \/ Groups' = Groups
<1>1. CASE gr[p] = "OFFLINE"
  BY <1>1, StopOutside, SameServers DEF Groups
<1>2. CASE gr[p] # "OFFLINE" /\ Donors' = {}
  <2>1. Groups \in {{}, {view[p]}}
    BY <1>2, TheGroup
  <2> QED BY <1>2, <2>1 DEF RG!End, Groups
<1>3. CASE gr[p] # "OFFLINE" /\ Donors' # {}
  <2>1. Groups = {view[p]}
    BY <1>3, Survivors, TheGroup
  <2>2. \A q \in Donors' : view'[q] = view[p] \ {p}
    BY <1>3, Survivors DEF Donors, Online
  <2>3. Groups' = {view[p] \ {p}} /\ p \in view[p]
    BY <1>3, <2>2 DEF Groups, GroupInv
  <2> QED BY <2>1, <2>3 DEF RG!Leave, Groups
<1> QED
  BY <1>1, <1>2, <1>3

\* Under benign faults the operator and the pods implement ReplicatedGroup: one
\* group that accepts writes, formed only while there is none, which pods enter
\* and leave one at a time.
THEOREM Refinement ==
  ASSUME Faults \subseteq Benign
  PROVE  Spec => OneGroupImplemented
<1>1. Init => RG!Init
  BY NoGroup DEF Init, MySQLInit, AllOffline, RG!Init, Groups
<1>2. Inv /\ Inv' /\ [Next]_vars => [RG!Next]_Groups
  <2> SUFFICES ASSUME Inv, Inv', [Next]_vars PROVE RG!Next \/ Groups' = Groups
      OBVIOUS
  <2>1. MySQLTypeOK /\ MySQLTypeOK' /\ GroupInv
    BY DEF Inv, PassInv, TypeOK
  <2>2. CASE UNCHANGED <<gr, view>>
    BY <2>2, SameServers DEF Groups
  <2>3. ASSUME NEW p \in Pods, Starts(p) PROVE RG!Next \/ Groups' = Groups
    BY <2>1, <2>3, StartImplements DEF RG!Next
  <2>4. ASSUME NEW p \in Pods, Recover(p) PROVE Groups' = Groups
    BY <2>1, <2>4, RecoverImplements
  <2>5. ASSUME NEW p \in Pods, NEW orderly \in BOOLEAN, MysqldStop(p, orderly)
        PROVE  RG!Next \/ Groups' = Groups
    BY <2>1, <2>5, StopImplements DEF RG!Next
  <2> QED BY <2>2, <2>3, <2>4, <2>5, StepsOfServers DEF ServerStep
<1> QED
  BY <1>1, <1>2, OneGroupInvariant, PTL DEF Spec, OneGroupImplemented, RG!Spec, Groups

===========================================================================

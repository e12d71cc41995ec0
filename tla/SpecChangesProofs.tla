------------------------- MODULE SpecChangesProofs -------------------------
(***************************************************************************)
(* A change of spec.replicas or of the group name makes no second group,   *)
(* proved for every bound on the replicas and on the number of changes,    *)
(* while pods come and go in the middle of a pass.                         *)
(***************************************************************************)
EXTENDS SpecChanges, FiniteSetTheorems, TLAPS

USE SCAssumption

\* The StatefulSet exists when an event or a pod of it does.
StsInv == lag \/ Exists # {} => sts \in Specs

\* A group has members, which answer, and all of them were listed by the pass.
MembersInv ==
  /\ {} \notin groups
  /\ Members \subseteq Ready
  /\ pc = "collect" /\ ~anyOnline => Members \subseteq todo

\* The status calls for forming a group only while there is none.
StatusInv ==
  /\ pc \in {"observe", "collect"} => mem = status
  /\ pc = "idle" /\ (~status.bootstrapped \/ status.candidate # None) => groups = {}
  /\ pc # "idle" /\ (~mem.bootstrapped \/ mem.candidate # None) => groups = {}
  /\ \A S, T \in groups : S = T

---------------------------------------------------------------------------
(* Type correctness.                                                       *)

\* The number of ready pods is within the bound.
LEMMA ReadyCount == Cardinality(Ready) \in 0..MaxReplicas
<1>1. IsFiniteSet(Pods) /\ Cardinality(Pods) = MaxReplicas
  <2>1. 0 \in Int /\ MaxReplicas - 1 \in Int
    OBVIOUS
  <2>2. IsFiniteSet(0..(MaxReplicas - 1))
        /\ Cardinality(0..(MaxReplicas - 1)) =
             IF 0 > MaxReplicas - 1 THEN 0 ELSE (MaxReplicas - 1) - 0 + 1
    BY <2>1, FS_Interval
  <2> QED BY <2>2 DEF Pods
<1>2. Ready \subseteq Pods
  BY DEF Ready, Exists
<1>3. IsFiniteSet(Ready) /\ Cardinality(Ready) <= Cardinality(Pods)
  BY <1>1, <1>2, FS_Subset
<1>4. Cardinality(Ready) \in Nat
  BY <1>3, FS_CardinalityType
<1> QED
  BY <1>1, <1>3, <1>4

\* The end of a pass resets its locals.
LEMMA EndPassTyped ==
  ASSUME EndPass
  PROVE  /\ mem' \in Statuses /\ pc' = "idle" /\ anyOnline' \in BOOLEAN
         /\ todo' \subseteq Pods /\ listed' \subseteq Pods /\ infos' \subseteq Pods
BY DEF EndPass, NewStatus, Statuses

\* Every step keeps the types: one step below per action.
LEMMA TypeStep ==
  ASSUME TypeOK, StsInv, [Next]_vars
  PROVE  TypeOK' /\ StsInv'
<1>1. CASE ReconcileStatefulSet
  <2>1. sts' \in Specs
    BY <1>1 DEF ReconcileStatefulSet, Template, TypeOK, Specs
  <2>2. TypeOK'
    BY <1>1, <2>1 DEF ReconcileStatefulSet, TypeOK
  <2> QED BY <2>1, <2>2 DEF StsInv
<1>2. CASE ObserveStatefulSet
  <2>1. Ready \subseteq Pods
    BY DEF Ready, Exists
  <2>2. TypeOK'
    BY <1>2, <2>1, EndPassTyped DEF ObserveStatefulSet, TypeOK
  <2> QED BY <1>2, <2>2 DEF ObserveStatefulSet, StsInv, Exists
<1>3. ASSUME NEW p \in Pods, CollectGroupInfo(p) PROVE TypeOK' /\ StsInv'
  BY <1>3 DEF CollectGroupInfo, TypeOK, StsInv, Exists
<1>4. CASE PickRestartCandidate
  <2>1. status' \in Statuses
    BY <1>4 DEF PickRestartCandidate, WriteStatus, TypeOK, Statuses
  <2>2. queued' \in BOOLEAN
    BY <1>4 DEF PickRestartCandidate, WriteStatus, TypeOK
  <2>3. TypeOK'
    BY <1>4, <2>1, <2>2, EndPassTyped DEF PickRestartCandidate, TypeOK
  <2> QED BY <1>4, <2>3 DEF PickRestartCandidate, StsInv, Exists
<1>5. CASE NoCandidateNeeded
  BY <1>5 DEF NoCandidateNeeded, TypeOK, StsInv, Exists
<1>6. ASSUME NEW p \in Pods, SkipMember(p) PROVE TypeOK' /\ StsInv'
  BY <1>6 DEF SkipMember, TypeOK, StsInv, Exists
<1>7. ASSUME NEW p \in Pods, Bootstrap(p) PROVE TypeOK' /\ StsInv'
  <2>1. mem' \in Statuses /\ groups' \subseteq SUBSET Pods
    BY <1>7 DEF Bootstrap, Recorded, Statuses, TypeOK
  <2> QED BY <1>7, <2>1 DEF Bootstrap, TypeOK, StsInv, Exists
<1>8. ASSUME NEW p \in Pods, Join(p) PROVE TypeOK' /\ StsInv'
  <2>1. groups' \subseteq SUBSET Pods
    BY <1>8 DEF Join, Joinable, TypeOK
  <2> QED BY <1>8, <2>1 DEF Join, TypeOK, StsInv, Exists
<1>9. ASSUME NEW p \in Pods, JoinFails(p) PROVE TypeOK' /\ StsInv'
  <2>1. status' \in Statuses /\ dropped' \in BOOLEAN
    BY <1>9 DEF JoinFails, TypeOK
  <2>2. TypeOK'
    BY <1>9, <2>1, EndPassTyped DEF JoinFails, TypeOK
  <2> QED BY <1>9, <2>2 DEF JoinFails, StsInv, Exists
<1>10. CASE FinishPods
  <2>1. status' \in Statuses /\ queued' \in BOOLEAN
    BY <1>10 DEF FinishPods, WriteStatus, TypeOK
  <2>2. TypeOK'
    BY <1>10, <2>1, EndPassTyped DEF FinishPods, TypeOK
  <2> QED BY <1>10, <2>2 DEF FinishPods, StsInv, Exists
<1>11. CASE DeliverStatefulSet
  <2>1. sts \in Specs
    BY <1>11 DEF DeliverStatefulSet, StsInv
  <2>2. seen' \in [replicas : 0..MaxReplicas, ready : 0..MaxReplicas]
    BY <1>11, <2>1, ReadyCount DEF DeliverStatefulSet, Specs
  <2>3. TypeOK'
    BY <1>11, <2>2 DEF DeliverStatefulSet, TypeOK, passVars
  <2> QED BY <1>11, <2>1, <2>3 DEF DeliverStatefulSet, StsInv
<1>12. ASSUME NEW p \in Pods, CreatePod(p) PROVE TypeOK' /\ StsInv'
  <2>1. sts \in Specs /\ sts' = sts
    BY <1>12 DEF CreatePod, TypeOK
  <2>2. pod' \in [Pods -> [made : Specs, ready : BOOLEAN] \cup {None}]
    BY <1>12, <2>1 DEF CreatePod, TypeOK
  <2>3. TypeOK'
    BY <1>12, <2>2 DEF CreatePod, TypeOK, passVars
  <2> QED BY <2>1, <2>3 DEF StsInv
<1>13. ASSUME NEW p \in Pods, BecomeReady(p) PROVE TypeOK' /\ StsInv'
  <2>1. pod[p] \in [made : Specs, ready : BOOLEAN] /\ sts \in Specs /\ sts' = sts
    BY <1>13 DEF BecomeReady, Exists, StsInv, TypeOK
  <2>2. pod' \in [Pods -> [made : Specs, ready : BOOLEAN] \cup {None}]
    BY <1>13, <2>1 DEF BecomeReady, TypeOK
  <2>3. TypeOK'
    BY <1>13, <2>2 DEF BecomeReady, TypeOK, passVars
  <2> QED BY <2>1, <2>3 DEF StsInv
<1>14. ASSUME NEW p \in Pods, DeletePod(p) PROVE TypeOK' /\ StsInv'
  <2>1. sts \in Specs /\ sts' = sts
    BY <1>14 DEF DeletePod, TypeOK
  <2>2. pod' \in [Pods -> [made : Specs, ready : BOOLEAN] \cup {None}]
        /\ groups' \subseteq SUBSET Pods
    BY <1>14 DEF DeletePod, TypeOK
  <2>3. TypeOK'
    BY <1>14, <2>2 DEF DeletePod, TypeOK, passVars
  <2> QED BY <2>1, <2>3 DEF StsInv
<1>15. ASSUME NEW r \in 0..MaxReplicas, NEW n \in {None, spec.groupName}, Edit(r, n)
       PROVE  TypeOK' /\ StsInv'
  <2>1. spec' \in Specs
    <3> DEFINE k == IF r = 0 THEN MaxReplicas ELSE r
               m == IF n = None THEN edits + 2 ELSE n
    <3>1. k \in 1..MaxReplicas
      OBVIOUS
    <3>2. edits \in 0..MaxEdits /\ edits < MaxEdits /\ spec.groupName \in 1..(MaxEdits + 1)
      BY <1>15 DEF Edit, TypeOK, Specs
    <3>3. m \in 1..(MaxEdits + 1)
      <4>1. CASE n = None
        BY <3>2, <4>1
      <4>2. CASE n # None
        BY <3>2, <4>2
      <4> QED BY <4>1, <4>2
    <3>4. spec' = [replicas |-> k, groupName |-> m]
      BY <1>15 DEF Edit, Default
    <3> HIDE DEF k, m
    <3> QED BY <3>1, <3>3, <3>4 DEF Specs
  <2>2. edits' \in 0..MaxEdits
    BY <1>15 DEF Edit, TypeOK
  <2>3. TypeOK'
    BY <1>15, <2>1, <2>2 DEF Edit, TypeOK, passVars
  <2> QED BY <1>15, <2>3 DEF Edit, StsInv, Exists
<1>16. CASE UNCHANGED vars
  BY <1>16 DEF vars, passVars, TypeOK, StsInv, Exists
<1> QED
  BY <1>1, <1>2, <1>3, <1>4, <1>5, <1>6, <1>7, <1>8, <1>9, <1>10, <1>11, <1>12, <1>13,
     <1>14, <1>15, <1>16
  DEF Next, Pass, PodsMove

\* Every variable keeps its type, whatever the user changes.
THEOREM SpecChangesTyped == Spec => []TypeOK
<1>1. Init => TypeOK /\ StsInv
  <2> SUFFICES ASSUME Init PROVE TypeOK /\ StsInv
      OBVIOUS
  <2>1. spec \in Specs /\ NewStatus \in Statuses
    BY DEF Init, Specs, NewStatus, Statuses
  <2>2. Exists = {} /\ lag = FALSE
    BY DEF Init, Exists
  <2>3. seen \in [replicas : 0..MaxReplicas, ready : 0..MaxReplicas]
    BY DEF Init
  <2>4. pod \in [Pods -> [made : Specs, ready : BOOLEAN] \cup {None}] /\ edits \in 0..MaxEdits
    BY DEF Init
  <2>5. lag \in BOOLEAN /\ queued \in BOOLEAN /\ anyOnline \in BOOLEAN /\ dropped \in BOOLEAN
    BY DEF Init
  <2>6. StsInv
    BY <2>2 DEF StsInv
  <2>7. TypeOK
    BY <2>1, <2>3, <2>4, <2>5 DEF Init, TypeOK
  <2> QED BY <2>6, <2>7
<1>2. TypeOK /\ StsInv /\ [Next]_vars => TypeOK' /\ StsInv'
  BY TypeStep
<1> QED
  BY <1>1, <1>2, PTL DEF Spec


---------------------------------------------------------------------------
(* One group.                                                              *)

\* What a step may do to the groups.
OneStep == RG!Next \/ groups' = groups

\* The end of a pass needs only what the stored status says.
LEMMA EndPassSafe ==
  ASSUME MembersInv, EndPass, UNCHANGED <<groups, pod>>
  PROVE  /\ MembersInv'
         /\ (~status'.bootstrapped \/ status'.candidate # None => groups = {})
              /\ (\A S, T \in groups : S = T) => StatusInv'
BY DEF EndPass, MembersInv, StatusInv, Members, Ready, Exists

\* A pass that neither ends nor touches status, memory and groups.
LEMMA PassGoesOn ==
  ASSUME MembersInv, dropped \/ StatusInv, UNCHANGED <<groups, pod, status, mem, dropped>>,
         pc # "idle", pc' # "idle", pc' \in {"observe", "collect"} => pc \in {"observe", "collect"},
         pc' = "collect" /\ ~anyOnline' => Members \subseteq todo'
  PROVE  MembersInv' /\ (dropped \/ StatusInv)'
BY DEF MembersInv, StatusInv, Members, Ready, Exists

\* Every step of a pass keeps one group: one step below per action.
LEMMA OneGroupPass ==
  ASSUME TypeOK, MembersInv, dropped \/ StatusInv, Pass
  PROVE  MembersInv' /\ (dropped \/ StatusInv)' /\ (dropped \/ OneStep)
<1>1. CASE ReconcileStatefulSet
  BY <1>1 DEF ReconcileStatefulSet, MembersInv, StatusInv, Members, Ready, Exists, OneStep
<1>2. CASE ObserveStatefulSet
  <2>1. CASE EndPass
    BY <1>2, <2>1, EndPassSafe DEF ObserveStatefulSet, StatusInv, OneStep
  <2>2. CASE pc' = "collect" /\ todo' = Ready /\ mem' = mem
    BY <1>2, <2>2, PassGoesOn DEF ObserveStatefulSet, MembersInv, OneStep
  <2> QED BY <1>2, <2>1, <2>2 DEF ObserveStatefulSet
<1>3. ASSUME NEW p \in Pods, CollectGroupInfo(p)
      PROVE  MembersInv' /\ (dropped \/ StatusInv)' /\ OneStep
  <2>1. ~anyOnline' => Members \subseteq todo'
    BY <1>3 DEF CollectGroupInfo, MembersInv, TypeOK
  <2> QED BY <1>3, <2>1, PassGoesOn DEF CollectGroupInfo, OneStep
<1>4. CASE PickRestartCandidate
  <2>1. groups = {}
    <3>1. Members = {}
      BY <1>4 DEF PickRestartCandidate, NeedsCandidate, MembersInv
    <3> QED BY <3>1 DEF Members, MembersInv
  <2> QED BY <1>4, <2>1, EndPassSafe DEF PickRestartCandidate, OneStep
<1>5. CASE NoCandidateNeeded
  BY <1>5, PassGoesOn DEF NoCandidateNeeded, OneStep
<1>6. ASSUME NEW p \in Pods, SkipMember(p)
      PROVE  MembersInv' /\ (dropped \/ StatusInv)' /\ OneStep
  BY <1>6, PassGoesOn DEF SkipMember, OneStep
<1>7. ASSUME NEW p \in Pods, Bootstrap(p)
      PROVE  MembersInv' /\ (dropped \/ StatusInv)' /\ (dropped \/ OneStep)
  <2>1. pc = "pods" /\ pc' = "pods" /\ p \in Ready /\ groups' = groups \cup {{p}}
        /\ mem' = Recorded /\ UNCHANGED <<pod, status, dropped>>
    BY <1>7 DEF Bootstrap, Connects
  <2>2. MembersInv'
    BY <2>1 DEF MembersInv, Members, Ready, Exists
  <2>3. dropped \/ groups = {}
    <3>1. p # None
      BY DEF Pods
    <3> QED BY <1>7, <2>1, <3>1 DEF Bootstrap, ShouldBootstrap, StatusInv
  <2>4. CASE groups = {}
    <3>1. StatusInv'
      BY <2>1, <2>4 DEF StatusInv, Recorded
    <3>2. RG!Form(p)
      BY <2>1, <2>4 DEF RG!Form
    <3> QED BY <2>2, <3>1, <3>2 DEF OneStep, RG!Next
  <2> QED BY <2>1, <2>2, <2>3, <2>4
<1>8. ASSUME NEW p \in Pods, Join(p)
      PROVE  MembersInv' /\ (dropped \/ StatusInv)' /\ OneStep
  <2>1. PICK S \in groups : groups' = (groups \ {S}) \cup {S \cup {p}}
    BY <1>8 DEF Join, Joinable
  <2>2. pc = "pods" /\ pc' = "pods" /\ p \in Ready /\ p \notin S
        /\ UNCHANGED <<pod, status, mem, dropped>>
    BY <1>8, <2>1 DEF Join, Connects, Members
  <2>3. Members' = Members \cup {p}
    BY <2>1 DEF Members
  <2>4. MembersInv'
    BY <2>1, <2>2, <2>3 DEF MembersInv, Ready, Exists
  <2>5. StatusInv => StatusInv'
    BY <2>1, <2>2 DEF StatusInv
  <2>6. RG!Enter(p)
    BY <2>1, <2>2 DEF RG!Enter
  <2> QED BY <2>2, <2>4, <2>5, <2>6 DEF OneStep, RG!Next
<1>9. ASSUME NEW p \in Pods, JoinFails(p)
      PROVE  MembersInv' /\ (dropped \/ StatusInv)' /\ OneStep
  <2>1. pc = "pods" /\ EndPass /\ UNCHANGED <<groups, pod>> /\ dropped' = (dropped \/ status' # mem)
    BY <1>9 DEF JoinFails
  <2>2. ~dropped' => StatusInv /\ status' = mem
    BY <2>1
  <2> QED BY <2>1, <2>2, EndPassSafe DEF StatusInv, OneStep
<1>10. CASE FinishPods
  BY <1>10, EndPassSafe DEF FinishPods, WriteStatus, StatusInv, OneStep
<1> QED
  BY <1>1, <1>2, <1>3, <1>4, <1>5, <1>6, <1>7, <1>8, <1>9, <1>10 DEF Pass

\* Pods that come and go keep one group, and a pod that goes leaves it: one
\* step below per action.
LEMMA OneGroupCluster ==
  ASSUME TypeOK, MembersInv, dropped \/ StatusInv,
         \/ DeliverStatefulSet \/ PodsMove
         \/ \E r \in 0..MaxReplicas, n \in {None, spec.groupName} : Edit(r, n)
  PROVE  MembersInv' /\ (dropped \/ StatusInv)' /\ (dropped \/ OneStep)
<1>1. CASE DeliverStatefulSet \/ \E r \in 0..MaxReplicas, n \in {None, spec.groupName} : Edit(r, n)
  BY <1>1 DEF DeliverStatefulSet, Edit, passVars, MembersInv, StatusInv, Members, Ready, Exists,
     OneStep
<1>2. ASSUME NEW p \in Pods, CreatePod(p) \/ BecomeReady(p)
      PROVE  MembersInv' /\ (dropped \/ StatusInv)' /\ OneStep
  <2>1. UNCHANGED <<groups, status, dropped, passVars>>
    BY <1>2 DEF CreatePod, BecomeReady
  <2>2. p \notin Ready /\ \A q \in Pods : q # p => pod'[q] = pod[q]
    BY <1>2 DEF CreatePod, BecomeReady, Ready, Exists, TypeOK
  <2>3. Ready \subseteq Ready'
    BY <2>2 DEF Ready, Exists
  <2> QED BY <2>1, <2>3 DEF passVars, MembersInv, StatusInv, Members, OneStep
<1>3. ASSUME NEW p \in Pods, DeletePod(p)
      PROVE  MembersInv' /\ (dropped \/ StatusInv)' /\ (dropped \/ OneStep)
  <2>1. UNCHANGED <<status, dropped, passVars>> /\ groups' = {S \ {p} : S \in groups} \ {{}}
    BY <1>3 DEF DeletePod
  <2>2. \A q \in Pods : q # p => pod'[q] = pod[q]
    BY <1>3 DEF DeletePod, TypeOK
  <2>3. Members' = Members \ {p}
    <3>1. ASSUME NEW q \in Members \ {p} PROVE q \in Members'
      <4>1. PICK S \in groups : q \in S
        BY <3>1 DEF Members
      <4>2. S \ {p} \in groups' /\ q \in S \ {p}
        BY <2>1, <3>1, <4>1
      <4> QED BY <4>2 DEF Members
    <3>2. ASSUME NEW q \in Members' PROVE q \in Members \ {p}
      <4>1. PICK T \in groups' : q \in T
        BY <3>2 DEF Members
      <4>2. PICK S \in groups : T = S \ {p}
        BY <2>1, <4>1
      <4> QED BY <4>1, <4>2 DEF Members
    <3> QED BY <3>1, <3>2
  <2>4. Ready \ {p} \subseteq Ready'
    BY <2>2 DEF Ready, Exists
  <2>5. MembersInv'
    BY <2>1, <2>3, <2>4 DEF passVars, MembersInv
  <2>6. StatusInv => StatusInv'
    BY <2>1 DEF passVars, StatusInv
  <2>7. StatusInv => OneStep
    <3> SUFFICES ASSUME StatusInv PROVE OneStep
        OBVIOUS
    <3>1. CASE groups = {}
      BY <2>1, <3>1 DEF OneStep
    <3>2. ASSUME NEW S \in groups PROVE OneStep
      <4>1. groups = {S} /\ S # {}
        BY <3>2 DEF StatusInv, MembersInv
      <4>2. groups' = {S \ {p}} \ {{}}
        BY <2>1, <4>1
      <4>3. CASE p \notin S
        <5>1. S \ {p} = S
          BY <4>3
        <5> QED BY <4>1, <4>2, <5>1 DEF OneStep
      <4>4. CASE S = {p}
        <5>1. S \ {p} = {}
          BY <4>4
        <5> QED BY <4>1, <4>2, <5>1 DEF OneStep, RG!Next, RG!End
      <4>5. CASE p \in S /\ S # {p}
        <5>1. S \ {p} # {}
          BY <4>5
        <5>2. groups' = (groups \ {S}) \cup {S \ {p}}
          BY <4>1, <4>2, <5>1
        <5> QED BY <4>5, <5>2 DEF OneStep, RG!Next, RG!Leave
      <4> QED BY <4>3, <4>4, <4>5
    <3> QED BY <3>1, <3>2
  <2> QED BY <2>1, <2>5, <2>6, <2>7
<1> QED
  BY <1>1, <1>2, <1>3 DEF PodsMove

\* However spec.replicas and the group name change while the operator works, the
\* group that there is is entered and left by one pod at a time and a new one is
\* formed only while there is none, unless failStatus has lost the record of a
\* bootstrap.
THEOREM ChangesKeepOneGroup == Spec => OneGroupUnlessDropped
<1>1. Init => MembersInv /\ (dropped \/ StatusInv)
  BY DEF Init, MembersInv, StatusInv, Members, Ready
<1>2. TypeOK /\ MembersInv /\ (dropped \/ StatusInv) /\ [Next]_vars =>
        MembersInv' /\ (dropped \/ StatusInv)' /\ (dropped \/ OneStep)
  <2> SUFFICES ASSUME TypeOK, MembersInv, dropped \/ StatusInv, [Next]_vars
               PROVE  MembersInv' /\ (dropped \/ StatusInv)' /\ (dropped \/ OneStep)
      OBVIOUS
  <2>1. CASE UNCHANGED vars
    BY <2>1 DEF vars, passVars, MembersInv, StatusInv, Members, Ready, Exists, OneStep
  <2>2. CASE Next
    BY <2>2, OneGroupPass, OneGroupCluster DEF Next
  <2> QED BY <2>1, <2>2
<1>3. TypeOK /\ MembersInv /\ (dropped \/ StatusInv) /\ [Next]_vars =>
        [dropped \/ RG!Next \/ groups' = groups]_vars
  BY <1>2 DEF OneStep
<1> QED
  BY <1>1, <1>2, <1>3, SpecChangesTyped, PTL DEF Spec, OneGroupUnlessDropped

============================================================================

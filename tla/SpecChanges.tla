---------------------------- MODULE SpecChanges ----------------------------
(***************************************************************************)
(* What a change of spec.replicas or of the group name does to a running   *)
(* cluster: the defaulting webhook (api/v1alpha1/mysql_webhook.go), the    *)
(* StatefulSet that Reconcile derives from the spec                        *)
(* (internal/controller/mysql_controller.go), the roll-out by the          *)
(* StatefulSet controller, and passes of reconcileGroupReplication over    *)
(* pods that come and go (internal/controller/group_replication.go).       *)
(*                                                                         *)
(* Here calls do not fail, the StatefulSet is written without a conflict,  *)
(* and only its cached copy lags behind: the MySQL object and the list     *)
(* of ready pods are current. Servers stop only because their pod is       *)
(* deleted, and leave their group in an orderly way. GRController has the  *)
(* rest. A turn of one of the two loops over the pods is one step, after   *)
(* the wait for mysqld. The two values the init container gets are the     *)
(* template: GR_REPLICAS and GR_GROUP_NAME. Generated names are numbers.   *)
(***************************************************************************)
EXTENDS Naturals, FiniteSets

CONSTANTS
  MaxReplicas,   \* bound of spec.replicas; the webhook's default (3 in the code)
  MaxEdits,      \* bound: changes of the spec after its creation
  None

ASSUME SCAssumption ==
  /\ MaxReplicas \in Nat \ {0} /\ MaxEdits \in Nat
  /\ None \notin 0..MaxReplicas

Pods == 0..(MaxReplicas - 1)

Specs == [replicas : 1..MaxReplicas, groupName : 1..(MaxEdits + 1)]

VARIABLES
  spec,       \* replicas and groupName of the MySQL object
  edits,
  sts,        \* the StatefulSet's replicas and template; None before the first pass
  seen,       \* replicas and readyReplicas of the cached StatefulSet
  lag,        \* an event of the StatefulSet is on its way to the cache
  pod,        \* pod[p]: the template it was made from and its readiness, or None
  groups,     \* the groups, each the set of its members
  status,     \* GroupReplicationBootstrapped and RestartCandidate
  queued,     \* the request is in the work queue
  pc,         \* "idle", "observe", "collect", "pods"
  mem,        \* mysql.Status of the running pass
  todo,       \* the pods the current loop has not reached
  listed,     \* the pods of the list
  anyOnline,  \* anyOnlineOverall
  infos,      \* the pods whose GTID sets were collected
  dropped     \* history: failStatus has lost what a bootstrap recorded

passVars == <<pc, mem, todo, listed, anyOnline, infos>>
vars == <<spec, edits, sts, seen, lag, pod, groups, status, queued, passVars, dropped>>

Statuses == [bootstrapped : BOOLEAN, candidate : Pods \cup {None}]

TypeOK ==
  /\ spec \in Specs /\ edits \in 0..MaxEdits
  /\ sts \in Specs \cup {None}
  /\ seen \in [replicas : 0..MaxReplicas, ready : 0..MaxReplicas]
  /\ pod \in [Pods -> [made : Specs, ready : BOOLEAN] \cup {None}]
  /\ groups \subseteq SUBSET Pods
  /\ status \in Statuses /\ mem \in Statuses
  /\ lag \in BOOLEAN /\ queued \in BOOLEAN /\ anyOnline \in BOOLEAN /\ dropped \in BOOLEAN
  /\ pc \in {"idle", "observe", "collect", "pods"}
  /\ todo \subseteq Pods /\ listed \subseteq Pods /\ infos \subseteq Pods

NewStatus == [bootstrapped |-> FALSE, candidate |-> None]

Init ==
  /\ spec \in [replicas : 1..MaxReplicas, groupName : {1}] /\ edits = 0
  /\ sts = None /\ seen = [replicas |-> 0, ready |-> 0] /\ lag = FALSE
  /\ pod = [p \in Pods |-> None]
  /\ groups = {}
  /\ status = NewStatus
  /\ queued = TRUE
  /\ pc = "idle" /\ mem = NewStatus
  /\ todo = {} /\ listed = {} /\ anyOnline = FALSE /\ infos = {}
  /\ dropped = FALSE

Exists == {p \in Pods : pod[p] # None}
Ready == {p \in Exists : pod[p].ready}
Members == UNION groups

---------------------------------------------------------------------------
(* The user and the webhook.                                               *)

\* Mutant of Default: replicas has no default.
DefaultNoReplicas(replicas, groupName) ==
  [replicas |-> replicas, groupName |-> IF groupName = None THEN edits + 2 ELSE groupName]

\* Default: replicas 0 means left out, and so does the group name None; a name
\* that is left out is generated anew, on every update.
Default(replicas, groupName) ==
  [replicas  |-> IF replicas = 0 THEN MaxReplicas ELSE replicas,
   groupName |-> IF groupName = None THEN edits + 2 ELSE groupName]

Edit(replicas, groupName) ==
  /\ edits < MaxEdits
  /\ spec' = Default(replicas, groupName)
  /\ spec' # spec
  /\ edits' = edits + 1
  /\ queued' = TRUE
  /\ UNCHANGED <<dropped, sts, seen, lag, pod, groups, status, passVars>>

---------------------------------------------------------------------------
(* The operator.                                                           *)

\* Mutant of Template: the group name is only set when the StatefulSet is made.
TemplateKeepsName ==
  [replicas |-> spec.replicas, groupName |-> IF sts = None THEN spec.groupName ELSE sts.groupName]

\* reconcileStatefulSet: replicas, and the environment of the init container.
Template == [replicas |-> spec.replicas, groupName |-> spec.groupName]

\* Reconcile up to the StatefulSet.
ReconcileStatefulSet ==
  /\ pc = "idle" /\ queued
  /\ queued' = FALSE
  /\ sts' = Template
  /\ lag' = (lag \/ sts' # sts)
  /\ mem' = status
  /\ pc' = "observe"
  /\ UNCHANGED <<dropped, spec, edits, seen, pod, groups, status, todo, listed, anyOnline, infos>>

EndPass ==
  /\ pc' = "idle" /\ mem' = NewStatus
  /\ todo' = {} /\ listed' = {} /\ anyOnline' = FALSE /\ infos' = {}

\* The StatefulSet is read back from the cache, which may show what it was
\* before the update; with all replicas ready the ready pods are listed.
ObserveStatefulSet ==
  /\ pc = "observe"
  /\ IF seen.replicas > 0 /\ seen.ready = seen.replicas
     THEN /\ pc' = "collect"
          /\ todo' = Ready /\ listed' = Ready
          /\ UNCHANGED <<mem, anyOnline, infos>>
     ELSE EndPass
  /\ UNCHANGED <<dropped, spec, edits, sts, seen, lag, pod, groups, status, queued>>

\* waitForMySQL returns.
Connects(p) == p \in Ready

CollectGroupInfo(p) ==
  /\ pc = "collect" /\ p \in todo /\ Connects(p)
  /\ todo' = todo \ {p}
  /\ IF p \in Members
     THEN anyOnline' = TRUE /\ UNCHANGED infos
     ELSE /\ infos' = IF mem.bootstrapped /\ mem.candidate = None
                      THEN infos \cup {p} ELSE infos
          /\ UNCHANGED anyOnline
  /\ UNCHANGED <<dropped, spec, edits, sts, seen, lag, pod, groups, status, queued, pc, mem, listed>>

NeedsCandidate ==
  mem.bootstrapped /\ ~anyOnline /\ mem.candidate = None /\ infos # {}

WriteStatus(s) ==
  /\ status' = s
  /\ queued' = (queued \/ s # status)

PickRestartCandidate ==
  /\ pc = "collect" /\ todo = {} /\ NeedsCandidate
  /\ \E c \in infos : WriteStatus([mem EXCEPT !.candidate = c])
  /\ EndPass
  /\ UNCHANGED <<dropped, spec, edits, sts, seen, lag, pod, groups>>

NoCandidateNeeded ==
  /\ pc = "collect" /\ todo = {} /\ ~NeedsCandidate
  /\ pc' = "pods" /\ todo' = listed
  /\ UNCHANGED <<dropped, spec, edits, sts, seen, lag, pod, groups, status, queued, mem, listed,
                 anyOnline, infos>>

\* The two cases of the switch for a pod outside any group, whose own view, the
\* one AnyOnlineMember looks at, is empty; forceBootstrap is not set.
ShouldBootstrap(p) ==
  \/ ~mem.bootstrapped /\ p = 0
  \/ mem.bootstrapped /\ mem.candidate = p

\* The groups p's seeds lead to.
Joinable(p) ==
  {S \in groups : \E q \in S : /\ q < pod[p].made.replicas
                               /\ pod[q].made.groupName = pod[p].made.groupName}

SkipMember(p) ==
  /\ pc = "pods" /\ p \in todo /\ Connects(p) /\ p \in Members
  /\ todo' = todo \ {p}
  /\ UNCHANGED <<dropped, spec, edits, sts, seen, lag, pod, groups, status, queued, pc, mem, listed,
                 anyOnline, infos>>

\* Mutant of Recorded: the candidate stays.
RecordedKeepsCandidate == [bootstrapped |-> TRUE, candidate |-> mem.candidate]

\* What the two bootstrapping cases put into the status.
Recorded == [bootstrapped |-> TRUE, candidate |-> None]

Bootstrap(p) ==
  /\ pc = "pods" /\ p \in todo /\ Connects(p) /\ p \notin Members
  /\ ShouldBootstrap(p)
  /\ groups' = groups \cup {{p}}
  /\ mem' = Recorded
  /\ todo' = todo \ {p}
  /\ UNCHANGED <<dropped, spec, edits, sts, seen, lag, pod, status, queued, pc, listed, anyOnline, infos>>

Join(p) ==
  /\ pc = "pods" /\ p \in todo /\ Connects(p) /\ p \notin Members
  /\ ~ShouldBootstrap(p)
  /\ \E S \in Joinable(p) : groups' = (groups \ {S}) \cup {S \cup {p}}
  /\ todo' = todo \ {p}
  /\ UNCHANGED <<dropped, spec, edits, sts, seen, lag, pod, status, queued, pc, mem, listed, anyOnline,
                 infos>>

\* START fails; failStatus stores what the pass has recorded, or conflicts with
\* the status the same pass has written before; the request is retried.
JoinFails(p) ==
  /\ pc = "pods" /\ p \in todo /\ Connects(p) /\ p \notin Members
  /\ ~ShouldBootstrap(p) /\ Joinable(p) = {}
  /\ status' \in {status, mem}
  /\ dropped' = (dropped \/ status' # mem)
  /\ queued' = TRUE
  /\ EndPass
  /\ UNCHANGED <<spec, edits, sts, seen, lag, pod, groups>>

FinishPods ==
  /\ pc = "pods" /\ todo = {}
  /\ WriteStatus(mem)
  /\ EndPass
  /\ UNCHANGED <<dropped, spec, edits, sts, seen, lag, pod, groups>>

\* A new version of the StatefulSet or of its status reaches the cache.
DeliverStatefulSet ==
  /\ lag
  /\ seen' = [replicas |-> sts.replicas, ready |-> Cardinality(Ready)]
  /\ lag' = FALSE /\ queued' = TRUE
  /\ UNCHANGED <<dropped, spec, edits, sts, pod, groups, status, passVars>>

---------------------------------------------------------------------------
(* The StatefulSet controller: one pod at a time, each waiting for those   *)
(* before it; removal before replacement, from the highest ordinal down.   *)
(* Ready means that mysqld answers, not that it is a member of a group.    *)

CreatePod(p) ==
  /\ sts # None /\ p < sts.replicas /\ pod[p] = None
  /\ \A q \in 0..(p - 1) : q \in Ready
  /\ pod' = [pod EXCEPT ![p] = [made |-> sts, ready |-> FALSE]]
  /\ lag' = TRUE
  /\ UNCHANGED <<dropped, spec, edits, sts, seen, groups, status, queued, passVars>>

BecomeReady(p) ==
  /\ p \in Exists \ Ready
  /\ pod' = [pod EXCEPT ![p] = [made |-> pod[p].made, ready |-> TRUE]]
  /\ lag' = TRUE
  /\ UNCHANGED <<dropped, spec, edits, sts, seen, groups, status, queued, passVars>>

DeletePod(p) ==
  /\ p \in Exists /\ sts # None
  /\ 0..(sts.replicas - 1) \subseteq Ready
  /\ \/ /\ p >= sts.replicas                          \* scaled down
        /\ \A q \in Exists : q <= p
        /\ p \in Ready \/ Exists \ {p} \subseteq Ready
     \/ /\ p < sts.replicas /\ pod[p].made # sts      \* made from an old template
        /\ Exists = 0..(sts.replicas - 1)
        /\ \A q \in Exists : q > p => pod[q].made = sts
  /\ pod' = [pod EXCEPT ![p] = None]
  /\ groups' = {S \ {p} : S \in groups} \ {{}}
  /\ lag' = TRUE
  /\ UNCHANGED <<dropped, spec, edits, sts, seen, status, queued, passVars>>

---------------------------------------------------------------------------
Pass ==
  \/ ReconcileStatefulSet \/ ObserveStatefulSet
  \/ \E p \in Pods : CollectGroupInfo(p) \/ SkipMember(p) \/ Bootstrap(p) \/ Join(p)
                       \/ JoinFails(p)
  \/ PickRestartCandidate \/ NoCandidateNeeded \/ FinishPods

PodsMove == \E p \in Pods : CreatePod(p) \/ BecomeReady(p) \/ DeletePod(p)

Next ==
  \/ Pass \/ DeliverStatefulSet \/ PodsMove
  \/ \E r \in 0..MaxReplicas, n \in {None, spec.groupName} : Edit(r, n)

\* The worker, the watches, the StatefulSet controller and the kubelets run.
\* Pods are listed in random order, so that a pod that cannot join does not
\* stay in front of one that can start for ever.
Fairness ==
  /\ WF_vars(Pass) /\ WF_vars(DeliverStatefulSet) /\ WF_vars(PodsMove)
  /\ SF_vars(\E p \in Pods : Bootstrap(p) \/ Join(p))

Spec == Init /\ [][Next]_vars /\ Fairness

---------------------------------------------------------------------------
RG == INSTANCE ReplicatedGroup

\* A change of the spec does not make a second group, also while pods with the
\* old and the new group name or seeds are up together, unless a failed pass
\* has lost what its bootstrap recorded.
OneGroupUnlessDropped == [][dropped \/ RG!Next \/ groups' = groups]_vars

Settled ==
  /\ groups = {0..(spec.replicas - 1)}
  /\ \A p \in Members : pod[p].made = spec

CandidateGone == status.candidate \notin Exists \cup {None}

WaitsForRemoved == pc \in {"collect", "pods"} /\ \E p \in todo : p >= sts.replicas /\ p \notin Exists

SplitByDrop == dropped /\ Cardinality(groups) > 1

\* A changed spec reaches the servers: when no further change comes, all pods
\* of the new spec end up in one group under its name.  The other outcomes are
\* just these three.  The restart candidate is a pod that scaling down removed,
\* and nobody chooses another.  The pass waits for the mysqld of a removed pod
\* (waitForMySQL), and with it the only worker of the operator.  Or a failed
\* pass has lost the record of its bootstrap and a later one made a second group.
SettlesOrStuck ==
  <>[]Settled \/ <>[]CandidateGone \/ <>[]WaitsForRemoved \/ <>[]SplitByDrop

---------------------------------------------------------------------------
\* gr_client.go on AnyOnlineMember, which decides between forming a group and
\* joining one: "Checks if any other pod is present in the group."
OtherPodsChecked == [][\A p \in Pods : Bootstrap(p) => Members = {}]_vars

============================================================================

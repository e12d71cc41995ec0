--------------------------- MODULE GRController ---------------------------
(***************************************************************************)
(* MySQLReconciler.Reconcile (internal/controller/mysql_controller.go) and *)
(* reconcileGroupReplication (internal/controller/group_replication.go)    *)
(* for one MySQL resource, with the status subresource, the informer       *)
(* caches and the work queue the reconciler runs on.  MySQLGroup gives the *)
(* servers it acts on.                                                     *)
(*                                                                         *)
(* One pass of Reconcile is a sequence of steps, one per call that leaves  *)
(* the process, except that the reads and writes of owned objects are one  *)
(* step and so is what a pod is asked before the switch of reconcilePods;  *)
(* `pc' says which call comes next and the variables after it are the      *)
(* locals of the Go functions.  The controller has one worker (the default *)
(* of SetupWithManager), so there is one pass at a time.                   *)
(*                                                                         *)
(* What may go wrong is chosen by the constant Faults:                     *)
(*   "stale"     informer caches lag behind the API server                 *)
(*   "api"       a read or a status write fails                            *)
(*   "resources" creating or updating an owned object fails                *)
(*   "sql"       a statement fails, or works and its answer is lost        *)
(*   "midpass"   mysqld may also stop in the middle of a pass              *)
(*   "kill"      mysqld may also stop without leaving its group            *)
(*   "crash"     the operator process restarts                             *)
(*   "edit"      somebody else updates the MySQL object                    *)
(*                                                                         *)
(* Abstractions: status.message is dropped, as are names, credentials and  *)
(* DSNs.  A resourceVersion is kept only as "still the current one or not" *)
(* (lag, outdated): the operator is the only writer of the status, and a   *)
(* write that changes nothing does not make a new version.  Which of the   *)
(* collected pods PickRestartCandidate returns is left open here (see      *)
(* RestartCandidate).                                                      *)
(***************************************************************************)
EXTENDS MySQLGroup

CONSTANTS
  ForceBootstrap,   \* spec.groupReplication.forceBootstrap
  Faults,
  None              \* the empty string of status.restartCandidate

AllFaults == {"stale", "api", "resources", "sql", "midpass", "kill", "crash", "edit"}

ASSUME ConstAssumption ==
  /\ ForceBootstrap \in BOOLEAN
  /\ Faults \subseteq AllFaults
  /\ None \notin Pods

Phases == {"", "Pending", "Ready", "Degraded"}

Steps == {"idle", "resources", "status", "list", "collect", "candidate",
          "pods", "bootOn", "bootStart", "bootOff", "join", "fail"}

Status == [phase : Phases,
           readyReplicas : 0..N,
           bootstrapped : BOOLEAN,
           candidate : Pods \cup {None}]

NewStatus == [phase |-> "", readyReplicas |-> 0, bootstrapped |-> FALSE, candidate |-> None]

VARIABLES
  \* Kubernetes
  api,          \* the status stored by the API server
  cache,        \* the status in the operator's informer cache
  lag,          \* the cached MySQL object is not the current version
  stsSeen,      \* cached StatefulSet.Status.ReadyReplicas
  podSeen,      \* cached pods that are Ready and have an IP
  queued,       \* the request is in the work queue
  \* Reconcile
  pc,           \* the call the running pass makes next
  mysql,        \* mysql.Status of the object the pass has read and edits
  outdated,     \* that object's resourceVersion is not the current one
  pods,         \* the pods loadSecretsAndPods listed
  todo,         \* those the current loop has not reached
  bootstrapped, \* the local variables of reconcileGroupReplication
  restartCandidate,
  anyOnline,    \* anyOnlineOverall
  infos,        \* the pods whose GTID sets were collected
  cur,          \* the pod reconcilePods works on
  statusDirty,
  booted        \* history: the pods bootstrapGroup has started in this pass

k8sVars  == <<api, cache, lag, stsSeen, podSeen>>
loopVars == <<pods, bootstrapped, restartCandidate, anyOnline, infos>>
passVars == <<pc, mysql, outdated, pods, todo, bootstrapped, restartCandidate,
              anyOnline, infos, cur, statusDirty, booted>>
vars == <<mysqlVars, k8sVars, queued, passVars>>

TypeOK ==
  /\ MySQLTypeOK
  /\ api \in Status /\ cache \in Status /\ mysql \in Status
  /\ lag \in BOOLEAN /\ queued \in BOOLEAN /\ outdated \in BOOLEAN
  /\ stsSeen \in 0..N
  /\ podSeen \subseteq Pods /\ pods \subseteq Pods /\ todo \subseteq Pods
  /\ infos \subseteq Pods /\ booted \subseteq Pods
  /\ pc \in Steps
  /\ bootstrapped \in BOOLEAN /\ anyOnline \in BOOLEAN /\ statusDirty \in BOOLEAN
  /\ restartCandidate \in Pods \cup {None}
  /\ cur \in Pods \cup {None}

Init ==
  /\ MySQLInit
  /\ api = NewStatus /\ cache = NewStatus /\ lag = FALSE
  /\ stsSeen = 0 /\ podSeen = {}
  /\ queued = TRUE
  /\ pc = "idle"
  /\ mysql = NewStatus /\ outdated = FALSE
  /\ pods = {} /\ todo = {} /\ infos = {} /\ booted = {}
  /\ bootstrapped = FALSE /\ restartCandidate = None
  /\ anyOnline = FALSE /\ cur = None /\ statusDirty = FALSE

---------------------------------------------------------------------------
(* Status writes.                                                          *)

\* The API server stores s.  A status that differs makes a new version, which
\* the watch brings to the cache at once or with a delay.
Store(s) ==
  /\ api' = s
  /\ IF "stale" \in Faults THEN lag' = (lag \/ s # api) /\ UNCHANGED cache
                           ELSE cache' = s /\ UNCHANGED lag

NoStore == UNCHANGED <<api, cache, lag>>

\* retry.RetryOnConflict around a Get of the latest object from the cache and
\* a Status().Update of the whole status: it works once the cache is current,
\* and gives up (the error is only logged) when the cache stays behind or the
\* API fails.
UpdateStatus(s) ==
  /\ \/ ~lag /\ Store(s)
     \/ (lag \/ "api" \in Faults) /\ NoStore
  /\ queued' = (queued \/ cache' # cache)

\* Reconcile returns: its locals are gone.
Return ==
  /\ pc' = "idle"
  /\ mysql' = NewStatus /\ outdated' = FALSE
  /\ pods' = {} /\ todo' = {} /\ infos' = {} /\ booted' = {}
  /\ bootstrapped' = FALSE /\ restartCandidate' = None
  /\ anyOnline' = FALSE /\ cur' = None /\ statusDirty' = FALSE

---------------------------------------------------------------------------
(* Reconcile up to the Group Replication part.                             *)

\* The worker takes the request and reads the object from the cache.
Reconcile ==
  /\ pc = "idle" /\ queued
  /\ queued' = FALSE
  /\ mysql' = cache /\ outdated' = lag
  /\ pc' = "resources"
  /\ UNCHANGED <<mysqlVars, k8sVars, loopVars, todo, cur, statusDirty, booted>>

\* Secrets, ConfigMap, Service and StatefulSet are reconciled, or one of them
\* fails (failStatus), or it conflicts or the ConfigMap is not in the cache
\* yet (RequeueAfter).
ReconcileResources ==
  /\ pc = "resources"
  /\ UNCHANGED <<mysqlVars, k8sVars>>
  /\ \/ /\ \/ pc' = "status"
           \/ "resources" \in Faults /\ pc' = "fail"
        /\ UNCHANGED <<queued, mysql, outdated, loopVars, todo, cur, statusDirty, booted>>
     \/ "resources" \in Faults /\ queued' = TRUE /\ Return

\* Mutants of Observed: a count that is one too high; a status built from
\* scratch instead of changed.
ObservedOffByOne(s, n) ==
  [phase |-> IF n = N THEN "Ready" ELSE "Pending", readyReplicas |-> n + 1,
   bootstrapped |-> s.bootstrapped, candidate |-> s.candidate]

ObservedFromScratch(s, n) ==
  [phase |-> IF n = N THEN "Ready" ELSE "Pending", readyReplicas |-> n,
   bootstrapped |-> FALSE, candidate |-> None]

\* What Reconcile records of a StatefulSet with n ready replicas.
Observed(s, n) ==
  [phase         |-> IF n = N THEN "Ready" ELSE "Pending",
   readyReplicas |-> n,
   bootstrapped  |-> s.bootstrapped,
   candidate     |-> s.candidate]

\* The StatefulSet is read, and phase and count are written.  A failing read
\* ends the pass without an error, as does a StatefulSet that the pass has just
\* created and that is not in the cache yet; Group Replication needs full
\* strength.
ObserveStatefulSet ==
  /\ pc = "status"
  /\ UNCHANGED <<mysqlVars, stsSeen, podSeen>>
  /\ \/ /\ stsSeen = N
        /\ UpdateStatus(Observed(mysql, stsSeen))
        /\ mysql' = Observed(mysql, stsSeen)
        /\ outdated' = (outdated \/ api' # api)
        /\ pc' = "list"
        /\ UNCHANGED <<loopVars, todo, cur, statusDirty, booted>>
     \/ stsSeen # N /\ UpdateStatus(Observed(mysql, stsSeen)) /\ Return
     \/ /\ "api" \in Faults \/ ("stale" \in Faults /\ stsSeen = 0)
        /\ NoStore /\ Return /\ UNCHANGED queued

---------------------------------------------------------------------------
(* reconcileGroupReplication: look at every pod, pick a restart candidate. *)

\* loadSecretsAndPods, and the copies of the two status fields.
LoadSecretsAndPods ==
  /\ pc = "list"
  /\ UNCHANGED <<mysqlVars, k8sVars, queued, mysql, outdated, anyOnline, infos,
                 cur, statusDirty, booted>>
  /\ \/ /\ pods' = podSeen /\ todo' = podSeen
        /\ bootstrapped' = mysql.bootstrapped
        /\ restartCandidate' = mysql.candidate
        /\ pc' = "collect"
     \/ /\ "api" \in Faults
        /\ pc' = "fail"
        /\ UNCHANGED <<pods, todo, bootstrapped, restartCandidate>>

\* newGRClient waits, without a limit, until mysqld answers (waitForMySQL).
Connects(p) == p \in up

\* inGroup: p's own row of replication_group_members.
SelfOnline(p) == gr[p] = "ONLINE"

\* One turn of the loop of collectGroupInfo.  The cache lists pods in no
\* order, so any remaining pod may be next.
CollectGroupInfo(p) ==
  /\ pc = "collect"
  /\ p \in todo /\ Connects(p)
  /\ todo' = todo \ {p}
  /\ IF SelfOnline(p)
     THEN anyOnline' = TRUE /\ UNCHANGED infos
     ELSE /\ UNCHANGED anyOnline
          /\ infos' = IF bootstrapped /\ restartCandidate = None
                      THEN infos \cup {p} ELSE infos
  /\ UNCHANGED <<mysqlVars, k8sVars, queued, pc, mysql, outdated, pods, bootstrapped,
                 restartCandidate, cur, statusDirty, booted>>

\* Mutant of NeedsCandidate: nobody asks whether some pod is ONLINE.
NeedsCandidateThoughOnline == bootstrapped /\ restartCandidate = None /\ infos # {}

NeedsCandidate == bootstrapped /\ ~anyOnline /\ restartCandidate = None /\ infos # {}

PickRestartCandidate ==
  /\ pc = "collect" /\ todo = {}
  /\ NeedsCandidate
  /\ \E c \in infos : mysql' = [mysql EXCEPT !.candidate = c]
  /\ pc' = "candidate"
  /\ UNCHANGED <<mysqlVars, k8sVars, queued, outdated, loopVars, todo, cur, statusDirty, booted>>

\* Mutants of WriteCandidate: a status with nothing but the candidate; a
\* candidate that stays in memory.
WriteCandidateOnly ==
  /\ pc = "candidate"
  /\ UpdateStatus([NewStatus EXCEPT !.candidate = mysql.candidate])
  /\ Return
  /\ UNCHANGED <<mysqlVars, stsSeen, podSeen>>

CandidateNotWritten ==
  /\ pc = "candidate"
  /\ NoStore /\ UNCHANGED queued
  /\ Return
  /\ UNCHANGED <<mysqlVars, stsSeen, podSeen>>

\* The candidate is written, or the failure is logged; the pass ends anyway.
WriteCandidate ==
  /\ pc = "candidate"
  /\ UpdateStatus(mysql)
  /\ Return
  /\ UNCHANGED <<mysqlVars, stsSeen, podSeen>>

NoCandidateNeeded ==
  /\ pc = "collect" /\ todo = {}
  /\ ~NeedsCandidate
  /\ todo' = pods
  /\ pc' = "pods"
  /\ UNCHANGED <<mysqlVars, k8sVars, queued, mysql, outdated, loopVars, cur, statusDirty, booted>>

---------------------------------------------------------------------------
(* reconcilePods: bootstrap or join every pod that is not ONLINE.          *)

\* AnyOnlineMember asks p's own performance_schema.
AnyOnlineMember(p) == Reachable(p) \cap Online # {}

\* Mutants of ShouldBootstrap: any pod takes the candidate's part; only the
\* first pod may form a group again.
ShouldBootstrapAny(p) ==
  \/ ~bootstrapped /\ ~AnyOnlineMember(p) /\ (ForceBootstrap \/ p = 0)
  \/ bootstrapped /\ restartCandidate # None /\ ~AnyOnlineMember(p)

ShouldBootstrapFirst(p) ==
  /\ ~AnyOnlineMember(p) /\ (ForceBootstrap \/ p = 0)
  /\ ~bootstrapped \/ restartCandidate = p

\* The two bootstrapping cases of the switch; every other pod joins.
ShouldBootstrap(p) ==
  \/ ~bootstrapped /\ ~AnyOnlineMember(p) /\ (ForceBootstrap \/ p = 0)
  \/ bootstrapped /\ restartCandidate = p /\ ~AnyOnlineMember(p)

\* One turn of the loop up to the switch: connect (waiting for mysqld),
\* SelfOnline, EnsureReplicationUser, AnyOnlineMember.
ReconcilePod(p) ==
  /\ pc = "pods"
  /\ p \in todo /\ Connects(p)
  /\ todo' = todo \ {p}
  /\ \/ /\ SelfOnline(p)
        /\ UNCHANGED <<replUser, cur, pc>>
     \/ /\ ~SelfOnline(p)
        /\ replUser' = replUser \cup {p}
        /\ cur' = p
        /\ pc' = IF ShouldBootstrap(p) THEN "bootOn" ELSE "join"
  /\ UNCHANGED <<up, gr, view, bootGroup, k8sVars, queued, mysql, outdated, loopVars,
                 statusDirty, booted>>

SetBootstrapGroup(on) ==
  /\ cur \in up
  /\ bootGroup' = [bootGroup EXCEPT ![cur] = on]
  /\ UNCHANGED <<up, gr, view, replUser>>

\* bootstrapGroup, first statement.
BootstrapOn ==
  /\ pc = "bootOn"
  /\ SetBootstrapGroup(TRUE)
  /\ \/ pc' = "bootStart"
     \/ "sql" \in Faults /\ pc' = "fail"
  /\ UNCHANGED <<k8sVars, queued, mysql, outdated, loopVars, todo, cur, statusDirty, booted>>

\* bootstrapGroup, second statement: START.  An error returns with the
\* variable still ON.
BootstrapStart ==
  /\ pc = "bootStart"
  /\ cur \in up
  /\ \/ /\ StartGroupReplication(cur)
        /\ booted' = booted \cup {cur}
        /\ \/ pc' = "bootOff"
           \/ "sql" \in Faults /\ pc' = "fail"
     \/ /\ gr[cur] # "OFFLINE" \/ ~CanStart(cur)
        /\ pc' = "fail"
        /\ UNCHANGED <<mysqlVars, booted>>
  /\ UNCHANGED <<k8sVars, queued, mysql, outdated, loopVars, todo, cur, statusDirty>>

\* Mutant of BootstrapOff: the restart candidate is not cleared.
BootstrapOffKeepsCandidate ==
  /\ pc = "bootOff"
  /\ SetBootstrapGroup(FALSE)
  /\ bootstrapped' = TRUE
  /\ mysql' = [mysql EXCEPT !.bootstrapped = TRUE]
  /\ statusDirty' = TRUE
  /\ pc' = "pods"
  /\ UNCHANGED <<k8sVars, queued, outdated, pods, todo, restartCandidate, anyOnline,
                 infos, cur, booted>>

\* bootstrapGroup, third statement, and what the case of the switch records;
\* nothing when the answer is lost.
BootstrapOff ==
  /\ pc = "bootOff"
  /\ SetBootstrapGroup(FALSE)
  /\ \/ /\ bootstrapped' = TRUE
        /\ mysql' = [phase         |-> mysql.phase,
                     readyReplicas |-> mysql.readyReplicas,
                     bootstrapped  |-> TRUE,
                     candidate     |-> None]
        /\ statusDirty' = TRUE
        /\ pc' = "pods"
     \/ /\ "sql" \in Faults
        /\ pc' = "fail"
        /\ UNCHANGED <<bootstrapped, mysql, statusDirty>>
  /\ UNCHANGED <<k8sVars, queued, outdated, pods, todo, restartCandidate, anyOnline,
                 infos, cur, booted>>

\* joinGroup: nothing to do for a member that is ONLINE or still joining.
JoinGroup ==
  /\ pc = "join"
  /\ cur \in up
  /\ \/ /\ gr[cur] # "OFFLINE"
        /\ pc' = "pods"
        /\ UNCHANGED mysqlVars
     \/ /\ StartGroupReplication(cur)
        /\ \/ pc' = "pods"
           \/ "sql" \in Faults /\ pc' = "fail"
     \/ /\ gr[cur] = "OFFLINE" /\ ~CanStart(cur)
        /\ pc' = "fail"
        /\ UNCHANGED mysqlVars
  /\ UNCHANGED <<k8sVars, queued, mysql, outdated, loopVars, todo, cur, statusDirty, booted>>

\* The loop is over: what a bootstrap recorded is written.
FinishPods ==
  /\ pc = "pods" /\ todo = {}
  /\ IF statusDirty THEN UpdateStatus(mysql) ELSE NoStore /\ UNCHANGED queued
  /\ Return
  /\ UNCHANGED <<mysqlVars, stsSeen, podSeen>>

\* A statement fails without effect: "sql", or its server has stopped since
\* the connection was made.  At the end of the first loop the statements are
\* those of PickRestartCandidate; in the second loop the user may have been
\* created before the failure.
SQLError ==
  /\ \/ /\ pc \in {"bootOn", "bootStart", "bootOff", "join"}
        /\ "sql" \in Faults \/ cur \notin up
        /\ UNCHANGED replUser
     \/ /\ pc = "collect"
        /\ \/ "sql" \in Faults /\ (todo # {} \/ NeedsCandidate)
           \/ ~(todo \subseteq up)
        /\ UNCHANGED replUser
     \/ /\ pc = "pods"
        /\ \E p \in todo : /\ "sql" \in Faults \/ p \notin up
                           /\ replUser' \in {replUser, replUser \cup ({p} \ Online)}
  /\ pc' = "fail"
  /\ UNCHANGED <<up, gr, view, bootGroup, k8sVars, queued, mysql, outdated, loopVars, todo,
                 cur, statusDirty, booted>>

\* failStatus: Status().Update of the object the pass read at its beginning,
\* the result ignored; the returned error puts the request back in the queue.
FailStatus ==
  /\ pc = "fail"
  /\ \/ ~outdated /\ Store([mysql EXCEPT !.phase = "Degraded"])
     \/ (outdated \/ "api" \in Faults) /\ NoStore
  /\ queued' = TRUE
  /\ Return
  /\ UNCHANGED <<mysqlVars, stsSeen, podSeen>>

---------------------------------------------------------------------------
(* The cluster around the operator.                                        *)

\* A pod's readiness changed: the StatefulSet status and the pod itself reach
\* the caches, and the StatefulSet event the queue, at once or with a delay.
ReadinessSeen ==
  IF "stale" \in Faults
  THEN UNCHANGED <<stsSeen, podSeen, queued>>
  ELSE stsSeen' = Cardinality(up') /\ podSeen' = up' /\ queued' = TRUE

PodUp(p) ==
  /\ MysqldStart(p)
  /\ ReadinessSeen
  /\ UNCHANGED <<api, cache, lag, passVars>>

PodDown(p) ==
  /\ pc = "idle" \/ "midpass" \in Faults
  /\ \/ MysqldStop(p, TRUE)
     \/ "kill" \in Faults /\ MysqldStop(p, FALSE)
  /\ ReadinessSeen
  /\ UNCHANGED <<api, cache, lag, passVars>>

MemberRecovers(p) ==
  /\ Recover(p)
  /\ UNCHANGED <<k8sVars, queued, passVars>>

\* The watches catch up.  The operator does not watch pods.
DeliverMySQL ==
  /\ lag
  /\ cache' = api /\ lag' = FALSE /\ queued' = TRUE
  /\ UNCHANGED <<mysqlVars, api, stsSeen, podSeen, passVars>>

DeliverStatefulSet ==
  /\ stsSeen # Cardinality(up)
  /\ stsSeen' = Cardinality(up) /\ queued' = TRUE
  /\ UNCHANGED <<mysqlVars, api, cache, lag, podSeen, passVars>>

DeliverPod(p) ==
  /\ p \in podSeen <=> p \notin up
  /\ podSeen' = IF p \in up THEN podSeen \cup {p} ELSE podSeen \ {p}
  /\ UNCHANGED <<mysqlVars, api, cache, lag, stsSeen, queued, passVars>>

\* Somebody updates the object (its spec or metadata; the status is left).
Edit ==
  /\ "edit" \in Faults
  /\ outdated' = (pc # "idle")
  /\ IF "stale" \in Faults THEN lag' = TRUE /\ UNCHANGED queued
                           ELSE queued' = TRUE /\ UNCHANGED lag
  /\ UNCHANGED <<mysqlVars, api, cache, stsSeen, podSeen, pc, mysql, pods, todo,
                 bootstrapped, restartCandidate, anyOnline, infos, cur, statusDirty, booted>>

\* The operator restarts: fresh caches, and every object is reconciled.
OperatorRestart ==
  /\ "crash" \in Faults
  /\ Return
  /\ cache' = api /\ lag' = FALSE
  /\ stsSeen' = Cardinality(up) /\ podSeen' = up
  /\ queued' = TRUE
  /\ UNCHANGED <<mysqlVars, api>>

---------------------------------------------------------------------------
Pass ==
  \/ Reconcile \/ ReconcileResources \/ ObserveStatefulSet
  \/ LoadSecretsAndPods
  \/ \E p \in Pods : CollectGroupInfo(p)
  \/ PickRestartCandidate \/ WriteCandidate \/ NoCandidateNeeded
  \/ \E p \in Pods : ReconcilePod(p)
  \/ BootstrapOn \/ BootstrapStart \/ BootstrapOff \/ JoinGroup
  \/ FinishPods \/ SQLError \/ FailStatus

Cluster ==
  \/ \E p \in Pods : PodUp(p) \/ PodDown(p) \/ MemberRecovers(p) \/ DeliverPod(p)
  \/ DeliverMySQL \/ DeliverStatefulSet \/ Edit \/ OperatorRestart

Next == Pass \/ Cluster

Spec == Init /\ [][Next]_vars

---------------------------------------------------------------------------
(* Safety.                                                                 *)

\* A restart candidate is only ever named for a group that was bootstrapped,
\* in the stored status, in the cache and in the object of the running pass:
\* otherwise one pass could both bootstrap and rebootstrap (the two cases of
\* the switch in reconcilePods read the two fields independently).
StatusCoherent ==
  \A s \in {api, cache, mysql} : s.candidate # None => s.bootstrapped

\* One pass of reconcilePods forms at most one group, in whatever order the
\* pods come and whatever fails on the way.
OneBootstrapPerPass == \A p, q \in booted : p = q

\* What the status remembers is not lost: GroupReplicationBootstrapped is
\* never taken back, and a RestartCandidate stays until that very pod has
\* formed the group again (mysql_controller.go and group_replication.go
\* overwrite the whole status from three places).
StatusKept ==
  [][/\ api.bootstrapped => api'.bootstrapped
     /\ api.candidate # None /\ api'.candidate # api.candidate
          => api'.candidate = None /\ api.candidate \in booted]_vars

\* A pod is told to form a group (START with bootstrap_group ON, sent by
\* bootstrapGroup) only while no other pod is a member of one.
BootstrapWhenNoneOnline ==
  pc \in {"bootOn", "bootStart"} => \A q \in Pods : gr[q] = "OFFLINE"

\* There is never more than one group that accepts writes.
NoSplitBrain ==
  \A p, q \in Donors : view[p] = view[q]

\* The groups that accept writes, as ReplicatedGroup sees them.
RG == INSTANCE ReplicatedGroup WITH groups <- {view[p] : p \in Donors}

\* The pods and the operator implement ReplicatedGroup: one group that accepts
\* writes, formed only while there is none, which pods enter (joinGroup and
\* recovery) and leave one at a time.
OneGroupImplemented == RG!Spec

\* When a pass ends after choosing a restart candidate, another one follows:
\* it is queued, or the watch event that queues it is on its way
\* (group_replication.go: "status update will trigger another reconcile").
CandidateTriggersReconcile ==
  [][pc = "candidate" /\ pc' = "idle" => queued' \/ lag']_vars

---------------------------------------------------------------------------
(* What a comment of the repository says, and the code does not do in      *)
(* every case.                                                             *)

\* gr_client.go on Join: "Make the pod join the group."  It does not form one.
JoinJoins ==
  [][pc = "join" /\ gr[cur] = "OFFLINE" => gr'[cur] # "ONLINE"]_vars

---------------------------------------------------------------------------
(* Liveness.                                                               *)

\* The worker runs, servers answer, recovery ends.  The cache lists the pods
\* in random order, so each pod is again and again the first of a loop: hence
\* strong fairness of the turns of reconcilePods.
Fairness ==
  /\ WF_vars(Reconcile) /\ WF_vars(ReconcileResources) /\ WF_vars(ObserveStatefulSet)
  /\ WF_vars(LoadSecretsAndPods)
  /\ WF_vars(PickRestartCandidate) /\ WF_vars(WriteCandidate) /\ WF_vars(NoCandidateNeeded)
  /\ WF_vars(BootstrapOn) /\ WF_vars(BootstrapStart) /\ WF_vars(BootstrapOff)
  /\ WF_vars(JoinGroup) /\ WF_vars(FinishPods) /\ WF_vars(FailStatus)
  /\ WF_vars(DeliverMySQL) /\ WF_vars(DeliverStatefulSet)
  /\ \A p \in Pods : /\ WF_vars(CollectGroupInfo(p))
                     /\ SF_vars(ReconcilePod(p))
                     /\ WF_vars(MemberRecovers(p))
                     /\ WF_vars(DeliverPod(p))

FairSpec == Spec /\ Fairness

Healthy == \A p \in Pods : gr[p] = "ONLINE" /\ view[p] = Pods

\* If from some point on no mysqld stops any more, all pods end up ONLINE in
\* one group, whatever happened before.  When servers have died without leaving
\* their group there is one other outcome: a survivor that is ONLINE in a group
\* without a quorum, which collectGroupInfo takes for a working group.
ConvergesOrQuorumLost ==
  <>[](up = Pods) => <>[]Healthy \/ <>[](Online # {} /\ Donors = {})

===========================================================================

# Yet Another MySQL Operator: TLA+ models and proofs

The operator reconciles `MySQL` custom resources: for each one it creates
Secrets, a ConfigMap, a headless Service and a StatefulSet, and turns the pods
into one MySQL Group Replication group. This directory models how it decides when a
group is formed, joined and formed again, what becomes of committed transactions and
of changes of the spec meanwhile, what options the servers run with, and how the operator
keeps the objects it owns. TLC checks the models, TLAPS proves their main safety properties.
Paths below are relative to the repository.

## The system

| Component | State | Operations | Talks to |
|---|---|---|---|
| MySQL reconciler, `internal/controller/mysql_controller.go` | `status` of the resource (phase, ready count, bootstrapped flag, restart candidate); locals of a pass | `Reconcile`, `failStatus`, `handleReconcileError`, `SetupWithManager` | API server through informer caches; work queue |
| Group Replication reconciler, `internal/controller/group_replication.go` | locals of a pass: listed pods, GTID infos, flags | `loadSecretsAndPods`, `collectGroupInfo`, candidate choice, `reconcilePods` | every pod's mysqld, status of the resource |
| Group Replication client, `internal/controller/mysql/groupreplication/gr_client.go` | none (one connection pool per call) | `SelfOnline`, `AnyOnlineMember`, `EnsureReplicationUser`, `Bootstrap`, `Join`, `GTIDSets`, `PickRestartCandidate` | one mysqld |
| Owned objects, `mysql_controller.go`, `secrets.go` | Secrets, ConfigMap, Service, StatefulSet | `CreateOrUpdate` of each | API server |
| my.cnf and config hash, `k8s/configmap`, `util` | none | `RenderMySQLConfig`, `HashConfigMapData` | ConfigMap and pod template |
| Init container, `cmd/init` | files in `conf.d` | server id, local address, seeds, Group Replication options | mysqld |
| Webhook, `api/v1alpha1/mysql_webhook.go` | spec of the resource | `Default` | API server |
| mysqld and the Group Replication plugin (external) | member state, view, `bootstrap_group`, users | `START GROUP_REPLICATION`, recovery, leaving, dying | the other members |

Components interact through three shared things only: objects in the API server
(which the operator reads from caches that may lag), the servers' SQL state, and
the work queue, which is fed by watches of the MySQL object and the owned objects
(pods are not watched) and by returned errors.

What is hard here: one pass makes many calls to different servers, each of which
can fail, lose its answer or become untrue before the next one; the only memory
between passes are two fields of the status, overwritten as a whole from three
places; and whether a group exists is decided from each pod's own view. What makes
the system correct: at most one group accepts writes; a group is formed only when
there is none; the status forgets neither that a group was formed nor who must form
it again; the pod that does so misses no transaction another one has; and after any
outage the pods come back into one group.

## The modules

| Module | Models |
|---|---|
| `MySQLGroup` | the servers and the plugin: who is up, member states, views, quorum, `bootstrap_group`, replication user. External: read off from the SQL `gr_client.go` sends and the options `cmd/init` writes |
| `GRController` | one `MySQL` resource: a pass of `Reconcile` and `reconcileGroupReplication` call by call, the status in the API server and in the cache, the cached StatefulSet and pods, the queue; the faults; all properties about them |
| `MCGRController` | the fault sets used by the runs |
| `ReplicatedGroup` | the abstract specification: one group that accepts writes, formed by one pod when there is none, entered and left by one pod at a time. `GRController` implements it with the views of the pods that accept writes as `groups` |
| `GroupData` | `GRController` composed with the choice of `RestartCandidate` and with transactions: committed, received and executed ones per server (external) |
| `SpecChanges` | the webhook, `spec.replicas` and the group name, the StatefulSet made from them, its roll-out, and passes over pods that come and go |
| `Settings` | `RenderMySQLConfig`, the init container, the order in which mysqld reads its files (external), `buildDSN` |
| `RestartCandidate` | `GTIDSets`, `superset`, `PickRestartCandidate` and the loop that feeds them |
| `ReplicationUser` | `ensureReplicationUser`, statement by statement over a connection pool |
| `OwnedObjects` | the first half of `Reconcile`: Secrets, ConfigMap, Service, StatefulSet against lagging caches, and the roll-out of a changed `mysqlConf` |
| `MCOwnedObjects` | the keys a user may have put into the Secrets, for the run of `OwnedObjects` |
| `MCSettings` | names, numerals and sets of keys for the runs of `Settings` |
| `GRControllerProofs` | proofs of type correctness, status coherence, one bootstrap per pass, that the status forgets nothing, and that a chosen candidate is followed up |
| `OneGroupProofs` | proofs that a group is formed only when there is none, that there is one group, and that `GRController` implements `ReplicatedGroup` |
| `GroupDataProofs` | proof that committed transactions are kept |
| `RestartCandidateProofs` | proofs that the candidate misses nothing, and that the order of the pods does not matter |
| `ReplicationUserProofs` | proofs that nothing is logged and that the user gets its privileges |
| `OwnedObjectsProofs` | proofs of type correctness, that secrets are never replaced, and that the hash of a pod tells its configuration |
| `SettingsProofs` | proofs about the options every server runs with |
| `SpecChangesProofs` | proofs of type correctness, and that a change of the spec makes no second group |

The modules meet as the functions do: a pass of `OwnedObjects` ends where
`GRController`'s `ObserveStatefulSet` begins (which sees it as `ReconcileResources`);
`GRController` leaves open which pod is picked, and `GroupData` puts
`RestartCandidate`'s operator there by INSTANCE; `ReplicationUser` is one step of
`GRController`. `SpecChanges` repeats the passes of `GRController` in larger steps, because
there the number of pods is a constant; `Settings` justifies what both assume of the
servers: that they find each other, and that none starts a group on its own.

### How GRController corresponds to the code

`pc` names the next step of the running pass; `idle` is no pass. A statement or write that
changes the servers or the status is an action of its own. Reads that belong together are
one action with what is computed from them, up to the next change: `ReconcilePod` is the wait for
mysqld, `SelfOnline`, `EnsureReplicationUser` and `AnyOnlineMember` of one pod, of which only the
third changes anything, and that is taken statement by statement in `ReplicationUser`.

| Action | Code |
|---|---|
| `Reconcile` | `Get` of the object from the cache |
| `ReconcileResources` | Secrets, ConfigMap, Service, StatefulSet: done, failed (`failStatus`) or requeued |
| `ObserveStatefulSet` | `Get` of the StatefulSet, phase and count, the first status write; ends the pass unless all replicas are ready |
| `LoadSecretsAndPods` | secrets, list of pods, local copies of the two status fields |
| `CollectGroupInfo(p)` | one turn of `collectGroupInfo` |
| `PickRestartCandidate`, `WriteCandidate`, `NoCandidateNeeded` | the branch that chooses and stores a candidate and ends the pass, or goes on |
| `ReconcilePod(p)` | one turn of `reconcilePods` up to its `switch` |
| `BootstrapOn`, `BootstrapStart`, `BootstrapOff` | the three statements of `bootstrapGroup`; the last with what the `switch` records |
| `JoinGroup` | `localStateDesc` and START of `joinGroup` |
| `FinishPods` | the final status write |
| `SQLError`, `FailStatus` | a statement fails; `failStatus` and the returned error |
| `PodUp`, `PodDown`, `MemberRecovers` | servers (external) |
| `DeliverMySQL`, `DeliverStatefulSet`, `DeliverPod` | watches catching up with the caches |
| `Edit`, `OperatorRestart` | another client changes the object; the operator restarts |

A status write is `UpdateStatus`: `RetryOnConflict` around a cached `Get` and an
update of the whole status. It works if the cache is current, is given up (logged)
if the cache stays behind or the API fails, and queues a new pass only through the
watch, and only if the status changed.

Abstractions. `status.message` and `currentReplicas`, names, credentials and DSNs are
dropped. A resourceVersion is kept as "current or not" (`lag` for the cached object,
`outdated` for the one the pass holds). Which collected pod becomes the candidate is
open in `GRController` and modelled in `RestartCandidate`. A group is identified by
its members' view; the plugin's ERROR state counts as OFFLINE; `START` with
`bootstrap_group` ON is ONLINE when it returns. `joinGroup`'s two ways of finding a
member that is still joining (state, error 3663) are one. A `START` while no group
accepts members fails. `ensureReplicationUser` is one step that works, fails without
effect or fails after creating the user, and an existing user is taken to be enough to join. The number of replicas does not change
(`SpecChanges` has that). The
periodic resync of the informers (ten hours) is left out, so the liveness runs show that events
and errors alone are enough.

### ReplicationUser and OwnedObjects

`ReplicationUser` has one client at a time (`pod`), the statement to be sent (`next`) and
the session variable SQL_LOG_BIN of the connection in use; `Execute` is one turn of the
loop, `UserExists` the query before it. Its faults are `sql` (a statement fails, with or without
effect), `reconnect` (the pool replaces a lost connection, whose session logs again) and `crash`
(the operator dies between two statements). Two history variables let the properties name the
cause: `cutShort` are the pods where a call ended while the user was there without privileges,
`replaced` those where a connection was replaced.

`OwnedObjects` has every object in the API server (`store`) and in the cache (`seen`);
`behind` are the objects whose cached version is old. `CreateOrUpdate(o)` is the call of
that name for one object: Create if the cache has none, refused if there is one; nothing
if the mutate function changes nothing; otherwise Update, refused if the version is old.
`Desired` are the mutate functions, `HashConfigMap` the read of the ConfigMap and its hash,
`Requeue` the early ends. `CallFails` is any other error of a call, at most `MaxFailures` times,
of a write that did nothing or of one that worked and lost its answer.
Caches always lag, and a watch event queues a pass. `Provided` and `Own` are the keys and values
a user may have put into a Secret beforehand. As in the code, both PEM files of a
key pair are generated together when one of them is missing, so a PEM that was given alone is
overwritten: only a complete pair (or a password) is kept. A Secret owned by another resource, other changes of the spec, and
the rest of the pod template are left out. Pods are those of the StatefulSet controller
(external): created from the template with the ConfigMap of that moment, replaced one at
a time when their hash is not the template's.

### GroupData, SpecChanges and Settings

`GroupData` adds to every server its executed and received GTID sets. A client commits on
any member that accepts writes, and some members have received the transaction by then; a
member applies what its group has agreed on; a majority that survives still delivers it,
and a member without a quorum gets nothing more. `PickWithGTIDs` is
`PickRestartCandidate` of `GRController` with the candidate that the code computes.
Behaviours end where the candidate lacks a committed transaction (`Loses`): what the
plugin does with the other pods then (it refuses their extra transactions) is not modelled.

`SpecChanges` has a spec (replicas, group name), the StatefulSet derived from it, what the
cache shows of it (`seen`, with `lag` while an event is under way), and for each pod the
template it was made from, which carries the seeds (GR_REPLICAS) and the group name. `Edit` is an
update through the webhook, in which replicas and name may be left out. One turn of
`collectGroupInfo` or `reconcilePods` is one step, guarded by the wait for mysqld. A Join works if
one of the pod's seeds is in a group of the same name; otherwise it fails the pass, and
`failStatus` stores what the pass has recorded or, on a conflict, drops it (`dropped`
remembers that). The StatefulSet controller (external) follows OrderedReady and
RollingUpdate. Calls do not fail otherwise, in particular the update of the StatefulSet never
conflicts, and servers leave their group in an orderly way. Only the cached StatefulSet lags: the
MySQL object and the list of ready pods are current. `GRController` has them lag too (fault `stale`),
for a fixed spec.

`Settings` takes a key of my.cnf as an option and one of its spellings, numbered in
the order in which `sort.Strings` puts them, and pod names as lists of the parts between
dashes. The names, the numerals and the sets of keys in `mysqlConf` are constants, which the proofs leave
open and `MCSettings` bounds. The default table is reduced to one option for each way its keys are spelled.
`InitFails` is an init container that dies between its two files.

### Faults

`Faults` selects what may go wrong: `stale` (caches lag; while the cached
StatefulSet has no ready pod it may also be missing altogether, which ends the pass without a word), `api` (reads and status
writes fail), `resources` (owned objects fail), `sql` (a statement fails, or works
and its answer is lost), `midpass` (servers also stop during a pass), `kill` (servers
also stop without leaving their group), `crash` (the operator restarts at any step),
`edit` (the object is edited at any time). The modules `GRController` and `GroupData` share them. Without any of them servers still start,
stop in an orderly way between passes, and recover.

## The runs

`N` is the number of pods; `ForceBootstrap` is FALSE except in `join`.

| Run | Instance | Checks and shows |
|---|---|---|
| `not_stale` | N = 3, everything but `stale` and `kill` | `TypeOK`; `StatusCoherent`: a candidate is only named once bootstrapped; `OneBootstrapPerPass`; `StatusKept`: the stored status never takes back the bootstrapped flag and drops a candidate only after it has formed the group |
| `stale_caches` | N = 2, `stale`, `resources`, `sql`, `edit`, `crash` | coherence and one bootstrap per pass also with lagging caches; `CandidateTriggersReconcile`: the pass that picks a candidate is followed by another |
| `one_group` (`GroupData`) | N = 3, one transaction, `kill`, `edit`, fair | `BootstrapWhenNoneOnline`, `NoSplitBrain`; `OneGroupImplemented`: the refinement of `ReplicatedGroup`; `CommittedKept`: the group has all committed transactions, and the candidate lacks one only when no pod was a superset of the others; `ConvergesOrLoses`: if servers stop stopping, all pods are ONLINE in one group for ever, or a survivor of a kill stays ONLINE in a group without quorum, or a committed transaction is lost. Orderly stops never lose the quorum, so without kills only the first outcome is left |
| `restart_candidate` | N = 3, two transactions | `CandidateHoldsAll`; `OrderIrrelevant` |
| `replication_user` | three pods, `sql`, `reconnect`, `crash` | `NoErrantTransaction`: no statement gets into the binary log of a pod whose connections were kept; `PrivilegesUnlessCutShort`: after a call that returned nil the user has its privileges, unless an earlier call on that pod ended, for whatever reason, after CREATE USER took effect and before GRANT did |
| `owned_objects` | one pod, three confs, two random values, the replication Secret absent or given, in part or whole, one call that fails or loses its answer, fair | `SecretsStable`: no pass replaces a stored password or complete key pair; `HashTellsConf`: a pod with the hash of the current conf runs it; `RollsOut`: the last change of `mysqlConf` reaches the pod; `TypeOK` |
| `settings` | up to three replicas, ports 3306 and 3307, names `db` and `db-1`, all `mysqlConf` of up to two keys | `IdentitiesAgree`: ids and addresses differ, all pods are in all seeds under the address the operator dials; `OperatorStartsGroups`: no spelling in `mysqlConf` makes a server start or form a group at boot; `OverridesTakeEffect`: an option that the init container does not own has the user's value exactly when one of the spellings given sorts no earlier than every default of it, and the default otherwise |
| `spec_changes` | up to three replicas, two changes, fair | `OneGroupUnlessDropped`: a changing spec makes no second group, unless a failed pass has lost the record of its bootstrap; `SettlesOrStuck`: all pods end up in one group under the last spec, or the candidate is a removed pod, or the worker waits for a removed pod, or there are two groups after a lost record. TLC reaches all four outcomes; `TypeOK` |
| `any_online_member` (`SpecChanges`) | as `spec_changes`; violated | finding 1 |
| `join` | N = 2, `sql`, `forceBootstrap`; violated | finding 2 |
| `replication_user_bare` | three pods, `sql`; violated | finding 3 |
| `port` (`Settings`) | one replica; violated | finding 4 |

Bounds. Apart from the constants only four things are bounded: the transactions of `GroupData`
(one is enough to be lost or kept; the choice between pods with incomparable sets
arises from which of them received it), `MaxEdits` of `SpecChanges` (two changes, so that
one comes during the roll-out of the other), `MaxFailures` of `OwnedObjects` (one, at any call)
and the keys of `mysqlConf` in `Settings` (two, one of which may be a second spelling of the
other). All variables range over finite sets, so the runs are exhaustive for their instance. Three pods are the default of the resource and the
smallest number where a majority, a minority, and a candidate with two others exist;
`stale_caches` has two because every cache is a further independent variable, and two
already give a pod that is believed absent beside one that acts. Two transactions give
incomparable, nested and equal GTID sets. Three confs give two
changes, one of which overtakes the roll-out of the other; two random values tell a
replaced secret from a kept one. What the small instances leave open in the safety
properties, the proofs cover.

Deadlock is checked in all runs of `GRController` and `GroupData` (a server can always start or
stop). `RestartCandidate` stops after its choice, `Settings` when all servers run, `owned_objects` and
`spec_changes` when the last change has reached the pods, so these turn the check off.

Fairness (`FairSpec`). Weak fairness of the steps of a pass: the worker runs and
servers that are up answer, as every call has a timeout. Weak fairness of watch
deliveries and of recovery. Strong fairness of `ReconcilePod(p)`: informer caches
return lists in the random order of a Go map, so every pod is again and again the
first of the loop; a Join that always comes before the bootstrap fails the pass, and
with a fixed bad order the first bootstrap would never be reached. No fairness for
faults or for servers starting and stopping in `GRController`; that all servers stay up from some point
on is the hypothesis of the properties. `OwnedObjects` and `SpecChanges` have weak fairness of
the pass, the deliveries and the StatefulSet controller, none of edits; `SpecChanges` has in
addition strong fairness of starting a pod in a group, for the same reason as `ReconcilePod`.

`owned_objects` needs a `mysqlConf` that does not go back: with `Revert = TRUE` TLC finds a pod that
started between the two changes with the middle my.cnf under the outer hash, and
keeps it.

### The limits of NoSplitBrain

`one_group` holds for `kill` and `edit`, and by the proof for `resources` as well (which the
run leaves out, as owned objects that fail for ever keep the pods from converging). Each of the other faults
alone (`stale`, `api`, `sql`, `midpass`, `crash`) breaks `BootstrapWhenNoneOnline`: the
existence of a group is remembered in the status only, and every one of them can
make the status differ from the servers. `OneBootstrapPerPass` holds under all faults, but counts
within one pass: a pass after a crash, a lost status write or a stale read may form a second group.

### Findings

1. `any_online_member`: `AnyOnlineMember` is commented "Checks if any other pod is present
   in the group." (`gr_client.go:61`) and asks the pod itself, which knows no members
   while it is OFFLINE. While a changed spec rolls out, a pass has the restart candidate form the group
   again, a Join after it fails (its pod has another group name), and `failStatus` conflicts with the
   status write of the same pass, so the stored status still names the candidate. The roll-out recreates
   the candidate's pod, and the next pass has it form a second group beside a member that is ONLINE.
2. `join`: a SET ON whose answer is lost, or a START that fails, ends `bootstrapGroup` with
   `bootstrap_group` ON, and a later "Make the pod join the group." (`gr_client.go:76`) forms a new
   one. In TLC's trace it is the lost answer.
3. `replication_user_bare`: "Ensures a replication user", with a link to the privileges
   it needs (`gr_client.go:147`): in TLC's trace CREATE USER takes effect and its answer is lost, so
   GRANT is never sent; the next call finds the user and returns nil. A GRANT that fails, and an
   operator that dies between the two, come to the same.
4. `port`: the sample has "port: 3306 # Optional: Change MySQL port"
   (`config/samples/database_v1alpha1_mysql.yaml:14`). The port reaches everything but mysqld: no
   line of my.cnf or conf.d sets it, so with another value every pass waits in `waitForMySQL`.

Further limits that TLC shows under the named fault or without the named clause, and that
have no run of their own:

- `midpass`: a restart candidate is rebootstrapped although another pod is ONLINE, as the check of
  all pods comes before the candidate is stored and is not repeated (the test at
  `group_replication_test.go:79` is titled "... when none are online").
- `api`: "status update will trigger another reconcile" (`group_replication.go:78`) does not
  hold when the update fails: the error is logged and the pass succeeds
  (`CandidateTriggersReconcile`).
- `stale`: a status from an old cache takes fields back (`StatusKept`).
- `README.md:9` promises overrides by `mysqlConf`; one spelled with dashes loses against a default
  with underscores (`binlog-expire-logs-seconds`), as does `innodb-redo-log-capacity` against
  the table's own `innodb-redo_log_capacity = 2`, which sorts after it, and
  `group_replication_recovery_use_ssl` against the table's `loose-group_replication_recovery_use_ssl`
  (`config_map.go:98`). `OverridesTakeEffect` says which spellings do win.
- `SettlesOrStuck` without any one of its last three clauses is violated.

Not put to a run, as nothing but one call or assignment is involved: `failStatus` ignores the
result of its update, which conflicts whenever the pass has already written the status, so
"setting a failed status" (`mysql_controller.go:386`) often has no effect; and `reconcileService`
is "enabling publish-not-ready" (`mysql_controller.go:164`) in its comment only.

## The proofs

Every safety property that a passing run checks is also a theorem. The theorems hold for every
`N > 0`, both values of `ForceBootstrap` and, unless said otherwise, every set of faults; they
assume only `NAssumption` and `ConstAssumption` (or `RCAssumption`, `RUAssumption`, `OOAssumption`,
`SCAssumption`, `SettingsAssumption`), which TLC evaluates on the runs. *Benign* faults are the
subsets of `{"kill", "edit", "resources"}`; see "The limits of NoSplitBrain" for why no other one
can be added.

The status and the group:

- `TypeCorrect`: `Spec => []TypeOK`. The count of ready pods stays within `N` by
  finiteness of the set of pods.
- `CandidateImpliesBootstrapped`, `AtMostOneBootstrap`. Neither is inductive. `PassInv`
  adds `BootInv`, which relates the pods started in this pass to the local variables:
  between START and the record of it the pass is in `bootOff` or fails, after it the local
  flag is set, and a pod that was started because it was the candidate is the only pod
  the second case of the `switch` can name. So no second pod can satisfy either case.
- `StatusIsKept`: `StatusKept` if `"stale" \notin Faults`. `KeptInv` says that the object
  of the running pass may be written at any moment without taking anything back, and
  that the locals copied from it agree with the stored status; this needs the cache to be
  the stored status, which is where `stale` breaks it.
- `CandidateIsFollowedUp`: `CandidateTriggersReconcile` if `"api" \notin Faults`. The write of the
  candidate queues a pass through the watch only if it changes something, so `TriggerInv` says
  that a pass works on the stored candidate, and picks one only when that is none, unless a request is
  queued already or the cache is behind and its delivery still to come.
- `BootstrapsAlone`, `OneGroup`: for benign faults. `Inv`
  adds `GroupInv` (all members have one view, a recovering one has a donor), `ReadInv` (what
  the pass has read is still true: all pods up, the locals equal to the stored status until
  a bootstrap) and `FormInv` (the stored status calls for forming a group only while no
  pod is in one; after a bootstrap of this pass there is a donor, so no Join and no write
  can fail before the status is stored). Without the last part the invariant is not
  preserved by the failure of a later pod, which is hazard `group_replication.go:247`.
- `Refinement`: `OneGroupImplemented`, for benign faults. `Inv` already says that all members have one
  view, so the mapped `groups` is that view or empty (`TheGroup`). A step of the specification
  is a step of at most one server (`StepsOfServers`), and START, the end of a recovery and a stop
  each map to a step of `ReplicatedGroup` or to a stutter. The stop is the hard case: if any donor is left,
  the stopped pod's group had a quorum, and all other members have dropped it (`Survivors`).

Transactions and the candidate:

- `NothingLost`: `CandidateHoldsAll`, for all GTID sets, orders and subsets. If some pod holds
  everything it passes the pairwise test, so the loop returns at a pod that passes it, and
  a pod that passes holds everything. `AnyOrder`: `OrderIrrelevant`; of two lists of the same pods
  both picks are supersets of each other, or neither list has a superset and both picks are the lowest
  ordinal.
- `NothingCommittedLost`: `CommittedKept`, for benign faults, every number of pods and every set of
  transactions. `DataSpec => Spec` (`DataOnTop`) brings in `Inv`. `DataInv` adds `HeldInv` (the members of a
  group that accepts writes have all committed transactions among them, and no transaction is
  gone from all servers), `FormerInv` (whoever the status or the pass calls upon to form the group
  has them all, and nothing is committed before the first group) and `PickedInv` (a choice is made among
  all pods, and one that has all is chosen if there is one). `FormInv` makes the parts meet: while the
  status calls for forming a group nobody can commit.

The other components:

- `NothingLogged`, by `SessionInv`: between the two SET statements the session does not log
  unless it was replaced. `PrivilegesGranted`, by `UserInv`: where no call was cut short a user
  without privileges exists only between CREATE and GRANT of a running call.
- `ObjectsTyped`. `SecretsAreStable`: by `CacheInv`, a cached object that is not behind is the stored one: what
  an accepted Update was made from is what it replaces, and keeps its password and its complete pair. `HashIsTrue`:
  `HashTellsConf` if `Revert = FALSE`. By `ChainInv` the configuration passes from the object through the cache, the
  ConfigMap, its cached copy and the hash of the pass to the template and the pod, and wherever the current
  one has arrived it has arrived at every stage before; by `UsedInv` the
  current one, when it was set, was nowhere in the system, so an older value further down cannot be
  mistaken for it.
- `ServersFindEachOther`, `GroupsAreTheOperators`, `OverridesCount`: the invariants of `Settings` for every number of
  replicas, name, port and `mysqlConf`, from the facts that numerals tell numbers apart and
  that a name is what precedes the last dash of its pods' names. `SettingsInv` says that a server runs with the files of a
  finished init container and the rendered my.cnf; for `OverridesCount`, the last line of an option that
  mysqld reads is the key that sorts last among the defaults and the user's, so it is the user's unless a default outranks it.
- `SpecChangesTyped`. `ChangesKeepOneGroup`: `OneGroupUnlessDropped`, for every number of replicas and changes. By
  `MembersInv` every member is a ready pod, and a pass that has seen no ONLINE pod has the members still
  before it; by `StatusInv` the status, stored or in the running pass, calls for forming a group only while
  there is none, as long as no record has been dropped.

The inductive invariants were checked with TLC before they were proved. Only
model-checked are the liveness properties (`ConvergesOrLoses`, `RollsOut`, `SettlesOrStuck`), as
fairness and ENABLED are out of the prover's reach, and the four violations.

## What is not modelled, and the plan

Modelled so far: the decision to form a group (`GRController` on `MySQLGroup`), the choice of the
candidate and what it does to transactions, the replication user, the owned objects, the options of
the servers, changes of the spec, and the abstract specification. The safety
properties are proved. Left to look at: which parts of `Inv` survive the faults that
are not benign (a pass that sees no ONLINE pod but is overtaken by one, for instance), so that the theorems about
them can say more than the counterexamples do; and the step lemmas of `SpecChanges` as a refinement
of the passes of `GRController`.

Not modelled: flags, certificates and metrics of `cmd/main.go`; a second
operator pod (leader election is on in the manifests and the chart);
several resources, which share the one worker but no state; changes of image, storage and probes
(a changed `storageSize` is refused by the API server, as volumeClaimTemplates are immutable);
expels, elections and conflicts inside Group Replication; generated deep copies, manifests and
the end-to-end test helpers.

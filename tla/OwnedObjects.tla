--------------------------- MODULE OwnedObjects ---------------------------
(***************************************************************************)
(* The first half of MySQLReconciler.Reconcile                             *)
(* (internal/controller/mysql_controller.go, internal/controller/secrets.go*)
(* and internal/controller/util/mysql_helpers.go): the two Secrets, the    *)
(* ConfigMap with my.cnf, the Service and the StatefulSet, each by a       *)
(* CreateOrUpdate that reads the informer cache and writes to the API      *)
(* server, and the roll-out of a changed configuration to the pods.        *)
(* GRController starts where this pass ends.                               *)
(*                                                                         *)
(* Contents are abstracted to what the passes tell apart: of a Secret its  *)
(* values, of the ConfigMap the conf its my.cnf was rendered from, of the  *)
(* StatefulSet the conf whose hash its template is annotated with (the     *)
(* hash is taken as injective).                                            *)
(*                                                                         *)
(* Caches always lag; up to MaxFailures calls fail or lose their answer;   *)
(* with Revert mysqlConf may go back to an earlier value.                  *)
(***************************************************************************)
EXTENDS Naturals, FiniteSets

CONSTANTS
  Pods,
  Confs,     \* values of spec.mysqlConf
  Random,    \* what passwords and keys may be; the keys of a pair are equal
  Provided,  \* Provided[o]: the sets of keys Secret o may have beforehand
  Own,       \* the values the user gives them
  MaxFailures,  \* bound: how many calls may fail
  Revert,
  None,      \* no such object
  NoKey      \* a key the Secret does not have

Secrets == {"root", "repl"}

KeyPair == {"private", "public"}

\* The keys of a Secret that the operator looks for.
Keys(o) == IF o = "root" THEN {"password"} ELSE {"password"} \cup KeyPair

\* The keys that are generated together with key k.
Unit(k) == IF k \in KeyPair THEN KeyPair ELSE {k}

ASSUME OOAssumption ==
  /\ MaxFailures \in Nat /\ Revert \in BOOLEAN
  /\ \A o \in Secrets : Provided[o] \subseteq SUBSET Keys(o)
  /\ Own \subseteq Random
  /\ NoKey \notin Random
  /\ None \notin Confs /\ \A o \in Secrets : None \notin [Keys(o) -> Random]

Objects == Secrets \cup {"config", "service", "sts"}

HeadlessService == "headless"

VARIABLES
  conf,      \* spec.mysqlConf in the API server
  used,      \* the values it has had
  confSeen,  \* the same in the cache
  store,     \* store[o]: object o in the API server
  seen,      \* seen[o]: the cached one
  behind,    \* objects whose cached version is not the current one
  queued,    \* the request is in the work queue
  pc,        \* the object the pass reconciles next; "idle", "hash"
  want,      \* mysql.Spec.MysqlConf of the running pass
  cfgHash,   \* its local cfgHash
  failures,  \* how many calls have failed
  pod        \* pod[p]: the running pod, or None

passVars == <<pc, want, cfgHash, failures>>
vars == <<conf, used, confSeen, store, seen, behind, queued, passVars, pod>>

PodStates == [hash : Confs, conf : Confs, ready : BOOLEAN]

TypeOK ==
  /\ conf \in Confs /\ confSeen \in Confs /\ used \subseteq Confs
  /\ \A s \in {store, seen} :
       /\ DOMAIN s = Objects
       /\ \A o \in Secrets : s[o] \in [Keys(o) -> Random \cup {NoKey}] \cup {None}
       /\ s["config"] \in Confs \cup {None}
       /\ s["service"] \in {None, HeadlessService}
       /\ s["sts"] \in Confs \cup {None}
  /\ behind \subseteq Objects
  /\ queued \in BOOLEAN /\ failures \in 0..MaxFailures
  /\ pc \in Objects \cup {"idle", "hash"}
  /\ want \in Confs \cup {None}
  /\ pc # "idle" => want # None
  /\ cfgHash \in Confs \cup {None}
  /\ pc \in {"service", "sts"} => cfgHash # None
  /\ pod \in [Pods -> PodStates \cup {None}]

Given(o) ==
  {None} \cup {s \in [Keys(o) -> Own \cup {NoKey}] : {k \in Keys(o) : s[k] # NoKey} \in Provided[o]}

\* A new MySQL resource; a Secret named in its spec may be there already, with
\* some of the keys.
Init ==
  /\ conf \in Confs /\ used = {conf} /\ confSeen = conf
  /\ \E root \in Given("root"), repl \in Given("repl") :
       store = [o \in Objects |-> IF o = "root" THEN root
                                 ELSE IF o = "repl" THEN repl ELSE None]
  /\ seen = store /\ behind = {}
  /\ queued = TRUE
  /\ pc = "idle" /\ want = None /\ cfgHash = None /\ failures = 0
  /\ pod = [p \in Pods |-> None]

---------------------------------------------------------------------------
(* The pass.                                                               *)

Reconcile ==
  /\ pc = "idle" /\ queued
  /\ queued' = FALSE
  /\ want' = confSeen /\ cfgHash' = None
  /\ pc' = "root"
  /\ UNCHANGED <<failures, conf, used, confSeen, store, seen, behind, pod>>

\* The pass ends early: a conflict, or a ConfigMap the cache does not show yet
\* (RequeueAfter), or an error, which is returned (failStatus).
Requeue ==
  /\ pc' = "idle" /\ queued' = TRUE
  /\ want' = None /\ cfgHash' = None
  /\ UNCHANGED failures

CallFails ==
  /\ failures < MaxFailures
  /\ failures' = failures + 1
  /\ pc' = "idle" /\ queued' = TRUE
  /\ want' = None /\ cfgHash' = None

Complete(secret, k) == secret # None /\ \A j \in Unit(k) : secret[j] # NoKey

\* reconcileRootSecret, reconcileReplicationSecret: a missing password is
\* generated, and a whole pair when one of its keys is missing.
Completions(o, old) ==
  {new \in [Keys(o) -> Random] :
     \A k \in Keys(o) : IF Complete(old, k) THEN new[k] = old[k]
                        ELSE \A j \in Unit(k) : new[j] = new[k]}

\* Mutant of Desired: the hash is only annotated when the StatefulSet is
\* created.
DesiredFirstHash(o, old) ==
  IF o \in Secrets THEN Completions(o, old)
  ELSE IF o = "service" THEN {HeadlessService}
  ELSE IF o = "config" THEN {want}
  ELSE IF old = None THEN {cfgHash} ELSE {old}

\* What the mutate functions make of the cached object (None if there is
\* none): Secrets keep the value they have, the rest is set.
Desired(o, old) ==
  IF o \in Secrets THEN Completions(o, old)
  ELSE IF o = "service" THEN {HeadlessService}
  ELSE IF o = "config" THEN {want} ELSE {cfgHash}

\* The API server fills in defaults that the mutate functions of Service and
\* StatefulSet remove again, so these are sent even when nothing changes.
Sent(o, new) == new # seen[o] \/ o \in {"service", "sts"}

Write(o, new) ==
  /\ store' = [store EXCEPT ![o] = new]
  /\ behind' = IF new = store[o] THEN behind ELSE behind \cup {o}

NoWrite == UNCHANGED <<store, behind>>

Following ==
  [root |-> "repl", repl |-> "config", config |-> "hash", service |-> "sts", sts |-> "idle"]

After(o) ==
  /\ pc' = Following[o]
  /\ want' = IF o = "sts" THEN None ELSE want
  /\ cfgHash' = IF o = "sts" THEN None ELSE cfgHash
  /\ UNCHANGED <<queued, failures>>

\* Mutant of CreateOrUpdate: the update does not carry the version it read.
CreateOrUpdateForced(o) ==
  /\ pc = o
  /\ \E new \in Desired(o, seen[o]) : Write(o, new) /\ After(o)
  /\ UNCHANGED <<conf, used, confSeen, seen, pod>>

\* The API server refuses to create what exists and to update what has changed
\* since it was read.
Accepted(o) == IF seen[o] = None THEN store[o] = None ELSE o \notin behind

\* controllerutil.CreateOrUpdate of object o: create what the cache does not
\* have, else update what differs.  A call may fail with or without effect.
CreateOrUpdate(o) ==
  /\ pc = o
  /\ \E new \in Desired(o, seen[o]) :
       \/ Sent(o, new) /\ Accepted(o) /\ Write(o, new) /\ (After(o) \/ CallFails)
       \/ Sent(o, new) /\ ~Accepted(o) /\ NoWrite /\ Requeue
       \/ ~Sent(o, new) /\ NoWrite /\ After(o)
       \/ NoWrite /\ CallFails
  /\ UNCHANGED <<conf, used, confSeen, seen, pod>>

\* Mutants of HashConfigMap: a ConfigMap that is not in the cache is hashed
\* too; the conf is hashed that the MySQL object has by now.
HashAnyConfigMap ==
  /\ pc = "hash"
  /\ cfgHash' = seen["config"] /\ pc' = "service"
  /\ UNCHANGED <<queued, want, failures>>
  /\ UNCHANGED <<conf, used, confSeen, store, seen, behind, pod>>

HashOfSpec ==
  /\ pc = "hash"
  /\ cfgHash' = confSeen /\ pc' = "service"
  /\ UNCHANGED <<queued, want, failures>>
  /\ UNCHANGED <<conf, used, confSeen, store, seen, behind, pod>>

\* The ConfigMap is read back from the cache and hashed.
HashConfigMap ==
  /\ pc = "hash"
  /\ \/ /\ seen["config"] # None
        /\ cfgHash' = seen["config"] /\ pc' = "service"
        /\ UNCHANGED <<queued, want, failures>>
     \/ seen["config"] = None /\ Requeue
     \/ CallFails
  /\ UNCHANGED <<conf, used, confSeen, store, seen, behind, pod>>

---------------------------------------------------------------------------
(* The cluster around the operator.                                        *)

EditConf(c) ==
  /\ c # conf
  /\ c \notin used \/ Revert
  /\ conf' = c /\ used' = used \cup {c}
  /\ UNCHANGED <<confSeen, store, seen, behind, queued, passVars, pod>>

\* Watches of the MySQL object and of what it owns; each event queues the owner.
DeliverMySQL ==
  /\ confSeen # conf
  /\ confSeen' = conf /\ queued' = TRUE
  /\ UNCHANGED <<conf, used, store, seen, behind, passVars, pod>>

Deliver(o) ==
  /\ o \in behind
  /\ seen' = [seen EXCEPT ![o] = store[o]]
  /\ behind' = behind \ {o}
  /\ queued' = TRUE
  /\ UNCHANGED <<conf, used, confSeen, store, passVars, pod>>

\* The StatefulSet controller creates a pod, whose containers wait for the
\* Secrets and the ConfigMap and read the ConfigMap as it is then.
StartPod(p) ==
  /\ pod[p] = None /\ store["sts"] # None
  /\ store["config"] # None /\ \A o \in Secrets : store[o] \in [Keys(o) -> Random]
  /\ pod' = [pod EXCEPT ![p] = [hash |-> store["sts"], conf |-> store["config"], ready |-> FALSE]]
  /\ UNCHANGED <<conf, used, confSeen, store, seen, behind, queued, passVars>>

\* The readiness probe succeeds; the StatefulSet's status queues its owner.
PodReady(p) ==
  /\ pod[p] # None /\ ~pod[p].ready
  /\ pod' = [pod EXCEPT ![p].ready = TRUE]
  /\ queued' = TRUE
  /\ UNCHANGED <<conf, used, confSeen, store, seen, behind, passVars>>

\* RollingUpdate: a pod of an old template is deleted while the others are ready.
RollPod(p) ==
  /\ pod[p] # None /\ pod[p].hash # store["sts"]
  /\ \A q \in Pods \ {p} : pod[q] # None /\ pod[q].ready
  /\ pod' = [pod EXCEPT ![p] = None]
  /\ queued' = TRUE
  /\ UNCHANGED <<conf, used, confSeen, store, seen, behind, passVars>>

Next ==
  \/ Reconcile \/ HashConfigMap \/ DeliverMySQL
  \/ \E o \in Objects : CreateOrUpdate(o) \/ Deliver(o)
  \/ \E c \in Confs : EditConf(c)
  \/ \E p \in Pods : StartPod(p) \/ PodReady(p) \/ RollPod(p)

Spec == Init /\ [][Next]_vars

---------------------------------------------------------------------------
\* A password or a complete key pair, generated or given, is never replaced: the
\* servers' volumes and users were made with it.  A pass that does not see the
\* Secret yet generates another one (secrets.go), which must not reach the API
\* server.  (One PEM file without the other is replaced.)
SecretsStable ==
  [][\A o \in Secrets : \A k \in Keys(o) :
        Complete(store[o], k) => Complete(store'[o], k) /\ store'[o][k] = store[o][k]]_vars

\* A pod whose template carries the hash of the current conf runs with that
\* conf: pods are replaced for their hash alone, so one that did not would
\* never be.  (Needs a mysqlConf that does not go back to an earlier value.)
HashTellsConf ==
  \A p \in Pods : pod[p] # None /\ pod[p].hash = conf => pod[p].conf = conf

Fairness ==
  /\ WF_vars(Reconcile) /\ WF_vars(HashConfigMap) /\ WF_vars(DeliverMySQL)
  /\ \A o \in Objects : WF_vars(CreateOrUpdate(o)) /\ WF_vars(Deliver(o))
  /\ \A p \in Pods : WF_vars(StartPod(p)) /\ WF_vars(PodReady(p)) /\ WF_vars(RollPod(p))

FairSpec == Spec /\ Fairness

\* A change of mysqlConf reaches every pod: when no further change comes, all
\* pods end up running with it, although the hash is computed from a cached
\* ConfigMap that may be the old one.
RollsOut ==
  <>[][conf' = conf]_conf =>
    <>[](\A p \in Pods : pod[p] # None /\ pod[p].conf = conf /\ pod[p].ready)

===========================================================================

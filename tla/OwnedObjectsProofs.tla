------------------------ MODULE OwnedObjectsProofs ------------------------
(***************************************************************************)
(* Generated secrets survive every stale cache and every failing call, and *)
(* a pod is never annotated with the hash of a conf it does not run with,  *)
(* for all pods, confs and values.                                         *)
(***************************************************************************)
EXTENDS OwnedObjects, TLAPS

USE OOAssumption

\* A cached object that is not behind is the stored one.
CacheInv ==
  /\ DOMAIN store = Objects /\ DOMAIN seen = Objects
  /\ \A o \in Objects \ behind : seen[o] = store[o]

\* What a step may not do to the Secrets.
KeepsSecrets ==
  \A o \in Secrets : \A k \in Keys(o) :
    Complete(store[o], k) => Complete(store'[o], k) /\ store'[o][k] = store[o][k]

\* A stored object only changes by a Create of what is not there, or by an
\* Update of what the cache shows as it is.
LEMMA WriteStep ==
  ASSUME CacheInv, NEW o \in Objects, CreateOrUpdate(o)
  PROVE  CacheInv' /\ KeepsSecrets
<1> Secrets \subseteq Objects
  BY DEF Objects
<1>1. PICK new \in Desired(o, seen[o]) :
        \/ NoWrite
        \/ /\ Write(o, new)
           /\ store[o] = None \/ o \notin behind
  BY DEF CreateOrUpdate, Accepted
<1>2. seen' = seen
  BY DEF CreateOrUpdate
<1>3. CASE NoWrite
  BY <1>2, <1>3 DEF NoWrite, CacheInv, KeepsSecrets
<1>4. CASE Write(o, new) /\ (store[o] = None \/ o \notin behind)
  <2>1. DOMAIN store' = Objects /\ store'[o] = new
        /\ \A x \in Objects : x # o => store'[x] = store[x]
    BY <1>4 DEF Write, CacheInv
  <2>2. CacheInv'
    BY <1>2, <1>4, <2>1 DEF Write, CacheInv
  <2>3. ASSUME o \in Secrets, NEW k \in Keys(o), Complete(store[o], k)
        PROVE  Complete(new, k) /\ new[k] = store[o][k]
    <3>1. o \notin behind /\ seen[o] = store[o]
      BY <1>4, <2>3 DEF CacheInv, Complete
    <3>2. new \in Completions(o, store[o])
      BY <1>1, <2>3, <3>1 DEF Desired
    <3>3. new \in [Keys(o) -> Random] /\ new[k] = store[o][k]
      BY <2>3, <3>2 DEF Completions
    <3>4. Complete(new, k)
      <4>1. Unit(k) \subseteq Keys(o)
        BY <2>3 DEF Unit, Keys, KeyPair
      <4> QED BY <2>3, <3>3, <4>1 DEF Complete
    <3> QED
      BY <3>3, <3>4
  <2> QED
    BY <2>1, <2>2, <2>3 DEF KeepsSecrets
<1> QED
  BY <1>1, <1>3, <1>4

\* A password or complete key pair that is stored is never replaced, however far
\* the caches lag, whatever calls fail, with or without effect, and however
\* mysqlConf is edited.
THEOREM SecretsAreStable == Spec => SecretsStable
<1>1. Init => CacheInv
  BY DEF Init, CacheInv
<1>2. CacheInv /\ [Next]_vars =>
        CacheInv' /\ KeepsSecrets
  <2> SUFFICES ASSUME CacheInv, [Next]_vars
               PROVE  CacheInv' /\ KeepsSecrets
    OBVIOUS
  <2>1. ASSUME NEW o \in Objects, CreateOrUpdate(o)
        PROVE  CacheInv' /\ KeepsSecrets
    BY <2>1, WriteStep
  <2>2. ASSUME NEW o \in Objects, Deliver(o) PROVE CacheInv' /\ store' = store
    BY <2>2 DEF Deliver, CacheInv
  <2>3. CASE Reconcile \/ HashConfigMap \/ DeliverMySQL
    BY <2>3 DEF Reconcile, HashConfigMap, DeliverMySQL, CacheInv, KeepsSecrets
  <2>4. ASSUME NEW c \in Confs, EditConf(c) PROVE CacheInv' /\ store' = store
    BY <2>4 DEF EditConf, CacheInv
  <2>5. ASSUME NEW p \in Pods, StartPod(p) \/ PodReady(p) \/ RollPod(p)
        PROVE  CacheInv' /\ store' = store
    BY <2>5 DEF StartPod, PodReady, RollPod, CacheInv
  <2>6. CASE UNCHANGED vars
    BY <2>6 DEF vars, CacheInv, KeepsSecrets
  <2> QED
    BY <2>1, <2>2, <2>3, <2>4, <2>5, <2>6 DEF Next, KeepsSecrets
<1>3. CacheInv /\ [Next]_vars => CacheInv'
  BY <1>2
<1>4. CacheInv /\ [Next]_vars =>
        [\A o \in Secrets : \A k \in Keys(o) :
           Complete(store[o], k) =>
             Complete(store'[o], k) /\ store'[o][k] = store[o][k]]_vars
  BY <1>2 DEF KeepsSecrets
<1> QED
  BY <1>1, <1>3, <1>4, PTL DEF Spec, SecretsStable


---------------------------------------------------------------------------
(* Type correctness.                                                       *)

\* What a CreateOrUpdate may put into the API server.
Storable(o) ==
  IF o \in Secrets THEN [Keys(o) -> Random \cup {NoKey}]
  ELSE IF o = "service" THEN {HeadlessService} ELSE Confs

StoreType(s) == DOMAIN s = Objects /\ \A o \in Objects : s[o] \in Storable(o) \cup {None}

\* The type invariant of the store and the cache, object by object.
LEMMA StoreTypes ==
  ASSUME NEW s, DOMAIN s = Objects
  PROVE  StoreType(s) <=> /\ \A o \in Secrets : s[o] \in [Keys(o) -> Random \cup {NoKey}] \cup {None}
                          /\ s["config"] \in Confs \cup {None}
                          /\ s["service"] \in {None, HeadlessService}
                          /\ s["sts"] \in Confs \cup {None}
BY DEF StoreType, Storable, Objects, Secrets

\* The mutate functions make what may be stored.
LEMMA DesiredType ==
  ASSUME TypeOK, NEW o \in Objects, pc = o, NEW new \in Desired(o, seen[o])
  PROVE  new \in Storable(o)
<1>1. CASE o \in Secrets
  BY <1>1 DEF Desired, Completions, Storable
<1>2. CASE o = "service"
  BY <1>2 DEF Desired, Storable, Secrets
<1>3. CASE o = "config"
  BY <1>3 DEF Desired, Storable, Secrets, TypeOK
<1>4. CASE o = "sts"
  BY <1>4 DEF Desired, Storable, Secrets, TypeOK
<1> QED
  BY <1>1, <1>2, <1>3, <1>4 DEF Objects

\* TypeOK in two parts.
PassType ==
  /\ queued \in BOOLEAN /\ failures \in 0..MaxFailures
  /\ pc \in Objects \cup {"idle", "hash"}
  /\ want \in Confs \cup {None}
  /\ pc # "idle" => want # None
  /\ cfgHash \in Confs \cup {None}
  /\ pc \in {"service", "sts"} => cfgHash # None

ObjectType ==
  /\ conf \in Confs /\ confSeen \in Confs /\ used \subseteq Confs
  /\ StoreType(store) /\ StoreType(seen)
  /\ behind \subseteq Objects
  /\ pod \in [Pods -> PodStates \cup {None}]

\* The two parts of TypeOK: what a pass holds and what the objects hold.
LEMMA TypeParts == TypeOK <=> PassType /\ ObjectType
<1>1. ASSUME NEW s
      PROVE  StoreType(s) <=> /\ DOMAIN s = Objects
                              /\ \A o \in Secrets : s[o] \in [Keys(o) -> Random \cup {NoKey}] \cup {None}
                              /\ s["config"] \in Confs \cup {None}
                              /\ s["service"] \in {None, HeadlessService}
                              /\ s["sts"] \in Confs \cup {None}
  BY StoreTypes DEF StoreType
<1> QED
  BY <1>1 DEF TypeOK, PassType, ObjectType

\* An early end of the pass.
LEMMA EndTyped ==
  ASSUME PassType, Requeue \/ CallFails
  PROVE  PassType'
<1>1. failures' \in 0..MaxFailures
  BY DEF PassType, Requeue, CallFails
<1>2. queued' \in BOOLEAN
  BY DEF Requeue, CallFails
<1>3. pc' = "idle" /\ want' = None /\ cfgHash' = None
  BY DEF Requeue, CallFails
<1> QED
  BY <1>1, <1>2, <1>3 DEF PassType

\* Every step keeps the types of the pass: one step below per action.
LEMMA PassTypeStep ==
  ASSUME TypeOK, [Next]_vars
  PROVE  PassType'
<1>0. PassType /\ ObjectType
  BY TypeParts
<1>1. CASE Reconcile
  BY <1>0, <1>1 DEF Reconcile, PassType, ObjectType, Objects, Secrets
<1>2. ASSUME NEW o \in Objects, CreateOrUpdate(o) PROVE PassType'
  <2>1. pc = o /\ (After(o) \/ Requeue \/ CallFails)
    BY <1>2 DEF CreateOrUpdate
  <2>2. CASE Requeue \/ CallFails
    BY <1>0, <2>2, EndTyped
  <2>3. CASE After(o)
    BY <1>0, <2>1, <2>3 DEF After, Following, PassType, Objects, Secrets
  <2> QED BY <2>1, <2>2, <2>3
<1>3. CASE HashConfigMap
  <2>1. seen["config"] \in Confs \cup {None}
    BY DEF TypeOK
  <2>2. CASE seen["config"] # None /\ cfgHash' = seen["config"] /\ pc' = "service"
             /\ UNCHANGED <<queued, want, failures>>
    BY <1>0, <1>3, <2>1, <2>2 DEF HashConfigMap, PassType, Objects
  <2>3. CASE Requeue \/ CallFails
    BY <1>0, <2>3, EndTyped
  <2> QED BY <1>3, <2>2, <2>3 DEF HashConfigMap
<1>4. CASE DeliverMySQL \/ \E o \in Objects : Deliver(o)
  BY <1>0, <1>4 DEF DeliverMySQL, Deliver, PassType, passVars
<1>5. CASE \E c \in Confs : EditConf(c)
  BY <1>0, <1>5 DEF EditConf, PassType, passVars
<1>6. CASE \E p \in Pods : StartPod(p) \/ PodReady(p) \/ RollPod(p)
  BY <1>0, <1>6 DEF StartPod, PodReady, RollPod, PassType, passVars
<1>7. CASE UNCHANGED vars
  BY <1>0, <1>7 DEF vars, PassType, passVars
<1> QED
  BY <1>1, <1>2, <1>3, <1>4, <1>5, <1>6, <1>7 DEF Next

\* Every step keeps the types of the objects: one step below per action.
LEMMA ObjectTypeStep ==
  ASSUME TypeOK, [Next]_vars
  PROVE  ObjectType'
<1>0. PassType /\ ObjectType
  BY TypeParts
<1>1. CASE Reconcile \/ HashConfigMap
  BY <1>0, <1>1 DEF Reconcile, HashConfigMap, ObjectType, StoreType
<1>2. ASSUME NEW o \in Objects, CreateOrUpdate(o) PROVE ObjectType'
  <2>1. PICK new \in Desired(o, seen[o]) : NoWrite \/ Write(o, new)
    BY <1>2 DEF CreateOrUpdate
  <2>2. new \in Storable(o)
    BY <1>2, <2>1, DesiredType DEF CreateOrUpdate
  <2>3. UNCHANGED <<conf, used, confSeen, seen, pod>>
    BY <1>2 DEF CreateOrUpdate
  <2>4. CASE NoWrite
    BY <1>0, <2>3, <2>4 DEF NoWrite, ObjectType, StoreType
  <2>5. CASE Write(o, new)
    BY <1>0, <2>2, <2>3, <2>5 DEF Write, ObjectType, StoreType
  <2> QED BY <2>1, <2>4, <2>5
<1>3. CASE DeliverMySQL
  BY <1>0, <1>3 DEF DeliverMySQL, ObjectType, StoreType
<1>4. ASSUME NEW o \in Objects, Deliver(o) PROVE ObjectType'
  BY <1>0, <1>4 DEF Deliver, ObjectType, StoreType
<1>5. ASSUME NEW c \in Confs, EditConf(c) PROVE ObjectType'
  BY <1>0, <1>5 DEF EditConf, ObjectType, StoreType
<1>6. ASSUME NEW p \in Pods, StartPod(p) \/ PodReady(p) \/ RollPod(p) PROVE ObjectType'
  <2>1. pod' \in [Pods -> PodStates \cup {None}]
    <3>1. CASE StartPod(p)
      BY <3>1 DEF StartPod, TypeOK, PodStates
    <3>2. CASE PodReady(p)
      BY <3>2 DEF PodReady, TypeOK, PodStates
    <3>3. CASE RollPod(p)
      BY <3>3 DEF RollPod, TypeOK
    <3> QED BY <1>6, <3>1, <3>2, <3>3
  <2>2. UNCHANGED <<conf, used, confSeen, store, seen, behind>>
    BY <1>6 DEF StartPod, PodReady, RollPod
  <2> QED BY <1>0, <2>1, <2>2 DEF ObjectType, StoreType
<1>7. CASE UNCHANGED vars
  BY <1>0, <1>7 DEF vars, ObjectType, StoreType
<1> QED
  BY <1>1, <1>2, <1>3, <1>4, <1>5, <1>6, <1>7 DEF Next

\* Every variable keeps its type; in particular no object is ever written from
\* a conf or a hash that the pass does not have.
THEOREM ObjectsTyped == Spec => []TypeOK
<1>1. Init => TypeOK
  <2> SUFFICES ASSUME Init PROVE TypeOK
      OBVIOUS
  <2>1. PICK root \in Given("root"), repl \in Given("repl") :
          store = [o \in Objects |-> IF o = "root" THEN root
                                     ELSE IF o = "repl" THEN repl ELSE None]
    BY DEF Init
  <2>2. StoreType(store)
    BY <2>1 DEF StoreType, Storable, Given, Objects, Secrets
  <2>3. ObjectType
    BY <2>2 DEF Init, ObjectType, StoreType
  <2>4. PassType
    BY DEF Init, PassType
  <2> QED BY <2>3, <2>4, TypeParts
<1>2. TypeOK /\ [Next]_vars => TypeOK'
  <2> SUFFICES ASSUME TypeOK, [Next]_vars PROVE TypeOK'
      OBVIOUS
  <2>1. PassType' /\ ObjectType'
    BY PassTypeStep, ObjectTypeStep
  <2>2. (PassType /\ ObjectType => TypeOK)'
    BY TypeParts, PTL
  <2> QED BY <2>1, <2>2
<1> QED
  BY <1>1, <1>2, PTL DEF Spec


---------------------------------------------------------------------------
(* The hash on a pod tells the conf it runs with.                          *)

\* Every conf in the system is one that the MySQL object has had.
UsedInv ==
  /\ conf \in used
  /\ \A c \in {confSeen, want, cfgHash, store["config"], seen["config"], store["sts"]} :
       c \in used \cup {None}
  /\ \A p \in Pods : pod[p] # None => pod[p].hash \in used

\* The current conf reaches the cache, the pass, the ConfigMap, its cached copy,
\* the hash and the StatefulSet in this order, and does not leave again what it
\* has reached.
ChainInv ==
  /\ want = conf => confSeen = conf
  /\ store["config"] = conf => confSeen = conf /\ want \in {conf, None}
  /\ seen["config"] = conf => store["config"] = conf
  /\ cfgHash = conf => store["config"] = conf
  /\ store["sts"] = conf => store["config"] = conf
  /\ HashTellsConf

\* The steps of the pass: one step below per action.
LEMMA ChainPass ==
  ASSUME TypeOK, UsedInv, ChainInv,
         Reconcile \/ HashConfigMap \/ \E o \in Objects : CreateOrUpdate(o)
  PROVE  UsedInv' /\ ChainInv'
<1>0. /\ conf # None
      /\ {"root", "repl", "config", "service", "sts"} = Objects
  BY DEF TypeOK, Objects, Secrets
<1>1. CASE Reconcile
  <2>1. want' = confSeen /\ cfgHash' = None
        /\ UNCHANGED <<conf, used, confSeen, store, seen, pod>>
    BY <1>1 DEF Reconcile
  <2>2. UsedInv'
    BY <2>1 DEF UsedInv
  <2>3. ChainInv'
    BY <1>0, <2>1 DEF ChainInv, HashTellsConf
  <2> QED BY <2>2, <2>3
<1>2. CASE HashConfigMap
  <2>1. /\ UNCHANGED <<conf, used, confSeen, store, seen, pod>>
        /\ \/ want' = want /\ cfgHash' = seen["config"]
           \/ want' = None /\ cfgHash' = None
    BY <1>2 DEF HashConfigMap, Requeue, CallFails
  <2>2. UsedInv'
    BY <2>1 DEF UsedInv
  <2>3. ChainInv'
    BY <1>0, <2>1 DEF ChainInv, HashTellsConf
  <2> QED BY <2>2, <2>3
<1>3. ASSUME NEW o \in Objects, CreateOrUpdate(o) PROVE UsedInv' /\ ChainInv'
  <2>1. PICK new \in Desired(o, seen[o]) : NoWrite \/ Write(o, new)
    BY <1>3 DEF CreateOrUpdate
  <2>2. pc = o /\ UNCHANGED <<conf, used, confSeen, seen, pod>>
    BY <1>3 DEF CreateOrUpdate
  <2>3. /\ want' \in {want, None} /\ cfgHash' \in {cfgHash, None}
    BY <1>3 DEF CreateOrUpdate, After, Requeue, CallFails
  <2>4. CASE store'["config"] = store["config"] /\ store'["sts"] = store["sts"]
    <3>1. UsedInv'
      BY <2>2, <2>3, <2>4 DEF UsedInv
    <3>2. ChainInv'
      BY <1>0, <2>2, <2>3, <2>4 DEF ChainInv, HashTellsConf
    <3> QED BY <3>1, <3>2
  <2>5. CASE o = "config" /\ Write(o, new)
    <3>1. new = want /\ want # None
      BY <2>1, <2>2, <2>5 DEF Desired, Secrets, TypeOK
    <3>2. store'["config"] = want /\ store'["sts"] = store["sts"]
      BY <1>0, <2>5, <3>1 DEF Write, TypeOK
    <3>3. UsedInv'
      BY <2>2, <2>3, <3>1, <3>2 DEF UsedInv
    <3>4. ChainInv'
      BY <1>0, <2>2, <2>3, <3>1, <3>2 DEF ChainInv, HashTellsConf
    <3> QED BY <3>3, <3>4
  <2>6. CASE o = "sts" /\ Write(o, new)
    <3>1. new = cfgHash
      BY <2>1, <2>6 DEF Desired, Secrets
    <3>2. store'["sts"] = cfgHash /\ store'["config"] = store["config"]
      BY <1>0, <2>6, <3>1 DEF Write, TypeOK
    <3>3. UsedInv'
      BY <2>2, <2>3, <3>2 DEF UsedInv
    <3>4. ChainInv'
      BY <1>0, <2>2, <2>3, <3>2 DEF ChainInv, HashTellsConf
    <3> QED BY <3>3, <3>4
  <2>7. (o \notin {"config", "sts"} /\ Write(o, new)) \/ NoWrite =>
          store'["config"] = store["config"] /\ store'["sts"] = store["sts"]
    BY <1>0 DEF Write, NoWrite, TypeOK
  <2> QED BY <2>1, <2>4, <2>5, <2>6, <2>7
<1> QED
  BY <1>1, <1>2, <1>3

\* The steps around the pass: one step below per action.  A change of mysqlConf
\* brings a value that nothing in the system has.
LEMMA ChainCluster ==
  ASSUME Revert = FALSE, TypeOK, UsedInv, ChainInv,
         \/ DeliverMySQL \/ \E o \in Objects : Deliver(o)
         \/ \E c \in Confs : EditConf(c)
         \/ \E p \in Pods : StartPod(p) \/ PodReady(p) \/ RollPod(p)
  PROVE  UsedInv' /\ ChainInv'
<1>0. conf # None /\ "config" \in Objects
  BY DEF TypeOK, Objects
<1>1. CASE DeliverMySQL
  <2>1. confSeen' = conf /\ UNCHANGED <<conf, used, store, seen, want, cfgHash, pod>>
    BY <1>1 DEF DeliverMySQL, passVars
  <2>2. UsedInv'
    BY <2>1 DEF UsedInv
  <2>3. ChainInv'
    BY <2>1 DEF ChainInv, HashTellsConf
  <2> QED BY <2>2, <2>3
<1>2. ASSUME NEW o \in Objects, Deliver(o) PROVE UsedInv' /\ ChainInv'
  <2>1. UNCHANGED <<conf, used, confSeen, store, want, cfgHash, pod>>
        /\ seen'["config"] \in {seen["config"], store["config"]}
    BY <1>0, <1>2 DEF Deliver, passVars, TypeOK
  <2>2. UsedInv'
    BY <2>1 DEF UsedInv
  <2>3. ChainInv'
    BY <2>1 DEF ChainInv, HashTellsConf
  <2> QED BY <2>2, <2>3
<1>3. ASSUME NEW c \in Confs, EditConf(c) PROVE UsedInv' /\ ChainInv'
  <2>1. c \notin used /\ c # None /\ conf' = c /\ used' = used \cup {c}
        /\ UNCHANGED <<confSeen, store, seen, want, cfgHash, pod>>
    BY <1>3 DEF EditConf, passVars
  <2>2. UsedInv'
    BY <2>1 DEF UsedInv
  <2>3. /\ \A x \in {want, cfgHash, store["config"], seen["config"], store["sts"]} : x # conf'
        /\ \A p \in Pods : pod[p] # None => pod[p].hash # conf'
    BY <2>1 DEF UsedInv
  <2>4. ChainInv'
    BY <2>1, <2>3 DEF ChainInv, HashTellsConf
  <2> QED BY <2>2, <2>4
<1>4. ASSUME NEW p \in Pods, StartPod(p) \/ PodReady(p) \/ RollPod(p)
      PROVE  UsedInv' /\ ChainInv'
  <2>1. UNCHANGED <<conf, used, confSeen, store, seen, want, cfgHash>>
        /\ \A q \in Pods : q # p => pod'[q] = pod[q]
    BY <1>4 DEF StartPod, PodReady, RollPod, passVars, TypeOK
  <2>2. pod'[p] # None => /\ pod'[p].hash \in used
                          /\ pod'[p].hash = conf => pod'[p].conf = conf
    <3>1. CASE StartPod(p)
      <4>1. pod'[p].hash = store["sts"] /\ pod'[p].conf = store["config"] /\ store["sts"] # None
        BY <3>1 DEF StartPod, TypeOK
      <4> QED BY <4>1 DEF UsedInv, ChainInv
    <3>2. CASE PodReady(p)
      <4>1. pod[p] # None /\ pod[p] \in PodStates /\ pod'[p] = [pod[p] EXCEPT !.ready = TRUE]
        BY <3>2 DEF PodReady, TypeOK
      <4>2. pod'[p].hash = pod[p].hash /\ pod'[p].conf = pod[p].conf
        BY <4>1 DEF PodStates
      <4> QED BY <4>1, <4>2 DEF UsedInv, ChainInv, HashTellsConf
    <3>3. CASE RollPod(p)
      BY <3>3 DEF RollPod, TypeOK
    <3> QED BY <1>4, <3>1, <3>2, <3>3
  <2>3. UsedInv'
    BY <2>1, <2>2 DEF UsedInv
  <2>4. HashTellsConf'
    BY <2>1, <2>2 DEF ChainInv, HashTellsConf
  <2>5. ChainInv'
    BY <2>1, <2>4 DEF ChainInv
  <2> QED BY <2>3, <2>5
<1> QED
  BY <1>1, <1>2, <1>3, <1>4

\* As long as mysqlConf does not go back to an earlier value, a pod whose
\* template carries the hash of the current conf runs with that conf, although
\* the hash is taken from a cached ConfigMap and the pod reads the stored one.
THEOREM HashIsTrue ==
  ASSUME Revert = FALSE
  PROVE  Spec => []HashTellsConf
<1>1. Init => UsedInv /\ ChainInv
  <2> SUFFICES ASSUME Init PROVE UsedInv /\ ChainInv
      OBVIOUS
  <2>1. /\ store["config"] = None /\ store["sts"] = None /\ seen["config"] = None
        /\ conf # None /\ want = None /\ cfgHash = None
        /\ \A p \in Pods : pod[p] = None
    BY DEF Init, Objects, Secrets
  <2> QED BY <2>1 DEF Init, UsedInv, ChainInv, HashTellsConf
<1>2. TypeOK /\ UsedInv /\ ChainInv /\ [Next]_vars => UsedInv' /\ ChainInv'
  <2> SUFFICES ASSUME TypeOK, UsedInv, ChainInv, [Next]_vars PROVE UsedInv' /\ ChainInv'
      OBVIOUS
  <2>1. CASE UNCHANGED vars
    BY <2>1 DEF vars, passVars, UsedInv, ChainInv, HashTellsConf
  <2>2. CASE Next
    BY <2>2, ChainPass, ChainCluster DEF Next
  <2> QED BY <2>1, <2>2
<1>3. ChainInv => HashTellsConf
  BY DEF ChainInv
<1> QED
  BY <1>1, <1>2, <1>3, ObjectsTyped, PTL DEF Spec

===========================================================================

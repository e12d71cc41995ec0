----------------------------- MODULE Settings -----------------------------
(***************************************************************************)
(* The options a mysqld of a MySQL resource runs with: RenderMySQLConfig   *)
(* (internal/controller/k8s/configmap/config_map.go), the init container   *)
(* (cmd/init/main.go), the environment reconcileStatefulSet gives it, and  *)
(* the address the operator dials (buildDSN and parseOrdinal of            *)
(* internal/controller/group_replication.go).  How mysqld reads its files  *)
(* is external: a later line wins, and it takes - and _ in an option name  *)
(* for the same and drops the prefix loose-.                               *)
(*                                                                         *)
(* A key of my.cnf is an option and its spelling.  The spellings of one    *)
(* option are numbered as sort.Strings orders them, which is all that      *)
(* sorting does to what mysqld reads; the prefix loose- is only used with  *)
(* group_replication options, where it sorts last.  The default table has  *)
(* one option for each way its entries are spelled.                        *)
(***************************************************************************)
EXTENDS Naturals, Sequences, FiniteSets

CONSTANTS
  MaxReplicas,     \* bound of spec.replicas
  Ports,           \* what spec.port may be
  MySQLPort,       \* 3306, mysqld's own default
  ResourceNames,   \* what the resource may be called: names split at "-"
  Numerals,        \* the decimal numerals of 0, 1, 2, ...
  Overrides,       \* the sets of keys spec.mysqlConf may have
  None

Dash == 1
Mixed == 2
Underscore == 3
Loose == 4

PlainOptions == {"max_connections", "binlog_expire_logs_seconds",
                 "innodb_redo_log_capacity", "skip_name_resolve", "port", "server_id"}

GROptions == {"recovery_use_ssl", "group_name", "group_seeds", "local_address",
              "start_on_boot", "bootstrap_group"}

Options == PlainOptions \cup GROptions

\* What the init container sets.
Owned == {"server_id"} \cup (GROptions \ {"recovery_use_ssl"})

Keys == [opt : PlainOptions, spelling : {Dash, Mixed, Underscore}]
          \cup [opt : GROptions, spelling : {Dash, Underscore, Loose}]

Key(o, s) == [opt |-> o, spelling |-> s]

\* defaultMyCnf and defaultMyCnfBooleanFlags.  The capacity is there twice.
DefaultKeys == {Key("max_connections", Dash), Key("binlog_expire_logs_seconds", Underscore),
                Key("innodb_redo_log_capacity", Dash), Key("innodb_redo_log_capacity", Mixed),
                Key("recovery_use_ssl", Loose), Key("skip_name_resolve", Dash)}

Itoa(n) == Numerals[n + 1]

\* Names are not empty, numbers are told apart by their numerals, and there is
\* one for each pod.
ASSUME SettingsAssumption ==
  /\ MaxReplicas \in Nat \ {0}
  /\ MySQLPort \in Ports
  /\ ResourceNames \subseteq Seq(STRING) \ {<<>>}
  /\ Numerals \in Seq(STRING) /\ Len(Numerals) >= MaxReplicas
  /\ \A m, n \in 0..(Len(Numerals) - 1) : Itoa(m) = Itoa(n) => m = n
  /\ Overrides \subseteq SUBSET Keys

IsNumeral(s) == \E n \in 0..(Len(Numerals) - 1) : Itoa(n) = s
Atoi(s) == CHOOSE n \in 0..(Len(Numerals) - 1) : Itoa(n) = s

VARIABLES
  spec,     \* name, port, replicas, groupName and mysqlConf of the MySQL object
  cnf,      \* my.cnf in the ConfigMap: a function from keys to values, or None
  confd,    \* confd[i]: the files in /etc/mysql/conf.d of pod i, by option
  done,     \* the pods whose init container has succeeded
  server    \* server[i]: the options mysqld of pod i runs with, or None

vars == <<spec, cnf, confd, done, server>>

Ordinals == 0..(MaxReplicas - 1)

\* Without a group name: objects from before the webhook was installed.
Init ==
  /\ spec \in [name : ResourceNames, port : Ports, replicas : 1..MaxReplicas,
               groupName : {"uuid", ""},
               mysqlConf : Overrides]
  /\ cnf = None
  /\ confd = [i \in Ordinals |-> <<>>]
  /\ done = {}
  /\ server = [i \in Ordinals |-> None]

---------------------------------------------------------------------------
(* The operator.                                                           *)

\* Mutant of Rendered: the defaults come last.
RenderedDefaultsLast ==
  [k \in DefaultKeys \cup spec.mysqlConf |-> IF k \in DefaultKeys THEN "default" ELSE "user"]

\* The map `effective' of RenderMySQLConfig.
Rendered ==
  [k \in DefaultKeys \cup spec.mysqlConf |-> IF k \in spec.mysqlConf THEN "user" ELSE "default"]

RenderMySQLConfig ==
  /\ cnf # Rendered
  /\ cnf' = Rendered
  /\ UNCHANGED <<spec, confd, done, server>>

PodName(i) == Append(spec.name, Itoa(i))

Address(pod, service) == [pod |-> pod, service |-> service, port |-> spec.port]

\* buildDSN: the pod's own name under the Service, which has the resource's.
DSN(i) == Address(PodName(i), spec.name)

---------------------------------------------------------------------------
(* The init container of pod i.                                            *)

\* Mutant of ParseOrdinal: the part after the first dash.
ParseOrdinalFirst(pod) == Atoi(pod[2])

ParseOrdinal(pod) == Atoi(pod[Len(pod)])

DeriveService(pod) == SubSeq(pod, 1, Len(pod) - 1)

BuildSeeds(service) ==
  {Address(Append(service, Itoa(i)), service) : i \in 0..(spec.replicas - 1)}

Identity(pod) == [server_id |-> ParseOrdinal(pod) + 1]

GroupReplication(pod) ==
  LET service == DeriveService(pod)
  IN [local_address   |-> Address(pod, service),
      group_seeds     |-> BuildSeeds(service),
      group_name      |-> spec.groupName,
      start_on_boot   |-> "off",
      bootstrap_group |-> "off"]

Merge(f, g) == [o \in DOMAIN f \cup DOMAIN g |-> IF o \in DOMAIN g THEN g[o] ELSE f[o]]

\* main: fails before it writes anything without an ordinal or a group name.
InitMain(i) ==
  /\ i < spec.replicas /\ i \notin done
  /\ IsNumeral(PodName(i)[Len(PodName(i))]) /\ spec.groupName # ""
  /\ confd' = [confd EXCEPT ![i] = Merge(Identity(PodName(i)), GroupReplication(PodName(i)))]
  /\ done' = done \cup {i}
  /\ UNCHANGED <<spec, cnf, server>>

\* The second writeFile fails: exit 1, and the kubelet runs main again.
InitFails(i) ==
  /\ i < spec.replicas /\ i \notin done
  /\ spec.groupName # ""
  /\ confd[i] = <<>>
  /\ confd' = [confd EXCEPT ![i] = Identity(PodName(i))]
  /\ UNCHANGED <<spec, cnf, done, server>>

---------------------------------------------------------------------------
(* mysqld of pod i.                                                        *)

Builtin(o) == IF o = "port" THEN MySQLPort ELSE None

\* What my.cnf says of option o: its last spelling.
FromCnf(o) ==
  LET ks == {k \in DOMAIN cnf : k.opt = o}
  IN IF ks = {} THEN Builtin(o)
     ELSE cnf[CHOOSE k \in ks : \A j \in ks : j.spelling <= k.spelling]

\* Mutant of Effective: !includedir before the options.
EffectiveIncludeFirst(i) ==
  [o \in Options |-> IF o \in DOMAIN confd[i] /\ FromCnf(o) = None THEN confd[i][o] ELSE FromCnf(o)]

\* The last line of my.cnf is !includedir /etc/mysql/conf.d.
Effective(i) ==
  [o \in Options |-> IF o \in DOMAIN confd[i] THEN confd[i][o] ELSE FromCnf(o)]

StartMysqld(i) ==
  /\ i \in done /\ cnf # None
  /\ server[i] = None
  /\ server' = [server EXCEPT ![i] = Effective(i)]
  /\ UNCHANGED <<spec, cnf, confd, done>>

Next == RenderMySQLConfig \/ \E i \in Ordinals : InitMain(i) \/ InitFails(i) \/ StartMysqld(i)

Spec == Init /\ [][Next]_vars

---------------------------------------------------------------------------
Running == {i \in Ordinals : server[i] # None}

\* The servers of a resource can find each other and are told apart, whatever
\* its name and its mysqlConf: their ids and addresses differ, every one has
\* all pods, itself included, among its seeds, under the address that the
\* operator dials, and they share the group name.
IdentitiesAgree ==
  \A i, j \in Running :
    /\ server[i].server_id = server[j].server_id => i = j
    /\ server[j].local_address = DSN(j)
    /\ server[j].local_address \in server[i].group_seeds
    /\ server[i].group_name = server[j].group_name /\ server[i].group_name = "uuid"

\* No mysqld starts or forms a group on its own: the operator decides, even
\* when mysqlConf says otherwise in whatever spelling.
OperatorStartsGroups ==
  \A i \in Running : server[i].start_on_boot = "off" /\ server[i].bootstrap_group = "off"

\* No default of the same option is spelled so that it sorts after key k.
Outranks(k) == \A d \in DefaultKeys : d.opt = k.opt => d.spelling <= k.spelling

\* README.md: mysqlConf is there to "override or add additional options".  One
\* that the init container does not own takes effect exactly when one of the
\* spellings given outranks the defaults; otherwise the default stays.  So the
\* manual's spelling overrides max-connections, and does not override
\* loose-group_replication_recovery_use_ssl.
OverridesTakeEffect ==
  \A i \in Running, k \in spec.mysqlConf : k.opt \notin Owned =>
    server[i][k.opt] =
      IF \E j \in spec.mysqlConf : j.opt = k.opt /\ Outranks(j) THEN "user" ELSE "default"

---------------------------------------------------------------------------
(* What the documentation says, and the code does not do.                  *)

\* config/samples: "port: 3306 # Optional: Change MySQL port".  A server listens
\* where the operator and the other members look for it.
PortIsServed ==
  \A i \in Running : "port" \notin {k.opt : k \in spec.mysqlConf} => server[i].port = spec.port

===========================================================================

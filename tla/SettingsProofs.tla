-------------------------- MODULE SettingsProofs --------------------------
(***************************************************************************)
(* What every mysqld of a resource runs with, proved for every number of   *)
(* replicas, every name, every port and every mysqlConf: the servers find  *)
(* each other under the addresses that the operator dials, none starts or  *)
(* forms a group on its own, and which options of mysqlConf count.         *)
(***************************************************************************)
EXTENDS Settings, SequenceTheorems, TLAPS

Specs == [name : ResourceNames, port : Ports, replicas : 1..MaxReplicas,
          groupName : {"uuid", ""}, mysqlConf : Overrides]

\* What the init container leaves in conf.d.
Written(i) == Merge(Identity(PodName(i)), GroupReplication(PodName(i)))

\* A server runs with the options of a finished init container and of the
\* rendered my.cnf, which does not change any more.
SettingsInv ==
  /\ spec \in Specs
  /\ cnf \in {None, Rendered}
  /\ DOMAIN confd = Ordinals /\ DOMAIN server = Ordinals
  /\ \A i \in done : i \in 0..(spec.replicas - 1) /\ spec.groupName = "uuid" /\ confd[i] = Written(i)
  /\ \A i \in Running : i \in done /\ cnf = Rendered /\ server[i] = Effective(i)

---------------------------------------------------------------------------
(* Names and ordinals.                                                     *)

\* strconv.Atoi reads back what the StatefulSet controller has written.
LEMMA AtoiOfItoa ==
  ASSUME NEW i \in Ordinals
  PROVE  Itoa(i) \in STRING /\ Atoi(Itoa(i)) = i
<1>1. i \in 0..(Len(Numerals) - 1) /\ Len(Numerals) \in Nat
  BY SettingsAssumption DEF Ordinals
<1>2. \A n \in 0..(Len(Numerals) - 1) : Itoa(n) = Itoa(i) => n = i
  BY <1>1, SettingsAssumption
<1>3. Atoi(Itoa(i)) = i
  BY <1>1, <1>2 DEF Atoi
<1> QED
  BY <1>1, <1>3, SettingsAssumption DEF Itoa

\* The init container gets its ordinal and the Service out of the pod's name.
LEMMA NameParts ==
  ASSUME spec \in Specs, NEW i \in Ordinals
  PROVE  ParseOrdinal(PodName(i)) = i /\ DeriveService(PodName(i)) = spec.name
<1>1. spec.name \in Seq(STRING) /\ Itoa(i) \in STRING
  BY AtoiOfItoa, SettingsAssumption DEF Specs
<1>2. /\ PodName(i) \in Seq(STRING) /\ Len(PodName(i)) = Len(spec.name) + 1
      /\ PodName(i)[Len(PodName(i))] = Itoa(i)
  BY <1>1, AppendProperties DEF PodName
<1>3. SubSeq(PodName(i), 1, Len(PodName(i)) - 1) = spec.name
  BY <1>1 DEF PodName
<1> QED
  BY <1>2, <1>3, AtoiOfItoa DEF ParseOrdinal, DeriveService

---------------------------------------------------------------------------
(* The invariant.                                                          *)

\* The files of conf.d, option by option.
LEMMA WrittenIs ==
  ASSUME spec \in Specs, NEW i \in Ordinals
  PROVE  /\ DOMAIN Written(i) = Owned
         /\ Written(i).server_id = i + 1
         /\ Written(i).local_address = DSN(i)
         /\ Written(i).group_seeds = {DSN(j) : j \in 0..(spec.replicas - 1)}
         /\ Written(i).group_name = spec.groupName
         /\ Written(i).start_on_boot = "off" /\ Written(i).bootstrap_group = "off"
<1>1. ParseOrdinal(PodName(i)) = i /\ DeriveService(PodName(i)) = spec.name
  BY NameParts
<1>2. Identity(PodName(i)) = [server_id |-> i + 1]
  BY <1>1 DEF Identity
<1>3. BuildSeeds(spec.name) = {DSN(j) : j \in 0..(spec.replicas - 1)}
  BY DEF BuildSeeds, DSN, PodName
<1>4. GroupReplication(PodName(i)) =
        [local_address |-> DSN(i), group_seeds |-> {DSN(j) : j \in 0..(spec.replicas - 1)},
         group_name |-> spec.groupName, start_on_boot |-> "off", bootstrap_group |-> "off"]
  BY <1>1, <1>3 DEF GroupReplication, DSN
<1>5. Written(i) = Merge([server_id |-> i + 1],
        [local_address |-> DSN(i), group_seeds |-> {DSN(j) : j \in 0..(spec.replicas - 1)},
         group_name |-> spec.groupName, start_on_boot |-> "off", bootstrap_group |-> "off"])
  BY <1>2, <1>4 DEF Written
<1> QED
  BY <1>5 DEF Merge, Owned, GROptions

\* What does not change with the step of another pod.
LEMMA SameText ==
  ASSUME UNCHANGED spec
  PROVE  Rendered' = Rendered /\ \A i : Written(i)' = Written(i) /\ DSN(i)' = DSN(i)
BY DEF Rendered, Written, Merge, Identity, ParseOrdinal, GroupReplication, DeriveService,
   BuildSeeds, Address, PodName, DSN

\* main goes on only for a pod of the StatefulSet, with a group name.
LEMMA InitMainRuns ==
  ASSUME spec \in Specs, NEW i \in Ordinals, InitMain(i)
  PROVE  i \in 0..(spec.replicas - 1) /\ i \notin done /\ spec.groupName = "uuid"
<1>1. i < spec.replicas /\ i \notin done /\ ~(spec.groupName = "")
  BY Zenon DEF InitMain
<1>2. spec.replicas \in 1..MaxReplicas /\ spec.groupName \in {"uuid", ""}
  BY Zenon DEF Specs
<1>3. spec.groupName = "uuid"
  BY <1>1, <1>2, Zenon
<1>4. i \in 0..(spec.replicas - 1)
  <2>1. i < spec.replicas /\ spec.replicas \in 1..MaxReplicas
    BY <1>1, <1>2, Zenon
  <2> QED BY <2>1 DEF Ordinals
<1> QED
  BY <1>1, <1>3, <1>4, Zenon

\* One step below per action.
LEMMA SettingsInvariant == Spec => []SettingsInv
<1>1. Init => SettingsInv
  BY DEF Init, SettingsInv, Specs, Running
<1>2. SettingsInv /\ [Next]_vars => SettingsInv'
  <2> SUFFICES ASSUME SettingsInv, [Next]_vars PROVE SettingsInv'
      OBVIOUS
  <2> USE DEF SettingsInv
  <2>1. UNCHANGED spec
    BY DEF Next, RenderMySQLConfig, InitMain, InitFails, StartMysqld, vars
  <2>2. Rendered' = Rendered /\ \A i : Written(i)' = Written(i)
    BY <2>1, SameText
  <2>3. CASE RenderMySQLConfig
    <3>1. cnf # Rendered /\ cnf' = Rendered /\ UNCHANGED <<confd, done, server>>
      BY <2>3 DEF RenderMySQLConfig
    <3>2. Running' = Running
      BY <3>1 DEF Running
    <3>3. Running = {}
      BY <3>1
    <3> QED BY <2>1, <2>2, <3>1, <3>2, <3>3
  <2>4. ASSUME NEW i \in Ordinals, InitMain(i) PROVE SettingsInv'
    <3>1. i \in 0..(spec.replicas - 1) /\ i \notin done /\ spec.groupName = "uuid"
      BY <2>4, InitMainRuns
    <3>2. confd' = [confd EXCEPT ![i] = Written(i)] /\ done' = done \cup {i}
          /\ UNCHANGED <<cnf, server>>
      BY <2>4 DEF InitMain, Written
    <3>3. Running' = Running /\ i \notin Running
      BY <3>1, <3>2 DEF Running
    <3>4. \A j \in Running : Effective(j)' = Effective(j)
      BY <3>2, <3>3 DEF Effective, FromCnf
    <3> QED BY <2>1, <2>2, <3>1, <3>2, <3>3, <3>4
  <2>5. ASSUME NEW i \in Ordinals, InitFails(i) PROVE SettingsInv'
    <3>1. confd' = [confd EXCEPT ![i] = Identity(PodName(i))] /\ i \notin done
          /\ UNCHANGED <<cnf, done, server>>
      BY <2>5 DEF InitFails
    <3>2. Running' = Running /\ i \notin Running
      BY <3>1 DEF Running
    <3>3. \A j \in Running : Effective(j)' = Effective(j)
      BY <3>1, <3>2 DEF Effective, FromCnf
    <3> QED BY <2>1, <2>2, <3>1, <3>2, <3>3
  <2>6. ASSUME NEW i \in Ordinals, StartMysqld(i) PROVE SettingsInv'
    <3>1. i \in done /\ cnf = Rendered /\ server' = [server EXCEPT ![i] = Effective(i)]
          /\ UNCHANGED <<cnf, confd, done>>
      BY <2>6 DEF StartMysqld
    <3>2. Running' \subseteq Running \cup {i}
      BY <3>1 DEF Running
    <3>3. \A j : Effective(j)' = Effective(j)
      BY <3>1 DEF Effective, FromCnf
    <3> QED BY <2>1, <2>2, <3>1, <3>2, <3>3
  <2>7. CASE UNCHANGED vars
    <3>1. UNCHANGED <<cnf, confd, done, server>>
      BY <2>7 DEF vars
    <3>2. \A j : Effective(j)' = Effective(j)
      BY <3>1 DEF Effective, FromCnf
    <3>3. Running' = Running
      BY <3>1 DEF Running
    <3> QED BY <2>1, <2>2, <3>1, <3>2, <3>3
  <2> QED BY <2>3, <2>4, <2>5, <2>6, <2>7 DEF Next
<1> QED
  BY <1>1, <1>2, PTL DEF Spec

---------------------------------------------------------------------------
(* What the servers run with.                                              *)

\* A running server has all that the init container has written.
LEMMA RunsAsWritten ==
  ASSUME SettingsInv, NEW i \in Running
  PROVE  /\ i \in 0..(spec.replicas - 1) /\ i \in Ordinals /\ spec.groupName = "uuid"
         /\ server[i].server_id = i + 1
         /\ server[i].local_address = DSN(i)
         /\ server[i].group_seeds = {DSN(j) : j \in 0..(spec.replicas - 1)}
         /\ server[i].group_name = "uuid"
         /\ server[i].start_on_boot = "off" /\ server[i].bootstrap_group = "off"
<1>1. /\ i \in Ordinals /\ i \in 0..(spec.replicas - 1) /\ spec.groupName = "uuid"
      /\ confd[i] = Written(i) /\ server[i] = Effective(i) /\ spec \in Specs
  BY DEF SettingsInv, Running
<1>2. Owned \subseteq Options
  BY DEF Owned, Options, PlainOptions
<1>3. DOMAIN confd[i] = Owned
  BY <1>1, WrittenIs
<1>4. \A o \in Owned : server[i][o] = Written(i)[o]
  BY <1>1, <1>2, <1>3 DEF Effective
<1>5. /\ server[i].server_id = Written(i).server_id
      /\ server[i].local_address = Written(i).local_address
      /\ server[i].group_seeds = Written(i).group_seeds
      /\ server[i].group_name = Written(i).group_name
      /\ server[i].start_on_boot = Written(i).start_on_boot
      /\ server[i].bootstrap_group = Written(i).bootstrap_group
  BY <1>4 DEF Owned, GROptions
<1> QED
  BY <1>1, <1>5, WrittenIs

\* The servers of a resource find each other under the addresses the operator
\* dials and are told apart, whatever the name, the port and mysqlConf.
THEOREM ServersFindEachOther == Spec => []IdentitiesAgree
<1>1. SettingsInv => IdentitiesAgree
  <2> SUFFICES ASSUME SettingsInv, NEW i \in Running, NEW j \in Running
               PROVE  /\ server[i].server_id = server[j].server_id => i = j
                      /\ server[j].local_address = DSN(j)
                      /\ server[j].local_address \in server[i].group_seeds
                      /\ server[i].group_name = server[j].group_name
                      /\ server[i].group_name = "uuid"
      BY DEF IdentitiesAgree
  <2>1. i \in Nat /\ j \in Nat
    BY RunsAsWritten
  <2> QED BY <2>1, RunsAsWritten
<1> QED
  BY <1>1, SettingsInvariant, PTL

\* No mysqld starts or forms a group on its own, whatever mysqlConf says.
THEOREM GroupsAreTheOperators == Spec => []OperatorStartsGroups
<1>1. SettingsInv => OperatorStartsGroups
  BY RunsAsWritten DEF OperatorStartsGroups
<1> QED
  BY <1>1, SettingsInvariant, PTL

\* What mysqlConf says of an option takes effect, unless the init container owns
\* the option or the default table has it in a spelling that sorts after every
\* one given: then the default stays.
THEOREM OverridesCount == Spec => []OverridesTakeEffect
<1>1. SettingsInv => OverridesTakeEffect
  <2> SUFFICES ASSUME SettingsInv, NEW i \in Running, NEW k \in spec.mysqlConf, k.opt \notin Owned
               PROVE  server[i][k.opt] =
                        IF \E j \in spec.mysqlConf : j.opt = k.opt /\ Outranks(j)
                        THEN "user" ELSE "default"
      BY DEF OverridesTakeEffect
  <2> DEFINE o == k.opt
             ks == {j \in DOMAIN cnf : j.opt = o}
             IsLast(j) == j \in ks /\ \A h \in ks : h.spelling <= j.spelling
             last == CHOOSE j \in ks : \A h \in ks : h.spelling <= j.spelling
  <2>1. /\ cnf = Rendered /\ server[i] = Effective(i) /\ confd[i] = Written(i)
        /\ i \in Ordinals /\ spec \in Specs
    BY DEF SettingsInv, Running
  <2>2. DOMAIN cnf = DefaultKeys \cup spec.mysqlConf /\ spec.mysqlConf \subseteq Keys
    BY <2>1, SettingsAssumption DEF Rendered, Specs
  <2>3. DefaultKeys \subseteq Keys
    BY DEF DefaultKeys, Keys, Key, PlainOptions, GROptions, Loose
  <2>4. k \in ks /\ o \in Options
    BY <2>2 DEF Keys, Options
  <2>5. \A j \in ks : j.spelling \in 1..4 /\ j = Key(o, j.spelling)
    BY <2>2, <2>3 DEF Keys, Key, Dash, Mixed, Underscore, Loose
  <2>6. IsLast(last)
    <3>1. \E j : IsLast(j)
      <4> HIDE DEF ks
      <4>1. \A j \in ks : j.spelling = 1 \/ j.spelling = 2 \/ j.spelling = 3 \/ j.spelling = 4
        BY <2>5
      <4> QED BY <2>4, <4>1
    <3> HIDE DEF ks
    <3> QED BY <3>1
  <2>7. FromCnf(o) = cnf[last]
    BY <2>4 DEF FromCnf
  <2>8. server[i][o] = cnf[last]
    <3>1. o \notin DOMAIN confd[i]
      BY <2>1, WrittenIs
    <3> QED BY <2>1, <2>4, <2>7, <3>1 DEF Effective
  <2> HIDE DEF last
  <2>9. cnf[last] = IF last \in spec.mysqlConf THEN "user" ELSE "default"
    BY <2>1, <2>2, <2>6 DEF Rendered
  <2>10. CASE \E j \in spec.mysqlConf : j.opt = o /\ Outranks(j)
    <3>1. PICK j \in spec.mysqlConf : j.opt = o /\ Outranks(j)
      BY <2>10
    <3>2. j \in ks
      BY <2>2, <3>1
    <3>3. last \in DefaultKeys => last = j
      <4>1. last \in DefaultKeys => last.spelling <= j.spelling
        BY <2>6, <3>1 DEF Outranks
      <4> HIDE DEF ks
      <4>2. j.spelling <= last.spelling /\ j.spelling \in 1..4 /\ last.spelling \in 1..4
        BY <2>5, <2>6, <3>2
      <4>3. j = Key(o, j.spelling) /\ last = Key(o, last.spelling)
        BY <2>5, <2>6, <3>2
      <4> QED BY <4>1, <4>2, <4>3
    <3>4. last \in spec.mysqlConf
      BY <2>2, <2>6, <3>3
    <3> QED BY <2>8, <2>9, <2>10, <3>4
  <2>11. CASE ~\E j \in spec.mysqlConf : j.opt = o /\ Outranks(j)
    <3>1. Outranks(last)
      BY <2>2, <2>6 DEF Outranks
    <3>2. last \notin spec.mysqlConf
      BY <2>6, <2>11, <3>1
    <3> QED BY <2>8, <2>9, <2>11, <3>2
  <2> QED BY <2>10, <2>11
<1> QED
  BY <1>1, SettingsInvariant, PTL

===========================================================================

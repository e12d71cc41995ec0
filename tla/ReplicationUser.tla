-------------------------- MODULE ReplicationUser --------------------------
(***************************************************************************)
(* ensureReplicationUser of                                                *)
(* internal/controller/mysql/groupreplication/gr_client.go, statement by   *)
(* statement, for the pods of one resource.  reconcilePods calls it for    *)
(* one pod at a time, again in every pass in which that pod is not ONLINE, *)
(* each time with a new client.                                            *)
(*                                                                         *)
(* SQL_LOG_BIN belongs to a session, and the statements go through a       *)
(* connection pool (sql.DB).  With one statement at a time the pool uses   *)
(* the same connection again, unless that has been lost in between.        *)
(*                                                                         *)
(* Faults: "sql" (a statement fails, with or without effect), "reconnect"  *)
(* (the pool replaces a lost connection) and "crash" (the operator dies    *)
(* between two statements).                                                *)
(***************************************************************************)
CONSTANTS
  Pods,
  Faults,
  None

ASSUME RUAssumption == Faults \subseteq {"sql", "reconnect", "crash"} /\ None \notin Pods

Accounts == {"none", "bare", "granted"}   \* rpl_user@'%': missing, without and with privileges

VARIABLES
  account,   \* account[p]: rpl_user on p
  errant,    \* the pods whose own binary log has got one of the statements
  pod,       \* the pod whose client is open, or None
  next,      \* the statement to send next
  logBin,    \* SQL_LOG_BIN of the session in use
  ensured,   \* the pods for which the last call returned nil
  cutShort,  \* history: the pods where a call ended between CREATE USER and GRANT
  replaced   \* history: the pods to which a connection has been replaced

vars == <<account, errant, pod, next, logBin, ensured, cutShort, replaced>>

\* Mutants of Following: logging stays on; the privileges are forgotten.
FollowingLogged ==
  [query |-> "create", create |-> "grant", grant |-> "flush", flush |-> "logOn"]
FollowingNoGrant ==
  [query |-> "logOff", logOff |-> "create", create |-> "flush", flush |-> "logOn"]

\* The order of the statements, after the query for the user.
Following ==
  [query |-> "logOff", logOff |-> "create", create |-> "grant", grant |-> "flush",
   flush |-> "logOn"]

Statements == {"query", "logOff", "create", "grant", "flush", "logOn"}

TypeOK ==
  /\ account \in [Pods -> Accounts]
  /\ errant \subseteq Pods /\ ensured \subseteq Pods
  /\ cutShort \subseteq Pods /\ replaced \subseteq Pods
  /\ pod \in Pods \cup {None}
  /\ next \in Statements
  /\ logBin \in BOOLEAN

Init ==
  /\ account = [p \in Pods |-> "none"]
  /\ errant = {} /\ ensured = {} /\ cutShort = {} /\ replaced = {}
  /\ pod = None /\ next = "query" /\ logBin = TRUE

---------------------------------------------------------------------------
\* reconcilePods opens a client for p and calls ensureReplicationUser.
Call(p) ==
  /\ pod = None
  /\ pod' = p /\ next' = "query" /\ logBin' = TRUE
  /\ ensured' = ensured \ {p}
  /\ UNCHANGED <<account, errant, cutShort, replaced>>

\* The call returns, and the client is closed sooner or later.
ReturnNil ==
  /\ pod' = None /\ next' = "query" /\ logBin' = TRUE
  /\ ensured' = ensured \cup {pod}
  /\ UNCHANGED cutShort

\* The call ends early.  It is cut short when the user is there by then, and
\* has no privileges yet.
EndEarly ==
  /\ pod' = None /\ next' = "query" /\ logBin' = TRUE
  /\ cutShort' = IF account'[pod] = "bare" THEN cutShort \cup {pod} ELSE cutShort
  /\ UNCHANGED ensured

\* SELECT 1 FROM mysql.user: an existing user ends the call.
UserExists ==
  /\ pod # None /\ next = "query"
  /\ IF account[pod] # "none"
     THEN ReturnNil
     ELSE next' = Following["query"] /\ UNCHANGED <<pod, logBin, ensured, cutShort>>
  /\ UNCHANGED <<account, errant, replaced>>

\* What the statement does to the server.  All but SET are written to the
\* binary log when the session logs.
Effect(q) ==
  /\ account' = [account EXCEPT ![pod] =
                   IF q = "create" /\ account[pod] = "none" THEN "bare"
                   ELSE IF q = "grant" THEN "granted" ELSE account[pod]]
  /\ errant' = IF logBin /\ q \in {"create", "grant", "flush"}
               THEN errant \cup {pod} ELSE errant

Session(q) == IF q = "logOff" THEN FALSE ELSE IF q = "logOn" THEN TRUE ELSE logBin

\* One turn of the loop over the statements.
Execute ==
  /\ pod # None /\ next # "query"
  /\ Effect(next)
  /\ \/ IF next = "logOn"
        THEN ReturnNil
        ELSE /\ next' = Following[next] /\ logBin' = Session(next)
             /\ UNCHANGED <<pod, ensured, cutShort>>
     \/ "sql" \in Faults /\ EndEarly
  /\ UNCHANGED replaced

StatementFails ==
  /\ pod # None /\ "sql" \in Faults
  /\ UNCHANGED <<account, errant, replaced>>
  /\ EndEarly

\* The operator dies, and its connections with it; what the server holds stays.
OperatorDies ==
  /\ pod # None /\ "crash" \in Faults
  /\ UNCHANGED <<account, errant, replaced>>
  /\ EndEarly

Reconnect ==
  /\ pod # None /\ "reconnect" \in Faults
  /\ logBin' = TRUE
  /\ replaced' = replaced \cup {pod}
  /\ UNCHANGED <<account, errant, pod, next, ensured, cutShort>>

Next ==
  \/ \E p \in Pods : Call(p)
  \/ UserExists \/ Execute \/ StatementFails \/ OperatorDies \/ Reconnect

Spec == Init /\ [][Next]_vars

---------------------------------------------------------------------------
\* ensureReplicationUser leaves no trace in the binary log of a pod, also when
\* it ends half-way and is called again: a transaction the group does not
\* know would keep the pod from joining.  The only exception is a pod to which
\* the pool has replaced a connection, and with it the session.
NoErrantTransaction == errant \subseteq replaced

\* gr_client.go: "Ensures a replication user", with a link to the page that
\* lists the privileges it needs: once the call returns nil the user has them.
UserHasPrivileges == \A p \in ensured : account[p] = "granted"

\* The same of every pod on which no call has been cut short between CREATE
\* USER and GRANT, by a failure, a lost answer or the death of the operator:
\* every other early end is made good by the next call.
PrivilegesUnlessCutShort == \A p \in ensured \ cutShort : account[p] = "granted"

===========================================================================

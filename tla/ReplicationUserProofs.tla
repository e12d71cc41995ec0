----------------------- MODULE ReplicationUserProofs -----------------------
(***************************************************************************)
(* What ensureReplicationUser keeps up, for every set of pods and of       *)
(* faults.                                                                 *)
(***************************************************************************)
EXTENDS ReplicationUser, TLAPS

USE RUAssumption

\* Where the loop over the statements is, and what the session and the user
\* look like there, unless a connection was replaced or a call was cut short.
SessionInv ==
  pod # None /\ next \notin {"query", "logOff"} => ~logBin \/ pod \in replaced

UserInv ==
  /\ \A p \in Pods : account[p] = "bare" => p \in cutShort \/ (p = pod /\ next = "grant")
  /\ pod # None /\ next \in {"flush", "logOn"} => account[pod] = "granted"

\* The order of the statements.
LEMMA Order ==
  /\ Following["query"] = "logOff" /\ Following["logOff"] = "create"
  /\ Following["create"] = "grant" /\ Following["grant"] = "flush"
  /\ Following["flush"] = "logOn"
BY DEF Following

\* Every step keeps the types.
LEMMA TypeStep ==
  ASSUME TypeOK, [Next]_vars
  PROVE  TypeOK'
<1>1. ASSUME NEW p \in Pods, Call(p) PROVE TypeOK'
  BY <1>1 DEF TypeOK, Call, Statements
<1>2. CASE UserExists
  <2>1. next' \in Statements
    BY <1>2, Order DEF UserExists, ReturnNil, Statements
  <2> QED
    BY <1>2, <2>1 DEF TypeOK, UserExists, ReturnNil
<1>3. CASE Execute
  <2>1. account' \in [Pods -> Accounts] /\ errant' \subseteq Pods
    BY <1>3 DEF TypeOK, Execute, Effect, Accounts
  <2>2. /\ pod' \in Pods \cup {None} /\ ensured' \subseteq Pods
        /\ cutShort' \subseteq Pods /\ replaced' \subseteq Pods
    BY <1>3 DEF TypeOK, Execute, ReturnNil, EndEarly
  <2>3. next' \in Statements
    BY <1>3, Order DEF TypeOK, Execute, ReturnNil, EndEarly, Statements
  <2>4. logBin' \in BOOLEAN
    BY <1>3 DEF TypeOK, Execute, ReturnNil, EndEarly, Session
  <2> QED
    BY <2>1, <2>2, <2>3, <2>4 DEF TypeOK
<1>4. CASE StatementFails
  BY <1>4 DEF TypeOK, StatementFails, EndEarly, Statements
<1>5. CASE Reconnect
  BY <1>5 DEF TypeOK, Reconnect
<1>6. CASE OperatorDies
  BY <1>6 DEF TypeOK, OperatorDies, EndEarly, Statements
<1>7. CASE UNCHANGED vars
  BY <1>7 DEF TypeOK, vars
<1> QED
  BY <1>1, <1>2, <1>3, <1>4, <1>5, <1>6, <1>7 DEF Next

\* Every variable keeps its type.
LEMMA UserTypeCorrect == Spec => []TypeOK
<1>1. Init => TypeOK
  BY DEF Init, TypeOK, Accounts, Statements
<1> QED
  BY <1>1, TypeStep, PTL DEF Spec

\* None of the statements of ensureReplicationUser reaches the binary log of a
\* pod whose connections were kept, whichever of them fail, wherever the
\* operator dies and however often the call is repeated.
THEOREM NothingLogged == Spec => []NoErrantTransaction
<1> DEFINE I == NoErrantTransaction /\ SessionInv
<1>1. Init => I
  BY DEF Init, NoErrantTransaction, SessionInv
<1>2. TypeOK /\ I /\ [Next]_vars => I'
  <2> SUFFICES ASSUME TypeOK, I, [Next]_vars PROVE I'
    OBVIOUS
  <2>1. ASSUME NEW p \in Pods, Call(p) PROVE I'
    BY <2>1 DEF Call, NoErrantTransaction, SessionInv
  <2>2. CASE UserExists
    BY <2>2, Order DEF UserExists, ReturnNil, NoErrantTransaction, SessionInv
  <2>3. CASE Execute
    <3>1. pod # None /\ (next = "logOff" \/ ~logBin \/ pod \in replaced)
      BY <2>3 DEF Execute, SessionInv
    <3>2. errant' \subseteq replaced /\ replaced' = replaced
      BY <2>3, <3>1 DEF Execute, Effect, NoErrantTransaction
    <3>3. pod' = None \/ (next # "logOn" /\ logBin' = Session(next) /\ pod' = pod)
      BY <2>3 DEF Execute, ReturnNil, EndEarly
    <3>4. SessionInv'
      BY <3>1, <3>2, <3>3 DEF Session, SessionInv
    <3> QED
      BY <3>2, <3>4 DEF NoErrantTransaction
  <2>4. CASE StatementFails
    BY <2>4 DEF StatementFails, EndEarly, NoErrantTransaction, SessionInv
  <2>5. CASE Reconnect
    BY <2>5 DEF Reconnect, NoErrantTransaction, SessionInv
  <2>6. CASE OperatorDies
    BY <2>6 DEF OperatorDies, EndEarly, NoErrantTransaction, SessionInv
  <2>7. CASE UNCHANGED vars
    BY <2>7 DEF vars, NoErrantTransaction, SessionInv
  <2> QED
    BY <2>1, <2>2, <2>3, <2>4, <2>5, <2>6, <2>7 DEF Next
<1>3. I => NoErrantTransaction
  OBVIOUS
<1> QED
  BY <1>1, <1>2, <1>3, UserTypeCorrect, PTL DEF Spec

\* A call that returns nil leaves a user with its privileges, on every pod where
\* no call has ended after CREATE USER took effect and before GRANT did: also
\* when other statements fail, connections are replaced or the operator dies.
THEOREM PrivilegesGranted == Spec => []PrivilegesUnlessCutShort
<1> DEFINE I == PrivilegesUnlessCutShort /\ UserInv
<1>1. Init => I
  BY DEF Init, PrivilegesUnlessCutShort, UserInv
<1>2. TypeOK /\ I /\ [Next]_vars => I'
  <2> SUFFICES ASSUME TypeOK, I, [Next]_vars PROVE I'
    OBVIOUS
  <2>1. ASSUME NEW p \in Pods, Call(p) PROVE I'
    BY <2>1 DEF Call, PrivilegesUnlessCutShort, UserInv, TypeOK
  <2>2. CASE UserExists
    BY <2>2, Order DEF UserExists, ReturnNil, PrivilegesUnlessCutShort, UserInv, TypeOK, Accounts
  <2>3. CASE Execute
    <3>1. pod \in Pods /\ next \in Statements \ {"query"}
      BY <2>3 DEF Execute, TypeOK
    <3>2. /\ account' = [account EXCEPT ![pod] = account'[pod]]
          /\ next = "create" => account'[pod] \in {account[pod], "bare"}
          /\ account[pod] # "none" /\ next # "grant" => account'[pod] = account[pod]
          /\ next = "grant" => account'[pod] = "granted"
          /\ next \notin {"create", "grant"} => account'[pod] = account[pod]
      BY <2>3, <3>1 DEF Execute, Effect, TypeOK
    <3>3. \A p \in Pods : p # pod => account'[p] = account[p]
      BY <3>1, <3>2 DEF TypeOK
    <3>4. \/ next = "logOn" /\ pod' = None /\ ensured' = ensured \cup {pod}
               /\ cutShort' = cutShort
          \/ /\ next # "logOn" /\ next' = Following[next] /\ pod' = pod
             /\ ensured' = ensured /\ cutShort' = cutShort
          \/ /\ pod' = None /\ ensured' = ensured
             /\ cutShort' = IF account'[pod] = "bare" THEN cutShort \cup {pod} ELSE cutShort
      BY <2>3 DEF Execute, ReturnNil, EndEarly
    <3>5. \A p \in ensured \ cutShort : account'[p] = "granted"
      BY <3>1, <3>2, <3>3 DEF PrivilegesUnlessCutShort, TypeOK
    <3>6. PrivilegesUnlessCutShort'
      BY <3>1, <3>2, <3>4, <3>5 DEF PrivilegesUnlessCutShort, UserInv
    <3>7. UserInv'
      BY <3>1, <3>2, <3>3, <3>4, Order DEF UserInv, TypeOK, Statements, Accounts
    <3> QED
      BY <3>6, <3>7
  <2>4. CASE StatementFails
    BY <2>4 DEF StatementFails, EndEarly, PrivilegesUnlessCutShort, UserInv, TypeOK
  <2>5. CASE Reconnect
    BY <2>5 DEF Reconnect, PrivilegesUnlessCutShort, UserInv
  <2>6. CASE OperatorDies
    BY <2>6 DEF OperatorDies, EndEarly, PrivilegesUnlessCutShort, UserInv, TypeOK
  <2>7. CASE UNCHANGED vars
    BY <2>7 DEF vars, PrivilegesUnlessCutShort, UserInv
  <2> QED
    BY <2>1, <2>2, <2>3, <2>4, <2>5, <2>6, <2>7 DEF Next
<1>3. I => PrivilegesUnlessCutShort
  OBVIOUS
<1> QED
  BY <1>1, <1>2, <1>3, UserTypeCorrect, PTL DEF Spec

===========================================================================

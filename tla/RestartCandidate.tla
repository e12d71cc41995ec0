------------------------- MODULE RestartCandidate -------------------------
(***************************************************************************)
(* The choice of the pod that forms the group again after every member has *)
(* gone: GTIDSets, superset and PickRestartCandidate of                    *)
(* internal/controller/mysql/groupreplication/gr_client.go, fed by the     *)
(* loop of collectGroupInfo in internal/controller/group_replication.go.   *)
(*                                                                         *)
(* A GTID set is a set of transactions, so that GTID_SUBTRACT is set       *)
(* difference.  The sets of the pods are arbitrary: what a member had      *)
(* executed and received when it died depends on MySQL, not on this code.  *)
(* The informer lists the pods in no order, and pods that are not ready    *)
(* are skipped, so collectGroupInfo yields the pods in any order and any   *)
(* subset of them.                                                         *)
(***************************************************************************)
EXTENDS Naturals, FiniteSets, Sequences

CONSTANTS
  N,      \* spec.replicas
  Txns,   \* transactions
  None    \* no candidate

ASSUME RCAssumption == N \in Nat \ {0} /\ None \notin 0..(N - 1)

Pods == 0..(N - 1)

GTIDSets == [executed : SUBSET Txns, certified : SUBSET Txns]

VARIABLES
  sets,       \* sets[p]: @@GLOBAL.GTID_EXECUTED and received_transaction_set of p
  infos,      \* the pods collected so far, in list order
  candidate   \* what PickRestartCandidate returned

vars == <<sets, infos, candidate>>

TypeOK ==
  /\ sets \in [Pods -> GTIDSets]
  /\ infos \in Seq(Pods)
  /\ candidate \in Pods \cup {None}

Init ==
  /\ sets \in [Pods -> GTIDSets]
  /\ infos = <<>>
  /\ candidate = None

---------------------------------------------------------------------------
\* Mutant of Superset: only the executed sets are compared.
SupersetExecuted(a, b) == sets[b].executed \ sets[a].executed = {}

\* superset: nothing of other is left after subtracting candidate, in each of
\* the two sets on its own.
Superset(a, b) ==
  /\ sets[b].executed \ sets[a].executed = {}
  /\ sets[b].certified \ sets[a].certified = {}

\* The outer loop's test of one entry: the inner loop skips the entry itself.
IsSuperset(list, i) ==
  \A j \in DOMAIN list : list[j] = list[i] \/ Superset(list[i], list[j])

\* Mutant of LowestOrdinal: the list is not sorted.
FirstListed(list) == list[1]

LowestOrdinal(list) ==
  CHOOSE p \in {list[i] : i \in DOMAIN list} : \A j \in DOMAIN list : p <= list[j]

\* The first entry that is a superset of all others, else the first one after
\* sorting by ordinal.
PickRestartCandidate(list) ==
  LET good == {i \in DOMAIN list : IsSuperset(list, i)}
  IN IF good = {} THEN LowestOrdinal(list)
     ELSE list[CHOOSE i \in good : \A j \in good : i <= j]

---------------------------------------------------------------------------
Collected == {infos[i] : i \in DOMAIN infos}

\* One turn of collectGroupInfo on a ready pod that is not ONLINE.
Collect(p) ==
  /\ candidate = None
  /\ p \notin Collected
  /\ infos' = Append(infos, p)
  /\ UNCHANGED <<sets, candidate>>

\* The loop is over; without any information there is nothing to pick from.
Pick ==
  /\ candidate = None
  /\ infos # <<>>
  /\ candidate' = PickRestartCandidate(infos)
  /\ UNCHANGED <<sets, infos>>

Next == Pick \/ \E p \in Pods : Collect(p)

Spec == Init /\ [][Next]_vars

---------------------------------------------------------------------------
HoldsAll(p) ==
  /\ UNION {sets[q].executed : q \in Collected} \subseteq sets[p].executed
  /\ UNION {sets[q].certified : q \in Collected} \subseteq sets[p].certified

\* PickRestartCandidate loses nothing that it could have kept: when one of the
\* collected pods has executed and received all that any of them has, so has
\* the candidate, although each is compared only with one other at a time.
CandidateHoldsAll ==
  candidate # None /\ (\E p \in Collected : HoldsAll(p)) => HoldsAll(candidate)

\* The candidate does not depend on the order of the pod list: another order
\* gives the same pod, or a pod with the same GTID sets.
OrderIrrelevant ==
  candidate # None =>
    \A list \in [DOMAIN infos -> Collected] :
      {list[i] : i \in DOMAIN list} = Collected =>
        sets[PickRestartCandidate(list)] = sets[candidate]

===========================================================================

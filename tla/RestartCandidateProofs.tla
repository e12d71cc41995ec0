---------------------- MODULE RestartCandidateProofs ----------------------
(***************************************************************************)
(* PickRestartCandidate keeps everything it can, for every number of pods, *)
(* all GTID sets, every order and every subset of the pods collected.      *)
(***************************************************************************)
EXTENDS RestartCandidate, WellFoundedInduction, TLAPS

USE RCAssumption

\* A nonempty set of indices or of ordinals has a least element.
LEMMA LeastElement ==
  ASSUME NEW T \in SUBSET Nat, T # {}
  PROVE  \E x \in T : \A y \in T : x <= y
<1>1. PICK x \in T : \A y \in T : ~(<<y, x>> \in OpToRel(<, Nat))
  BY NatLessThanWellFounded, WFMin
<1>2. \A y \in T : ~(y < x)
  BY <1>1 DEF OpToRel
<1> QED
  BY <1>2

\* The outer loop of PickRestartCandidate finds a superset when there is one.
LEMMA PickIsSuperset ==
  ASSUME NEW list \in Seq(Pods), NEW i \in DOMAIN list, IsSuperset(list, i)
  PROVE  \E k \in DOMAIN list : PickRestartCandidate(list) = list[k] /\ IsSuperset(list, k)
<1> DEFINE good == {j \in DOMAIN list : IsSuperset(list, j)}
           k == CHOOSE j \in good : \A l \in good : j <= l
<1>1. good \in SUBSET Nat /\ good # {}
  OBVIOUS
<1>2. \E j \in good : \A l \in good : j <= l
  <2> HIDE DEF good
  <2> QED BY <1>1, LeastElement
<1>3. k \in good
  <2> HIDE DEF good
  <2> QED BY <1>2
<1>4. PickRestartCandidate(list) = list[k]
  BY <1>1 DEF PickRestartCandidate
<1> QED
  BY <1>3, <1>4

\* The fallback of PickRestartCandidate is the least ordinal of the list.
LEMMA LowestOfAll ==
  ASSUME NEW list \in Seq(Pods), list # <<>>
  PROVE  /\ LowestOrdinal(list) \in {list[i] : i \in DOMAIN list}
         /\ \A j \in DOMAIN list : LowestOrdinal(list) <= list[j]
<1> DEFINE S == {list[i] : i \in DOMAIN list}
<1>1. S \in SUBSET Nat
  BY DEF Pods
<1>2. list[1] \in S
  <2>1. Len(list) # 0 /\ Len(list) \in Nat
    OBVIOUS
  <2>2. 1 \in DOMAIN list
    BY <2>1
  <2> QED BY <2>2
<1>3. \E p \in S : \A q \in S : p <= q
  <2> HIDE DEF S
  <2> QED BY <1>1, <1>2, LeastElement
<1>4. \E p \in S : \A j \in DOMAIN list : p <= list[j]
  BY <1>3
<1> QED
  BY <1>4 DEF LowestOrdinal

\* Whatever it returns is one of the pods it was given.
LEMMA PickType ==
  ASSUME NEW list \in Seq(Pods), list # <<>>
  PROVE  PickRestartCandidate(list) \in Pods
<1>1. CASE \E i \in DOMAIN list : IsSuperset(list, i)
  BY <1>1, PickIsSuperset
<1>2. CASE ~ \E i \in DOMAIN list : IsSuperset(list, i)
  <2>1. PickRestartCandidate(list) = LowestOrdinal(list)
    BY <1>2 DEF PickRestartCandidate
  <2> QED BY <2>1, LowestOfAll
<1> QED
  BY <1>1, <1>2

PickInv ==
  /\ TypeOK
  /\ candidate # None => infos # <<>> /\ candidate = PickRestartCandidate(infos)

\* The candidate is always what PickRestartCandidate returns for infos.
LEMMA PickInvariant == Spec => []PickInv
<1>1. Init => PickInv
  BY DEF Init, PickInv, TypeOK
<1>2. PickInv /\ [Next]_vars => PickInv'
  <2> SUFFICES ASSUME PickInv, [Next]_vars PROVE PickInv'
      OBVIOUS
  <2>1. CASE Pick
    <3>1. PickRestartCandidate(infos) \in Pods
      BY <2>1, PickType DEF Pick, PickInv, TypeOK
    <3>2. PickRestartCandidate(infos)' = PickRestartCandidate(infos)
      BY <2>1 DEF Pick, PickRestartCandidate, LowestOrdinal, IsSuperset, Superset
    <3> QED BY <2>1, <3>1, <3>2 DEF Pick, PickInv, TypeOK
  <2>2. ASSUME NEW p \in Pods, Collect(p) PROVE PickInv'
    BY <2>2 DEF Collect, PickInv, TypeOK
  <2>3. CASE UNCHANGED vars
    <3>1. PickRestartCandidate(infos)' = PickRestartCandidate(infos)
      BY <2>3 DEF vars, PickRestartCandidate, LowestOrdinal, IsSuperset, Superset
    <3> QED BY <2>3, <3>1 DEF vars, PickInv, TypeOK
  <2> QED BY <2>1, <2>2, <2>3 DEF Next
<1> QED
  BY <1>1, <1>2, PTL DEF Spec

\* When some collected pod has executed and received all that any of them has,
\* so has the candidate of PickRestartCandidate.
THEOREM NothingLost == Spec => []CandidateHoldsAll
<1>1. PickInv => CandidateHoldsAll
  <2> SUFFICES ASSUME PickInv, candidate # None, NEW p \in Collected, HoldsAll(p)
               PROVE  HoldsAll(candidate)
      BY DEF CandidateHoldsAll
  <2>1. infos \in Seq(Pods) /\ candidate = PickRestartCandidate(infos)
    BY DEF PickInv, TypeOK
  <2>2. PICK i \in DOMAIN infos : infos[i] = p
    BY DEF Collected
  <2>3. IsSuperset(infos, i)
    BY <2>2 DEF IsSuperset, Superset, HoldsAll, Collected
  <2>4. PICK k \in DOMAIN infos : candidate = infos[k] /\ IsSuperset(infos, k)
    BY <2>1, <2>2, <2>3, PickIsSuperset
  <2>5. \A q \in Collected : /\ sets[q].executed \subseteq sets[candidate].executed
                             /\ sets[q].certified \subseteq sets[candidate].certified
    BY <2>4 DEF IsSuperset, Superset, Collected
  <2> QED BY <2>5 DEF HoldsAll
<1> QED
  BY <1>1, PickInvariant, PTL


\* What the test of the outer loop means for the pods of the list.
LEMMA SupersetOfAll ==
  ASSUME NEW list \in Seq(Pods), NEW i \in DOMAIN list, IsSuperset(list, i)
  PROVE  \A j \in DOMAIN list : /\ sets[list[j]].executed \subseteq sets[list[i]].executed
                                /\ sets[list[j]].certified \subseteq sets[list[i]].certified
BY DEF IsSuperset, Superset

\* Two lists of the same pods: either some pod of them is a superset of all, and
\* both picks are, or none is, and both picks are the lowest ordinal.
LEMMA SamePods ==
  ASSUME TypeOK, NEW a \in Seq(Pods), NEW b \in Seq(Pods), a # <<>>, b # <<>>,
         {a[i] : i \in DOMAIN a} = {b[i] : i \in DOMAIN b}
  PROVE  sets[PickRestartCandidate(a)] = sets[PickRestartCandidate(b)]
<1>1. \A i \in DOMAIN a : \E j \in DOMAIN b : b[j] = a[i]
  OBVIOUS
<1>2. \A j \in DOMAIN b : \E i \in DOMAIN a : a[i] = b[j]
  OBVIOUS
<1>3. \A i \in DOMAIN a, j \in DOMAIN b : a[i] = b[j] => (IsSuperset(a, i) <=> IsSuperset(b, j))
  BY <1>1, <1>2 DEF IsSuperset
<1>4. CASE \E i \in DOMAIN a : IsSuperset(a, i)
  <2>1. PICK k \in DOMAIN a : PickRestartCandidate(a) = a[k] /\ IsSuperset(a, k)
    BY <1>4, PickIsSuperset
  <2>2. \E j \in DOMAIN b : IsSuperset(b, j)
    BY <1>1, <1>3, <2>1
  <2>3. PICK l \in DOMAIN b : PickRestartCandidate(b) = b[l] /\ IsSuperset(b, l)
    BY <2>2, PickIsSuperset
  <2>4. /\ sets[b[l]].executed \subseteq sets[a[k]].executed
        /\ sets[b[l]].certified \subseteq sets[a[k]].certified
    BY <1>2, <2>1, <2>3, SupersetOfAll
  <2>5. /\ sets[a[k]].executed \subseteq sets[b[l]].executed
        /\ sets[a[k]].certified \subseteq sets[b[l]].certified
    BY <1>1, <2>1, <2>3, SupersetOfAll
  <2>6. sets[a[k]] \in GTIDSets /\ sets[b[l]] \in GTIDSets
    BY DEF TypeOK
  <2>7. sets[a[k]].executed = sets[b[l]].executed /\ sets[a[k]].certified = sets[b[l]].certified
    BY <2>4, <2>5
  <2>8. sets[a[k]] = sets[b[l]]
    BY <2>6, <2>7 DEF GTIDSets
  <2> QED BY <2>1, <2>3, <2>8
<1>5. CASE ~ \E i \in DOMAIN a : IsSuperset(a, i)
  <2>1. ~ \E j \in DOMAIN b : IsSuperset(b, j)
    BY <1>2, <1>3, <1>5
  <2>2. PickRestartCandidate(a) = LowestOrdinal(a) /\ PickRestartCandidate(b) = LowestOrdinal(b)
    BY <1>5, <2>1 DEF PickRestartCandidate
  <2>3. LowestOrdinal(a) <= LowestOrdinal(b) /\ LowestOrdinal(b) <= LowestOrdinal(a)
    BY LowestOfAll
  <2>4. LowestOrdinal(a) \in Nat /\ LowestOrdinal(b) \in Nat
    BY LowestOfAll DEF Pods
  <2> QED BY <2>2, <2>3, <2>4
<1> QED
  BY <1>4, <1>5

\* Whatever order the cache lists the pods in, PickRestartCandidate returns a
\* pod with the same GTID sets.
THEOREM AnyOrder == Spec => []OrderIrrelevant
<1>1. PickInv => OrderIrrelevant
  <2> SUFFICES ASSUME PickInv, candidate # None, NEW list \in [DOMAIN infos -> Collected],
                      {list[i] : i \in DOMAIN list} = Collected
               PROVE  sets[PickRestartCandidate(list)] = sets[candidate]
      BY DEF OrderIrrelevant
  <2>1. infos \in Seq(Pods) /\ infos # <<>> /\ candidate = PickRestartCandidate(infos) /\ TypeOK
    BY DEF PickInv, TypeOK
  <2>2. Collected \subseteq Pods /\ DOMAIN infos = 1..Len(infos) /\ Len(infos) \in Nat
    BY <2>1 DEF Collected
  <2>3. list \in Seq(Pods) /\ Len(list) = Len(infos)
    BY <2>2
  <2>4. list # <<>>
    BY <2>1, <2>3
  <2> QED BY <2>1, <2>3, <2>4, SamePods DEF Collected
<1> QED
  BY <1>1, PickInvariant, PTL

===========================================================================

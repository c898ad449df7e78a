-------------------------- MODULE ActionDagProofs --------------------------
(***************************************************************************)
(* Proofs about the topological sort, for plans of every size.             *)
(***************************************************************************)
EXTENDS ActionDag, PlanGraphProofs

LEMMA SortInit == Init => SortingInv
<1> SUFFICES ASSUME Init
             PROVE  SortingInv
  OBVIOUS
<1>1. TypeOK
  BY NumActionsAssumption DEF Init, TypeOK
<1>2. WalkInv
  BY DEF Init, WalkInv, Errors
<1>3. ordered \in Seq(Actions) /\ Len(ordered) = 0
  BY DEF Init
<1>4. SortInv
  BY <1>3 DEF Init, SortInv, Lists, Taken
<1>5. QED
  BY <1>1, <1>2, <1>4 DEF SortingInv

LEMMA WalkKeeps == SortingInv /\ (Reject \/ Walk) => SortingInv'
<1> SUFFICES ASSUME SortingInv, Reject \/ Walk
             PROVE  SortingInv'
  OBVIOUS
<1> USE DEF SortingInv
<1>1. /\ pc = "Walk" /\ pc' \in {"Walk", "InvariantViolation", "InvalidDependencyReference"}
      /\ UNCHANGED <<deps, mislabelled, ready, ordered>>
      /\ walked < NumActions /\ walked \in Nat /\ NumActions \in Nat
  BY NumActionsAssumption DEF Reject, Walk, TypeOK, Complaints
<1>2. SortInv'
  BY <1>1 DEF SortInv, Taken, Lists
<1>3. CASE Reject
  <2>1. pc' \in Complaints(walked + 1) /\ UNCHANGED <<walked, indegree, dependents>> /\ pc' # "Walk"
    BY <1>1, <1>3 DEF Reject, Complaints
  <2>2. TypeOK'
    BY <1>1, <2>1 DEF TypeOK, Errors
  <2>3. WalkInv'
    BY <1>1, <2>1 DEF WalkInv, Complaints
  <2>4. QED
    BY <1>2, <2>2, <2>3
<1>4. CASE Walk
  <2> DEFINE b == walked + 1
  <2>1. /\ pc' = "Walk" /\ Complaints(b) = {} /\ walked' = b
        /\ indegree' = [indegree EXCEPT ![b] = Cardinality(deps[b])]
        /\ dependents' = [d \in Actions |-> IF d \in deps[b] THEN dependents[d] \cup {b}
                                           ELSE dependents[d]]
    BY <1>1, <1>4 DEF Walk
  <2>2. b \in Actions /\ b \notin 1..walked /\ 1..b = (1..walked) \cup {b}
    BY <1>1 DEF Actions
  <2>3. deps[b] \in SUBSET Actions
    <3>1. deps \in [Actions -> SUBSET (Actions \cup {Unknown})]
      BY InputsAssumption DEF TypeOK
    <3>2. deps[b] \in SUBSET (Actions \cup {Unknown})
      BY <2>2, <3>1
    <3>3. Unknown \notin deps[b]
      BY <2>1 DEF Complaints
    <3>4. QED
      BY <3>2, <3>3
  <2>4. TypeOK'
    <3>1. Cardinality(deps[b]) \in Nat
      BY <2>3, SubsetsFinite
    <3>2. walked' \in 0..NumActions
      BY <1>1, <2>1
    <3>3. QED
      BY <1>1, <2>1, <2>2, <3>1, <3>2 DEF TypeOK
  <2>5. \A a \in Actions : dependents'[a] = {d \in 1..b : a \in deps[d]}
    <3> TAKE a \in Actions
    <3>1. dependents[a] = {d \in 1..walked : a \in deps[d]}
      BY DEF WalkInv
    <3>2. dependents'[a] = IF a \in deps[b] THEN dependents[a] \cup {b} ELSE dependents[a]
      BY <2>1
    <3>3. QED
      BY <2>2, <3>1, <3>2
  <2>6. \A a \in 1..b : indegree'[a] = Cardinality(deps[a])
    <3> TAKE a \in 1..b
    <3>1. 1..walked \subseteq Actions
      BY <1>1 DEF Actions
    <3>2. CASE a = b
      BY <2>1, <2>2, <3>2 DEF TypeOK
    <3>3. CASE a \in 1..walked
      BY <1>1, <2>1, <2>2, <3>1, <3>3 DEF TypeOK, WalkInv
    <3>4. QED
      BY <2>2, <3>2, <3>3
  <2>7. \A a \in 1..b : Complaints(a)' = {}
    <3> TAKE a \in 1..b
    <3>1. Complaints(a) = {}
      BY <2>1, <2>2 DEF WalkInv
    <3>2. QED
      BY <1>1, <3>1 DEF Complaints
  <2>8. WalkInv'
    BY <1>1, <2>1, <2>5, <2>6, <2>7 DEF WalkInv, Errors
  <2>9. QED
    BY <1>2, <2>4, <2>8
<1>5. QED
  BY <1>3, <1>4

(* Once the walk is through, dependencies are actions.                     *)
LEMMA Walked ==
  ASSUME SortingInv, walked = NumActions
  PROVE  /\ WellFormed
         /\ \A a \in Actions : deps[a] \in SUBSET Actions
         /\ \A a \in Actions : dependents[a] = {d \in Actions : a \in deps[d]}
<1>1. \A a \in Actions : Complaints(a) = {} /\ deps[a] \subseteq Actions \cup {Unknown}
  BY InputsAssumption DEF SortingInv, WalkInv, TypeOK, Actions
<1>2. \A a \in Actions : a \notin mislabelled /\ a \notin deps[a] /\ Unknown \notin deps[a]
  BY <1>1 DEF Complaints
<1>3. WellFormed
  BY <1>1, <1>2 DEF WellFormed, SortingInv, TypeOK
<1>4. \A a \in Actions : dependents[a] = {d \in Actions : a \in deps[d]}
  BY DEF SortingInv, WalkInv, Actions
<1>5. QED
  BY <1>1, <1>2, <1>3, <1>4

LEMMA BeginKeeps == SortingInv /\ BeginSort => SortingInv'
<1> SUFFICES ASSUME SortingInv, BeginSort
             PROVE  SortingInv'
  OBVIOUS
<1> USE DEF SortingInv
<1>1. /\ pc = "Walk" /\ pc' = "Sort" /\ walked = NumActions /\ walked' = walked
      /\ ready' \in InPlanOrder({a \in Actions : indegree[a] = 0})
      /\ UNCHANGED <<deps, mislabelled, walked, indegree, dependents, ordered>>
  BY DEF BeginSort
<1>2. Taken = {} /\ Taken' = {}
  BY <1>1 DEF WalkInv, Taken
<1>3. \A a \in Actions : indegree[a] = Cardinality(deps[a]) /\ (indegree[a] = 0 <=> deps[a] = {})
  <2> TAKE a \in Actions
  <2>1. deps[a] \in SUBSET Actions /\ indegree[a] = Cardinality(deps[a])
    BY <1>1, Walked DEF WalkInv, Actions
  <2>2. QED
    BY <2>1, SubsetsFinite, FS_EmptySet
<1>4. Lists(ready', {a \in Actions : indegree[a] = 0})
  BY <1>1, InPlanOrderLists
<1>5. {a \in Actions : indegree[a] = 0} = {a \in Actions \ Taken' : deps[a] \subseteq Taken'}
  BY <1>2, <1>3
<1>6. TypeOK'
  BY <1>1, <1>4 DEF TypeOK, Lists
<1>7. WalkInv'
  BY <1>1 DEF WalkInv, Complaints, Errors
<1>8. SortInv'
  <2>1. \A a \in Actions : deps[a] \ Taken' = deps[a]
    BY <1>2
  <2>2. \A a \in Actions : indegree'[a] = Cardinality(deps'[a] \ Taken')
    BY <1>1, <1>3, <2>1
  <2>3. Lists(ready', {a \in Actions \ Taken' : deps'[a] \subseteq Taken'})
    BY <1>1, <1>4, <1>5
  <2>4. Lists(ordered', Taken')
    BY <1>1, <1>2 DEF SortInv
  <2>5. QED
    BY <1>1, <2>2, <2>3, <2>4 DEF SortInv
<1>9. QED
  BY <1>6, <1>7, <1>8

LEMMA TakeKeeps == SortingInv /\ Take => SortingInv'
<1> SUFFICES ASSUME SortingInv, Take
             PROVE  SortingInv'
  OBVIOUS
<1> USE DEF SortingInv
<1> DEFINE Eligible == {d \in Actions \ Taken : deps[d] \subseteq Taken}
<1>1. PICK a : a = Head(ready)
  OBVIOUS
<1>2. /\ pc = "Sort" /\ pc' = "Sort" /\ walked = NumActions /\ ready # <<>>
      /\ ordered' = Append(ordered, a)
      /\ indegree' = CountDown(indegree, dependents[a])
      /\ UNCHANGED <<deps, mislabelled, walked, dependents>>
  BY <1>1 DEF Take, WalkInv
<1> DEFINE R == {d \in dependents[a] : indegree'[d] = 0}
<1>3. PICK released \in InPlanOrder(R) : ready' = Tail(ready) \o released
  BY <1>1 DEF Take
<1>4. Lists(ready, Eligible) /\ Lists(ordered, Taken) /\ Taken \subseteq Actions
  BY <1>2, ListsLength DEF SortInv
<1>5. a \in Eligible /\ Lists(Tail(ready), Eligible \ {a})
  BY <1>1, <1>2, <1>4, ListsTail
<1>6. a \in Actions /\ a \notin Taken /\ deps[a] \subseteq Taken
  BY <1>5
<1>7. \A d \in Actions : deps[d] \in SUBSET Actions /\ (d \in dependents[a] <=> a \in deps[d])
  BY <1>2, <1>6, Walked
<1>8. /\ Lists(ordered', Taken \cup {a})
      /\ Len(ordered') = Len(ordered) + 1 /\ Len(ordered) \in Nat
      /\ \A i \in 1..Len(ordered) : ordered'[i] = ordered[i]
      /\ ordered'[Len(ordered) + 1] = a
  BY <1>2, <1>4, <1>6, ListsAppend, LenProperties DEF TypeOK
<1>9. Taken' = Taken \cup {a}
  BY <1>8 DEF Lists, Taken
<1>10. ASSUME NEW d \in Actions
       PROVE  /\ indegree'[d] = Cardinality(deps[d] \ Taken')
              /\ indegree'[d] \in Nat
              /\ indegree'[d] = 0 <=> deps[d] \subseteq Taken'
  <2> DEFINE W == deps[d] \ Taken
  <2>1. W \in SUBSET Actions /\ deps[d] \ Taken' = W \ {a} /\ (a \in W <=> a \in deps[d])
    BY <1>6, <1>7, <1>9, <1>10
  <2>2. indegree[d] = Cardinality(W)
    BY <1>2, <1>10 DEF SortInv
  <2>3. indegree'[d] = IF a \in W THEN SaturatingPred(Cardinality(W)) ELSE Cardinality(W)
    BY <1>2, <1>7, <1>10, <2>1, <2>2 DEF CountDown
  <2>4. /\ Cardinality(W \ {a}) \in Nat
        /\ Cardinality(W \ {a}) = IF a \in W THEN SaturatingPred(Cardinality(W))
                                 ELSE Cardinality(W)
        /\ Cardinality(W \ {a}) = 0 <=> W \ {a} = {}
    <3> HIDE DEF W
    <3>1. W \in SUBSET Actions
      BY <2>1
    <3>2. QED
      BY <3>1, CountWithout
  <2>5. indegree'[d] = Cardinality(W \ {a})
    BY <2>3, <2>4
  <2>6. QED
    BY <2>1, <2>4, <2>5
<1>11. \A i \in 1..Len(ordered) : deps[ordered[i]] \subseteq Taken /\ ordered[i] # a
  BY <1>4, <1>6 DEF SortInv, Taken
<1>12. R \in SUBSET Actions /\ R \cap (Eligible \ {a}) = {}
  <2>1. R \subseteq Actions
    BY <1>6 DEF TypeOK
  <2>2. \A d \in R : ~(deps[d] \subseteq Taken)
    BY <1>6, <1>7, <2>1
  <2>3. QED
    BY <2>1, <2>2
<1>13. (Eligible \ {a}) \cup R = {d \in Actions \ Taken' : deps[d] \subseteq Taken'}
  <2>1. \A d \in Taken : deps[d] \subseteq Taken
    BY <1>11 DEF Taken
  <2>2. \A d \in R : d \in Actions /\ a \in deps[d] /\ deps[d] \subseteq Taken'
    BY <1>7, <1>10, <1>12
  <2>3. \A d \in R : d \notin Taken'
    BY <1>6, <1>9, <2>1, <2>2
  <2>4. \A d \in Actions \ Taken' : deps[d] \subseteq Taken' => d \in Eligible \ {a} \/ d \in R
    BY <1>7, <1>9, <1>10
  <2>5. \A d \in Eligible \ {a} : d \in Actions \ Taken' /\ deps[d] \subseteq Taken'
    BY <1>9
  <2>6. QED
    BY <2>2, <2>3, <2>4, <2>5
<1>14. Lists(ready', (Eligible \ {a}) \cup R)
  <2>1. Lists(released, R)
    BY <1>3, <1>12, InPlanOrderLists
  <2>2. QED
    BY <1>3, <1>5, <1>12, <2>1, ListsConcat
<1>15. TypeOK'
  <2>1. indegree' = [d \in Actions |-> indegree'[d]]
    BY <1>2 DEF CountDown
  <2>2. indegree' \in [Actions -> Nat]
    BY <1>10, <2>1
  <2>3. ready' \in Seq(Actions) /\ ordered' \in Seq(Actions)
    BY <1>8, <1>14 DEF Lists
  <2>4. QED
    BY <1>2, <2>2, <2>3 DEF TypeOK
<1>16. WalkInv'
  BY <1>2 DEF WalkInv, Complaints, Errors
<1>17. SortInv'
  <2>1. Lists(ordered', Taken')
    BY <1>8, <1>9
  <2>2. ASSUME NEW i \in 1..Len(ordered')
        PROVE  deps[ordered'[i]] \subseteq {ordered'[j] : j \in 1..(i - 1)}
    <3>1. CASE i \in 1..Len(ordered)
      <4>1. deps[ordered[i]] \subseteq {ordered[j] : j \in 1..(i - 1)}
        BY <3>1 DEF SortInv
      <4>2. \A j \in 1..(i - 1) : ordered'[j] = ordered[j]
        BY <1>8, <3>1
      <4>3. QED
        BY <1>8, <3>1, <4>1, <4>2
    <3>2. CASE i = Len(ordered) + 1
      <4>1. ordered'[i] = a /\ i - 1 = Len(ordered)
        BY <1>8, <3>2
      <4>2. Taken = {ordered'[j] : j \in 1..(i - 1)}
        BY <1>8, <4>1 DEF Taken
      <4>3. QED
        BY <1>6, <4>1, <4>2
    <3>3. QED
      BY <1>8, <2>2, <3>1, <3>2
  <2>3. \A d \in Actions : indegree'[d] = Cardinality(deps'[d] \ Taken')
    BY <1>2, <1>10
  <2>4. Lists(ready', {d \in Actions \ Taken' : deps'[d] \subseteq Taken'})
    BY <1>2, <1>13, <1>14
  <2>5. QED
    BY <1>2, <2>1, <2>2, <2>3, <2>4 DEF SortInv
<1>18. QED
  BY <1>15, <1>16, <1>17

LEMMA ConcludeKeeps == SortingInv /\ Conclude => SortingInv'
<1> SUFFICES ASSUME SortingInv, Conclude
             PROVE  SortingInv'
  OBVIOUS
<1> USE DEF SortingInv
<1>1. /\ pc = "Sort" /\ ready = <<>> /\ walked = NumActions
      /\ pc' = IF Len(ordered) # NumActions THEN "Cycle" ELSE "Ok"
      /\ UNCHANGED <<deps, mislabelled, walked, indegree, dependents, ready, ordered>>
  BY DEF Conclude, WalkInv
<1>2. Taken' = Taken
  BY <1>1 DEF Taken
<1>3. \A a \in Actions \ Taken : ~(deps[a] \subseteq Taken)
  <2>1. {a \in Actions \ Taken : deps[a] \subseteq Taken} = {}
    BY <1>1 DEF SortInv, Lists
  <2>2. QED
    BY <2>1
<1>4. Len(ordered) = NumActions <=> Taken = Actions
  <2>1. Taken \in SUBSET Actions /\ Cardinality(Taken) = Len(ordered)
    BY ListsLength DEF SortInv
  <2>2. IsFiniteSet(Actions) /\ Cardinality(Actions) = NumActions
    <3>1. Cardinality(Actions) = IF 1 > NumActions THEN 0 ELSE NumActions - 1 + 1
      BY FS_Interval, NumActionsAssumption DEF Actions
    <3>2. QED
      BY <3>1, SubsetsFinite, NumActionsAssumption
  <2>3. QED
    BY <2>1, <2>2, FS_Subset
<1>5. TypeOK'
  BY <1>1 DEF TypeOK, Errors
<1>6. WalkInv'
  BY <1>1 DEF WalkInv, Complaints, Errors
<1>7. SortInv'
  BY <1>1, <1>2, <1>3, <1>4 DEF SortInv
<1>8. QED
  BY <1>5, <1>6, <1>7

-----------------------------------------------------------------------------

(* The invariant of the sort holds in every reachable state.               *)
THEOREM SortingInvariant == Spec => []SortingInv
<1>1. SortingInv /\ [Next]_vars => SortingInv'
  <2> SUFFICES ASSUME SortingInv, [Next]_vars
               PROVE  SortingInv'
    OBVIOUS
  <2>1. CASE Sort
    BY <2>1, WalkKeeps, BeginKeeps, TakeKeeps, ConcludeKeeps DEF Sort
  <2>2. CASE UNCHANGED vars
    <3>1. TypeOK' /\ WalkInv'
      BY <2>2 DEF SortingInv, TypeOK, WalkInv, Complaints, vars
    <3>2. SortInv'
      BY <2>2 DEF SortingInv, SortInv, Lists, Taken, vars
    <3>3. QED
      BY <3>1, <3>2 DEF SortingInv
  <2>3. QED
    BY <2>1, <2>2 DEF Next, Returned
<1>2. QED
  BY SortInit, <1>1, PTL DEF Spec

(* Whatever the size of the plan, the order returned lists every action    *)
(* once, after all it depends on.                                          *)
THEOREM OrderCorrect == Spec => []OrderIsTopological
<1>1. SortingInv => OrderIsTopological
  BY DEF SortingInv, SortInv, OrderIsTopological
<1>2. QED
  BY SortingInvariant, <1>1, PTL

(* Whatever the size of the plan, it is accepted exactly when it is well   *)
(* formed and has no cycle.                                                *)
THEOREM AcceptanceIsExact == Spec => []AcceptsExactlyDags
<1>1. SortingInv => AcceptsExactlyDags
  <2> SUFFICES ASSUME SortingInv
               PROVE  AcceptsExactlyDags
    OBVIOUS
  <2>1. ASSUME pc = "Ok"
        PROVE  WellFormed /\ Acyclic(deps)
    <3>1. WellFormed
      BY <2>1, Walked DEF SortingInv, WalkInv
    <3>2. ASSUME NEW S \in SUBSET Actions, S # {}
          PROVE  \E a \in S : deps[a] \cap S = {}
      <4> DEFINE P == {i \in 1..Len(ordered) : ordered[i] \in S}
      <4>1. Taken = Actions /\ Len(ordered) \in Nat
        BY <2>1, LenProperties DEF SortingInv, SortInv, TypeOK
      <4>2. P \in SUBSET Nat /\ P # {}
        BY <3>2, <4>1 DEF Taken
      <4>3. PICK i \in P : \A j \in P : ~(j < i)
        BY <4>2, LeastPosition
      <4>4. deps[ordered[i]] \subseteq {ordered[j] : j \in 1..(i - 1)}
        BY <4>3 DEF SortingInv, SortInv
      <4>5. \A j \in 1..(i - 1) : ordered[j] \notin S
        BY <4>1, <4>3
      <4>6. QED
        BY <4>3, <4>4, <4>5
    <3>3. QED
      BY <3>1, <3>2 DEF Acyclic
  <2>2. ASSUME pc = "Cycle"
        PROVE  WellFormed /\ ~Acyclic(deps)
    <3>1. WellFormed /\ \A a \in Actions : deps[a] \in SUBSET Actions
      BY <2>2, Walked DEF SortingInv, WalkInv
    <3>2. Actions \ Taken # {} /\ \A a \in Actions \ Taken : ~(deps[a] \subseteq Taken)
      BY <2>2, ListsLength DEF SortingInv, SortInv
    <3>3. \A a \in Actions \ Taken : deps[a] \cap (Actions \ Taken) # {}
      BY <3>1, <3>2
    <3>4. QED
      BY <3>1, <3>2, <3>3 DEF Acyclic
  <2>3. ASSUME pc \in Errors \ {"Cycle"}
        PROVE  ~WellFormed
    <3> DEFINE a == walked + 1
    <3>1. a \in Actions /\ Complaints(a) # {}
      BY <2>3, NumActionsAssumption DEF SortingInv, WalkInv, TypeOK, Actions
    <3>2. a \in mislabelled \/ a \in deps[a] \/ Unknown \in deps[a]
      BY <3>1 DEF Complaints
    <3>3. QED
      BY <3>1, <3>2 DEF WellFormed, Unknown, Actions
  <2>4. QED
    BY <2>1, <2>2, <2>3 DEF AcceptsExactlyDags, Errors
<1>2. QED
  BY SortingInvariant, <1>1, PTL
=============================================================================

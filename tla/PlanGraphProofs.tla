-------------------------- MODULE PlanGraphProofs --------------------------
(***************************************************************************)
(* Lemmas about queues of actions and dependency counters, used by the     *)
(* proofs about the sorts and the executor.                                *)
(***************************************************************************)
EXTENDS PlanGraph, TLAPS, FiniteSetTheorems, SequenceTheorems, WellFoundedInduction

(* Every set of actions is finite, so it has a cardinality.                *)
LEMMA SubsetsFinite ==
  ASSUME NEW S \in SUBSET Actions
  PROVE  IsFiniteSet(S) /\ Cardinality(S) \in Nat
<1>1. IsFiniteSet(Actions)
  BY FS_Interval, NumActionsAssumption DEF Actions
<1>2. QED
  BY <1>1, FS_Subset, FS_CardinalityType

(* InPlanOrder(S) holds sequences that list S, each member once.           *)
LEMMA InPlanOrderLists ==
  ASSUME NEW S \in SUBSET Actions, NEW s \in InPlanOrder(S)
  PROVE  Lists(s, S)
<1> DEFINE n == Cardinality(S)
<1>1. n \in Nat
  BY SubsetsFinite
<1>2. /\ s \in [1..n -> S]
      /\ \A i, j \in 1..n : i < j => s[i] < s[j]
      /\ S \subseteq {s[i] : i \in 1..n}
  BY DEF InPlanOrder
<1>3. s \in Seq(Actions) /\ Len(s) = n
  BY <1>1, <1>2
<1>4. \A i, j \in 1..n : s[i] = s[j] => i = j
  <2> SUFFICES ASSUME NEW i \in 1..n, NEW j \in 1..n, s[i] = s[j], i # j
               PROVE  FALSE
    OBVIOUS
  <2>1. i < j \/ j < i
    BY <1>1
  <2>2. s[i] < s[j] \/ s[j] < s[i]
    BY <1>2, <2>1
  <2>3. s[i] \in Actions /\ s[j] \in Actions
    BY <1>2
  <2>4. s[i] \in Int /\ s[j] \in Int
    BY <2>3 DEF Actions
  <2>5. QED
    BY <2>2, <2>4
<1>5. S = {s[i] : i \in 1..n}
  BY <1>2
<1>6. QED
  BY <1>3, <1>4, <1>5 DEF Lists

(* Popping the front of a queue takes exactly that member out of it.       *)
LEMMA ListsTail ==
  ASSUME NEW q, NEW S, Lists(q, S), q # <<>>
  PROVE  /\ Head(q) \in S
         /\ Lists(Tail(q), S \ {Head(q)})
<1>1. /\ q \in Seq(Actions)
      /\ Len(q) \in Nat \ {0}
      /\ Head(q) = q[1]
      /\ Tail(q) \in Seq(Actions)
      /\ Len(Tail(q)) = Len(q) - 1
      /\ \A i \in 1..Len(Tail(q)) : Tail(q)[i] = q[i + 1]
  BY EmptySeq, HeadTailProperties DEF Lists
<1>2. Head(q) \in S
  BY <1>1 DEF Lists
<1>3. \A i, j \in 1..Len(Tail(q)) : Tail(q)[i] = Tail(q)[j] => i = j
  BY <1>1 DEF Lists
<1>4. S \ {Head(q)} = {Tail(q)[i] : i \in 1..Len(Tail(q))}
  <2>1. ASSUME NEW x \in S \ {Head(q)}
        PROVE  \E i \in 1..Len(Tail(q)) : x = Tail(q)[i]
    <3>1. PICK k \in 1..Len(q) : x = q[k]
      BY DEF Lists
    <3>2. k # 1
      BY <1>1, <3>1
    <3>3. k - 1 \in 1..Len(Tail(q)) /\ Tail(q)[k - 1] = q[(k - 1) + 1]
      BY <1>1, <3>1, <3>2
    <3>4. QED
      BY <1>1, <3>1, <3>3
  <2>2. ASSUME NEW i \in 1..Len(Tail(q))
        PROVE  Tail(q)[i] \in S \ {Head(q)}
    <3>1. i + 1 \in 1..Len(q) /\ 1 \in 1..Len(q) /\ i + 1 # 1
      BY <1>1
    <3>2. q[i + 1] \in S /\ q[i + 1] # q[1]
      BY <3>1 DEF Lists
    <3>3. QED
      BY <1>1, <3>2
  <2>3. QED
    BY <2>1, <2>2
<1>5. QED
  BY <1>1, <1>2, <1>3, <1>4 DEF Lists

(* Appending a listing of other members to a queue lists both.             *)
LEMMA ListsConcat ==
  ASSUME NEW q, NEW S, NEW r, NEW T,
         Lists(q, S), Lists(r, T), S \cap T = {}
  PROVE  Lists(q \o r, S \cup T)
<1>1. /\ q \in Seq(Actions) /\ r \in Seq(Actions)
      /\ Len(q) \in Nat /\ Len(r) \in Nat
  BY LenProperties DEF Lists
<1>2. q \o r \in Seq(Actions) /\ Len(q \o r) = Len(q) + Len(r)
  BY <1>1, ConcatProperties
<1>3. /\ \A i \in 1..Len(q) : (q \o r)[i] = q[i]
      /\ \A i \in 1..Len(r) : (q \o r)[Len(q) + i] = r[i]
      /\ \A i \in 1..Len(q \o r) :
           \/ i \in 1..Len(q)
           \/ i - Len(q) \in 1..Len(r) /\ i = Len(q) + (i - Len(q))
  BY <1>1, <1>2
<1>4. \A i \in 1..Len(q) : q[i] \in S
  BY DEF Lists
<1>5. \A i \in 1..Len(r) : r[i] \in T
  BY DEF Lists
<1>6. \A i, j \in 1..Len(q \o r) : (q \o r)[i] = (q \o r)[j] => i = j
  <2> SUFFICES ASSUME NEW i \in 1..Len(q \o r), NEW j \in 1..Len(q \o r),
                      (q \o r)[i] = (q \o r)[j]
               PROVE  i = j
    OBVIOUS
  <2>1. CASE i \in 1..Len(q) /\ j \in 1..Len(q)
    BY <2>1, <1>3 DEF Lists
  <2>2. CASE i \in 1..Len(q) /\ j \notin 1..Len(q)
    <3>1. j - Len(q) \in 1..Len(r) /\ (q \o r)[j] = r[j - Len(q)]
      BY <2>2, <1>3
    <3>2. QED
      BY <2>2, <3>1, <1>3, <1>4, <1>5
  <2>3. CASE i \notin 1..Len(q) /\ j \in 1..Len(q)
    <3>1. i - Len(q) \in 1..Len(r) /\ (q \o r)[i] = r[i - Len(q)]
      BY <2>3, <1>3
    <3>2. QED
      BY <2>3, <3>1, <1>3, <1>4, <1>5
  <2>4. CASE i \notin 1..Len(q) /\ j \notin 1..Len(q)
    <3>1. /\ i - Len(q) \in 1..Len(r) /\ (q \o r)[i] = r[i - Len(q)]
          /\ j - Len(q) \in 1..Len(r) /\ (q \o r)[j] = r[j - Len(q)]
      BY <2>4, <1>3
    <3>2. i - Len(q) = j - Len(q)
      BY <3>1 DEF Lists
    <3>3. QED
      BY <3>2, <1>1, <1>2
  <2>5. QED
    BY <2>1, <2>2, <2>3, <2>4
<1>7. S \cup T = {(q \o r)[i] : i \in 1..Len(q \o r)}
  <2>1. ASSUME NEW x \in S
        PROVE  \E i \in 1..Len(q \o r) : x = (q \o r)[i]
    <3>1. PICK k \in 1..Len(q) : x = q[k]
      BY DEF Lists
    <3>2. k \in 1..Len(q \o r)
      BY <1>1, <1>2
    <3>3. QED
      BY <3>1, <3>2, <1>3
  <2>2. ASSUME NEW x \in T
        PROVE  \E i \in 1..Len(q \o r) : x = (q \o r)[i]
    <3>1. PICK k \in 1..Len(r) : x = r[k]
      BY DEF Lists
    <3>2. Len(q) + k \in 1..Len(q \o r)
      BY <1>1, <1>2
    <3>3. QED
      BY <3>1, <3>2, <1>3
  <2>3. ASSUME NEW i \in 1..Len(q \o r)
        PROVE  (q \o r)[i] \in S \cup T
    BY <1>3, <1>4, <1>5
  <2>4. QED
    BY <2>1, <2>2, <2>3
<1>8. QED
  BY <1>2, <1>6, <1>7 DEF Lists

(* Taking `a` out of a set of awaited dependencies counts down by one if it *)
(* was awaited; the count is zero when nothing is awaited.                 *)
LEMMA CountWithout ==
  ASSUME NEW W \in SUBSET Actions, NEW a
  PROVE  /\ Cardinality(W \ {a}) \in Nat
         /\ Cardinality(W \ {a}) = IF a \in W THEN SaturatingPred(Cardinality(W))
                                   ELSE Cardinality(W)
         /\ Cardinality(W \ {a}) = 0 <=> W \ {a} = {}
<1>1. IsFiniteSet(W) /\ Cardinality(W) \in Nat
  BY SubsetsFinite
<1>2. /\ IsFiniteSet(W \ {a})
      /\ Cardinality(W \ {a}) = IF a \in W THEN Cardinality(W) - 1 ELSE Cardinality(W)
  BY <1>1, FS_RemoveElement
<1>3. Cardinality(W) = 0 <=> W = {}
  BY <1>1, FS_EmptySet
<1>4. Cardinality(W \ {a}) \in Nat /\ (Cardinality(W \ {a}) = 0 <=> W \ {a} = {})
  BY <1>2, FS_EmptySet, FS_CardinalityType
<1>5. QED
  BY <1>1, <1>2, <1>3, <1>4 DEF SaturatingPred

(* A listing has as many entries as the set has members.                   *)
LEMMA ListsLength ==
  ASSUME NEW q, NEW S, Lists(q, S)
  PROVE  S \in SUBSET Actions /\ Cardinality(S) = Len(q)
<1>1. q \in Seq(Actions) /\ Len(q) \in Nat /\ q \in [1..Len(q) -> Actions]
  BY LenProperties DEF Lists
<1>2. S = {q[i] : i \in 1..Len(q)} /\ \A i, j \in 1..Len(q) : q[i] = q[j] => i = j
  BY DEF Lists
<1>3. q \in Bijection(1..Len(q), S)
  <2>1. q \in [1..Len(q) -> S]
    BY <1>1, <1>2
  <2>2. q \in Injection(1..Len(q), S)
    BY <1>2, <2>1 DEF Injection, IsInjective
  <2>3. q \in Surjection(1..Len(q), S)
    BY <1>2, <2>1 DEF Surjection
  <2>4. QED
    BY <2>2, <2>3 DEF Bijection
<1>4. ExistsBijection(1..Len(q), S)
  BY <1>3 DEF ExistsBijection
<1>5. Cardinality(S) = Len(q)
  BY <1>1, <1>4, FS_CountingElements
<1>6. QED
  BY <1>1, <1>2, <1>5

(* Appending a new member to a listing lists it too.                       *)
LEMMA ListsAppend ==
  ASSUME NEW q, NEW S, Lists(q, S), NEW a \in Actions \ S
  PROVE  /\ Lists(Append(q, a), S \cup {a})
         /\ Len(Append(q, a)) = Len(q) + 1
         /\ \A i \in 1..Len(q) : Append(q, a)[i] = q[i]
         /\ Append(q, a)[Len(q) + 1] = a
<1> DEFINE r == Append(q, a)
<1>1. /\ q \in Seq(Actions) /\ Len(q) \in Nat
      /\ \A i, j \in 1..Len(q) : q[i] = q[j] => i = j
      /\ \A i \in 1..Len(q) : q[i] \in S
      /\ \A x \in S : \E i \in 1..Len(q) : x = q[i]
  BY LenProperties DEF Lists
<1>2. /\ r \in Seq(Actions) /\ Len(r) = Len(q) + 1
      /\ \A i \in 1..Len(q) : r[i] = q[i]
      /\ r[Len(q) + 1] = a
  BY <1>1, AppendProperties
<1> HIDE DEF r
<1>3. \A i \in 1..Len(r) : i \in 1..Len(q) \/ i = Len(q) + 1
  BY <1>1, <1>2
<1>4. \A i, j \in 1..Len(r) : r[i] = r[j] => i = j
  BY <1>1, <1>2, <1>3
<1>5. \A x \in S \cup {a} : \E i \in 1..Len(r) : x = r[i]
  <2> SUFFICES ASSUME NEW x \in S \cup {a}
               PROVE  \E i \in 1..Len(r) : x = r[i]
    OBVIOUS
  <2>1. CASE x = a
    BY <1>1, <1>2, <2>1
  <2>2. CASE x \in S
    <3>1. PICK i \in 1..Len(q) : x = q[i]
      BY <1>1, <2>2
    <3>2. i \in 1..Len(r) /\ x = r[i]
      BY <1>1, <1>2, <3>1
    <3>3. QED
      BY <3>2
  <2>3. QED
    BY <2>1, <2>2
<1>6. \A i \in 1..Len(r) : r[i] \in S \cup {a}
  BY <1>1, <1>2, <1>3
<1>7. S \cup {a} = {r[i] : i \in 1..Len(r)}
  BY <1>5, <1>6
<1>8. Lists(r, S \cup {a})
  BY <1>2, <1>4, <1>7 DEF Lists
<1>9. QED
  BY <1>2, <1>8 DEF r

(* A non-empty set of positions has a least one.                           *)
LEMMA LeastPosition ==
  ASSUME NEW P \in SUBSET Nat, P # {}
  PROVE  \E i \in P : \A j \in P : ~(j < i)
<1>1. IsWellFoundedOn(OpToRel(<, Nat), Nat)
  BY NatLessThanWellFounded
<1>2. PICK i \in P : \A j \in P : ~(<<j, i>> \in OpToRel(<, Nat))
  BY <1>1, WFMin
<1>3. \A j \in P : j < i => <<j, i>> \in OpToRel(<, Nat)
  BY DEF OpToRel
<1>4. QED
  BY <1>2, <1>3
=============================================================================

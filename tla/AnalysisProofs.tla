--------------------------- MODULE AnalysisProofs ---------------------------
(***************************************************************************)
(* Proofs about the analysis, for any files, environments and limits.      *)
(*                                                                         *)
(* In this order: the graph's sort by itself; loading, how it ends and the *)
(* cycles it finds; what prevails of what the files declare; extends; the  *)
(* order the graph gives the project's services; what a report without     *)
(* errors tells, and what the summary does.                                *)
(***************************************************************************)
EXTENDS AnalysisProperties, PlanGraphProofs

LEMMA GraphInitial == GraphInit => GraphInv
<1> SUFFICES ASSUME GraphInit
             PROVE  GraphInv
  OBVIOUS
<1>1. order \in Seq(Actions) /\ Len(order) = 0
  BY DEF GraphInit
<1>2. GraphTypeOK
  BY <1>1 DEF GraphInit, GraphTypeOK
<1>3. PlacingInv
  BY <1>1 DEF GraphInit, PlacingInv, Lists, Placed
<1>4. QED
  BY <1>2, <1>3 DEF GraphInv

LEMMA BuildKeeps ==
  ASSUME NEW selected \in SUBSET Actions, NEW dependencies \in [Actions -> SUBSET Actions],
         GraphInv, BuildEdges(selected, dependencies)
  PROVE  GraphInv'
<1>1. /\ stage = "Idle" /\ stage' = "Sort" /\ active' = selected /\ needs' = dependencies
      /\ indegree' = [s \in Actions |-> Cardinality(dependencies[s] \cap selected)]
      /\ ready' \in InPlanOrder({s \in selected : indegree'[s] = 0})
      /\ order' = order
  BY DEF BuildEdges
<1>2. order = <<>> /\ Placed = {} /\ Placed' = {}
  BY <1>1 DEF GraphInv, PlacingInv, Placed
<1>3. ASSUME NEW s \in Actions
      PROVE  /\ indegree'[s] = Cardinality(Counted(s)' \ Placed')
             /\ indegree'[s] \in Nat
             /\ indegree'[s] = 0 <=> Counted(s)' \subseteq Placed'
  <2>1. Counted(s)' = dependencies[s] \cap selected /\ Counted(s)' \ Placed' = Counted(s)'
    BY <1>1, <1>2 DEF Counted
  <2>2. Counted(s)' \in SUBSET Actions
    BY <1>3, <2>1
  <2>3. IsFiniteSet(Counted(s)') /\ Cardinality(Counted(s)') \in Nat
    BY <2>2, SubsetsFinite
  <2>4. Cardinality(Counted(s)') = 0 <=> Counted(s)' = {}
    BY <2>3, FS_EmptySet
  <2>5. QED
    BY <1>1, <1>2, <1>3, <2>1, <2>3, <2>4
<1>4. {s \in selected : indegree'[s] = 0} = {s \in active' \ Placed' : Counted(s)' \subseteq Placed'}
  BY <1>1, <1>2, <1>3
<1>5. Lists(ready', {s \in active' \ Placed' : Counted(s)' \subseteq Placed'})
  <2>1. {s \in selected : indegree'[s] = 0} \in SUBSET Actions
    OBVIOUS
  <2>2. QED
    BY <1>1, <1>4, <2>1, InPlanOrderLists
<1>6. GraphTypeOK'
  <2>1. indegree' \in [Actions -> Nat]
    BY <1>1, <1>3
  <2>2. QED
    BY <1>1, <1>5, <2>1 DEF GraphInv, GraphTypeOK, Lists
<1>7. PlacingInv'
  <2>1. Lists(order', Placed') /\ Placed' \subseteq active'
    BY <1>1, <1>2 DEF GraphInv, PlacingInv
  <2>2. \A i \in 1..Len(order') : Counted(order[i])' \subseteq {order'[j] : j \in 1..(i - 1)}
    BY <1>1, <1>2
  <2>3. QED
    BY <1>1, <1>2, <1>3, <1>5, <2>1, <2>2 DEF PlacingInv
<1>8. QED
  BY <1>6, <1>7 DEF GraphInv

LEMMA PlaceKeeps == GraphInv /\ Place => GraphInv'
<1> SUFFICES ASSUME GraphInv, Place
             PROVE  GraphInv'
  OBVIOUS
<1> USE DEF GraphInv
<1> DEFINE Eligible == {d \in active \ Placed : Counted(d) \subseteq Placed}
<1>1. PICK s : s = Head(ready)
  OBVIOUS
<1>2. /\ stage = "Sort" /\ stage' = "Sort" /\ ready # <<>>
      /\ order' = Append(order, s)
      /\ indegree' = CountDown(indegree, Dependents(s))
      /\ active' = active /\ needs' = needs
  BY <1>1 DEF Place
<1> DEFINE R == {d \in Dependents(s) : indegree'[d] = 0}
<1>3. PICK released \in InPlanOrder(R) : ready' = Tail(ready) \o released
  BY <1>1 DEF Place
<1>4. Lists(ready, Eligible) /\ Lists(order, Placed) /\ Placed \subseteq active /\ active \subseteq Actions
  BY <1>2 DEF PlacingInv, GraphTypeOK
<1>5. s \in Eligible /\ Lists(Tail(ready), Eligible \ {s})
  BY <1>1, <1>2, <1>4, ListsTail
<1>6. s \in Actions /\ s \in active /\ s \notin Placed /\ Counted(s) \subseteq Placed
  BY <1>4, <1>5
<1>7. \A d \in Actions : /\ Counted(d)' = Counted(d) /\ Counted(d) \in SUBSET Actions
                         /\ d \in Dependents(s) <=> d \in active /\ s \in Counted(d)
  BY <1>2, <1>6 DEF Counted, Dependents, GraphTypeOK
<1>8. /\ Lists(order', Placed \cup {s})
      /\ Len(order') = Len(order) + 1 /\ Len(order) \in Nat
      /\ \A i \in 1..Len(order) : order'[i] = order[i]
      /\ order'[Len(order) + 1] = s
  BY <1>2, <1>4, <1>6, ListsAppend, LenProperties DEF GraphTypeOK
<1>9. Placed' = Placed \cup {s}
  BY <1>8 DEF Lists, Placed
<1>10. ASSUME NEW d \in Actions
       PROVE  /\ d \in active => indegree'[d] = Cardinality(Counted(d) \ Placed')
              /\ indegree'[d] \in Nat
              /\ d \in active => (indegree'[d] = 0 <=> Counted(d) \subseteq Placed')
  <2> DEFINE W == Counted(d) \ Placed
  <2>1. W \in SUBSET Actions /\ Counted(d) \ Placed' = W \ {s} /\ (s \in W <=> s \in Counted(d))
    BY <1>6, <1>7, <1>9, <1>10
  <2>2. indegree[d] \in Nat /\ (d \in active => indegree[d] = Cardinality(W))
    BY <1>2, <1>10 DEF PlacingInv, GraphTypeOK
  <2>3. indegree'[d] = IF d \in Dependents(s) THEN SaturatingPred(indegree[d]) ELSE indegree[d]
    BY <1>2, <1>10 DEF CountDown
  <2>4. /\ Cardinality(W \ {s}) \in Nat
        /\ Cardinality(W \ {s}) = IF s \in W THEN SaturatingPred(Cardinality(W)) ELSE Cardinality(W)
        /\ Cardinality(W \ {s}) = 0 <=> W \ {s} = {}
        /\ Cardinality(W) \in Nat
    <3> HIDE DEF W
    <3>1. W \in SUBSET Actions
      BY <2>1
    <3>2. QED
      BY <3>1, CountWithout, SubsetsFinite
  <2>5. indegree'[d] \in Nat
    BY <2>2, <2>3 DEF SaturatingPred
  <2>6. d \in active => indegree'[d] = Cardinality(W \ {s})
    BY <1>7, <1>10, <2>1, <2>2, <2>3, <2>4
  <2>7. QED
    BY <2>1, <2>4, <2>5, <2>6
<1>11. \A i \in 1..Len(order) : Counted(order[i]) \subseteq Placed /\ order[i] # s
  BY <1>4, <1>6 DEF PlacingInv, Placed
<1>12. R \in SUBSET Actions /\ R \cap (Eligible \ {s}) = {}
  <2>1. R \subseteq Actions
    BY <1>4 DEF Dependents
  <2>2. \A d \in R : ~(Counted(d) \subseteq Placed)
    BY <1>6, <1>7, <2>1
  <2>3. QED
    BY <2>1, <2>2
<1>13. (Eligible \ {s}) \cup R = {d \in active \ Placed' : Counted(d) \subseteq Placed'}
  <2>1. \A d \in Placed : Counted(d) \subseteq Placed
    BY <1>11 DEF Placed
  <2>2. \A d \in R : d \in active /\ s \in Counted(d) /\ Counted(d) \subseteq Placed'
    BY <1>7, <1>10, <1>12
  <2>3. \A d \in R : d \notin Placed'
    BY <1>6, <1>9, <2>1, <2>2
  <2>4. \A d \in active \ Placed' : Counted(d) \subseteq Placed' => d \in Eligible \ {s} \/ d \in R
    BY <1>4, <1>7, <1>9, <1>10
  <2>5. \A d \in Eligible \ {s} : d \in active \ Placed' /\ Counted(d) \subseteq Placed'
    BY <1>9
  <2>6. QED
    BY <2>2, <2>3, <2>4, <2>5
<1>14. Lists(ready', (Eligible \ {s}) \cup R)
  <2>1. Lists(released, R)
    BY <1>3, <1>12, InPlanOrderLists
  <2>2. QED
    BY <1>3, <1>5, <1>12, <2>1, ListsConcat
<1>15. GraphTypeOK'
  <2>1. indegree' = [d \in Actions |-> indegree'[d]]
    BY <1>2 DEF CountDown
  <2>2. indegree' \in [Actions -> Nat]
    BY <1>10, <2>1
  <2>3. ready' \in Seq(Actions) /\ order' \in Seq(Actions)
    BY <1>8, <1>14 DEF Lists
  <2>4. QED
    BY <1>2, <2>2, <2>3 DEF GraphTypeOK
<1>16. PlacingInv'
  <2>1. Lists(order', Placed') /\ Placed' \subseteq active'
    BY <1>2, <1>4, <1>6, <1>8, <1>9
  <2>2. ASSUME NEW i \in 1..Len(order')
        PROVE  Counted(order[i])' \subseteq {order'[j] : j \in 1..(i - 1)}
    <3>1. CASE i \in 1..Len(order)
      <4>1. Counted(order[i]) \subseteq {order[j] : j \in 1..(i - 1)}
        BY <3>1 DEF PlacingInv
      <4>2. \A j \in 1..(i - 1) : order'[j] = order[j]
        BY <1>8, <3>1
      <4>3. Counted(order[i])' = Counted(order[i])
        BY <1>2, <1>8, <3>1 DEF Counted
      <4>4. QED
        BY <1>8, <3>1, <4>1, <4>2, <4>3
    <3>2. CASE i = Len(order) + 1
      <4>1. order'[i] = s /\ i - 1 = Len(order)
        BY <1>8, <3>2
      <4>2. Placed = {order'[j] : j \in 1..(i - 1)}
        BY <1>8, <4>1 DEF Placed
      <4>3. Counted(order[i])' = Counted(s)
        BY <1>2, <4>1 DEF Counted
      <4>4. QED
        BY <1>6, <4>2, <4>3
    <3>3. QED
      BY <1>8, <2>2, <3>1, <3>2
  <2>3. \A d \in active' : indegree'[d] = Cardinality(Counted(d)' \ Placed')
    BY <1>2, <1>4, <1>7, <1>10
  <2>4. {d \in active' \ Placed' : Counted(d)' \subseteq Placed'}
          = {d \in active \ Placed' : Counted(d) \subseteq Placed'}
    BY <1>2, <1>4, <1>7
  <2>5. Lists(ready', {d \in active' \ Placed' : Counted(d)' \subseteq Placed'})
    BY <1>13, <1>14, <2>4
  <2>6. QED
    BY <1>2, <2>1, <2>2, <2>3, <2>5 DEF PlacingInv
<1>17. QED
  BY <1>15, <1>16

LEMMA SettleKeeps == GraphInv /\ Settle => GraphInv'
<1> SUFFICES ASSUME GraphInv, Settle
             PROVE  GraphInv'
  OBVIOUS
<1> USE DEF GraphInv
<1>1. /\ stage = "Sort" /\ ready = <<>>
      /\ stage' = IF Len(order) # Cardinality(active) THEN "Cycle" ELSE "Order"
      /\ UNCHANGED <<active, needs, indegree, ready, order>>
  BY DEF Settle
<1>2. Placed' = Placed /\ \A d \in Actions : Counted(d)' = Counted(d)
  BY <1>1 DEF Placed, Counted
<1>3. \A d \in active \ Placed : ~(Counted(d) \subseteq Placed)
  <2>1. {d \in active \ Placed : Counted(d) \subseteq Placed} = {}
    BY <1>1 DEF PlacingInv, Lists
  <2>2. QED
    BY <2>1
<1>4. Len(order) = Cardinality(active) <=> Placed = active
  <2>1. Placed \in SUBSET Actions /\ Cardinality(Placed) = Len(order)
    BY ListsLength DEF PlacingInv
  <2>2. IsFiniteSet(active) /\ Placed \subseteq active
    BY SubsetsFinite DEF GraphTypeOK, PlacingInv
  <2>3. QED
    BY <2>1, <2>2, FS_Subset
<1>5. GraphTypeOK'
  BY <1>1 DEF GraphTypeOK
<1>6. PlacingInv'
  <2>1. \A i \in 1..Len(order') : Counted(order[i])' \subseteq {order'[j] : j \in 1..(i - 1)}
    BY <1>1 DEF Counted, PlacingInv
  <2>2. \A s \in active' \ Placed' : ~(Counted(s)' \subseteq Placed')
    BY <1>1, <1>2, <1>3 DEF Counted
  <2>3. Lists(order', Placed') /\ Placed' \subseteq active'
    BY <1>1, <1>2 DEF PlacingInv
  <2>4. (stage' = "Order" => Placed' = active') /\ (stage' = "Cycle" => Placed' # active')
    BY <1>1, <1>2, <1>4
  <2>5. stage' \in {"Order", "Cycle"}
    BY <1>1
  <2>6. QED
    BY <2>1, <2>2, <2>3, <2>4, <2>5 DEF PlacingInv
<1>7. QED
  BY <1>5, <1>6

-----------------------------------------------------------------------------

LEMMA GraphUnchanged ==
  ASSUME GraphInv, UNCHANGED graphVars
  PROVE  GraphInv'
<1>1. GraphTypeOK'
  BY DEF GraphInv, GraphTypeOK, graphVars
<1>2. /\ stage' = stage /\ active' = active /\ order' = order /\ ready' = ready
      /\ indegree' = indegree /\ Placed' = Placed /\ needs' = needs
  BY DEF graphVars, Placed
<1>3. \A s : Counted(s)' = Counted(s)
  BY <1>2 DEF Counted
<1>4. {s \in active' \ Placed' : Counted(s)' \subseteq Placed'} = {s \in active \ Placed : Counted(s) \subseteq Placed}
  BY <1>2, <1>3
<1>5. \A i \in 1..Len(order') : Counted(order[i])' \subseteq {order'[j] : j \in 1..(i - 1)}
  BY <1>2 DEF GraphInv, PlacingInv, Counted
<1>6. Lists(order', Placed') /\ (stage' = "Sort" => Lists(ready', {s \in active \ Placed : Counted(s) \subseteq Placed}))
  BY <1>2 DEF GraphInv, PlacingInv
<1>7. PlacingInv'
  BY <1>2, <1>3, <1>4, <1>5, <1>6 DEF GraphInv, PlacingInv
<1>8. QED
  BY <1>1, <1>7 DEF GraphInv

(* The counters count what is not placed yet and the queue lists what may  *)
(* be, for any number of services.                                         *)
THEOREM GraphInvariant == GraphSpec => []GraphInv
<1>1. GraphInv /\ [GraphNext]_graphVars => GraphInv'
  BY BuildKeeps, PlaceKeeps, SettleKeeps, GraphUnchanged DEF GraphNext
<1>2. QED
  BY GraphInitial, <1>1, PTL DEF GraphSpec

(* A set of active services has one that depends on none of them once the  *)
(* order lists all, and what is not placed in the end is a set without one.*)
LEMMA GraphIsOrdered == GraphInv => GraphOrdersServices
<1> SUFFICES ASSUME GraphInv
             PROVE  GraphOrdersServices
  OBVIOUS
<1>1. ASSUME stage = "Order", NEW S \in SUBSET active, S # {}
      PROVE  \E s \in S : needs[s] \cap S = {}
  <2> DEFINE P == {i \in 1..Len(order) : order[i] \in S}
  <2>1. Placed = active /\ Len(order) \in Nat
    BY <1>1, LenProperties DEF GraphInv, PlacingInv, GraphTypeOK
  <2>2. P \in SUBSET Nat /\ P # {}
    BY <1>1, <2>1 DEF Placed
  <2>3. PICK i \in P : \A j \in P : ~(j < i)
    BY <2>2, LeastPosition
  <2>4. Counted(order[i]) \subseteq {order[j] : j \in 1..(i - 1)}
    BY <2>3 DEF GraphInv, PlacingInv
  <2>5. \A j \in 1..(i - 1) : order[j] \notin S
    BY <2>1, <2>3
  <2>6. needs[order[i]] \cap S \subseteq Counted(order[i])
    BY <1>1 DEF Counted
  <2>7. QED
    BY <2>3, <2>4, <2>5, <2>6
<1>2. ASSUME stage = "Cycle"
      PROVE  ~ActiveAcyclic
  <2>1. active \ Placed # {} /\ \A s \in active \ Placed : ~(Counted(s) \subseteq Placed)
    BY <1>2 DEF GraphInv, PlacingInv
  <2>2. \A s \in active \ Placed : needs[s] \cap (active \ Placed) # {}
    BY <2>1 DEF Counted
  <2>3. QED
    BY <2>1, <2>2 DEF ActiveAcyclic
<1>3. QED
  BY <1>1, <1>2 DEF GraphOrdersServices, ActiveAcyclic, GraphInv, PlacingInv

(* Whatever services depend on, the order lists every active one once and  *)
(* after the active ones it depends on, and a cycle is reported exactly    *)
(* where there is one.                                                     *)
THEOREM ServicesOrdered == GraphSpec => []GraphOrdersServices
BY GraphIsOrdered, GraphInvariant, PTL

-----------------------------------------------------------------------------
\* Loading.

FrameOf(A) == [path : A, key : A, left : A, project : A]

(* What is loaded at a time is a sequence of different files, bounded as   *)
(* is the number of files that were read.                                  *)
LoadInv ==
  /\ loaded \in 0..MaxFiles
  /\ \E A : frames \in Seq(FrameOf(A))
  /\ Len(frames) <= MaxDepth + 1
  /\ \A i, j \in 1..Len(frames) : frames[i].key = frames[j].key => i = j

(* Beginning what a file includes changes no frame's key and adds frames   *)
(* for nothing else.                                                       *)
LEMMA BegunFrames ==
  ASSUME LoadInv, Pending, NEW fs, NEW ts, Begun(fs, ts),
         NEW B, fs = <<>> \/ \E f \in FrameOf(B) : fs = <<f>>
  PROVE  /\ \E A : frames' \in Seq(FrameOf(A))
         /\ Len(fs) \in {0, 1} /\ Len(frames') = Len(frames) + Len(fs) /\ Len(frames) \in Nat
         /\ \A i \in 1..Len(frames) : frames'[i].key = frames[i].key
         /\ Len(fs) = 1 => frames'[Len(frames) + 1] = fs[1]
<1> DEFINE n == Len(frames)
           x == Tail(frames[n].left)
           base == IF frames = <<>> THEN <<>> ELSE [frames EXCEPT ![n].left = Tail(@)]
<1>1. frames' = base \o fs
  BY DEF Begun
<1>2. PICK A : frames \in Seq(FrameOf(A))
  BY DEF LoadInv
<1>3. n \in Nat /\ frames \in [1..n -> FrameOf(A)] /\ (frames = <<>> <=> n = 0)
  BY <1>2
<1> DEFINE C == A \cup B \cup {x}
<1>4. FrameOf(A) \subseteq FrameOf(C) /\ FrameOf(B) \subseteq FrameOf(C)
  BY DEF FrameOf
<1>5. base \in [1..n -> FrameOf(C)] /\ \A i \in 1..n : base[i].key = frames[i].key
  <2>1. CASE frames = <<>>
    BY <1>3, <2>1
  <2>2. CASE frames # <<>>
    <3>1. base = [i \in 1..n |-> IF i = n THEN [frames[n] EXCEPT !.left = x] ELSE frames[i]]
      BY <1>3, <2>2
    <3>2. n \in 1..n /\ frames[n] \in FrameOf(A)
      BY <1>3, <2>2
    <3>3. x \in C /\ A \subseteq C
      OBVIOUS
    <3> HIDE DEF base, x, C
    <3>4. [frames[n] EXCEPT !.left = x] \in FrameOf(C) /\ [frames[n] EXCEPT !.left = x].key = frames[n].key
      BY <3>2, <3>3 DEF FrameOf
    <3>5. \A i \in 1..n : base[i] \in FrameOf(C) /\ base[i].key = frames[i].key
      BY <1>3, <1>4, <3>1, <3>4
    <3>6. QED
      BY <3>1, <3>5
  <2>3. QED
    BY <2>1, <2>2
<1> HIDE DEF base, x, C, n
<1>6. base \in Seq(FrameOf(C)) /\ Len(base) = n
  BY <1>3, <1>5
<1>7. fs \in Seq(FrameOf(C)) /\ Len(fs) \in {0, 1}
  <2>1. CASE fs = <<>>
    BY <2>1
  <2>2. CASE \E f \in FrameOf(B) : fs = <<f>>
    <3>1. PICK f \in FrameOf(B) : fs = <<f>>
      BY <2>2
    <3>2. f \in FrameOf(C)
      BY <1>4
    <3>3. QED
      BY <3>1, <3>2
  <2>3. QED
    BY <2>1, <2>2
<1>8. /\ frames' \in Seq(FrameOf(C)) /\ Len(frames') = n + Len(fs)
      /\ \A i \in 1..(n + Len(fs)) : frames'[i] = IF i <= n THEN base[i] ELSE fs[i - n]
  <2>1. PICK joined, F : joined = base \o fs /\ F = FrameOf(C)
    OBVIOUS
  <2>2. /\ joined \in Seq(F) /\ Len(joined) = Len(base) + Len(fs)
        /\ \A i \in 1..(Len(base) + Len(fs)) : joined[i] = IF i <= Len(base) THEN base[i] ELSE fs[i - Len(base)]
    <3>1. base \in Seq(F) /\ fs \in Seq(F)
      BY <1>6, <1>7, <2>1
    <3>2. QED
      BY <2>1, <3>1, ConcatProperties
  <2>3. QED
    BY <1>1, <1>6, <2>1, <2>2
<1>9. \A i \in 1..n : i \in 1..(n + Len(fs)) /\ i <= n
  BY <1>3, <1>7
<1>10. Len(fs) = 1 => n + 1 \in 1..(n + Len(fs)) /\ ~(n + 1 <= n) /\ (n + 1) - n = 1
  BY <1>3
<1>11. QED
  BY <1>3, <1>5, <1>7, <1>8, <1>9, <1>10 DEF n

LEMMA LoadStepKeeps == LoadInv /\ (Refuse \/ LoadFile) => LoadInv'
<1>1. ASSUME LoadInv, Refuse
      PROVE  LoadInv'
  <2>1. Pending /\ Begun(<<>>, <<loaded, parsed, merged>>) /\ loaded' = loaded
    BY <1>1 DEF Refuse, Begun
  <2>2. /\ \E A : frames' \in Seq(FrameOf(A))
        /\ Len(frames') = Len(frames)
        /\ \A i \in 1..Len(frames) : frames'[i].key = frames[i].key
    <3>1. /\ \E A : frames' \in Seq(FrameOf(A))
          /\ Len(frames') = Len(frames) + Len(<<>>) /\ Len(frames) \in Nat
          /\ \A i \in 1..Len(frames) : frames'[i].key = frames[i].key
      BY <1>1, <2>1, BegunFrames
    <3>2. QED
      BY <3>1
  <2>3. QED
    BY <1>1, <2>1, <2>2 DEF LoadInv
<1>2. ASSUME LoadInv, LoadFile
      PROVE  LoadInv'
  <2> DEFINE path == Next_path
             file == ParsedFile(input.files[path], Layers(path))
             new == [path |-> path, key |-> Canonical(path), left |-> file.includes, project |-> file]
             B == {path, Canonical(path), file.includes, file}
  <2>1. /\ Pending /\ Refusal(Len(frames), path) = "none" /\ loaded' = loaded + 1
        /\ \E fs \in {<<>>, <<new>>} : Begun(fs, <<parsed, merged>>)
    BY <1>2 DEF LoadFile
  <2>2. new \in FrameOf(B)
    BY DEF FrameOf
  <2>3. new.key = Canonical(path)
    OBVIOUS
  <2> HIDE DEF path, file, new, B
  <2>4. PICK fs \in {<<>>, <<new>>} : Begun(fs, <<parsed, merged>>)
    BY <2>1
  <2>5. fs = <<>> \/ \E f \in FrameOf(B) : fs = <<f>>
    BY <2>2, <2>4
  <2>6. /\ \E A : frames' \in Seq(FrameOf(A))
        /\ Len(fs) \in {0, 1} /\ Len(frames') = Len(frames) + Len(fs) /\ Len(frames) \in Nat
        /\ \A i \in 1..Len(frames) : frames'[i].key = frames[i].key
        /\ Len(fs) = 1 => frames'[Len(frames) + 1] = fs[1]
    BY <1>2, <2>1, <2>4, <2>5, BegunFrames
  <2>7. ~(Len(frames) > MaxDepth) /\ ~(loaded >= MaxFiles) /\ Canonical(path) \notin Stacked
    BY <2>1 DEF Refusal
  <2> DEFINE n == Len(frames)
             e == Len(fs)
  <2>13. n \in Nat /\ e \in {0, 1} /\ Len(frames') = n + e /\ ~(n > MaxDepth)
    BY <2>6, <2>7
  <2> HIDE DEF n, e
  <2>8. loaded' \in 0..MaxFiles
    BY <1>2, <2>1, <2>7, LimitsAssumption DEF LoadInv
  <2>9. Len(frames') <= MaxDepth + 1
    BY <2>13, LimitsAssumption
  <2>10. \A i \in 1..Len(frames) : frames[i].key # Canonical(path)
    <3>1. DOMAIN frames = 1..Len(frames)
      BY <1>2 DEF LoadInv
    <3>2. QED
      BY <2>7, <3>1 DEF Stacked
  <2>11. ASSUME NEW i \in 1..Len(frames'), NEW j \in 1..Len(frames'), frames'[i].key = frames'[j].key
         PROVE  i = j
    <3> DEFINE key(k) == frames[k].key
               newKey(k) == frames'[k].key
    <3>4. /\ \A k, l \in 1..n : key(k) = key(l) => k = l
          /\ \A k \in 1..n : newKey(k) = key(k)
          /\ newKey(i) = newKey(j)
      BY <1>2, <2>6, <2>11 DEF LoadInv, n
    <3>1. CASE e = 0
      BY <2>13, <3>1, <3>4
    <3>2. CASE e = 1
      <4>1. newKey(n + 1) = Canonical(path)
        <5>1. Len(fs) = 1 /\ frames'[n + 1] = fs[1]
          BY <2>6, <3>2 DEF n, e
        <5>2. fs = <<new>> /\ fs[1] = new
          BY <2>4, <5>1
        <5>3. QED
          BY <2>3, <5>1, <5>2
      <4>2. \A k \in 1..Len(frames') : k \in 1..n \/ k = n + 1
        BY <2>13, <3>2
      <4>3. \A k \in 1..n : key(k) # Canonical(path)
        BY <2>10 DEF n
      <4> HIDE DEF key, newKey
      <4>4. QED
        BY <3>4, <4>1, <4>2, <4>3
    <3>3. QED
      BY <2>13, <3>1, <3>2
  <2>12. QED
    BY <2>6, <2>8, <2>9, <2>11 DEF LoadInv
<1>3. QED
  BY <1>1, <1>2

LEMMA LeaveKeeps == LoadInv /\ LeaveFile => LoadInv'
<1> SUFFICES ASSUME LoadInv, LeaveFile
             PROVE  LoadInv'
  OBVIOUS
<1> DEFINE n == Len(frames)
<1>1. frames # <<>> /\ frames' = SubSeq(frames, 1, n - 1) /\ loaded' = loaded
  BY DEF LeaveFile
<1>2. PICK A : frames \in Seq(FrameOf(A))
  BY DEF LoadInv
<1>3. n \in Nat /\ n >= 1 /\ frames \in [1..n -> FrameOf(A)]
  BY <1>1, <1>2
<1>4. frames' \in Seq(FrameOf(A)) /\ Len(frames') = n - 1 /\ \A i \in 1..(n - 1) : frames'[i] = frames[i]
  BY <1>1, <1>2, <1>3, SubSeqProperties
<1> HIDE DEF n
<1>5. 1..(n - 1) \subseteq 1..n /\ n - 1 <= n
  BY <1>3
<1>6. Len(frames') <= MaxDepth + 1
  BY <1>3, <1>4, LimitsAssumption DEF LoadInv, n
<1>7. \A i, j \in 1..Len(frames') : frames'[i].key = frames'[j].key => i = j
  BY <1>4, <1>5 DEF LoadInv, n
<1>8. QED
  BY <1>1, <1>4, <1>6, <1>7 DEF LoadInv

(* Whatever includes what, by whatever names and on however many ways, no  *)
(* file is loaded within itself, and the loading keeps to its limits       *)
(* (IncludeLoader).                                                        *)
THEOREM LoadingEnds == Spec => []IncludesEnd
<1>1. Init => LoadInv
  <2> SUFFICES ASSUME Init
               PROVE  LoadInv
    OBVIOUS
  <2>1. frames = <<>> /\ loaded = 0 /\ <<>> \in Seq(FrameOf({}))
    BY DEF Init
  <2>2. QED
    BY <2>1, LimitsAssumption DEF LoadInv
<1>2. LoadInv /\ [Next]_vars => LoadInv'
  <2> SUFFICES ASSUME LoadInv, [Next]_vars
               PROVE  LoadInv'
    OBVIOUS
  <2>1. CASE Refuse \/ LoadFile
    BY <2>1, LoadStepKeeps
  <2>2. CASE LeaveFile
    BY <2>2, LeaveKeeps
  <2>3. CASE \/ Begin \/ LoadFails \/ Merge \/ Loaded
             \/ ResolveExtends \/ Normalize \/ PlaceService \/ Conclude \/ Returned \/ UNCHANGED vars
    <3>1. frames' = frames /\ loaded' = loaded
      BY <2>3 DEF Begin, LoadFails, Merge, Loaded, ResolveExtends, Normalize, PlaceService, Conclude,
                  Returned, vars, loadVars
    <3>2. QED
      BY <3>1 DEF LoadInv
  <2>4. QED
    BY <2>1, <2>2, <2>3 DEF Next, Analyze, Load
<1>3. LoadInv => IncludesEnd
  <2> SUFFICES ASSUME LoadInv
               PROVE  IncludesEnd
    OBVIOUS
  <2>1. DOMAIN frames = 1..Len(frames) /\ loaded <= MaxFiles
    BY LimitsAssumption DEF LoadInv
  <2>2. QED
    BY <2>1 DEF LoadInv, IncludesEnd
<1>4. QED
  BY <1>1, <1>2, <1>3, PTL DEF Spec
-----------------------------------------------------------------------------
\* Sequences and recursion over them.

(* Induction over the positions up to a number.                            *)
LEMMA UpTo ==
  ASSUME NEW N \in Nat, NEW S, 0 \in S, \A n \in 0..(N - 1) : n \in S => n + 1 \in S
  PROVE  \A n \in 0..N : n \in S
<1> DEFINE T == {n \in 0..N : n \notin S}
<1> SUFFICES ASSUME T # {}
             PROVE  FALSE
  OBVIOUS
<1>1. T \in SUBSET Nat
  OBVIOUS
<1>2. PICK n \in T : \A i \in T : ~(i < n)
  <2> HIDE DEF T
  <2> QED
    BY <1>1, LeastPosition
<1>3. n \in 0..N /\ n \notin S /\ n # 0
  OBVIOUS
<1>4. n - 1 \in 0..(N - 1) /\ n - 1 \notin T /\ n - 1 \in 0..N
  BY <1>2, <1>3
<1>5. n - 1 \in S
  BY <1>4
<1>6. (n - 1) + 1 \in S
  BY <1>4, <1>5
<1>7. QED
  BY <1>3, <1>6

(* ItemsAt, position by position.                                          *)
LEMMA ItemsAtDefined ==
  ASSUME NEW S, NEW s \in Seq(S), NEW P
  PROVE  \E upto : /\ ItemsAt(s, P) = upto[Len(s)] /\ upto[0] = <<>>
                   /\ \A i \in 1..Len(s) : upto[i] = IF i \in P THEN Append(upto[i - 1], s[i]) ELSE upto[i - 1]
<1> DEFINE Solves(g, n) == g = [i \in 0..n |-> IF i = 0 THEN <<>>
                                  ELSE IF i \in P THEN Append(g[i - 1], s[i]) ELSE g[i - 1]]
           N == Len(s)
           T == {n \in 0..N : \E g : Solves(g, n)}
<1>1. N \in Nat
  OBVIOUS
<1>2. 0 \in T
  <2>1. Solves([i \in 0..0 |-> <<>>], 0)
    OBVIOUS
  <2> HIDE DEF Solves, N
  <2>2. QED
    BY <1>1, <2>1
<1>3. ASSUME NEW n \in 0..(N - 1), n \in T
      PROVE  n + 1 \in T
  <2>1. PICK g : Solves(g, n)
    BY <1>3
  <2> DEFINE h == [i \in 0..(n + 1) |-> IF i = n + 1
                     THEN IF i \in P THEN Append(g[i - 1], s[i]) ELSE g[i - 1] ELSE g[i]]
  <2>2. \A i \in 0..(n + 1) : h[i] = IF i = 0 THEN <<>>
                                     ELSE IF i \in P THEN Append(h[i - 1], s[i]) ELSE h[i - 1]
    <3> SUFFICES ASSUME NEW i \in 0..(n + 1)
                 PROVE  h[i] = IF i = 0 THEN <<>>
                               ELSE IF i \in P THEN Append(h[i - 1], s[i]) ELSE h[i - 1]
      OBVIOUS
    <3>1. i # 0 => i - 1 \in 0..n /\ h[i - 1] = g[i - 1]
      BY <1>1
    <3>2. CASE i = n + 1
      <4>1. h[i] = (IF i \in P THEN Append(g[i - 1], s[i]) ELSE g[i - 1]) /\ i # 0
        BY <1>1, <3>2
      <4> HIDE DEF h, Solves
      <4>2. QED
        BY <3>1, <4>1
    <3>3. CASE i # n + 1
      <4>1. i \in 0..n /\ h[i] = g[i]
        BY <1>1, <3>3
      <4>2. g[i] = IF i = 0 THEN <<>> ELSE IF i \in P THEN Append(g[i - 1], s[i]) ELSE g[i - 1]
        BY <2>1, <4>1
      <4> HIDE DEF h, Solves
      <4>3. QED
        BY <3>1, <4>1, <4>2
    <3>4. QED
      BY <3>2, <3>3
  <2>3. Solves(h, n + 1)
    BY <2>2
  <2>4. n + 1 \in 0..N
    BY <1>1
  <2> HIDE DEF h, Solves
  <2>5. QED
    BY <2>3, <2>4
<1>4. \E g : Solves(g, N)
  <2> HIDE DEF Solves
  <2>1. N \in T
    <3> HIDE DEF T, N
    <3>1. \A n \in 0..(N - 1) : n \in T => n + 1 \in T
      BY <1>3
    <3>2. \A n \in 0..N : n \in T
      BY <1>1, <1>2, <3>1, UpTo
    <3> QED
      BY <1>1, <3>2
  <2>2. QED
    BY <2>1
<1> DEFINE upto == CHOOSE g : Solves(g, N)
<1>5. Solves(upto, N)
  <2> HIDE DEF Solves
  <2> QED
    BY <1>4
<1>6. ItemsAt(s, P) = upto[N]
  BY DEF ItemsAt
<1> HIDE DEF upto
<1>7. /\ upto[0] = <<>>
      /\ \A i \in 1..N : upto[i] = IF i \in P THEN Append(upto[i - 1], s[i]) ELSE upto[i - 1]
  <2>1. upto = [i \in 0..N |-> IF i = 0 THEN <<>>
                                  ELSE IF i \in P THEN Append(upto[i - 1], s[i]) ELSE upto[i - 1]]
    BY <1>5
  <2>2. \A i \in 0..N : upto[i] = IF i = 0 THEN <<>>
                                  ELSE IF i \in P THEN Append(upto[i - 1], s[i]) ELSE upto[i - 1]
    BY <2>1
  <2>3. 0 \in 0..N /\ \A i \in 1..N : i \in 0..N /\ i # 0
    BY <1>1
  <2> HIDE DEF N, Solves
  <2>4. QED
    BY <2>2, <2>3
<1>8. QED
  BY <1>6, <1>7

LEMMA AppendRange ==
  ASSUME NEW S, NEW s \in Seq(S), NEW x
  PROVE  Range(Append(s, x)) = Range(s) \cup {x}
<1> DEFINE a == Append(s, x)
           n == Len(s)
<1>1. s \in Seq(S \cup {x})
  OBVIOUS
<1>2. n \in Nat /\ DOMAIN s = 1..n /\ DOMAIN a = 1..(n + 1) /\ a[n + 1] = x /\ \A i \in 1..n : a[i] = s[i]
  BY <1>1, AppendProperties
<1> HIDE DEF a, n
<1>3. 1..(n + 1) = 1..n \cup {n + 1}
  BY <1>2
<1>4. Range(a) = Range(s) \cup {x}
  BY <1>2, <1>3 DEF Range
<1>5. QED
  BY <1>4 DEF a

(* The items of a sequence at some positions are a sequence of just those. *)
LEMMA ItemsAtItems ==
  ASSUME NEW S, NEW s \in Seq(S), NEW P
  PROVE  /\ ItemsAt(s, P) \in Seq(S)
         /\ IsList(ItemsAt(s, P))
         /\ Range(ItemsAt(s, P)) = {s[i] : i \in P \cap 1..Len(s)}
<1> DEFINE At(n) == {s[i] : i \in P \cap 1..n}
           N == Len(s)
<1>1. PICK upto : /\ ItemsAt(s, P) = upto[N] /\ upto[0] = <<>>
                  /\ \A i \in 1..N : upto[i] = IF i \in P THEN Append(upto[i - 1], s[i]) ELSE upto[i - 1]
  BY ItemsAtDefined
<1> DEFINE T == {n \in 0..N : upto[n] \in Seq(At(n)) /\ Range(upto[n]) = At(n)}
<1>2. N \in Nat
  OBVIOUS
<1>3. 0 \in T
  <2>1. At(0) = {} /\ <<>> \in Seq(At(0)) /\ Range(<<>>) = {}
    BY DEF Range
  <2>2. upto[0] \in Seq(At(0)) /\ Range(upto[0]) = At(0)
    BY <1>1, <2>1
  <2>3. 0 \in 0..N
    BY <1>2
  <2> HIDE DEF At, N
  <2>4. QED
    BY <2>2, <2>3
<1>4. \A n \in 0..(N - 1) : n \in T => n + 1 \in T
  <2> SUFFICES ASSUME NEW n \in 0..(N - 1), n \in T
               PROVE  n + 1 \in T
    OBVIOUS
  <2>1. n + 1 \in 1..N /\ (n + 1) - 1 = n /\ n + 1 \in 0..N /\ 1..(n + 1) = 1..n \cup {n + 1}
    BY <1>2
  <2>2. upto[n] \in Seq(At(n)) /\ Range(upto[n]) = At(n)
    OBVIOUS
  <2>3. CASE n + 1 \in P
    <3>1. At(n + 1) = At(n) \cup {s[n + 1]} /\ upto[n + 1] = Append(upto[n], s[n + 1])
      BY <1>1, <2>1, <2>3
    <3> HIDE DEF At
    <3>2. upto[n] \in Seq(At(n + 1))
      BY <2>2, <3>1
    <3>3. /\ Append(upto[n], s[n + 1]) \in Seq(At(n + 1))
          /\ Range(Append(upto[n], s[n + 1])) = Range(upto[n]) \cup {s[n + 1]}
      BY <3>1, <3>2, AppendRange
    <3>4. QED
      BY <2>1, <2>2, <3>1, <3>3
  <2>4. CASE n + 1 \notin P
    BY <1>1, <2>1, <2>2, <2>4
  <2>5. QED
    BY <2>3, <2>4
<1>5. N \in T
  <2> HIDE DEF T, N
  <2>1. \A n \in 0..N : n \in T
    BY <1>2, <1>3, <1>4, UpTo
  <2>2. QED
    BY <1>2, <2>1
<1>6. At(N) \subseteq S
  OBVIOUS
<1>7. QED
  <2> HIDE DEF At, N
  <2>1. upto[N] \in Seq(At(N)) /\ Range(upto[N]) = At(N)
    BY <1>5
  <2>2. QED
    BY <1>1, <1>6, <2>1 DEF IsList, At, N

LEMMA Sequences ==
  ASSUME NEW s, IsList(s)
  PROVE  /\ s \in Seq(Range(s)) /\ Len(s) \in Nat /\ DOMAIN s = 1..Len(s)
         /\ Range(s) = {s[i] : i \in 1..Len(s)}
         /\ s = <<>> <=> Len(s) = 0
BY DEF IsList, Range

(* What is made of each item of a list, and kept if it is there.           *)
LEMMA KeepItemsItems ==
  ASSUME NEW s, IsList(s)
  PROVE  IsList(KeepItems(s)) /\ Range(KeepItems(s)) = Range(s) \ {Absent}
<1>1. s \in Seq(Range(s)) /\ DOMAIN s = 1..Len(s) /\ Len(s) \in Nat
  BY DEF IsList
<1> DEFINE P == {i \in DOMAIN s : s[i] # Absent}
<1>2. KeepItems(s) = ItemsAt(s, P)
  BY DEF KeepItems
<1>3. {s[i] : i \in P \cap 1..Len(s)} = Range(s) \ {Absent}
  BY <1>1 DEF Range
<1> HIDE DEF P
<1>4. QED
  BY <1>1, <1>2, <1>3, ItemsAtItems

LEMMA FunctionsOnPositions ==
  ASSUME NEW s, IsList(s), NEW f, DOMAIN f = DOMAIN s, f = [i \in DOMAIN f |-> f[i]]
  PROVE  IsList(f) /\ Len(f) = Len(s)
<1>1. DOMAIN f = 1..Len(s) /\ Len(s) \in Nat
  BY DEF IsList
<1>2. f \in [1..Len(s) -> Range(f)]
  BY <1>1 DEF Range
<1>3. QED
  BY <1>1, <1>2 DEF IsList

(* The nodes of a document, level by level.                                *)
LEMMA NodesDefined ==
  ASSUME NEW doc
  PROVE  \E level : /\ Nodes(doc) = UNION Range(level) /\ DOMAIN level = 0..MaxNesting
                    /\ level[0] = {doc}
                    /\ \A k \in 1..MaxNesting : level[k] = UNION {Children(m) : m \in level[k - 1]}
<1> DEFINE Solves(g, n) == g = [k \in 0..n |->
                                  IF k = 0 THEN {doc} ELSE UNION {Children(m) : m \in g[k - 1]}]
           T == {n \in 0..MaxNesting : \E g : Solves(g, n)}
<1>1. MaxNesting \in Nat /\ 0 \in 0..MaxNesting /\ 1 \in 0..MaxNesting
  BY DEF MaxNesting
<1>2. 0 \in T
  <2>1. Solves([k \in 0..0 |-> {doc}], 0)
    OBVIOUS
  <2> HIDE DEF Solves
  <2>2. QED
    BY <1>1, <2>1
<1>3. ASSUME NEW n \in 0..(MaxNesting - 1), n \in T
      PROVE  n + 1 \in T
  <2>1. PICK g : Solves(g, n)
    BY <1>3
  <2> DEFINE h == [k \in 0..(n + 1) |-> IF k = n + 1 THEN UNION {Children(m) : m \in g[k - 1]} ELSE g[k]]
  <2>2. \A k \in 0..(n + 1) : h[k] = IF k = 0 THEN {doc} ELSE UNION {Children(m) : m \in h[k - 1]}
    <3> SUFFICES ASSUME NEW k \in 0..(n + 1)
                 PROVE  h[k] = IF k = 0 THEN {doc} ELSE UNION {Children(m) : m \in h[k - 1]}
      OBVIOUS
    <3>1. k # 0 => k - 1 \in 0..n /\ h[k - 1] = g[k - 1]
      BY <1>1
    <3>2. CASE k = n + 1
      <4>1. h[k] = UNION {Children(m) : m \in g[k - 1]} /\ k # 0
        BY <1>1, <3>2
      <4> HIDE DEF h, Solves
      <4>2. QED
        BY <3>1, <4>1
    <3>3. CASE k # n + 1
      <4>1. k \in 0..n /\ h[k] = g[k]
        BY <1>1, <3>3
      <4>2. g[k] = IF k = 0 THEN {doc} ELSE UNION {Children(m) : m \in g[k - 1]}
        BY <2>1, <4>1
      <4> HIDE DEF h, Solves
      <4>3. QED
        BY <3>1, <4>1, <4>2
    <3>4. QED
      BY <3>2, <3>3
  <2>3. Solves(h, n + 1)
    BY <2>2
  <2>4. n + 1 \in 0..MaxNesting
    BY <1>1
  <2> HIDE DEF h, Solves
  <2>5. QED
    BY <2>3, <2>4
<1> DEFINE level == CHOOSE g : Solves(g, MaxNesting)
<1>4. Solves(level, MaxNesting)
  <2> HIDE DEF Solves
  <2>1. MaxNesting \in T
    <3> HIDE DEF T
    <3>1. \A n \in 0..(MaxNesting - 1) : n \in T => n + 1 \in T
      BY <1>3
    <3>2. \A n \in 0..MaxNesting : n \in T
      BY <1>1, <1>2, <3>1, UpTo
    <3> QED
      BY <1>1, <3>2
  <2>2. QED
    BY <2>1
<1>5. Nodes(doc) = UNION Range(level)
  BY DEF Nodes
<1> HIDE DEF level
<1>6. /\ DOMAIN level = 0..MaxNesting /\ level[0] = {doc}
      /\ \A k \in 1..MaxNesting : level[k] = UNION {Children(m) : m \in level[k - 1]}
  <2>1. /\ DOMAIN level = 0..MaxNesting
        /\ \A k \in 0..MaxNesting : level[k] = IF k = 0 THEN {doc} ELSE UNION {Children(m) : m \in level[k - 1]}
    BY <1>4
  <2>2. \A k \in 1..MaxNesting : k \in 0..MaxNesting /\ k # 0
    BY <1>1
  <2> HIDE DEF Solves
  <2>3. QED
    BY <1>1, <2>1, <2>2
<1>7. QED
  BY <1>5, <1>6

(* A document and the nodes right under it are among the nodes read.       *)
LEMMA NodesFromAbove ==
  ASSUME NEW doc
  PROVE  doc \in Nodes(doc) /\ Children(doc) \subseteq Nodes(doc)
<1>1. PICK level : /\ Nodes(doc) = UNION Range(level) /\ DOMAIN level = 0..MaxNesting
                   /\ level[0] = {doc}
                   /\ \A k \in 1..MaxNesting : level[k] = UNION {Children(m) : m \in level[k - 1]}
  BY NodesDefined
<1>2. 0 \in 0..MaxNesting /\ 1 \in 1..MaxNesting /\ 1 \in 0..MaxNesting
  BY DEF MaxNesting
<1>3. level[1] = UNION {Children(m) : m \in level[1 - 1]} /\ 1 - 1 = 0
  BY <1>1, <1>2
<1>4. level[0] \subseteq Nodes(doc) /\ level[1] \subseteq Nodes(doc)
  BY <1>1, <1>2 DEF Range
<1>5. QED
  BY <1>1, <1>3, <1>4

(* A node with nothing below it is its only node.                          *)
LEMMA NodesOfLeaf ==
  ASSUME NEW doc, Children(doc) = {}
  PROVE  Nodes(doc) = {doc}
<1>1. PICK level : /\ Nodes(doc) = UNION Range(level) /\ DOMAIN level = 0..MaxNesting
                   /\ level[0] = {doc}
                   /\ \A k \in 1..MaxNesting : level[k] = UNION {Children(m) : m \in level[k - 1]}
  BY NodesDefined
<1> DEFINE T == {k \in 0..MaxNesting : level[k] \subseteq {doc}}
<1>2. MaxNesting \in Nat
  BY DEF MaxNesting
<1>3. 0 \in T
  BY <1>1, <1>2
<1>4. \A k \in 0..(MaxNesting - 1) : k \in T => k + 1 \in T
  <2> SUFFICES ASSUME NEW k \in 0..(MaxNesting - 1), k \in T
               PROVE  k + 1 \in T
    OBVIOUS
  <2>1. k + 1 \in 1..MaxNesting /\ k + 1 \in 0..MaxNesting /\ (k + 1) - 1 = k /\ level[k] \subseteq {doc}
    BY <1>2
  <2>2. level[k + 1] = UNION {Children(m) : m \in level[k]}
    BY <1>1, <2>1
  <2>3. level[k + 1] \subseteq {doc}
    BY <2>1, <2>2
  <2>4. QED
    BY <2>1, <2>3
<1>5. \A k \in 0..MaxNesting : level[k] \subseteq {doc}
  <2>1. \A k \in 0..MaxNesting : k \in T
    <3> HIDE DEF T
    <3>1. QED
      BY <1>2, <1>3, <1>4, UpTo
  <2>2. QED
    BY <2>1
<1>6. QED
  BY <1>1, <1>5, NodesFromAbove DEF Range

(* A field of a node that is read is one of the nodes below it.            *)
LEMMA FieldIsBelow ==
  ASSUME NEW n, IsNode(n), NEW key, key \notin UnreadFields, Field(n, key) # Absent
  PROVE  Field(n, key) \in Children(n)
<1> DEFINE at == {i \in DOMAIN Fields(n) : Fields(n)[i][1] = key}
<1>1. at # {} /\ Field(n, key) = Fields(n)[Min(at)][2]
  BY DEF Field
<1>2. at \subseteq Nat
  BY DEF IsNode, IsList
<1>3. Min(at) \in at
  <2> HIDE DEF at
  <2>1. PICK x \in at : \A y \in at : ~(y < x)
    BY <1>1, <1>2, LeastPosition
  <2>2. \A y \in at : x <= y
    BY <1>2, <2>1
  <2>3. QED
    BY <2>2 DEF Min
<1> DEFINE f == Fields(n)[Min(at)]
<1>4. f \in Range(Fields(n)) /\ f[1] = key
  BY <1>3 DEF Range
<1>5. f[2] \in {g[2] : g \in {h \in Range(Fields(n)) : h[1] \notin UnreadFields}}
  BY <1>4
<1>6. QED
  BY <1>1, <1>5 DEF Children

(* What a file includes is a list.                                         *)
LEMMA IncludesRead ==
  ASSUME NEW doc, \A n \in Nodes(doc) : IsNode(n), NEW layers
  PROVE  IsList(ProjectOf(doc, layers).includes)
<1> DEFINE node == Field(doc, "include")
           made == parse_includes(node, layers)
<1>1. ProjectOf(doc, layers).includes = IF node = Absent THEN <<>> ELSE made
  BY DEF ProjectOf, FieldOr, ValueOr
<1>2. IsList(<<>>)
  BY DEF IsList, Range
<1>3. ASSUME node # Absent
      PROVE  IsList(made)
  <2>1. IsNode(doc) /\ "include" \notin UnreadFields
    BY NodesFromAbove DEF UnreadFields, Deferred
  <2>2. node \in Children(doc)
    BY <1>3, <2>1, FieldIsBelow
  <2>3. node \in Nodes(doc)
    BY <2>2, NodesFromAbove
  <2>4. IsList(ItemsOf(node))
    BY <2>3 DEF IsNode
  <2> HIDE DEF node
  <2> DEFINE path(item) == IF untagged(item).kind = "mapping" THEN interpolated_spanned(Field(item, "path"), layers)
                           ELSE interpolated_spanned(item, layers)
             s == [i \in DOMAIN ItemsOf(node) |-> path(ItemsOf(node)[i])]
  <2>5. made = IF untagged(node).kind = "sequence" THEN KeepItems(s) ELSE KeepItems(<<path(node)>>)
    BY DEF parse_includes
  <2>6. IsList(s)
    <3> HIDE DEF path
    <3>1. DOMAIN s = DOMAIN ItemsOf(node) /\ s = [i \in DOMAIN s |-> s[i]]
      OBVIOUS
    <3> HIDE DEF s
    <3>2. QED
      BY <2>4, <3>1, FunctionsOnPositions
  <2> HIDE DEF s, path, made
  <2>7. IsList(<<path(node)>>)
    <3>1. \A x : <<x>> \in Seq({x}) /\ Range(<<x>>) = {x}
      BY DEF Range
    <3>2. QED
      BY <3>1 DEF IsList
  <2>8. IsList(KeepItems(s))
    BY <2>6, KeepItemsItems
  <2>9. IsList(KeepItems(<<path(node)>>))
    <3> DEFINE one == <<path(node)>>
    <3> HIDE DEF one
    <3>1. IsList(one)
      BY <2>7 DEF one
    <3>2. IsList(KeepItems(one))
      BY <3>1, KeepItemsItems
    <3>3. QED
      BY <3>2 DEF one
  <2>10. QED
    BY <2>5, <2>8, <2>9
<1> HIDE DEF made, node
<1>4. QED
  BY <1>1, <1>2, <1>3

(* A file that could be parsed is a project with what a list of nodes says.*)
LEMMA FileRead ==
  ASSUME NEW yaml, IsYaml(yaml), NEW layers, ParsedFile(yaml, layers) # <<>>
  PROVE  \E doc : /\ ParsedFile(yaml, layers) = ProjectOf(doc, layers)
                  /\ \A n \in Nodes(doc) : IsNode(n)
<1>1. yaml # Absent /\ ~(Len(IF yaml = <<>> THEN <<Mapping(<<>>)>> ELSE yaml) > 1 /\ yaml # <<>>)
  BY DEF ParsedFile
<1>2. CASE yaml = <<>>
  <2> DEFINE doc == Mapping(<<>>)
  <2>1. ParsedFile(yaml, layers) = ProjectOf(doc, layers)
    BY <1>1, <1>2 DEF ParsedFile
  <2>2. Fields(doc) = <<>> /\ ItemsOf(doc) = <<>> /\ Children(doc) = {}
    BY DEF Mapping, Fields, ItemsOf, untagged, Children, Range
  <2>3. Nodes(doc) = {doc}
    BY <2>2, NodesOfLeaf
  <2>4. IsNode(doc)
    <3>1. IsList(<<>>)
      BY DEF IsList, Range
    <3>2. QED
      BY <2>2, <3>1 DEF IsNode
  <2>5. QED
    BY <2>1, <2>3, <2>4
<1>3. CASE yaml # <<>>
  <2>1. IsList(yaml) /\ \A i \in DOMAIN yaml : \A n \in Nodes(yaml[i]) : IsNode(n)
    BY <1>1 DEF IsYaml
  <2>2. 1 \in DOMAIN yaml
    BY <1>3, <2>1 DEF IsList
  <2>3. ParsedFile(yaml, layers) = ProjectOf(yaml[1], layers)
    BY <1>1, <1>3 DEF ParsedFile
  <2>4. QED
    BY <2>1, <2>2, <2>3
<1>4. QED
  BY <1>2, <1>3

LEMMA SequenceIsList ==
  ASSUME NEW S, NEW s \in Seq(S)
  PROVE  IsList(s)
<1>1. DOMAIN s = 1..Len(s) /\ s = [i \in 1..Len(s) |-> s[i]] /\ Len(s) \in Nat
  OBVIOUS
<1>2. s \in [1..Len(s) -> Range(s)]
  BY <1>1 DEF Range
<1>3. QED
  BY <1>1, <1>2 DEF IsList

LEMMA AppendList ==
  ASSUME NEW s, IsList(s), NEW x
  PROVE  /\ IsList(Append(s, x)) /\ Len(Append(s, x)) = Len(s) + 1
         /\ Append(s, x)[Len(s) + 1] = x
         /\ \A i \in 1..Len(s) : Append(s, x)[i] = s[i]
<1> DEFINE S == Range(s) \cup {x}
<1>1. s \in Seq(Range(s))
  BY DEF IsList
<1>2. s \in Seq(S)
  BY <1>1
<1>3. Range(Append(s, x)) = S
  BY <1>1, AppendRange
<1>4. Append(s, x) \in Seq(S)
  BY <1>2
<1>5. QED
  BY <1>2, <1>3, <1>4, AppendProperties DEF IsList

(* The beginning of a list and one more of its items.                      *)
LEMMA PrefixList ==
  ASSUME NEW s, IsList(s), NEW k \in 0..Len(s)
  PROVE  /\ IsList(SubSeq(s, 1, k)) /\ Len(SubSeq(s, 1, k)) = k
         /\ \A i \in 1..k : SubSeq(s, 1, k)[i] = s[i]
         /\ k < Len(s) => SubSeq(s, 1, k + 1) = Append(SubSeq(s, 1, k), s[k + 1])
<1> DEFINE p == SubSeq(s, 1, k)
           q == SubSeq(s, 1, k + 1)
<1>1. s \in Seq(Range(s)) /\ Len(s) \in Nat
  BY DEF IsList
<1>2. p \in Seq(Range(s)) /\ Len(p) = k /\ \A i \in 1..k : p[i] = s[i]
  <2>1. 1 \in Int /\ k \in Int /\ \A i \in 1..k : s[i] \in Range(s)
    BY <1>1 DEF Range
  <2>2. /\ p \in Seq(Range(s)) /\ Len(p) = IF 1 <= k THEN k - 1 + 1 ELSE 0
        /\ \A i \in 1..(k - 1 + 1) : p[i] = s[1 + i - 1]
    BY <2>1, SubSeqProperties
  <2> HIDE DEF p
  <2>3. QED
    BY <1>1, <2>2
<1>3. IsList(p)
  <2> HIDE DEF p
  <2>1. QED
    BY <1>2, SequenceIsList
<1>4. ASSUME k < Len(s)
      PROVE  q = Append(p, s[k + 1])
  <2>1. q \in Seq(Range(s)) /\ Len(q) = k + 1 /\ \A i \in 1..(k + 1) : q[i] = s[i]
    BY <1>1, <1>4, SubSeqProperties
  <2> DEFINE a == Append(p, s[k + 1])
  <2>2. IsList(a) /\ Len(a) = k + 1 /\ a[k + 1] = s[k + 1] /\ \A i \in 1..k : a[i] = p[i]
    <3> HIDE DEF p
    <3>1. QED
      BY <1>2, <1>3, AppendList
  <2>3. a \in Seq(Range(a))
    BY <2>2 DEF IsList
  <2> HIDE DEF a, q, p
  <2>4. \A i \in 1..(k + 1) : q[i] = a[i]
    <3>1. \A i \in 1..(k + 1) : i \in 1..k \/ i = k + 1
      OBVIOUS
    <3>2. QED
      BY <1>2, <2>1, <2>2, <3>1
  <2>5. q = [i \in 1..(k + 1) |-> q[i]] /\ a = [i \in 1..(k + 1) |-> a[i]]
    BY <2>1, <2>2, <2>3
  <2>6. q = a
    BY <2>4, <2>5
  <2>7. QED
    BY <2>6 DEF a
<1>5. QED
  BY <1>2, <1>3, <1>4

-----------------------------------------------------------------------------
\* The ways down from a file.

(* Files each of which includes the next, from a root.                     *)
Chain(files, root, w) ==
  /\ IsList(w) /\ w # <<>> /\ w[1] = root
  /\ \A i \in 1..(Len(w) - 1) : w[i + 1] \in IncludedBy(files, w[i])

Levels(files, root, down, n) ==
  /\ DOMAIN down = 0..n
  /\ down[0] = {<<root>>}
  /\ \A k \in 1..n : down[k] = UNION {{Append(way, path) : path \in IncludedBy(files, way[k])} :
                                        way \in {w \in down[k - 1] : ~Twice(w)}}

LEMMA WaysDefined ==
  ASSUME NEW files, NEW root
  PROVE  \E down : Ways(files, root) = UNION Range(down) /\ Levels(files, root, down, MaxDepth + 1)
<1> DEFINE On(g, k) == UNION {{Append(way, path) : path \in IncludedBy(files, way[k])} :
                                way \in {w \in g : ~Twice(w)}}
           Solves(g, n) == g = [k \in 0..n |-> IF k = 0 THEN {<<root>>} ELSE On(g[k - 1], k)]
           N == MaxDepth + 1
           T == {n \in 0..N : \E g : Solves(g, n)}
<1>1. N \in Nat
  BY LimitsAssumption
<1>2. 0 \in T
  <2>1. Solves([k \in 0..0 |-> {<<root>>}], 0)
    <3> HIDE DEF On
    <3>1. QED
      OBVIOUS
  <2> HIDE DEF Solves, N
  <2>2. QED
    BY <1>1, <2>1
<1>3. ASSUME NEW n \in 0..(N - 1), n \in T
      PROVE  n + 1 \in T
  <2> HIDE DEF On
  <2>1. PICK g : Solves(g, n)
    BY <1>3
  <2> DEFINE h == [k \in 0..(n + 1) |-> IF k = n + 1 THEN On(g[k - 1], k) ELSE g[k]]
  <2>2. \A k \in 0..(n + 1) : h[k] = IF k = 0 THEN {<<root>>} ELSE On(h[k - 1], k)
    <3> SUFFICES ASSUME NEW k \in 0..(n + 1)
                 PROVE  h[k] = IF k = 0 THEN {<<root>>} ELSE On(h[k - 1], k)
      OBVIOUS
    <3>1. k # 0 => k - 1 \in 0..n /\ h[k - 1] = g[k - 1]
      BY <1>1
    <3>2. CASE k = n + 1
      <4>1. h[k] = On(g[k - 1], k) /\ k # 0
        BY <1>1, <3>2
      <4> HIDE DEF h, Solves
      <4>2. QED
        BY <3>1, <4>1
    <3>3. CASE k # n + 1
      <4>1. k \in 0..n /\ h[k] = g[k]
        BY <1>1, <3>3
      <4>2. g[k] = IF k = 0 THEN {<<root>>} ELSE On(g[k - 1], k)
        BY <2>1, <4>1
      <4> HIDE DEF h, Solves
      <4>3. QED
        BY <3>1, <4>1, <4>2
    <3>4. QED
      BY <3>2, <3>3
  <2>3. Solves(h, n + 1)
    BY <2>2
  <2>4. n + 1 \in 0..N
    BY <1>1
  <2> HIDE DEF h, Solves
  <2>5. QED
    BY <2>3, <2>4
<1>4. \E g : Solves(g, N)
  <2> HIDE DEF Solves
  <2>1. N \in T
    <3> HIDE DEF T, N
    <3>1. \A n \in 0..(N - 1) : n \in T => n + 1 \in T
      BY <1>3
    <3>2. \A n \in 0..N : n \in T
      BY <1>1, <1>2, <3>1, UpTo
    <3> QED
      BY <1>1, <3>2
  <2>2. QED
    BY <2>1
<1> DEFINE down == CHOOSE g : Solves(g, N)
<1>5. Solves(down, N)
  <2> HIDE DEF Solves
  <2> QED
    BY <1>4
<1>6. Ways(files, root) = UNION Range(down)
  BY DEF Ways
<1> HIDE DEF down
<1>7. Levels(files, root, down, N)
  <2> HIDE DEF On
  <2>1. /\ DOMAIN down = 0..N
        /\ \A k \in 0..N : down[k] = IF k = 0 THEN {<<root>>} ELSE On(down[k - 1], k)
    BY <1>5
  <2>2. 0 \in 0..N /\ \A k \in 1..N : k \in 0..N /\ k # 0
    BY <1>1
  <2> HIDE DEF Solves, N
  <2>3. down[0] = {<<root>>} /\ \A k \in 1..N : down[k] = On(down[k - 1], k)
    BY <2>1, <2>2
  <2>4. QED
    BY <2>1, <2>3 DEF Levels, On
<1>8. QED
  BY <1>6, <1>7

LEMMA WaysAreChains ==
  ASSUME NEW files, NEW root
  PROVE  \A w \in Ways(files, root) : Chain(files, root, w)
<1>1. PICK down : Ways(files, root) = UNION Range(down) /\ Levels(files, root, down, MaxDepth + 1)
  BY WaysDefined
<1> DEFINE N == MaxDepth + 1
           Right(w, k) == Chain(files, root, w) /\ Len(w) = k + 1
           T == {k \in 0..N : \A w \in down[k] : Right(w, k)}
<1>2. N \in Nat
  BY LimitsAssumption
<1>3. 0 \in T
  <2>1. Right(<<root>>, 0)
    <3>1. IsList(<<root>>) /\ Len(<<root>>) = 1 /\ <<root>> # <<>>
      BY DEF IsList, Range
    <3>2. QED
      BY <3>1 DEF Chain
  <2>2. down[0] = {<<root>>}
    BY <1>1 DEF Levels
  <2> HIDE DEF Right
  <2>3. QED
    BY <1>2, <2>1, <2>2
<1>4. \A k \in 0..(N - 1) : k \in T => k + 1 \in T
  <2> SUFFICES ASSUME NEW k \in 0..(N - 1), k \in T, NEW v \in down[k + 1]
               PROVE  Right(v, k + 1)
    BY <1>2
  <2>1. k + 1 \in 1..N /\ (k + 1) - 1 = k
    BY <1>2
  <2>2. down[k + 1] = UNION {{Append(way, path) : path \in IncludedBy(files, way[k + 1])} :
                               way \in {w \in down[k] : ~Twice(w)}}
    BY <1>1, <2>1 DEF Levels
  <2>9. PICK w \in down[k] : \E path \in IncludedBy(files, w[k + 1]) : v = Append(w, path)
    BY <2>2
  <2>3. PICK path \in IncludedBy(files, w[k + 1]) : v = Append(w, path)
    BY <2>9
  <2>4. IsList(w) /\ w # <<>> /\ w[1] = root /\ Len(w) = k + 1
        /\ \A i \in 1..k : w[i + 1] \in IncludedBy(files, w[i])
    BY <2>3 DEF Chain
  <2>5. /\ IsList(v) /\ Len(v) = k + 2 /\ v[k + 2] = path
        /\ \A i \in 1..(k + 1) : v[i] = w[i]
    BY <2>3, <2>4, AppendList
  <2>6. \A i \in 1..(k + 1) : v[i + 1] \in IncludedBy(files, v[i])
    <3> SUFFICES ASSUME NEW i \in 1..(k + 1)
                 PROVE  v[i + 1] \in IncludedBy(files, v[i])
      OBVIOUS
    <3>1. CASE i = k + 1
      BY <2>3, <2>5, <3>1
    <3>2. CASE i # k + 1
      <4>1. i \in 1..k /\ i + 1 \in 1..(k + 1)
        BY <3>2
      <4>2. v[i + 1] = w[i + 1] /\ v[i] = w[i]
        BY <2>5, <4>1
      <4>3. QED
        BY <2>4, <4>1, <4>2
    <3>3. QED
      BY <3>1, <3>2
  <2>7. v # <<>> /\ v[1] = root
    <3>1. 1 \in 1..(k + 1) /\ k + 2 # 0
      OBVIOUS
    <3>2. QED
      BY <2>4, <2>5, <3>1
  <2>8. QED
    BY <2>5, <2>6, <2>7 DEF Chain
<1>5. \A k \in 0..N : k \in T
  <2> HIDE DEF T, N
  <2>1. QED
    BY <1>2, <1>3, <1>4, UpTo
<1>6. QED
  BY <1>1, <1>5 DEF Levels, Range

(* A chain of files that differ, but for the last, is a way if it is short *)
(* enough.                                                                 *)
LEMMA ChainsAreWays ==
  ASSUME NEW files, NEW root, NEW w, Chain(files, root, w), Len(w) <= MaxDepth + 2,
         \A i, j \in 1..(Len(w) - 1) : Canonical(w[i]) = Canonical(w[j]) => i = j
  PROVE  w \in Ways(files, root)
<1>1. PICK down : Ways(files, root) = UNION Range(down) /\ Levels(files, root, down, MaxDepth + 1)
  BY WaysDefined
<1> DEFINE N == MaxDepth + 1
           L == Len(w) - 1
           p(k) == SubSeq(w, 1, k + 1)
           T == {k \in 0..L : p(k) \in down[k]}
<1>2. N \in Nat /\ L \in Nat /\ L <= N /\ IsList(w) /\ Len(w) = L + 1
  BY LimitsAssumption, Sequences DEF Chain
<1>3. 0 \in T
  <2>1. p(0) = <<root>>
    <3>1. w \in Seq(Range(w)) /\ 1 <= Len(w) /\ w[1] = root
      BY <1>2 DEF IsList, Chain
    <3>2. IsList(SubSeq(w, 1, 1)) /\ Len(SubSeq(w, 1, 1)) = 1 /\ SubSeq(w, 1, 1)[1] = root
      <4>1. 1 \in 0..Len(w) /\ 1 \in 1..1
        BY <1>2, <3>1
      <4>2. QED
        BY <1>2, <3>1, <4>1, PrefixList
    <3>3. \A s : IsList(s) /\ Len(s) = 1 => s = <<s[1]>>
      <4>1. ASSUME NEW s, s \in Seq(Range(s)), Len(s) = 1
            PROVE  s = <<s[1]>>
        <5>1. DOMAIN s = 1..1 /\ s = [i \in 1..1 |-> s[i]]
          BY <4>1
        <5>2. QED
          BY <4>1, <5>1
      <4>2. QED
        BY <4>1 DEF IsList
    <3> DEFINE one == SubSeq(w, 1, 1)
    <3>4. p(0) = one
      OBVIOUS
    <3> HIDE DEF one
    <3>5. one = <<one[1]>>
      BY <3>2, <3>3 DEF one
    <3>6. QED
      BY <3>2, <3>4, <3>5 DEF one
  <2>2. down[0] = {<<root>>}
    BY <1>1 DEF Levels
  <2>3. p(0) \in down[0] /\ 0 \in 0..L
    BY <1>2, <2>1, <2>2
  <2> HIDE DEF p, L
  <2>4. QED
    BY <2>3
<1>4. \A k \in 0..(L - 1) : k \in T => k + 1 \in T
  <2> SUFFICES ASSUME NEW k \in 0..(L - 1), k \in T
               PROVE  p(k + 1) \in down[k + 1]
    BY <1>2
  <2>1. k + 1 \in 1..N /\ (k + 1) - 1 = k /\ k + 1 \in 0..Len(w) /\ k + 1 < Len(w) /\ k + 1 \in 1..L
    BY <1>2
  <2>2. down[k + 1] = UNION {{Append(way, path) : path \in IncludedBy(files, way[k + 1])} :
                               way \in {x \in down[k] : ~Twice(x)}}
    BY <1>1, <2>1 DEF Levels
  <2> DEFINE v == SubSeq(w, 1, k + 1)
             path == w[(k + 1) + 1]
  <2>3. /\ IsList(v) /\ Len(v) = k + 1 /\ \A i \in 1..(k + 1) : v[i] = w[i]
        /\ SubSeq(w, 1, (k + 1) + 1) = Append(v, path)
    BY <1>2, <2>1, PrefixList
  <2>4. v \in down[k]
    OBVIOUS
  <2> HIDE DEF v
  <2>5. path \in IncludedBy(files, v[k + 1])
    <3>1. path \in IncludedBy(files, w[k + 1])
      BY <2>1 DEF Chain
    <3>2. QED
      BY <2>1, <2>3, <3>1
  <2>6. ~Twice(v)
    <3>1. DOMAIN v = 1..(k + 1)
      BY <2>3 DEF IsList
    <3>2. \A i \in 1..(k + 1) : i \in 1..(Len(w) - 1)
      BY <1>2, <2>1
    <3>3. \A i, j \in 1..(k + 1) : Canonical(v[i]) = Canonical(v[j]) => i = j
      BY <2>3, <3>2
    <3>4. \A i, j \in 1..(k + 1) : i < j => i # j
      OBVIOUS
    <3>5. QED
      BY <3>1, <3>3, <3>4 DEF Twice
  <2>7. Append(v, path) \in down[k + 1]
    BY <2>2, <2>4, <2>5, <2>6
  <2>8. QED
    BY <2>3, <2>7
<1>5. L \in T
  <2> HIDE DEF T, L
  <2>1. \A k \in 0..L : k \in T
    BY <1>2, <1>3, <1>4, UpTo
  <2>2. QED
    BY <1>2, <2>1
<1>6. p(L) = w
  <2>1. w \in Seq(Range(w))
    BY <1>2 DEF IsList
  <2>2. SubSeq(w, 1, Len(w)) = w
    BY <2>1
  <2>3. QED
    BY <1>2, <2>2
<1>7. L \in 0..N
  BY <1>2
<1>8. w \in down[L]
  BY <1>5, <1>6
<1>9. QED
  <2> HIDE DEF L, N
  <2>1. DOMAIN down = 0..N
    BY <1>1 DEF Levels, N
  <2>2. QED
    BY <1>1, <1>7, <1>8, <2>1 DEF Range

LEMMA ListTail ==
  ASSUME NEW s, IsList(s), s # <<>>
  PROVE  IsList(Tail(s)) /\ Len(Tail(s)) = Len(s) - 1 /\ Range(s) = {Head(s)} \cup Range(Tail(s))
         /\ \A i \in 1..(Len(s) - 1) : Tail(s)[i] = s[i + 1]
<1> DEFINE t == Tail(s)
<1>1. s \in Seq(Range(s)) /\ Len(s) \in Nat \ {0}
  BY DEF IsList
<1>2. t \in Seq(Range(s)) /\ Len(t) = Len(s) - 1 /\ Head(s) = s[1] /\ \A i \in 1..(Len(s) - 1) : t[i] = s[i + 1]
  BY <1>1
<1>3. IsList(t)
  <2> HIDE DEF t
  <2>1. QED
    BY <1>2, SequenceIsList
<1>4. Range(s) = {Head(s)} \cup Range(t)
  <2>1. DOMAIN s = 1..Len(s) /\ DOMAIN t = 1..(Len(s) - 1)
    BY <1>1, <1>2
  <2> HIDE DEF t
  <2>2. \A i \in 1..Len(s) : i = 1 \/ (i - 1 \in 1..(Len(s) - 1) /\ (i - 1) + 1 = i)
    BY <1>1
  <2>3. \A i \in 1..(Len(s) - 1) : i + 1 \in 1..Len(s)
    BY <1>1
  <2>4. Range(s) \subseteq {Head(s)} \cup Range(t)
    <3> SUFFICES ASSUME NEW i \in 1..Len(s)
                 PROVE  s[i] \in {Head(s)} \cup Range(t)
      BY <2>1 DEF Range
    <3>1. CASE i = 1
      BY <1>2, <3>1
    <3>2. CASE i # 1
      <4>1. s[i] = t[i - 1] /\ i - 1 \in DOMAIN t
        BY <1>2, <2>1, <2>2, <3>2
      <4>2. QED
        BY <4>1 DEF Range
    <3>3. QED
      BY <3>1, <3>2
  <2>5. {Head(s)} \cup Range(t) \subseteq Range(s)
    BY <1>1, <1>2, <2>1, <2>3 DEF Range
  <2>6. QED
    BY <2>4, <2>5
<1>5. QED
  BY <1>2, <1>3, <1>4

-----------------------------------------------------------------------------
\* What is loaded of the files that include each other.

Files == ParsedFiles

(* The file of a frame, what is left of what it includes, and who named it.*)
FrameOK(d) ==
  LET f == frames[d]
  IN  /\ f = [path |-> f.path, key |-> Canonical(f.path), left |-> f.left, project |-> Files[f.path]]
      /\ f.path \in DOMAIN input.files /\ Files[f.path] # <<>>
      /\ IsList(f.left) /\ Range(f.left) \subseteq Range(Files[f.path].includes)
      /\ IF d = 1 THEN f.path \in Range(input.roots) ELSE f.path \in IncludedBy(Files, frames[d - 1].path)

StackInv ==
  /\ input \in Inputs
  /\ IsList(frames)
  /\ IsList(todo) /\ Range(todo) \subseteq Range(input.roots)
  /\ \A d \in 1..Len(frames) : FrameOK(d)

\* The files that come after the first d frames, and those that still wait.
Nexts(d) == IF d = 0 THEN Range(input.roots) ELSE IncludedBy(Files, frames[d].path)
Waiting(d) ==
  IF d = 0 THEN Range(todo) ELSE {resolve_related_path(frames[d].path, t) : t \in Range(frames[d].left)}

(* Every chain that goes along the first d frames and then to a file ends  *)
(* within the limit, and meets no file twice.                              *)
Explored(d, path) ==
  \A w : /\ Chain(Files, w[1], w) /\ Len(w) > d
         /\ \A i \in 1..d : w[i] = frames[i].path
         /\ w[d + 1] = path
         => ~Twice(w) /\ Len(w) <= MaxDepth + 1

Cut == {<<"SUS-INC-001">>, <<"SUS-INC-002">>, <<"SUS-INC-003">>} \cap report # {}

(* Where nothing was refused, all that does not wait is explored.          *)
ExploredInv ==
  ~Cut =>
    \A d \in 0..Len(frames) : \A path \in Nexts(d) :
      \/ path \in Waiting(d)
      \/ d < Len(frames) /\ path = frames[d + 1].path
      \/ Explored(d, path)

(* A cycle that is reported is there.                                      *)
FirstTwice(root, w) ==
  /\ Chain(Files, root, w) /\ Len(w) <= MaxDepth + 2 /\ Twice(w)
  /\ \A i, j \in 1..(Len(w) - 1) : Canonical(w[i]) = Canonical(w[j]) => i = j

CycleInv == <<"SUS-INC-001">> \in report => \E root \in Range(input.roots) : \E w : FirstTwice(root, w)

PhaseInv ==
  /\ pc = "begin" => report = {}
  /\ pc \in {"extends", "graph", "done"} => frames = <<>> /\ todo = <<>>

LEMMA LeftReplaced ==
  ASSUME NEW p, NEW k, NEW l, NEW r, NEW x
  PROVE  [[path |-> p, key |-> k, left |-> l, project |-> r] EXCEPT !.left = x]
           = [path |-> p, key |-> k, left |-> x, project |-> r]
BY Z3

(* What beginning the next file changes of the frames and of what waits.   *)
LEMMA Begins ==
  ASSUME StackInv, Pending, input' = input, NEW f, NEW fs \in {<<>>, <<f>>}, NEW ts, Begun(fs, ts)
  PROVE  /\ IsList(frames') /\ Len(frames') = Len(frames) + Len(fs) /\ Len(frames) \in Nat
         /\ IsList(todo') /\ Range(todo') \subseteq Range(input.roots)
         /\ \A d \in 1..Len(frames) : FrameOK(d)' /\ frames'[d].path = frames[d].path
         /\ fs # <<>> => frames'[Len(frames) + 1] = f
         /\ Next_path \in Nexts(Len(frames))
         /\ \A d \in 0..Len(frames) : /\ Nexts(d)' = Nexts(d)
                                      /\ Waiting(d) \subseteq Waiting(d)' \cup (IF d = Len(frames) THEN {Next_path} ELSE {})
<1> DEFINE n == Len(frames)
           base == IF frames = <<>> THEN <<>> ELSE [frames EXCEPT ![n].left = Tail(@)]
           rest == [i \in 1..n |-> IF i = n THEN Tail(frames[i].left) ELSE frames[i].left]
<1>1. /\ n \in Nat /\ IsList(frames) /\ (frames = <<>> <=> n = 0) /\ frames = [i \in 1..n |-> frames[i]]
      /\ DOMAIN frames = 1..n
  BY Sequences DEF StackInv, IsList
<1>2. frames' = base \o fs /\ todo' = (IF frames = <<>> THEN Tail(todo) ELSE todo)
  BY DEF Begun
<1>3. Files' = Files /\ (\A x : Canonical(x)' = Canonical(x))
  <2>1. \A x : Canonical(x)' = Canonical(x)
    BY DEF Canonical
  <2>2. Files' = Files
    BY DEF Files, ParsedFiles, Layers, EnvFileLines, DotenvLines
  <2>3. QED
    BY <2>1, <2>2
<1>4. /\ DOMAIN base = 1..n
      /\ \A i \in 1..n : base[i] = [path |-> frames[i].path, key |-> Canonical(frames[i].path),
                                    left |-> rest[i], project |-> Files[frames[i].path]]
  <2>1. CASE frames = <<>>
    BY <1>1, <2>1
  <2>2. CASE frames # <<>>
    <3>1. base = [i \in 1..n |-> IF i = n THEN [frames[n] EXCEPT !.left = Tail(@)] ELSE frames[i]]
      BY <1>1, <2>2
    <3>2. \A i \in 1..n : frames[i] = [path |-> frames[i].path, key |-> Canonical(frames[i].path),
                                       left |-> frames[i].left, project |-> Files[frames[i].path]]
      BY DEF StackInv, FrameOK
    <3> HIDE DEF base, n
    <3>4. n \in 1..n
      BY <1>1, <2>2 DEF n
    <3>5. [frames[n] EXCEPT !.left = Tail(@)]
            = [path |-> frames[n].path, key |-> Canonical(frames[n].path),
               left |-> Tail(frames[n].left), project |-> Files[frames[n].path]]
      <4> DEFINE p == frames[n].path
                 k == Canonical(p)
                 l == frames[n].left
                 r == Files[p]
                 x == Tail(l)
      <4>1. frames[n] = [path |-> p, key |-> k, left |-> l, project |-> r]
        BY <3>2, <3>4
      <4>2. [frames[n] EXCEPT !.left = Tail(@)] = [frames[n] EXCEPT !.left = x]
        OBVIOUS
      <4> HIDE DEF p, k, l, r, x
      <4>3. [frames[n] EXCEPT !.left = x] = [path |-> p, key |-> k, left |-> x, project |-> r]
        BY <4>1, LeftReplaced
      <4>4. [frames[n] EXCEPT !.left = Tail(@)] = [path |-> p, key |-> k, left |-> x, project |-> r]
        BY <4>2, <4>3
      <4>5. QED
        BY <4>4 DEF p, k, l, r, x
    <3>6. rest[n] = Tail(frames[n].left) /\ \A i \in 1..n : i # n => rest[i] = frames[i].left
      BY <3>4
    <3> HIDE DEF rest
    <3>7. QED
      BY <3>1, <3>2, <3>5, <3>6
  <2>3. QED
    BY <2>1, <2>2
<1>5. IsList(base) /\ Len(base) = n
  <2> HIDE DEF n
  <2>1. base = [i \in DOMAIN base |-> base[i]]
    BY <1>1
  <2> HIDE DEF base
  <2>2. QED
    BY <1>1, <1>4, <2>1, FunctionsOnPositions DEF n
<1>6. /\ IsList(frames') /\ Len(frames') = n + Len(fs) /\ Len(fs) \in {0, 1}
      /\ \A i \in 1..n : frames'[i] = base[i]
      /\ fs # <<>> => frames'[n + 1] = f
  <2> HIDE DEF base, n
  <2>1. CASE fs = <<>>
    <3>1. base \in Seq(Range(base))
      BY <1>5 DEF IsList
    <3>2. base \o <<>> = base
      BY <3>1
    <3>3. QED
      BY <1>1, <1>2, <1>5, <2>1, <3>2
  <2>2. CASE fs = <<f>>
    <3>1. base \in Seq(Range(base))
      BY <1>5 DEF IsList
    <3>2. base \o <<f>> = Append(base, f)
      BY <3>1
    <3>3. frames' = Append(base, f) /\ Len(fs) = 1 /\ fs # <<>>
      BY <1>2, <2>2, <3>2
    <3>4. /\ IsList(Append(base, f)) /\ Len(Append(base, f)) = Len(base) + 1
          /\ Append(base, f)[Len(base) + 1] = f
          /\ \A i \in 1..Len(base) : Append(base, f)[i] = base[i]
      BY <1>5, AppendList
    <3>5. QED
      BY <1>5, <3>3, <3>4
  <2>3. QED
    BY <2>1, <2>2
<1> HIDE DEF base, n
<1>7. ASSUME NEW d \in 1..n
      PROVE  /\ frames'[d].path = frames[d].path
             /\ frames'[d].left = IF d = n THEN Tail(frames[d].left) ELSE frames[d].left
             /\ frames'[d] = base[d]
  <2>1. frames'[d] = base[d]
    BY <1>6, <1>7
  <2>2. rest[d] = IF d = n THEN Tail(frames[d].left) ELSE frames[d].left
    BY <1>7
  <2> HIDE DEF rest
  <2>4. base[d].path = frames[d].path /\ base[d].left = rest[d]
    BY <1>4, <1>7
  <2>3. QED
    BY <2>1, <2>2, <2>4
<1>8. Pending => IF n = 0 THEN IsList(todo) /\ todo # <<>> ELSE IsList(frames[n].left) /\ frames[n].left # <<>>
  BY <1>1 DEF Pending, StackInv, FrameOK, n
<1>9. ASSUME NEW d \in 1..n
      PROVE  FrameOK(d)'
  <2>1. FrameOK(d) /\ (d # 1 => d - 1 \in 1..n)
    BY <1>1, <1>9 DEF StackInv, n
  <2>2. /\ frames'[d] = [path |-> frames'[d].path, key |-> Canonical(frames'[d].path),
                         left |-> frames'[d].left, project |-> Files[frames'[d].path]]
    BY <1>4, <1>6, <1>7, <1>9
  <2>3. IsList(frames'[d].left) /\ Range(frames'[d].left) \subseteq Range(frames[d].left)
    <3>1. CASE d = n
      <4>1. IsList(frames[d].left) /\ frames[d].left # <<>> /\ frames'[d].left = Tail(frames[d].left)
        BY <1>1, <1>7, <1>8, <3>1
      <4>2. QED
        BY <4>1, ListTail
    <3>2. CASE d # n
      BY <1>7, <2>1, <3>2 DEF FrameOK
    <3>3. QED
      BY <3>1, <3>2
  <2>4. d # 1 => frames'[d - 1].path = frames[d - 1].path
    BY <1>7, <2>1
  <2>5. QED
    BY <1>3, <1>7, <1>9, <2>1, <2>2, <2>3, <2>4 DEF FrameOK
<1>10. IsList(todo') /\ Range(todo') \subseteq Range(todo)
  <2>1. CASE n = 0
    BY <1>1, <1>2, <1>8, <2>1, ListTail
  <2>2. CASE n # 0
    BY <1>1, <1>2, <2>2 DEF StackInv
  <2>3. QED
    BY <2>1, <2>2
<1>11. Next_path \in Nexts(n)
  <2>1. CASE n = 0
    <3>1. Next_path = Head(todo) /\ Head(todo) \in Range(todo)
      BY <1>1, <1>8, <2>1, ListTail DEF Next_path
    <3>2. QED
      BY <2>1, <3>1 DEF StackInv, Nexts
  <2>2. CASE n # 0
    <3>1. Next_path = resolve_related_path(frames[n].path, Head(frames[n].left))
      BY <1>1, <2>2 DEF Next_path, n
    <3>2. Head(frames[n].left) \in Range(frames[n].left)
      BY <1>8, <2>2, ListTail
    <3>3. FrameOK(n)
      BY <1>1, <2>2 DEF StackInv, n
    <3>4. FileAt(Files, frames[n].path) = Files[frames[n].path]
      BY <3>3 DEF FrameOK, FileAt, Files, ParsedFiles
    <3>5. QED
      BY <2>2, <3>1, <3>2, <3>3, <3>4 DEF FrameOK, Nexts, IncludedBy
  <2>3. QED
    BY <2>1, <2>2
<1>12. ASSUME NEW d \in 0..n
       PROVE  /\ Nexts(d)' = Nexts(d)
              /\ Waiting(d) \subseteq Waiting(d)' \cup (IF d = n THEN {Next_path} ELSE {})
  <2>1. Nexts(d)' = Nexts(d)
    BY <1>1, <1>3, <1>7, <1>12 DEF Nexts
  <2>2. CASE d = 0 /\ n = 0
    <3>1. Next_path = Head(todo) /\ Range(todo) = {Head(todo)} \cup Range(todo')
      BY <1>1, <1>2, <1>8, <2>2, ListTail DEF Next_path
    <3>2. QED
      BY <2>1, <2>2, <3>1 DEF Waiting
  <2>3. CASE d = 0 /\ n # 0
    BY <1>1, <1>2, <2>1, <2>3 DEF Waiting
  <2>4. CASE d # 0 /\ d = n
    <3>1. d \in 1..n /\ frames # <<>>
      BY <1>1, <2>4
    <3>2. Next_path = resolve_related_path(frames[d].path, Head(frames[d].left))
      BY <1>1, <2>4, <3>1 DEF Next_path, n
    <3>3. Range(frames[d].left) = {Head(frames[d].left)} \cup Range(frames'[d].left)
      BY <1>7, <1>8, <2>4, <3>1, ListTail
    <3>4. frames'[d].path = frames[d].path
      BY <1>7, <3>1
    <3>5. QED
      BY <2>1, <2>4, <3>2, <3>3, <3>4 DEF Waiting
  <2>5. CASE d # 0 /\ d # n
    <3>1. d \in 1..n
      BY <1>1, <2>5
    <3>2. frames'[d].path = frames[d].path /\ frames'[d].left = frames[d].left
      BY <1>7, <2>5, <3>1
    <3>3. QED
      BY <2>1, <2>5, <3>2 DEF Waiting
  <2>6. QED
    BY <2>2, <2>3, <2>4, <2>5
<1>13. QED
  BY <1>1, <1>6, <1>7, <1>9, <1>10, <1>11, <1>12 DEF n, StackInv

LEMMA SameFiles ==
  ASSUME input' = input
  PROVE  Files' = Files /\ \A x : Canonical(x)' = Canonical(x)
<1>1. \A x : Canonical(x)' = Canonical(x)
  BY DEF Canonical
<1>2. Files' = Files
  BY DEF Files, ParsedFiles, Layers, EnvFileLines, DotenvLines
<1>3. QED
  BY <1>1, <1>2

LEMMA CycleStays ==
  ASSUME input' = input, CycleInv, <<"SUS-INC-001">> \in report' => <<"SUS-INC-001">> \in report
  PROVE  CycleInv'
<1>1. Files' = Files /\ \A x : Canonical(x)' = Canonical(x)
  BY SameFiles
<1>2. \A root, w : FirstTwice(root, w)' <=> FirstTwice(root, w)
  BY <1>1 DEF FirstTwice, Twice
<1>3. QED
  BY <1>2 DEF CycleInv

(* The frames and a file after them are a chain.                           *)
LEMMA StackIsChain ==
  ASSUME StackInv, NEW path \in Nexts(Len(frames))
  PROVE  \E w : /\ Chain(Files, w[1], w) /\ Len(w) = Len(frames) + 1 /\ w[1] \in Range(input.roots)
                /\ \A i \in 1..Len(frames) : w[i] = frames[i].path
                /\ w[Len(frames) + 1] = path
<1> DEFINE n == Len(frames)
           p == [i \in 1..n |-> frames[i].path]
           w == Append(p, path)
<1>1. n \in Nat /\ DOMAIN frames = 1..n
  BY Sequences DEF StackInv
<1>2. IsList(p) /\ Len(p) = n /\ \A i \in 1..n : p[i] = frames[i].path
  <2>1. p \in Seq(Range(p)) /\ Len(p) = n
    BY <1>1 DEF Range
  <2>2. QED
    BY <2>1 DEF IsList
<1> HIDE DEF p
<1>3. IsList(w) /\ Len(w) = n + 1 /\ w[n + 1] = path /\ \A i \in 1..n : w[i] = p[i]
  BY <1>2, AppendList
<1> HIDE DEF w
<1>4. \A d \in 1..n : IF d = 1 THEN frames[d].path \in Range(input.roots)
                      ELSE frames[d].path \in IncludedBy(Files, frames[d - 1].path)
  BY DEF StackInv, FrameOK
<1>5. ASSUME NEW i \in 1..n
      PROVE  w[i + 1] \in IncludedBy(Files, w[i])
  <2>1. CASE i = n
    <3>1. n # 0
      BY <1>1, <2>1
    <3>2. path \in IncludedBy(Files, frames[n].path)
      BY <3>1 DEF Nexts
    <3> HIDE DEF n
    <3>3. w[i + 1] = path /\ w[i] = frames[i].path
      BY <1>1, <1>2, <1>3, <2>1
    <3>4. QED
      BY <2>1, <3>2, <3>3
  <2>2. CASE i # n
    <3>1. i + 1 \in 1..n /\ i + 1 # 1 /\ (i + 1) - 1 = i
      <4> HIDE DEF n
      <4>1. QED
        BY <1>1, <2>2
    <3>2. frames[i + 1].path \in IncludedBy(Files, frames[(i + 1) - 1].path)
      BY <1>4, <3>1
    <3>3. QED
      BY <1>2, <1>3, <3>1, <3>2
  <2>3. QED
    BY <2>1, <2>2
<1>6. w # <<>> /\ w[1] \in Range(input.roots)
  <2>1. w # <<>>
    BY <1>1, <1>3, Sequences
  <2>2. CASE n = 0
    BY <1>3, <2>2 DEF Nexts
  <2>3. CASE n # 0
    <3>1. 1 \in 1..n
      BY <1>1, <2>3
    <3>2. QED
      BY <1>2, <1>3, <1>4, <3>1
  <2>4. QED
    BY <2>1, <2>2, <2>3
<1>7. Chain(Files, w[1], w)
  BY <1>1, <1>3, <1>5, <1>6 DEF Chain
<1>8. QED
  BY <1>2, <1>3, <1>6, <1>7

LEMMA Differ ==
  ASSUME NEW w, IsList(w), NEW n \in Nat, Len(w) = n,
         \A i, j \in 1..n : Canonical(w[i]) = Canonical(w[j]) => i = j
  PROVE  ~Twice(w)
<1>1. DOMAIN w = 1..n
  BY Sequences
<1>2. \A i, j \in 1..n : i < j => i # j
  OBVIOUS
<1>3. QED
  BY <1>1, <1>2 DEF Twice

(* Files along the frames differ, and so does one that was not refused.    *)
LEMMA AlongDiffer ==
  ASSUME LoadInv, StackInv, NEW d \in 1..Len(frames), NEW w, IsList(w), Len(w) = d,
         \A i \in 1..d : w[i] = frames[i].path
  PROVE  ~Twice(w) /\ Len(w) <= MaxDepth + 1
<1> DEFINE n == Len(frames)
<1>1. n \in Nat /\ d \in Nat /\ d <= n /\ n <= MaxDepth + 1
  BY Sequences DEF StackInv, LoadInv
<1>2. \A i \in 1..n : frames[i].key = Canonical(frames[i].path)
  <2> SUFFICES ASSUME NEW i \in 1..n
               PROVE  frames[i].key = Canonical(frames[i].path)
    OBVIOUS
  <2>1. frames[i] = [path |-> frames[i].path, key |-> Canonical(frames[i].path), left |-> frames[i].left,
                     project |-> Files[frames[i].path]]
    BY DEF StackInv, FrameOK
  <2>2. QED
    BY <2>1
<1>3. \A i \in 1..d : i \in 1..n
  BY <1>1
<1>4. \A i, j \in 1..d : Canonical(w[i]) = Canonical(w[j]) => i = j
  BY <1>2, <1>3 DEF LoadInv
<1>5. Len(w) <= MaxDepth + 1
  <2> HIDE DEF n
  <2>1. QED
    BY <1>1, LimitsAssumption
<1>6. QED
  BY <1>1, <1>4, <1>5, Differ

LEMMA NewDiffers ==
  ASSUME LoadInv, StackInv, NEW w, IsList(w), Len(w) = Len(frames) + 1,
         \A i \in 1..Len(frames) : w[i] = frames[i].path,
         Refusal(Len(frames), w[Len(frames) + 1]) = "none"
  PROVE  ~Twice(w) /\ Len(w) <= MaxDepth + 1
<1> DEFINE n == Len(frames)
           path == w[n + 1]
<1>1. n \in Nat /\ DOMAIN frames = 1..n
  BY Sequences DEF StackInv
<1>2. ~(n > MaxDepth) /\ Canonical(path) \notin Stacked
  BY DEF Refusal
<1>3. \A i \in 1..n : frames[i].key = Canonical(frames[i].path)
  <2> SUFFICES ASSUME NEW i \in 1..n
               PROVE  frames[i].key = Canonical(frames[i].path)
    OBVIOUS
  <2>1. frames[i] = [path |-> frames[i].path, key |-> Canonical(frames[i].path), left |-> frames[i].left,
                     project |-> Files[frames[i].path]]
    BY DEF StackInv, FrameOK
  <2>2. QED
    BY <2>1
<1>4. \A i \in 1..n : Canonical(path) # Canonical(frames[i].path)
  BY <1>1, <1>2, <1>3 DEF Stacked
<1>5. \A i, j \in 1..n : Canonical(frames[i].path) = Canonical(frames[j].path) => i = j
  BY <1>3 DEF LoadInv
<1>6. \A i \in 1..(n + 1) : i \in 1..n \/ i = n + 1
  BY <1>1
<1> HIDE DEF path
<1>7. \A i, j \in 1..(n + 1) : Canonical(w[i]) = Canonical(w[j]) => i = j
  BY <1>4, <1>5, <1>6 DEF path
<1>8. Len(w) <= MaxDepth + 1 /\ n + 1 \in Nat
  <2> HIDE DEF n
  <2>1. Len(w) = n + 1
    BY DEF n
  <2>2. QED
    BY <1>1, <1>2, <2>1, LimitsAssumption
<1>9. QED
  BY <1>7, <1>8, Differ

PathInv == LoadInv /\ StackInv /\ ExploredInv /\ CycleInv /\ PhaseInv

LEMMA RefuseKeeps ==
  ASSUME PathInv, Refuse
  PROVE  PathInv'
<1> DEFINE n == Len(frames)
           path == Next_path
<1>1. /\ Pending /\ Refusal(n, path) # "none" /\ report' = report \cup {<<Refusal(n, path)>>}
      /\ Begun(<<>>, <<loaded, parsed, merged>>) /\ input' = input /\ pc = "load" /\ pc' = "load"
  BY DEF Refuse
<1>2. LoadInv'
  BY LoadStepKeeps DEF PathInv
<1>3. /\ IsList(frames') /\ Len(frames') = n + 0 /\ n \in Nat
      /\ IsList(todo') /\ Range(todo') \subseteq Range(input.roots)
      /\ \A d \in 1..n : FrameOK(d)' /\ frames'[d].path = frames[d].path
      /\ path \in Nexts(n)
  <2>1. Len(<<>>) = 0 /\ <<>> \in {<<>>, <<0>>}
    OBVIOUS
  <2> HIDE DEF path
  <2>2. QED
    BY <1>1, <2>1, Begins DEF PathInv, path
<1>4. StackInv'
  <2>1. Len(frames') = n
    BY <1>3
  <2>2. input' \in Inputs
    BY <1>1 DEF PathInv, StackInv
  <2> HIDE DEF n
  <2>3. QED
    BY <1>1, <1>3, <2>1, <2>2 DEF StackInv
<1>5. Refusal(n, path) \in {"SUS-INC-001", "SUS-INC-002", "SUS-INC-003"}
  BY <1>1 DEF Refusal
<1>6. ExploredInv'
  BY <1>1, <1>5 DEF ExploredInv, Cut
<1>7. CycleInv'
  <2>1. CASE Refusal(n, path) = "SUS-INC-001"
    <3>1. ~(n > MaxDepth) /\ Canonical(path) \in Stacked
      BY <2>1 DEF Refusal
    <3>2. PICK w : /\ Chain(Files, w[1], w) /\ Len(w) = n + 1 /\ w[1] \in Range(input.roots)
                   /\ \A i \in 1..n : w[i] = frames[i].path
                   /\ w[n + 1] = path
      BY <1>3, StackIsChain DEF PathInv
    <3>3. IsList(w) /\ DOMAIN w = 1..(n + 1) /\ DOMAIN frames = 1..n
      BY <3>2, Sequences DEF Chain, PathInv, StackInv
    <3>4. \A i \in 1..n : frames[i].key = Canonical(frames[i].path)
      <4> SUFFICES ASSUME NEW i \in 1..n
                   PROVE  frames[i].key = Canonical(frames[i].path)
        OBVIOUS
      <4>1. frames[i] = [path |-> frames[i].path, key |-> Canonical(frames[i].path), left |-> frames[i].left,
                         project |-> Files[frames[i].path]]
        BY DEF PathInv, StackInv, FrameOK
      <4>2. QED
        BY <4>1
    <3>5. PICK i \in 1..n : Canonical(path) = Canonical(frames[i].path)
      BY <3>1, <3>3, <3>4 DEF Stacked
    <3>6. i \in 1..(n + 1) /\ n + 1 \in 1..(n + 1) /\ i < n + 1
      BY <1>3
    <3>7. Twice(w)
      <4>1. Canonical(w[i]) = Canonical(w[n + 1])
        BY <3>2, <3>5
      <4>2. QED
        BY <3>3, <3>6, <4>1 DEF Twice
    <3>8. \A j, k \in 1..n : Canonical(w[j]) = Canonical(w[k]) => j = k
      BY <3>2, <3>4 DEF PathInv, LoadInv
    <3> HIDE DEF n, path
    <3>9. Len(w) <= MaxDepth + 2 /\ Len(w) - 1 = n
      BY <1>3, <3>1, <3>2, LimitsAssumption
    <3>10. FirstTwice(w[1], w)
      BY <3>2, <3>7, <3>8, <3>9 DEF FirstTwice
    <3>11. Files' = Files /\ \A x : Canonical(x)' = Canonical(x)
      BY <1>1, SameFiles
    <3>12. FirstTwice(w[1], w)'
      BY <3>10, <3>11 DEF FirstTwice, Twice
    <3>13. QED
      BY <1>1, <3>2, <3>12 DEF CycleInv
  <2>2. CASE Refusal(n, path) # "SUS-INC-001"
    <3>1. <<"SUS-INC-001">> \in report' => <<"SUS-INC-001">> \in report
      BY <1>1, <2>2
    <3>2. QED
      BY <1>1, <3>1, CycleStays DEF PathInv
  <2>3. QED
    BY <2>1, <2>2
<1>8. PhaseInv'
  BY <1>1 DEF PhaseInv
<1>9. QED
  BY <1>2, <1>4, <1>6, <1>7, <1>8 DEF PathInv

(* A file that includes nothing it could be read with ends every chain.    *)
LEMMA DeadEnd ==
  ASSUME NEW w, Chain(Files, w[1], w), NEW n \in Nat, n < Len(w), FileAt(Files, w[n + 1]) = <<>>
  PROVE  Len(w) = n + 1
<1>1. IncludedBy(Files, w[n + 1]) = {}
  BY DEF IncludedBy
<1>2. IsList(w) /\ Len(w) \in Nat
  BY Sequences DEF Chain
<1>3. n + 1 \in 1..(Len(w) - 1) \/ Len(w) = n + 1
  BY <1>2
<1>4. QED
  BY <1>1, <1>3 DEF Chain

LEMMA ExploredStays ==
  ASSUME input' = input, NEW d \in Nat, NEW path, Explored(d, path),
         \A i \in 1..d : frames'[i].path = frames[i].path
  PROVE  Explored(d, path)'
<1>1. Files' = Files /\ \A x : Canonical(x)' = Canonical(x)
  BY SameFiles
<1>2. \A w : Twice(w)' <=> Twice(w)
  BY <1>1 DEF Twice
<1>3. SUFFICES ASSUME NEW w, Chain(Files', w[1], w), Len(w) > d,
                      \A i \in 1..d : w[i] = frames'[i].path, w[d + 1] = path
               PROVE  ~Twice(w)' /\ Len(w) <= MaxDepth + 1
  BY DEF Explored
<1>4. Chain(Files, w[1], w) /\ \A i \in 1..d : w[i] = frames[i].path
  BY <1>1, <1>3
<1>5. ~Twice(w) /\ Len(w) <= MaxDepth + 1
  BY <1>3, <1>4 DEF Explored
<1>6. QED
  BY <1>2, <1>5

LEMMA NoCycleCode ==
  /\ \A lines : <<"SUS-INC-001">> \notin DotenvProblems(lines)
  /\ \A yaml, layers : <<"SUS-INC-001">> \notin ParseProblems(yaml, layers)
  /\ \A p, chosen, files : <<"SUS-INC-001">> \notin validate(p, chosen, files)
<1>1. \A x, y : <<x, y>> # <<"SUS-INC-001">>
  OBVIOUS
<1>2. \A x, y, z : <<x, y, z>> # <<"SUS-INC-001">>
  OBVIOUS
<1>3. \A lines : <<"SUS-INC-001">> \notin DotenvProblems(lines)
  BY <1>1 DEF DotenvProblems
<1>4. ASSUME NEW yaml, NEW layers
      PROVE  <<"SUS-INC-001">> \notin ParseProblems(yaml, layers)
  <2>1. \A t : <<"SUS-INC-001">> \notin InterpolationProblems(t, layers)
    BY <1>1 DEF InterpolationProblems
  <2>2. <<"SUS-PARSE-001">> # <<"SUS-INC-001">> /\ <<"SUS-PARSE-003">> # <<"SUS-INC-001">>
        /\ <<"SUS-PARSE-010">> # <<"SUS-INC-001">>
    OBVIOUS
  <2>3. QED
    BY <1>1, <2>1, <2>2 DEF ParseProblems
<1>5. ASSUME NEW p, NEW chosen, NEW files
      PROVE  <<"SUS-INC-001">> \notin validate(p, chosen, files)
  <2>1. <<"SUS-INC-001">> \notin validate_references(p, chosen)
    BY <1>2 DEF validate_references
  <2>2. <<"SUS-INC-001">> \notin validate_config_secret_definitions(p, files)
    BY <1>1 DEF validate_config_secret_definitions
  <2>3. <<"SUS-INC-001">> \notin validate_ports(p, chosen)
    BY <1>1 DEF validate_ports
  <2>4. <<"SUS-INC-001">> \notin validate_health_dependencies(p, chosen)
    BY <1>2 DEF validate_health_dependencies
  <2>5. QED
    BY <2>1, <2>2, <2>3, <2>4 DEF validate
<1>6. QED
  BY <1>3, <1>4, <1>5

LEMMA LoadKeeps ==
  ASSUME PathInv, LoadFile
  PROVE  PathInv'
<1>0. PICK n, path : n = Len(frames) /\ path = Next_path
  OBVIOUS
<1> DEFINE file == Files[path]
           new == [path |-> path, key |-> Canonical(path), left |-> file.includes, project |-> file]
           fs == IF file = <<>> THEN <<>> ELSE <<new>>
<1>1. /\ Pending /\ Refusal(n, path) = "none" /\ path \in DOMAIN input.files
      /\ report' = report \cup DotenvProblems(DotenvLines(Parent(path)))
                          \cup ParseProblems(input.files[path], Layers(path))
      /\ input' = input /\ pc = "load" /\ pc' = "load"
  BY <1>0 DEF LoadFile
<1>2. file = ParsedFile(input.files[path], Layers(path))
  BY <1>1 DEF Files, ParsedFiles
<1>3. Begun(fs, <<parsed, merged>>)
  BY <1>0, <1>2 DEF LoadFile
<1>4. LoadInv'
  BY LoadStepKeeps DEF PathInv
<1>5. Files' = Files /\ (\A x : Canonical(x)' = Canonical(x)) /\ input.files \in {in.files : in \in Inputs}
  BY <1>1, SameFiles DEF PathInv, StackInv
<1>6. file # <<>> => IsList(file.includes)
  <2> SUFFICES ASSUME file # <<>>
               PROVE  IsList(file.includes)
    OBVIOUS
  <2>1. IsYaml(input.files[path])
    BY <1>1, InputsAssumption DEF PathInv, StackInv
  <2>2. PICK doc : file = ProjectOf(doc, Layers(path)) /\ \A m \in Nodes(doc) : IsNode(m)
    BY <1>2, <2>1, FileRead
  <2>3. QED
    BY <2>2, IncludesRead
<1>7. Len(fs) = (IF file = <<>> THEN 0 ELSE 1) /\ fs \in {<<>>, <<new>>} /\ (file = <<>> <=> fs = <<>>)
  BY Zenon
<1> HIDE DEF fs, new, file
<1>8. /\ IsList(frames') /\ Len(frames') = n + Len(fs) /\ n \in Nat
      /\ IsList(todo') /\ Range(todo') \subseteq Range(input.roots)
      /\ \A d \in 1..n : FrameOK(d)' /\ frames'[d].path = frames[d].path
      /\ fs # <<>> => frames'[n + 1] = new
      /\ path \in Nexts(n)
      /\ \A d \in 0..n : /\ Nexts(d)' = Nexts(d)
                         /\ Waiting(d) \subseteq Waiting(d)' \cup (IF d = n THEN {path} ELSE {})
  BY <1>0, <1>1, <1>3, <1>7, Begins DEF PathInv
<1>9. file # <<>> => /\ Len(frames') = n + 1 /\ frames'[n + 1] = new
                       /\ new.path = path /\ new.left = file.includes
  BY <1>7, <1>8 DEF new
<1>10. StackInv'
  <2>1. ASSUME file # <<>>
        PROVE  FrameOK(n + 1)'
    <3>1. new = [path |-> path, key |-> Canonical(path), left |-> file.includes, project |-> file]
      BY DEF new
    <3>2. frames'[n + 1] = new /\ new.path = path /\ new.left = file.includes
      BY <1>9, <2>1
    <3>3. IF n + 1 = 1 THEN path \in Range(input.roots) ELSE path \in IncludedBy(Files, frames[(n + 1) - 1].path)
      BY <1>8 DEF Nexts
    <3>4. n + 1 = 1 \/ ((n + 1) - 1 \in 1..n /\ frames'[(n + 1) - 1].path = frames[(n + 1) - 1].path)
      BY <1>8
    <3>5. input' = input /\ Files' = Files /\ Canonical(path)' = Canonical(path)
      BY <1>1, <1>5
    <3>6. path \in DOMAIN input.files /\ Files[path] = file /\ IsList(file.includes)
      BY <1>1, <1>6, <2>1 DEF file
    <3>7. frames'[n + 1] = [path |-> frames'[n + 1].path, key |-> Canonical(path)',
                            left |-> frames'[n + 1].left, project |-> Files'[frames'[n + 1].path]]
      BY <1>5, <3>1, <3>2, <3>5, <3>6
    <3>8. QED
      BY <2>1, <3>2, <3>3, <3>4, <3>5, <3>6, <3>7 DEF FrameOK
  <2>2. \A d \in 1..Len(frames') : d \in 1..n \/ (d = n + 1 /\ file # <<>>)
    BY <1>7, <1>8
  <2>3. \A d \in 1..Len(frames') : FrameOK(d)'
    BY <1>8, <2>1, <2>2
  <2>4. input' \in Inputs
    BY <1>1 DEF PathInv, StackInv
  <2>5. QED
    BY <1>1, <1>8, <2>3, <2>4 DEF StackInv
<1>11. ExploredInv'
  <2> SUFFICES ASSUME ~Cut', NEW d \in 0..Len(frames'), NEW q \in Nexts(d)'
               PROVE  \/ q \in Waiting(d)'
                      \/ d < Len(frames') /\ q = frames'[d + 1].path
                      \/ Explored(d, q)'
    BY DEF ExploredInv
  <2>1. ~Cut
    BY <1>1 DEF Cut
  <2>2. CASE d \in 0..n
    <3>1. q \in Nexts(d) /\ d \in Nat
      BY <1>8, <2>2
    <3>2. \/ q \in Waiting(d)
          \/ d < n /\ q = frames[d + 1].path
          \/ Explored(d, q)
      BY <1>0, <2>1, <2>2, <3>1 DEF PathInv, ExploredInv
    <3>3. \A i \in 1..d : frames'[i].path = frames[i].path
      BY <1>8, <2>2
    <3>4. CASE Explored(d, q)
      BY <1>1, <3>1, <3>3, <3>4, ExploredStays
    <3>5. CASE d < n /\ q = frames[d + 1].path
      <4>1. d + 1 \in 1..n /\ d < Len(frames')
        BY <1>7, <1>8, <2>2, <3>5
      <4>2. QED
        BY <1>8, <3>5, <4>1
    <3>6. CASE q \in Waiting(d) /\ ~(d = n /\ q = path)
      BY <1>8, <2>2, <3>6
    <3>7. CASE d = n /\ q = path /\ file # <<>>
      BY <1>8, <1>9, <3>7
    <3>8. CASE d = n /\ q = path /\ file = <<>>
      <4>1. Explored(n, path)
        <5> SUFFICES ASSUME NEW w, Chain(Files, w[1], w), Len(w) > n,
                            \A i \in 1..n : w[i] = frames[i].path, w[n + 1] = path
                     PROVE  ~Twice(w) /\ Len(w) <= MaxDepth + 1
          BY DEF Explored
        <5>1. FileAt(Files, w[n + 1]) = <<>>
          BY <3>8 DEF FileAt, file
        <5>2. Len(w) = n + 1
          <6>1. Len(w) \in Nat
            BY Sequences DEF Chain
          <6>2. n < Len(w)
            BY <1>8, <6>1
          <6>3. QED
            BY <1>8, <5>1, <6>2, DeadEnd
        <5>3. Refusal(n, w[n + 1]) = "none"
          BY <1>1
        <5>4. QED
          BY <1>0, <5>2, <5>3, NewDiffers DEF PathInv, Chain
      <4>2. QED
        BY <1>1, <1>8, <3>3, <3>8, <4>1, ExploredStays
    <3>9. QED
      BY <3>2, <3>4, <3>5, <3>6, <3>7, <3>8
  <2>3. CASE d \notin 0..n
    <3>1. d = n + 1 /\ file # <<>>
      BY <1>7, <1>8, <2>3
    <3>2. d # 0 /\ frames'[d].path = path /\ frames'[d].left = file.includes
      BY <1>8, <1>9, <3>1
    <3>3. q \in IncludedBy(Files, path)
      BY <1>5, <3>2 DEF Nexts
    <3>4. FileAt(Files, path) = file
      BY <1>1 DEF FileAt, Files, ParsedFiles, file
    <3>5. q \in {resolve_related_path(path, t) : t \in Range(file.includes)}
      BY <3>1, <3>3, <3>4 DEF IncludedBy, file
    <3>6. QED
      BY <3>2, <3>5 DEF Waiting
  <2>4. QED
    BY <2>2, <2>3
<1>12. CycleInv'
  <2>1. <<"SUS-INC-001">> \in report' => <<"SUS-INC-001">> \in report
    BY <1>1, NoCycleCode
  <2>2. QED
    BY <1>1, <2>1, CycleStays DEF PathInv
<1>13. PhaseInv'
  BY <1>1 DEF PhaseInv
<1>14. QED
  BY <1>4, <1>10, <1>11, <1>12, <1>13 DEF PathInv

LEMMA LeaveExplores ==
  ASSUME PathInv, LeaveFile
  PROVE  PathInv'
<1>0. PICK n : n = Len(frames)
  OBVIOUS
<1>1. /\ frames # <<>> /\ frames[n].left = <<>> /\ frames' = SubSeq(frames, 1, n - 1)
      /\ input' = input /\ pc = "load" /\ pc' = "load" /\ todo' = todo /\ report' = report
  BY <1>0 DEF LeaveFile
<1>2. LoadInv'
  BY LeaveKeeps DEF PathInv
<1>3. IsList(frames) /\ n \in Nat \ {0} /\ n - 1 \in 0..n /\ n - 1 < n
  BY <1>0, <1>1, Sequences DEF PathInv, StackInv
<1>4. IsList(frames') /\ Len(frames') = n - 1 /\ \A i \in 1..(n - 1) : frames'[i] = frames[i]
  BY <1>0, <1>1, <1>3, PrefixList
<1>5. Files' = Files /\ \A x : Canonical(x)' = Canonical(x)
  BY <1>1, SameFiles
<1>6. StackInv'
  <2>1. ASSUME NEW d \in 1..(n - 1)
        PROVE  FrameOK(d)'
    <3>1. FrameOK(d) /\ frames'[d] = frames[d]
      BY <1>0, <1>3, <1>4, <2>1 DEF PathInv, StackInv
    <3>2. d = 1 \/ frames'[d - 1] = frames[d - 1]
      BY <1>3, <1>4, <2>1
    <3>3. QED
      BY <1>1, <1>5, <3>1, <3>2 DEF FrameOK
  <2>2. QED
    BY <1>1, <1>4, <2>1 DEF PathInv, StackInv
<1>7. ExploredInv'
  <2> SUFFICES ASSUME ~Cut', NEW d \in 0..(n - 1), NEW q \in Nexts(d)'
               PROVE  \/ q \in Waiting(d)'
                      \/ d < n - 1 /\ q = frames'[d + 1].path
                      \/ Explored(d, q)'
    BY <1>4 DEF ExploredInv
  <2>1. ~Cut
    BY <1>1 DEF Cut
  <2>2. Nexts(d)' = Nexts(d) /\ Waiting(d)' = Waiting(d) /\ \A i \in 1..d : frames'[i].path = frames[i].path
    <3>1. d = 0 \/ d \in 1..(n - 1)
      BY <1>3
    <3>2. \A i \in 1..d : i \in 1..(n - 1)
      BY <1>3
    <3>3. QED
      BY <1>1, <1>4, <1>5, <3>1, <3>2 DEF Nexts, Waiting
  <2>3. d \in 0..n /\ d \in Nat /\ d < n
    BY <1>3
  <2>4. \/ q \in Waiting(d)
        \/ d < n /\ q = frames[d + 1].path
        \/ Explored(d, q)
    BY <1>0, <2>1, <2>2, <2>3 DEF PathInv, ExploredInv
  <2>5. CASE Explored(d, q)
    BY <1>1, <2>2, <2>3, <2>5, ExploredStays
  <2>6. CASE d < n - 1 /\ q = frames[d + 1].path
    <3>1. d + 1 \in 1..(n - 1)
      BY <1>3, <2>6
    <3>2. QED
      BY <1>4, <2>6, <3>1
  <2>7. CASE d = n - 1 /\ q = frames[n].path
    <3>1. Explored(d, q)
      <4> SUFFICES ASSUME NEW w, Chain(Files, w[1], w), Len(w) > d,
                          \A i \in 1..d : w[i] = frames[i].path, w[d + 1] = q
                   PROVE  ~Twice(w) /\ Len(w) <= MaxDepth + 1
        BY DEF Explored
      <4>1. IsList(w) /\ Len(w) \in Nat /\ Len(w) >= n /\ d + 1 = n
        BY <1>3, <2>7, Sequences DEF Chain
      <4>2. \A i \in 1..n : w[i] = frames[i].path
        BY <1>3, <2>7, <4>1
      <4>3. CASE Len(w) = n
        BY <1>0, <1>3, <4>1, <4>2, <4>3, AlongDiffer DEF PathInv
      <4>4. CASE Len(w) > n
        <5>1. w[n + 1] \in IncludedBy(Files, w[n])
          BY <1>3, <4>1, <4>4 DEF Chain
        <5>2. w[n + 1] \in Nexts(n) /\ n \in 0..n /\ ~(n < n)
          BY <1>3, <4>2, <5>1 DEF Nexts
        <5>3. Waiting(n) = {}
          BY <1>1, <1>3 DEF Waiting, Range
        <5>4. Explored(n, w[n + 1])
          BY <1>0, <2>1, <5>2, <5>3 DEF PathInv, ExploredInv
        <5>5. QED
          BY <4>2, <4>4, <5>4 DEF Explored
      <4>5. QED
        BY <1>3, <4>1, <4>3, <4>4
    <3>2. QED
      BY <1>1, <2>2, <2>3, <3>1, ExploredStays
  <2>8. d + 1 = n \/ d < n - 1
    BY <1>3
  <2>9. QED
    BY <1>3, <2>2, <2>4, <2>5, <2>6, <2>7, <2>8
<1>8. CycleInv'
  BY <1>1, CycleStays DEF PathInv
<1>9. PhaseInv'
  BY <1>1 DEF PhaseInv
<1>10. QED
  BY <1>2, <1>6, <1>7, <1>8, <1>9 DEF PathInv

(* Steps that begin and leave no file.                                     *)
LEMMA OthersExplore ==
  ASSUME PathInv, input' = input, frames' = frames, todo' = todo, loaded' = loaded, report \subseteq report',
         <<"SUS-INC-001">> \in report' => <<"SUS-INC-001">> \in report,
         pc' = "begin" => report' = {},
         pc' \in {"extends", "graph", "done"} => (frames = <<>> /\ todo = <<>>)
  PROVE  PathInv'
<1>1. Files' = Files /\ \A x : Canonical(x)' = Canonical(x)
  BY SameFiles
<1>2. LoadInv'
  BY DEF PathInv, LoadInv
<1>3. StackInv'
  BY <1>1 DEF PathInv, StackInv, FrameOK
<1>4. ExploredInv'
  <2> SUFFICES ASSUME ~Cut', NEW d \in 0..Len(frames), NEW q \in Nexts(d)'
               PROVE  \/ q \in Waiting(d)'
                      \/ d < Len(frames) /\ q = frames[d + 1].path
                      \/ Explored(d, q)'
    BY DEF ExploredInv
  <2>1. ~Cut
    BY DEF Cut
  <2>2. Nexts(d)' = Nexts(d) /\ Waiting(d)' = Waiting(d) /\ d \in Nat
    BY <1>1 DEF Nexts, Waiting
  <2>3. \/ q \in Waiting(d)
        \/ d < Len(frames) /\ q = frames[d + 1].path
        \/ Explored(d, q)
    BY <2>1, <2>2 DEF PathInv, ExploredInv
  <2>4. Explored(d, q) => Explored(d, q)'
    BY <2>2, ExploredStays
  <2>5. QED
    BY <2>2, <2>3, <2>4
<1>5. CycleInv'
  BY CycleStays DEF PathInv
<1>6. PhaseInv'
  BY DEF PhaseInv
<1>7. QED
  BY <1>2, <1>3, <1>4, <1>5, <1>6 DEF PathInv

LEMMA PathInitial == Init => PathInv
<1> SUFFICES ASSUME Init
             PROVE  PathInv
  OBVIOUS
<1>1. frames = <<>> /\ loaded = 0 /\ todo = input.roots /\ report = {} /\ input \in Inputs /\ pc = "begin"
  BY DEF Init
<1>2. LoadInv
  <2>1. <<>> \in Seq(FrameOf({}))
    OBVIOUS
  <2>2. QED
    BY <1>1, <2>1, LimitsAssumption DEF LoadInv
<1>3. IsList(input.roots) /\ IsList(<<>>) /\ Len(<<>>) = 0
  <2>1. IsList(<<>>)
    BY DEF IsList, Range
  <2>2. QED
    BY <1>1, <2>1, InputsAssumption
<1>4. StackInv
  BY <1>1, <1>3 DEF StackInv
<1>5. ExploredInv
  <2>1. Nexts(0) = Waiting(0)
    BY <1>1 DEF Nexts, Waiting
  <2>2. \A d \in 0..Len(frames) : d = 0
    BY <1>1, <1>3
  <2>3. QED
    BY <2>1, <2>2 DEF ExploredInv
<1>6. CycleInv /\ PhaseInv
  BY <1>1 DEF CycleInv, PhaseInv
<1>7. QED
  BY <1>2, <1>4, <1>5, <1>6 DEF PathInv

LEMMA PathStep == PathInv /\ [Next]_vars => PathInv'
<1> SUFFICES ASSUME PathInv, [Next]_vars
             PROVE  PathInv'
  OBVIOUS
<1>1. CASE Refuse
  BY <1>1, RefuseKeeps
<1>2. CASE LoadFile
  BY <1>2, LoadKeeps
<1>3. CASE LeaveFile
  BY <1>3, LeaveExplores
<1>4. CASE Begin
  <2>1. /\ input' = input /\ frames' = frames /\ todo' = todo /\ loaded' = loaded
        /\ pc' \in {"load", "error"} /\ pc = "begin"
        /\ \/ report' = report
           \/ \E one, other : report' = DotenvProblems(one) \cup DotenvProblems(other)
    BY <1>4 DEF Begin, loadVars
  <2>2. report = {}
    BY <2>1 DEF PathInv, PhaseInv
  <2>3. report \subseteq report' /\ <<"SUS-INC-001">> \notin report'
    BY <2>1, <2>2, NoCycleCode
  <2>4. QED
    BY <2>1, <2>3, OthersExplore
<1>5. CASE Merge \/ LoadFails \/ Loaded
  <2>1. /\ input' = input /\ frames' = frames /\ todo' = todo /\ loaded' = loaded /\ report' = report
        /\ pc' \in {"extends", "graph", "done"} => (frames = <<>> /\ todo = <<>>)
        /\ pc' # "begin"
    BY <1>5 DEF Merge, LoadFails, Loaded, loadVars
  <2>2. QED
    BY <2>1, OthersExplore
<1>6. CASE ResolveExtends
  <2>1. \A base : <<"SUS-EXT-001", base>> # <<"SUS-INC-001">> /\ <<"SUS-EXT-002", base>> # <<"SUS-INC-001">>
    OBVIOUS
  <2>2. /\ input' = input /\ frames' = frames /\ todo' = todo /\ loaded' = loaded /\ pc' = pc /\ pc = "extends"
        /\ report \subseteq report'
        /\ <<"SUS-INC-001">> \in report' => <<"SUS-INC-001">> \in report
    BY <1>6, <2>1 DEF ResolveExtends, loadVars
  <2>3. QED
    BY <2>2, OthersExplore DEF PathInv, PhaseInv
<1>7. CASE Normalize
  <2>1. /\ input' = input /\ frames' = frames /\ todo' = todo /\ loaded' = loaded /\ pc = "extends"
        /\ pc' = "graph"
        /\ \E p, chosen, files : report' = report \cup validate(p, chosen, files)
    BY <1>7 DEF Normalize, loadVars
  <2>2. report \subseteq report' /\ (<<"SUS-INC-001">> \in report' => <<"SUS-INC-001">> \in report)
    BY <2>1, NoCycleCode
  <2>3. QED
    BY <2>1, <2>2, OthersExplore DEF PathInv, PhaseInv
<1>8. CASE PlaceService \/ Conclude
  <2>1. <<"SUS-GRAPH-001">> # <<"SUS-INC-001">>
    OBVIOUS
  <2>2. /\ input' = input /\ frames' = frames /\ todo' = todo /\ loaded' = loaded /\ pc = "graph"
        /\ pc' \in {"graph", "done"} /\ report \subseteq report'
        /\ <<"SUS-INC-001">> \in report' => <<"SUS-INC-001">> \in report
    BY <1>8, <2>1 DEF PlaceService, Conclude, loadVars
  <2>3. QED
    BY <2>2, OthersExplore DEF PathInv, PhaseInv
<1>9. CASE Returned \/ UNCHANGED vars
  <2>1. /\ input' = input /\ frames' = frames /\ todo' = todo /\ loaded' = loaded /\ pc' = pc /\ report' = report
    BY <1>9 DEF Returned, vars, loadVars
  <2>2. QED
    BY <2>1, OthersExplore DEF PathInv, PhaseInv
<1>10. QED
  BY <1>1, <1>2, <1>3, <1>4, <1>5, <1>6, <1>7, <1>8, <1>9 DEF Next, Analyze, Load

(* Loading finds the cycles of includes there are, whoever includes whom   *)
(* and by whatever names, unless a limit stops it first (IncludeLoader).   *)
THEOREM CyclesFound == Spec => []CyclesReported
<1>1. PathInv => CyclesReported
  <2> SUFFICES ASSUME PathInv, pc \in {"extends", "graph", "done"}, ~Limited
               PROVE  <<"SUS-INC-001">> \in report
                        <=> \E i \in DOMAIN input.roots : \E way \in Ways(ParsedFiles, input.roots[i]) : Twice(way)
    BY DEF CyclesReported
  <2>1. frames = <<>> /\ todo = <<>>
    BY DEF PathInv, PhaseInv
  <2>2. ASSUME <<"SUS-INC-001">> \in report
        PROVE  \E i \in DOMAIN input.roots : \E way \in Ways(ParsedFiles, input.roots[i]) : Twice(way)
    <3>4. PICK root \in Range(input.roots) : \E w : FirstTwice(root, w)
      BY <2>2 DEF PathInv, CycleInv
    <3>1. PICK w : FirstTwice(root, w)
      BY <3>4
    <3>2. w \in Ways(Files, root)
      BY <3>1, ChainsAreWays DEF FirstTwice
    <3>3. QED
      BY <3>1, <3>2 DEF Range, FirstTwice, Files
  <2>3. ASSUME NEW i \in DOMAIN input.roots, NEW way \in Ways(ParsedFiles, input.roots[i]), Twice(way)
        PROVE  <<"SUS-INC-001">> \in report
    <3> SUFFICES ASSUME <<"SUS-INC-001">> \notin report
                 PROVE  FALSE
      OBVIOUS
    <3>1. ~Cut
      BY DEF Cut, Limited
    <3>2. Chain(Files, input.roots[i], way)
      BY <2>3, WaysAreChains DEF Files
    <3>3. input.roots[i] \in Nexts(0) /\ Waiting(0) = {} /\ 0 \in 0..Len(frames) /\ ~(0 < Len(frames))
      BY <2>1 DEF Nexts, Waiting, Range
    <3>4. Explored(0, input.roots[i])
      BY <3>1, <3>3 DEF PathInv, ExploredInv
    <3>5. way[1] = input.roots[i] /\ Len(way) > 0 /\ 0 + 1 = 1
      BY <3>2, Sequences DEF Chain
    <3>6. \A j \in 1..0 : way[j] = frames[j].path
      OBVIOUS
    <3>7. QED
      BY <2>3, <3>2, <3>4, <3>5, <3>6 DEF Explored
  <2>4. QED
    BY <2>2, <2>3
<1>2. QED
  BY <1>1, PathInitial, PathStep, PTL DEF Spec

-----------------------------------------------------------------------------
\* The services of a file.

(* The items at some positions, each from its own position.                *)
LEMMA ItemsAtPositions ==
  ASSUME NEW S, NEW s \in Seq(S), NEW P
  PROVE  \E pos : /\ \A i \in 1..Len(ItemsAt(s, P)) : /\ pos[i] \in P \cap 1..Len(s)
                                                       /\ ItemsAt(s, P)[i] = s[pos[i]]
                  /\ \A i, j \in 1..Len(ItemsAt(s, P)) : pos[i] = pos[j] => i = j
<1> DEFINE N == Len(s)
           Spread(u, n) == \E pos : /\ \A i \in 1..Len(u) : pos[i] \in P \cap 1..n /\ u[i] = s[pos[i]]
                                    /\ \A i, j \in 1..Len(u) : pos[i] = pos[j] => i = j
           Right(u, n) == u \in Seq(S) /\ Spread(u, n)
<1>1. PICK upto : /\ ItemsAt(s, P) = upto[N] /\ upto[0] = <<>>
                  /\ \A i \in 1..N : upto[i] = IF i \in P THEN Append(upto[i - 1], s[i]) ELSE upto[i - 1]
  BY ItemsAtDefined
<1> DEFINE T == {n \in 0..N : Right(upto[n], n)}
<1>2. N \in Nat
  OBVIOUS
<1>3. 0 \in T
  <2>1. Right(<<>>, 0)
    OBVIOUS
  <2> HIDE DEF Right, N
  <2>2. QED
    BY <1>1, <1>2, <2>1
<1>4. \A n \in 0..(N - 1) : n \in T => n + 1 \in T
  <2> SUFFICES ASSUME NEW n \in 0..(N - 1), n \in T
               PROVE  n + 1 \in T
    OBVIOUS
  <2>1. n + 1 \in 1..N /\ (n + 1) - 1 = n /\ 1..n \subseteq 1..(n + 1) /\ n + 1 \notin 1..n /\ n + 1 \in 1..(n + 1)
    BY <1>2
  <2>2. PICK u : u = upto[n]
    OBVIOUS
  <2>3. u \in Seq(S) /\ Len(u) \in Nat
    BY <2>2
  <2>4. PICK pos : /\ \A i \in 1..Len(u) : pos[i] \in P \cap 1..n /\ u[i] = s[pos[i]]
                   /\ \A i, j \in 1..Len(u) : pos[i] = pos[j] => i = j
    BY <2>2
  <2>5. ASSUME n + 1 \in P
        PROVE  Right(upto[n + 1], n + 1)
    <3> DEFINE k == Len(u) + 1
               v == Append(u, s[n + 1])
               next == [i \in 1..k |-> IF i = k THEN n + 1 ELSE pos[i]]
    <3>1. upto[n + 1] = v
      BY <1>1, <2>1, <2>2, <2>5
    <3>2. v \in Seq(S) /\ Len(v) = k /\ v[k] = s[n + 1] /\ \A i \in 1..Len(u) : v[i] = u[i]
      <4>1. s[n + 1] \in S
        BY <2>1
      <4>2. QED
        BY <2>3, <4>1, AppendProperties
    <3>3. \A i \in 1..k : i = k \/ (i \in 1..Len(u) /\ i # k)
      BY <2>3
    <3>4. next[k] = n + 1 /\ \A i \in 1..Len(u) : next[i] = pos[i]
      BY <2>3
    <3> HIDE DEF v, next, k
    <3>5. \A i \in 1..k : next[i] \in P \cap 1..(n + 1) /\ v[i] = s[next[i]]
      <4>1. next[k] \in P \cap 1..(n + 1) /\ v[k] = s[next[k]]
        BY <2>1, <2>5, <3>2, <3>4
      <4>2. \A i \in 1..Len(u) : next[i] \in P \cap 1..(n + 1) /\ v[i] = s[next[i]]
        BY <2>1, <2>4, <3>2, <3>4
      <4>3. QED
        BY <3>3, <4>1, <4>2
    <3>6. \A i \in 1..Len(u) : next[i] \in 1..n /\ next[i] # next[k]
      <4>1. \A i \in 1..Len(u) : pos[i] \in 1..n /\ pos[i] # n + 1
        BY <2>1, <2>4
      <4>2. QED
        BY <3>4, <4>1
    <3>7. \A i, j \in 1..k : next[i] = next[j] => i = j
      BY <2>4, <3>3, <3>4, <3>6
    <3>8. /\ \A i \in 1..Len(v) : next[i] \in P \cap 1..(n + 1) /\ v[i] = s[next[i]]
          /\ \A i, j \in 1..Len(v) : next[i] = next[j] => i = j
      BY <3>2, <3>5, <3>7
    <3>9. Right(v, n + 1)
      <4> HIDE DEF N
      <4>1. QED
        BY <3>2, <3>8
    <3>10. QED
      <4> HIDE DEF Right
      <4>1. QED
        BY <3>1, <3>9
  <2>6. ASSUME n + 1 \notin P
        PROVE  Right(upto[n + 1], n + 1)
    <3>1. upto[n + 1] = u
      BY <1>1, <2>1, <2>2, <2>6
    <3>2. \A i \in 1..Len(u) : pos[i] \in P \cap 1..(n + 1) /\ u[i] = s[pos[i]]
      BY <2>1, <2>4
    <3>3. QED
      BY <2>3, <2>4, <3>1, <3>2
  <2>7. n + 1 \in 0..N
    BY <1>2
  <2> HIDE DEF Right, N
  <2>8. QED
    BY <2>5, <2>6, <2>7
<1>5. N \in T
  <2> HIDE DEF T, N
  <2>1. \A n \in 0..N : n \in T
    BY <1>2, <1>3, <1>4, UpTo
  <2>2. QED
    BY <1>2, <2>1
<1>6. Right(upto[N], N)
  <2> HIDE DEF Right
  <2>1. QED
    BY <1>5
<1>7. PICK u : u = ItemsAt(s, P) /\ u = upto[N]
  <2> HIDE DEF N
  <2>1. QED
    BY <1>1
<1>8. Spread(u, N)
  <2>1. Right(u, N)
    <3> HIDE DEF Right
    <3>1. QED
      BY <1>6, <1>7
  <2> HIDE DEF Spread
  <2>2. QED
    BY <2>1
<1>9. u = ItemsAt(s, P)
  BY <1>7
<1>10. PICK pos : /\ \A i \in 1..Len(u) : pos[i] \in P \cap 1..Len(s) /\ u[i] = s[pos[i]]
                  /\ \A i, j \in 1..Len(u) : pos[i] = pos[j] => i = j
  BY <1>8
<1>11. QED
  BY <1>9, <1>10

(* The services of a file are a list, and no two have a name in common.    *)
LEMMA ServicesRead ==
  ASSUME NEW doc, \A n \in Nodes(doc) : IsNode(n), NEW layers
  PROVE  LET listed == ProjectOf(doc, layers).services
         IN  /\ IsList(listed)
             /\ \A i, j \in DOMAIN listed : listed[i][1] = listed[j][1] => i = j
             /\ \A i \in DOMAIN listed : \E k \in Keys(Field(doc, "services")) : listed[i][1] = <<k>>
             /\ listed # <<>> => Field(doc, "services") # Absent
<1> DEFINE node == Field(doc, "services")
           made == parse_services(node, layers)
           listed == ProjectOf(doc, layers).services
<1>1. listed = IF node = Absent THEN <<>> ELSE made
  BY DEF ProjectOf, FieldOr, ValueOr
<1>2. CASE node = Absent
  <2>1. listed = <<>> /\ IsList(<<>>)
    BY <1>1, <1>2 DEF IsList, Range
  <2>2. QED
    BY <2>1
<1>3. CASE node # Absent
  <2>1. IsNode(doc) /\ "services" \notin UnreadFields
    BY NodesFromAbove DEF UnreadFields, Deferred
  <2>2. node \in Nodes(doc)
    BY <1>3, <2>1, FieldIsBelow, NodesFromAbove
  <2>3. IsNode(node)
    BY <2>2
  <2> DEFINE F == Fields(node)
             P == {i \in DOMAIN F : F[i][1] # Absent}
             named == ItemsAt(F, P)
  <2> HIDE DEF node
  <2>4. made = [i \in DOMAIN named |-> <<<<named[i][1]>>, parse_service(named[i][2], layers)>>]
    BY DEF parse_services
  <2>5. F \in Seq(Range(F)) /\ \A i, j \in DOMAIN F : F[i][1] = F[j][1] => i = j \/ F[i][1] = Absent
    BY <2>3 DEF IsNode, IsList
  <2>6. PICK pos : /\ \A i \in 1..Len(named) : pos[i] \in P \cap 1..Len(F) /\ named[i] = F[pos[i]]
                   /\ \A i, j \in 1..Len(named) : pos[i] = pos[j] => i = j
    <3> HIDE DEF F, P
    <3>1. QED
      BY <2>5, ItemsAtPositions
  <2>7. IsList(named)
    <3> HIDE DEF F, P
    <3>1. QED
      BY <2>5, ItemsAtItems
  <2> HIDE DEF named, made
  <2>8. DOMAIN made = DOMAIN named /\ DOMAIN named = 1..Len(named) /\ made = [i \in DOMAIN made |-> made[i]]
    BY <2>4, <2>7, Sequences
  <2>9. \A i \in 1..Len(named) : made[i][1] = <<named[i][1]>>
    BY <2>4, <2>8
  <2>10. \A i \in 1..Len(named) : named[i][1] = F[pos[i]][1] /\ F[pos[i]][1] # Absent /\ pos[i] \in DOMAIN F
    BY <2>6
  <2>11. \A i \in DOMAIN F : F[i][1] \in Keys(node)
    BY DEF Keys
  <2> HIDE DEF F, P
  <2>12. IsList(made)
    BY <2>7, <2>8, FunctionsOnPositions
  <2>13. \A i, j \in 1..Len(named) : made[i][1] = made[j][1] => i = j
    <3> SUFFICES ASSUME NEW i \in 1..Len(named), NEW j \in 1..Len(named), made[i][1] = made[j][1]
                 PROVE  i = j
      OBVIOUS
    <3>1. named[i][1] = named[j][1]
      BY <2>9
    <3>2. F[pos[i]][1] = F[pos[j]][1]
      BY <2>10, <3>1
    <3>3. pos[i] = pos[j]
      BY <2>5, <2>10, <3>2
    <3>4. QED
      BY <2>6, <3>3
  <2>14. \A i \in 1..Len(named) : \E k \in Keys(node) : made[i][1] = <<k>>
    BY <2>9, <2>10, <2>11
  <2>15. listed = made
    BY <1>1, <1>3
  <2> HIDE DEF listed
  <2>16. QED
    BY <1>3, <2>8, <2>12, <2>13, <2>14, <2>15 DEF listed, node
<1>4. QED
  BY <1>2, <1>3


\* A service as it is declared.
IsService(s) == \E t, d, l : s = [tag |-> t, decl |-> d, lists |-> l]

LEMMA ServiceParsed == \A n, layers : IsService(parse_service(n, layers))
<1> SUFFICES ASSUME NEW n, NEW layers
             PROVE  IsService(parse_service(n, layers))
  OBVIOUS
<1>1. CASE untagged(n).kind # "mapping"
  <2>1. parse_service(n, layers) = EmptyService
    BY <1>1 DEF parse_service
  <2>2. QED
    BY <2>1 DEF EmptyService, IsService
<1>2. CASE untagged(n).kind = "mapping"
  <2>1. \E t, d, l : parse_service(n, layers) = [tag |-> t, decl |-> d, lists |-> l]
    BY <1>2, Zenon DEF parse_service
  <2>2. QED
    BY <2>1 DEF IsService
<1>3. QED
  BY <1>1, <1>2

(* The services of a file: a list of services with different names.        *)
AreServices(listed) ==
  /\ IsList(listed)
  /\ \A i, j \in DOMAIN listed : listed[i][1] = listed[j][1] => i = j
  /\ \A i \in DOMAIN listed : IsService(listed[i][2])

LEMMA ServicesAreServices ==
  ASSUME NEW doc, \A n \in Nodes(doc) : IsNode(n), NEW layers
  PROVE  AreServices(ProjectOf(doc, layers).services)
<1> DEFINE node == Field(doc, "services")
           listed == ProjectOf(doc, layers).services
<1>1. IsList(listed) /\ \A i, j \in DOMAIN listed : listed[i][1] = listed[j][1] => i = j
  BY ServicesRead
<1>2. listed = IF node = Absent THEN <<>> ELSE parse_services(node, layers)
  BY DEF ProjectOf, FieldOr, ValueOr
<1> HIDE DEF node, listed
<1>3. ASSUME NEW i \in DOMAIN listed
      PROVE  IsService(listed[i][2])
  <2>1. CASE node = Absent
    BY <1>2, <1>3, <2>1
  <2>2. CASE node # Absent
    <3>1. \E m : listed[i][2] = parse_service(m, layers)
      BY <1>2, <1>3, <2>2 DEF parse_services
    <3>2. QED
      BY <3>1, ServiceParsed
  <2>3. QED
    BY <2>1, <2>2
<1>4. QED
  BY <1>1, <1>3 DEF AreServices, listed

-----------------------------------------------------------------------------
\* Merging.

Names(listed) == {listed[i][1] : i \in DOMAIN listed}

LEMMA ProjectServices ==
  ASSUME NEW p, AreServices(p.services)
  PROVE  /\ MergeProject(p) # <<>>
         /\ DOMAIN MergeProject(p).services = Names(p.services)
         /\ \A i \in DOMAIN p.services : MergeProject(p).services[p.services[i][1]] = p.services[i][2]
<1> DEFINE S == p.services
           f == [n \in {S[i][1] : i \in DOMAIN S} |-> S[CHOOSE i \in DOMAIN S : S[i][1] = n][2]]
<1>1. MergeProject(p).services = f /\ MergeProject(p) # <<>>
  BY DEF MergeProject
<1>2. \A i \in DOMAIN S : f[S[i][1]] = S[i][2]
  <2> SUFFICES ASSUME NEW i \in DOMAIN S
               PROVE  f[S[i][1]] = S[i][2]
    OBVIOUS
  <2> DEFINE j == CHOOSE k \in DOMAIN S : S[k][1] = S[i][1]
  <2>1. f[S[i][1]] = S[j][2]
    OBVIOUS
  <2>2. j \in DOMAIN S /\ S[j][1] = S[i][1]
    OBVIOUS
  <2>3. j = i
    BY <2>2 DEF AreServices
  <2>4. QED
    BY <2>1, <2>3
<1>3. DOMAIN f = Names(S)
  BY DEF Names
<1> HIDE DEF f
<1>4. QED
  BY <1>1, <1>2, <1>3

(* Merging a file on top keeps the services it does not name; of one it    *)
(* names, what it declares prevails.                                       *)
LEMMA MergedServices ==
  ASSUME NEW base, NEW p, AreServices(p.services)
  PROVE  LET all == merge_projects(base, MergeProject(p))
         IN  /\ all # <<>>
             /\ DOMAIN all.services = Names(p.services) \cup DOMAIN base.services
             /\ \A n \in DOMAIN base.services \ Names(p.services) : all.services[n] = base.services[n]
             /\ \A i \in DOMAIN p.services :
                  LET n == p.services[i][1]
                      s == p.services[i][2]
                  IN  all.services[n] = IF n \in DOMAIN base.services THEN merge_services(base.services[n], s) ELSE s
<1> DEFINE over == MergeProject(p)
           g == [n \in DOMAIN over.services |->
                       IF n \in DOMAIN base.services
                       THEN merge_services(base.services[n], over.services[n]) ELSE over.services[n]]
           all == merge_projects(base, over)
<1>1. all.services = Over(g, base.services) /\ all # <<>>
  BY DEF merge_projects
<1>2. /\ DOMAIN over.services = Names(p.services)
      /\ \A i \in DOMAIN p.services : over.services[p.services[i][1]] = p.services[i][2]
  BY ProjectServices
<1> HIDE DEF over
<1>3. /\ DOMAIN Over(g, base.services) = DOMAIN over.services \cup DOMAIN base.services
      /\ \A n \in DOMAIN base.services \ DOMAIN over.services : Over(g, base.services)[n] = base.services[n]
      /\ \A n \in DOMAIN over.services : Over(g, base.services)[n] = g[n]
  BY DEF Over
<1>4. ASSUME NEW i \in DOMAIN p.services
      PROVE  all.services[p.services[i][1]] = IF p.services[i][1] \in DOMAIN base.services
               THEN merge_services(base.services[p.services[i][1]], p.services[i][2]) ELSE p.services[i][2]
  <2>1. PICK n, s : n = p.services[i][1] /\ s = p.services[i][2]
    OBVIOUS
  <2>2. n \in DOMAIN over.services /\ over.services[n] = s
    BY <1>2, <2>1 DEF Names
  <2>3. all.services[n] = g[n]
    BY <1>1, <1>3, <2>2
  <2>4. g[n] = IF n \in DOMAIN base.services THEN merge_services(base.services[n], s) ELSE s
    BY <2>2
  <2> HIDE DEF all, g
  <2>5. QED
    BY <2>1, <2>3, <2>4
<1> HIDE DEF all, g
<1>5. DOMAIN all.services = Names(p.services) \cup DOMAIN base.services
  BY <1>1, <1>2, <1>3
<1>6. \A n \in DOMAIN base.services \ Names(p.services) : all.services[n] = base.services[n]
  BY <1>1, <1>2, <1>3
<1>7. QED
  BY <1>1, <1>4, <1>5, <1>6 DEF all, over

(* What a service declares after merging.                                  *)
LEMMA MergedDeclarations ==
  ASSUME NEW base, NEW over, IsService(over)
  PROVE  merge_services(base, over).decl = IF over.tag # "merge" THEN over.decl ELSE Over(over.decl, base.decl)
<1>1. PICK t, d, l : over = [tag |-> t, decl |-> d, lists |-> l]
  BY DEF IsService
<1>2. CASE over.tag # "merge"
  <2>1. merge_services(base, over) = [over EXCEPT !.tag = "merge"]
    BY <1>2 DEF merge_services
  <2>2. [over EXCEPT !.tag = "merge"].decl = over.decl
    BY <1>1
  <2>3. QED
    BY <1>2, <2>1, <2>2
<1>3. CASE over.tag = "merge"
  BY <1>3 DEF merge_services
<1>4. QED
  BY <1>2, <1>3


-----------------------------------------------------------------------------
\* What prevails.

Has(m, n, slot, value) ==
  /\ m # <<>> /\ n \in DOMAIN m.services
  /\ slot \in DOMAIN m.services[n].decl /\ m.services[n].decl[slot] = value

(* What is merged holds all that a file's services declare, and all the    *)
(* rest that was there.                                                    *)
Brings(base, S, all) ==
  /\ \A i \in DOMAIN S : \A slot \in DOMAIN S[i][2].decl : Has(all, S[i][1], slot, S[i][2].decl[slot])
  /\ \A n, slot, value : Has(base, n, slot, value) =>
       \/ Has(all, n, slot, value)
       \/ \E i \in DOMAIN S : S[i][1] = n /\ (slot \in DOMAIN S[i][2].decl \/ S[i][2].tag # "merge")

LEMMA MergeBrings ==
  ASSUME NEW base, NEW p, AreServices(p.services), NEW all,
         all = IF base = <<>> THEN MergeProject(p) ELSE merge_projects(base, MergeProject(p))
  PROVE  Brings(base, p.services, all)
<1> DEFINE S == p.services
<1>1. CASE base = <<>>
  <2>1. /\ all # <<>> /\ DOMAIN all.services = Names(S)
        /\ \A i \in DOMAIN S : all.services[S[i][1]] = S[i][2]
    BY <1>1, ProjectServices
  <2>2. \A i \in DOMAIN S : S[i][1] \in Names(S)
    BY DEF Names
  <2> HIDE DEF S
  <2>3. \A i \in DOMAIN S : \A slot \in DOMAIN S[i][2].decl : Has(all, S[i][1], slot, S[i][2].decl[slot])
    BY <2>1, <2>2 DEF Has
  <2>4. \A n, slot, value : ~Has(base, n, slot, value)
    BY <1>1 DEF Has
  <2>5. QED
    BY <2>3, <2>4 DEF S, Brings
<1>2. CASE base # <<>>
  <2> DEFINE new(n, s) == IF n \in DOMAIN base.services THEN merge_services(base.services[n], s) ELSE s
  <2>1. /\ all # <<>>
        /\ DOMAIN all.services = Names(S) \cup DOMAIN base.services
        /\ \A n \in DOMAIN base.services \ Names(S) : all.services[n] = base.services[n]
        /\ \A i \in DOMAIN S : all.services[S[i][1]] = new(S[i][1], S[i][2])
    BY <1>2, MergedServices
  <2>2. \A i \in DOMAIN S : S[i][1] \in Names(S) /\ IsService(S[i][2])
    BY DEF Names, AreServices
  <2>3. ASSUME NEW n, NEW s, IsService(s)
        PROVE  /\ \A slot \in DOMAIN s.decl : slot \in DOMAIN new(n, s).decl /\ new(n, s).decl[slot] = s.decl[slot]
               /\ n \in DOMAIN base.services /\ s.tag = "merge" =>
                    \A slot \in DOMAIN base.services[n].decl \ DOMAIN s.decl :
                      slot \in DOMAIN new(n, s).decl /\ new(n, s).decl[slot] = base.services[n].decl[slot]
    <3>1. CASE n \notin DOMAIN base.services
      BY <3>1
    <3>2. CASE n \in DOMAIN base.services
      <4>1. PICK b : b = base.services[n]
        OBVIOUS
      <4>2. new(n, s).decl = IF s.tag # "merge" THEN s.decl ELSE Over(s.decl, b.decl)
        BY <2>3, <3>2, <4>1, MergedDeclarations
      <4> HIDE DEF new
      <4>3. QED
        BY <4>1, <4>2 DEF Over
    <3>3. QED
      BY <3>1, <3>2
  <2> HIDE DEF S, new
  <2>4. \A i \in DOMAIN S : \A slot \in DOMAIN S[i][2].decl : Has(all, S[i][1], slot, S[i][2].decl[slot])
    BY <2>1, <2>2, <2>3 DEF Has
  <2>5. ASSUME NEW n, NEW slot, NEW value, Has(base, n, slot, value),
               \A i \in DOMAIN S : ~(S[i][1] = n /\ (slot \in DOMAIN S[i][2].decl \/ S[i][2].tag # "merge"))
        PROVE  Has(all, n, slot, value)
    <3>1. /\ n \in DOMAIN base.services /\ n \in DOMAIN all.services
          /\ slot \in DOMAIN base.services[n].decl /\ base.services[n].decl[slot] = value
      BY <2>1, <2>5 DEF Has
    <3>2. CASE n \notin Names(S)
      BY <2>1, <3>1, <3>2 DEF Has
    <3>3. CASE n \in Names(S)
      <4>1. PICK i \in DOMAIN S : S[i][1] = n
        BY <3>3 DEF Names
      <4>2. PICK s : s = S[i][2]
        OBVIOUS
      <4>3. IsService(s) /\ s.tag = "merge" /\ slot \notin DOMAIN s.decl /\ all.services[n] = new(n, s)
        BY <2>1, <2>2, <2>5, <4>1, <4>2
      <4>4. slot \in DOMAIN new(n, s).decl /\ new(n, s).decl[slot] = base.services[n].decl[slot]
        BY <2>3, <3>1, <4>3
      <4>5. QED
        BY <2>1, <3>1, <4>3, <4>4 DEF Has
    <3>4. QED
      BY <3>2, <3>3
  <2>6. QED
    BY <2>4, <2>5 DEF S, Brings
<1>3. QED
  BY <1>1, <1>2

LEMMA FilesDeclareServices ==
  ASSUME StackInv, NEW path \in DOMAIN input.files, Files[path] # <<>>
  PROVE  AreServices(Files[path].services)
<1>1. Files[path] = ParsedFile(input.files[path], Layers(path))
  BY DEF Files, ParsedFiles
<1>2. IsYaml(input.files[path])
  BY InputsAssumption DEF StackInv
<1>3. PICK doc : Files[path] = ProjectOf(doc, Layers(path)) /\ \A m \in Nodes(doc) : IsNode(m)
  BY <1>1, <1>2, FileRead
<1>4. QED
  BY <1>3, ServicesAreServices

(* A file that a root includes over files that differ.                     *)
Under(root, path) ==
  \E w : /\ Chain(Files, root, w) /\ Len(w) <= MaxDepth + 2
         /\ \A i, j \in 1..(Len(w) - 1) : Canonical(w[i]) = Canonical(w[j]) => i = j
         /\ path \in Range(w)

LEMMA UnderIsBelow ==
  ASSUME NEW root, NEW path, Under(root, path)
  PROVE  path \in Below(Files, root)
<1>1. PICK w : /\ Chain(Files, root, w) /\ Len(w) <= MaxDepth + 2
               /\ \A i, j \in 1..(Len(w) - 1) : Canonical(w[i]) = Canonical(w[j]) => i = j
               /\ path \in Range(w)
  BY DEF Under
<1>2. w \in Ways(Files, root)
  BY <1>1, ChainsAreWays
<1>3. QED
  BY <1>1, <1>2 DEF Below

(* The files that are being loaded are below the first of them.            *)
LEMMA StackIsBelow ==
  ASSUME LoadInv, StackInv, NEW d \in 1..Len(frames)
  PROVE  Under(frames[1].path, frames[d].path)
<1>1. PICK n : n = Len(frames)
  OBVIOUS
<1>2. n \in Nat /\ DOMAIN frames = 1..n /\ n # 0 /\ 1 \in 1..n /\ d \in 1..n
  BY <1>1, Sequences DEF StackInv
<1> DEFINE w == [i \in 1..n |-> frames[i].path]
<1>3. IsList(w) /\ Len(w) = n /\ \A i \in 1..n : w[i] = frames[i].path
  <2>1. w \in Seq(Range(w)) /\ Len(w) = n
    BY <1>2 DEF Range
  <2>2. QED
    BY <2>1 DEF IsList
<1> HIDE DEF w
<1>4. \A i \in 1..n : IF i = 1 THEN TRUE ELSE frames[i].path \in IncludedBy(Files, frames[i - 1].path)
  BY <1>1 DEF StackInv, FrameOK
<1>5. \A i \in 1..(n - 1) : w[i + 1] \in IncludedBy(Files, w[i])
  <2> SUFFICES ASSUME NEW i \in 1..(n - 1)
               PROVE  w[i + 1] \in IncludedBy(Files, w[i])
    OBVIOUS
  <2>1. i + 1 \in 1..n /\ i + 1 # 1 /\ (i + 1) - 1 = i /\ i \in 1..n
    BY <1>2
  <2>2. QED
    BY <1>3, <1>4, <2>1
<1>6. w # <<>> /\ w[1] = frames[1].path
  BY <1>2, <1>3, Sequences
<1>7. Chain(Files, frames[1].path, w)
  BY <1>3, <1>5, <1>6 DEF Chain
<1>8. \A i \in 1..n : frames[i].key = Canonical(frames[i].path)
  <2> SUFFICES ASSUME NEW i \in 1..n
               PROVE  frames[i].key = Canonical(frames[i].path)
    OBVIOUS
  <2>1. frames[i] = [path |-> frames[i].path, key |-> Canonical(frames[i].path), left |-> frames[i].left,
                     project |-> Files[frames[i].path]]
    BY <1>1 DEF StackInv, FrameOK
  <2>2. QED
    BY <2>1
<1>9. \A i, j \in 1..n : Canonical(w[i]) = Canonical(w[j]) => i = j
  BY <1>2, <1>3, <1>8 DEF LoadInv
<1>10. \A i \in 1..(n - 1) : i \in 1..n
  BY <1>2
<1>11. Len(w) <= MaxDepth + 2
  BY <1>1, <1>2, <1>3, LimitsAssumption DEF LoadInv
<1>12. frames[d].path \in Range(w)
  BY <1>2, <1>3, Sequences DEF Range
<1>13. QED
  BY <1>3, <1>7, <1>9, <1>10, <1>11, <1>12 DEF Under


-----------------------------------------------------------------------------
\* The files that were named, one after the other.

\* How many of them were begun, and how many are merged with all below them.
Taken == Len(input.roots) - Len(todo)
Done == IF frames = <<>> /\ parsed = <<>> THEN Taken ELSE Taken - 1

RootInv ==
  /\ Len(todo) <= Len(input.roots) /\ \A i \in 1..Len(todo) : todo[i] = input.roots[Taken + i]
  /\ frames # <<>> \/ parsed # <<>> => Taken \in 1..Len(input.roots)
  /\ frames # <<>> => frames[1].path = input.roots[Taken]
  /\ IsList(parsed)
  /\ \A j \in 1..Len(parsed) : \E path \in DOMAIN input.files :
       Under(input.roots[Taken], path) /\ Files[path] # <<>> /\ parsed[j] = Files[path]
  /\ frames = <<>> /\ parsed # <<>> => /\ input.roots[Taken] \in DOMAIN input.files
                                       /\ parsed[Len(parsed)] = Files[input.roots[Taken]]
  /\ pc = "extends" => parsed = <<>>

Overtaken(i, n, slot) ==
  \E k \in (i + 1)..Len(input.roots) : \E path : Under(input.roots[k], path) /\ Declares(Files, path, n, slot)

(* What the files that are merged declare is there or declared later.      *)
PrevailInv ==
  ~Limited =>
    \A i \in 1..Done : FileAt(Files, input.roots[i]) # <<>> =>
      \A j \in DOMAIN Files[input.roots[i]].services :
        LET s == Files[input.roots[i]].services[j]
        IN  \A slot \in DOMAIN s[2].decl : Overtaken(i, s[1], slot) \/ Has(merged, s[1], slot, s[2].decl[slot])

LEMMA SameRoots ==
  ASSUME input' = input
  PROVE  /\ Files' = Files
         /\ \A root, path : Under(root, path)' <=> Under(root, path)
         /\ \A i, n, slot : Overtaken(i, n, slot)' <=> Overtaken(i, n, slot)
<1>1. Files' = Files /\ \A x : Canonical(x)' = Canonical(x)
  BY SameFiles
<1>2. \A root, path : Under(root, path)' <=> Under(root, path)
  BY <1>1 DEF Under
<1>3. \A i, n, slot : Overtaken(i, n, slot)' <=> Overtaken(i, n, slot)
  BY <1>1, <1>2 DEF Overtaken
<1>4. QED
  BY <1>1, <1>2, <1>3

LEMMA SameMerged ==
  ASSUME merged' = merged
  PROVE  \A n, slot, value : Has(merged, n, slot, value)' <=> Has(merged, n, slot, value)
BY DEF Has

RootsAll == PathInv /\ RootInv /\ PrevailInv

(* Steps that neither begin nor end a root.                                *)
LEMMA RootStays ==
  ASSUME RootsAll, input' = input, todo' = todo, parsed' = parsed, merged' = merged,
         frames' = <<>> <=> frames = <<>>, frames # <<>> => frames'[1].path = frames[1].path,
         report \subseteq report', pc' = "extends" => parsed = <<>>
  PROVE  RootInv' /\ PrevailInv'
<1>1. /\ Files' = Files
      /\ \A root, path : Under(root, path)' <=> Under(root, path)
      /\ \A i, n, slot : Overtaken(i, n, slot)' <=> Overtaken(i, n, slot)
  BY SameRoots
<1>2. Taken' = Taken /\ Done' = Done
  BY DEF Taken, Done
<1>3. RootInv'
  BY <1>1, <1>2 DEF RootsAll, RootInv
<1>4. Limited => Limited'
  BY DEF Limited
<1>5. \A n, slot, value : Has(merged, n, slot, value)' <=> Has(merged, n, slot, value)
  BY SameMerged
<1>6. PrevailInv'
  <2>1. PrevailInv /\ (~Limited' => ~Limited)
    BY <1>4 DEF RootsAll
  <2>2. QED
    BY <1>1, <1>2, <1>5, <2>1 DEF PrevailInv
<1>7. QED
  BY <1>3, <1>6

(* The next file that was named is taken.                                  *)
LEMMA RootTaken ==
  ASSUME RootsAll, input' = input, todo' = Tail(todo), todo # <<>>
  PROVE  /\ Taken \in Nat /\ Taken' = Taken + 1 /\ Taken' \in 1..Len(input.roots)
         /\ Len(todo') <= Len(input'.roots) /\ \A i \in 1..Len(todo') : todo'[i] = input'.roots[Taken' + i]
         /\ Head(todo) = input.roots[Taken']
<1>1. IsList(todo) /\ IsList(input.roots)
  BY InputsAssumption DEF RootsAll, PathInv, StackInv
<1>2. Len(todo) \in Nat \ {0} /\ Len(input.roots) \in Nat /\ Head(todo) = todo[1]
  BY <1>1, Sequences
<1>3. Len(todo') = Len(todo) - 1 /\ \A i \in 1..(Len(todo) - 1) : todo'[i] = todo[i + 1]
  BY <1>1, ListTail
<1>4. Len(todo) <= Len(input.roots) /\ \A i \in 1..Len(todo) : todo[i] = input.roots[Taken + i]
  BY DEF RootsAll, RootInv
<1>5. Taken \in Nat /\ Taken' = Taken + 1 /\ Taken' \in 1..Len(input.roots)
  BY <1>2, <1>3, <1>4 DEF Taken
<1>6. PICK k : k = Taken
  OBVIOUS
<1>7. \A i \in 1..(Len(todo) - 1) : i + 1 \in 1..Len(todo) /\ k + (i + 1) = (k + 1) + i
  BY <1>2, <1>5, <1>6
<1>8. \A i \in 1..Len(todo') : todo'[i] = input'.roots[Taken' + i]
  BY <1>3, <1>4, <1>5, <1>6, <1>7
<1>9. 1 \in 1..Len(todo)
  BY <1>2
<1>10. QED
  BY <1>2, <1>3, <1>4, <1>5, <1>8, <1>9

LEMMA RootRefused ==
  ASSUME RootsAll, Refuse
  PROVE  RootInv' /\ PrevailInv'
<1>1. /\ Pending /\ Refusal(Len(frames), Next_path) # "none"
      /\ report' = report \cup {<<Refusal(Len(frames), Next_path)>>}
      /\ Begun(<<>>, <<loaded, parsed, merged>>) /\ input' = input /\ pc = "load" /\ pc' = "load"
  BY DEF Refuse
<1>2. parsed' = parsed /\ merged' = merged
  BY <1>1 DEF Begun
<1>3. CASE frames # <<>>
  <2>1. todo' = todo
    BY <1>1, <1>3 DEF Begun
  <2>2. PICK f : f = 0
    OBVIOUS
  <2>3. Len(frames') = Len(frames) + Len(<<>>) /\ IsList(frames') /\ \A d \in 1..Len(frames) : frames'[d].path = frames[d].path
    BY <1>1, Begins DEF RootsAll, PathInv
  <2>4. IsList(frames) /\ Len(frames) \in Nat \ {0} /\ Len(<<>>) = 0
    BY <1>3, Sequences DEF RootsAll, PathInv, StackInv
  <2>5. frames' # <<>> /\ 1 \in 1..Len(frames)
    <3>1. Len(frames') # 0
      BY <2>3, <2>4
    <3>2. QED
      BY <2>3, <2>4, <3>1, Sequences
  <2>6. QED
    BY <1>1, <1>2, <1>3, <2>1, <2>3, <2>5, RootStays
<1>4. CASE frames = <<>>
  <2>1. Stacked = {}
    BY <1>4 DEF Stacked
  <2>2. Refusal(Len(frames), Next_path) \in {"SUS-INC-002", "SUS-INC-003"}
    BY <1>1, <2>1 DEF Refusal
  <2>3. Limited'
    BY <1>1, <2>2 DEF Limited
  <2>4. frames' = <<>> /\ todo' = Tail(todo) /\ parsed = <<>> /\ todo # <<>>
    BY <1>1, <1>4 DEF Begun, Pending
  <2>5. Len(todo') <= Len(input'.roots) /\ \A i \in 1..Len(todo') : todo'[i] = input'.roots[Taken' + i]
    BY <1>1, <2>4, RootTaken
  <2>6. RootInv'
    <3>1. parsed' = <<>> /\ IsList(<<>>) /\ Len(<<>>) = 0
      BY <1>2, <2>4 DEF IsList, Range
    <3>2. QED
      BY <1>1, <2>4, <2>5, <3>1 DEF RootInv
  <2>7. QED
    BY <2>3, <2>6 DEF PrevailInv
<1>5. QED
  BY <1>3, <1>4


LEMMA RootLoaded ==
  ASSUME RootsAll, LoadFile
  PROVE  RootInv' /\ PrevailInv'
<1>0. PICK n, path : n = Len(frames) /\ path = Next_path
  OBVIOUS
<1> DEFINE file == Files[path]
           new == [path |-> path, key |-> Canonical(path), left |-> file.includes, project |-> file]
           fs == IF file = <<>> THEN <<>> ELSE <<new>>
<1>1. /\ Pending /\ path \in DOMAIN input.files
      /\ report \subseteq report'
      /\ input' = input /\ pc = "load" /\ pc' = "load" /\ parsed' = parsed /\ merged' = merged
  BY <1>0 DEF LoadFile, Begun
<1>2. file = ParsedFile(input.files[path], Layers(path))
  BY <1>1 DEF Files, ParsedFiles
<1>3. Begun(fs, <<parsed, merged>>)
  BY <1>0, <1>2 DEF LoadFile
<1>4. fs \in {<<>>, <<new>>} /\ Len(<<>>) = 0 /\ Len(<<new>>) = 1 /\ <<>> # <<new>> /\ new.path = path
  OBVIOUS
<1> HIDE DEF new
<1>5. fs = (IF file = <<>> THEN <<>> ELSE <<new>>)
  OBVIOUS
<1> HIDE DEF fs, file
<1>6. /\ IsList(frames') /\ Len(frames') = n + Len(fs) /\ n \in Nat
      /\ \A d \in 1..n : frames'[d].path = frames[d].path
      /\ fs # <<>> => frames'[n + 1] = new
  BY <1>0, <1>1, <1>3, <1>4, Begins DEF RootsAll, PathInv
<1>7. CASE frames # <<>>
  <2>1. todo' = todo
    BY <1>3, <1>7 DEF Begun
  <2>2. n # 0
    BY <1>0, <1>7, Sequences DEF RootsAll, PathInv, StackInv
  <2>3. Len(frames') # 0 /\ 1 \in 1..n
    BY <1>4, <1>6, <2>2
  <2>4. frames' # <<>> /\ frames'[1].path = frames[1].path
    BY <1>6, <2>3, Sequences
  <2>5. QED
    BY <1>1, <1>7, <2>1, <2>4, RootStays
<1>8. CASE frames = <<>>
  <2>1. todo' = Tail(todo) /\ todo # <<>> /\ parsed = <<>> /\ path = Head(todo) /\ n = 0
    BY <1>0, <1>1, <1>3, <1>8, Sequences DEF Begun, Pending, Next_path, RootsAll, PathInv, StackInv
  <2>2. /\ Taken \in Nat /\ Taken' = Taken + 1 /\ Taken' \in 1..Len(input.roots)
        /\ Len(todo') <= Len(input'.roots) /\ \A i \in 1..Len(todo') : todo'[i] = input'.roots[Taken' + i]
        /\ path = input.roots[Taken']
    BY <1>1, <2>1, RootTaken
  <2>3. frames' = <<>> <=> file = <<>>
    <3>1. Len(frames') = IF file = <<>> THEN 0 ELSE 1
      BY <1>4, <1>5, <1>6, <2>1
    <3>2. QED
      BY <1>6, <3>1, Sequences
  <2>4. frames' # <<>> => frames'[1].path = path
    BY <1>4, <1>5, <1>6, <2>1, <2>3
  <2>5. RootInv'
    <3>1. parsed' = <<>> /\ IsList(<<>>) /\ Len(<<>>) = 0
      BY <1>1, <2>1 DEF IsList, Range
    <3>2. QED
      BY <1>1, <2>2, <2>4, <3>1 DEF RootInv
  <2>6. PrevailInv'
    <3> SUFFICES ASSUME ~Limited', NEW i \in 1..Done', FileAt(Files, input.roots[i])' # <<>>,
                        NEW j \in DOMAIN Files[input.roots[i]].services',
                        NEW slot \in DOMAIN Files[input.roots[i]].services[j][2].decl'
                 PROVE  LET s == Files[input.roots[i]].services[j]
                        IN  (Overtaken(i, s[1], slot) \/ Has(merged, s[1], slot, s[2].decl[slot]))'
      BY DEF PrevailInv
    <3>1. Files' = Files /\ \A k, m, l : Overtaken(k, m, l)' <=> Overtaken(k, m, l)
      BY <1>1, SameRoots
    <3>2. ~Limited
      BY <1>1 DEF Limited
    <3>3. Done = Taken /\ Done' = (IF file = <<>> THEN Taken' ELSE Taken' - 1)
      BY <1>1, <1>8, <2>1, <2>3 DEF Done
    <3>4. FileAt(Files, input.roots[i]) # <<>>
      BY <1>1, <3>1 DEF FileAt
    <3>5. file = <<>> => i # Taken'
      <4>1. FileAt(Files, path) = file
        BY <1>1 DEF FileAt, file, Files, ParsedFiles
      <4>2. QED
        BY <2>2, <3>4, <4>1
    <3>6. i \in 1..Done
      BY <2>2, <3>3, <3>5
    <3>7. QED
      BY <1>1, <3>1, <3>2, <3>4, <3>6 DEF RootsAll, PrevailInv, Has
  <2>7. QED
    BY <2>5, <2>6
<1>9. QED
  BY <1>7, <1>8


LEMMA RootLeft ==
  ASSUME RootsAll, LeaveFile
  PROVE  RootInv' /\ PrevailInv'
<1>0. PICK n, f : n = Len(frames) /\ f = frames[n]
  OBVIOUS
<1>1. /\ frames # <<>> /\ frames' = SubSeq(frames, 1, n - 1) /\ parsed' = Append(parsed, f.project)
      /\ input' = input /\ pc = "load" /\ pc' = "load" /\ todo' = todo /\ merged' = merged /\ report' = report
  BY <1>0 DEF LeaveFile
<1>2. IsList(frames) /\ n \in Nat \ {0} /\ n - 1 \in 0..n /\ n \in 1..Len(frames) /\ 1 \in 1..Len(frames)
  BY <1>0, <1>1, Sequences DEF RootsAll, PathInv, StackInv
<1>3. IsList(frames') /\ Len(frames') = n - 1 /\ \A i \in 1..(n - 1) : frames'[i] = frames[i]
  BY <1>0, <1>1, <1>2, PrefixList
<1>4. /\ f.path \in DOMAIN input.files /\ Files[f.path] # <<>> /\ f.project = Files[f.path]
      /\ Under(frames[1].path, f.path)
  <2>1. /\ f.path \in DOMAIN input.files /\ Files[f.path] # <<>>
        /\ f = [path |-> f.path, key |-> Canonical(f.path), left |-> f.left, project |-> Files[f.path]]
    BY <1>0, <1>2 DEF RootsAll, PathInv, StackInv, FrameOK
  <2>2. f.project = Files[f.path]
    BY <2>1
  <2>3. QED
    BY <1>0, <1>2, <2>1, <2>2, StackIsBelow DEF RootsAll, PathInv
<1>5. Taken \in 1..Len(input.roots) /\ frames[1].path = input.roots[Taken]
  BY <1>1 DEF RootsAll, RootInv
<1>6. /\ Files' = Files
      /\ \A root, path : Under(root, path)' <=> Under(root, path)
      /\ \A i, m, slot : Overtaken(i, m, slot)' <=> Overtaken(i, m, slot)
  BY <1>1, SameRoots
<1>7. PICK p : p = f.project
  OBVIOUS
<1>8. IsList(parsed) /\ Len(parsed) \in Nat
  BY Sequences DEF RootsAll, RootInv
<1>9. /\ IsList(parsed') /\ Len(parsed') = Len(parsed) + 1 /\ parsed'[Len(parsed) + 1] = p
      /\ \A j \in 1..Len(parsed) : parsed'[j] = parsed[j]
  BY <1>1, <1>7, <1>8, AppendList
<1>10. parsed' # <<>>
  BY <1>8, <1>9, Sequences
<1>11. Taken' = Taken /\ Done' = Done /\ Done = Taken - 1
  BY <1>1, <1>10 DEF Taken, Done
<1>12. RootInv'
  <2>1. \A j \in 1..Len(parsed') : j \in 1..Len(parsed) \/ j = Len(parsed) + 1
    BY <1>8, <1>9
  <2>2. \A j \in 1..Len(parsed) : \E path \in DOMAIN input.files :
          Under(input.roots[Taken], path) /\ Files[path] # <<>> /\ parsed[j] = Files[path]
    BY DEF RootsAll, RootInv
  <2>3. \A j \in 1..Len(parsed') : \E path \in DOMAIN input.files :
          Under(input.roots[Taken], path) /\ Files[path] # <<>> /\ parsed'[j] = Files[path]
    BY <1>4, <1>5, <1>7, <1>9, <2>1, <2>2
  <2>4. frames' # <<>> => frames'[1].path = frames[1].path
    <3> SUFFICES ASSUME frames' # <<>>
                 PROVE  frames'[1].path = frames[1].path
      OBVIOUS
    <3>1. n - 1 # 0
      BY <1>3, Sequences
    <3>2. 1 \in 1..(n - 1)
      BY <1>2, <3>1
    <3>3. QED
      BY <1>3, <3>2
  <2>5. frames' = <<>> => n = 1
    <3> SUFFICES ASSUME frames' = <<>>
                 PROVE  n = 1
      OBVIOUS
    <3>1. n - 1 = 0
      BY <1>3, Sequences
    <3>2. QED
      BY <1>2, <3>1
  <2>6. frames' = <<>> => input.roots[Taken] \in DOMAIN input.files /\ parsed'[Len(parsed')] = Files[input.roots[Taken]]
    BY <1>0, <1>4, <1>5, <1>7, <1>9, <2>5
  <2>7. Len(todo) <= Len(input.roots) /\ \A i \in 1..Len(todo) : todo[i] = input.roots[Taken + i]
    BY DEF RootsAll, RootInv
  <2>8. QED
    BY <1>1, <1>5, <1>6, <1>9, <1>11, <2>3, <2>4, <2>6, <2>7 DEF RootInv
<1>13. Limited' <=> Limited
  BY <1>1 DEF Limited
<1>14. \A m, slot, value : Has(merged, m, slot, value)' <=> Has(merged, m, slot, value)
  BY <1>1 DEF Has
<1>15. PrevailInv'
  <2>1. input' = input /\ Files' = Files /\ Done' = Done
    BY <1>1, <1>6, <1>11
  <2>2. PrevailInv
    BY DEF RootsAll
  <2>3. QED
    BY <1>6, <1>13, <1>14, <2>1, <2>2 DEF PrevailInv
<1>16. QED
  BY <1>12, <1>15

LEMMA RootMerged ==
  ASSUME RootsAll, Merge
  PROVE  RootInv' /\ PrevailInv'
<1>0. PICK p, over : p = Head(parsed) /\ over = MergeProject(p)
  OBVIOUS
<1>1. /\ frames = <<>> /\ parsed # <<>> /\ parsed' = Tail(parsed) /\ frames' = frames
      /\ merged' = IF merged = <<>> THEN MergeProject(p) ELSE merge_projects(merged, MergeProject(p))
      /\ input' = input /\ pc = "load" /\ pc' = "load" /\ todo' = todo /\ report' = report
  BY <1>0 DEF Merge
<1>2. /\ Files' = Files
      /\ \A root, path : Under(root, path)' <=> Under(root, path)
      /\ \A i, m, slot : Overtaken(i, m, slot)' <=> Overtaken(i, m, slot)
  BY <1>1, SameRoots
<1>3. IsList(parsed) /\ Len(parsed) \in Nat \ {0} /\ Head(parsed) = parsed[1] /\ 1 \in 1..Len(parsed)
  BY <1>1, Sequences DEF RootsAll, RootInv
<1>4. /\ IsList(parsed') /\ Len(parsed') = Len(parsed) - 1
      /\ \A j \in 1..(Len(parsed) - 1) : parsed'[j] = parsed[j + 1]
  BY <1>1, <1>3, ListTail
<1>5. parsed' = <<>> <=> Len(parsed) = 1
  <2>1. parsed' = <<>> <=> Len(parsed') = 0
    BY <1>4, Sequences
  <2>2. QED
    BY <1>3, <1>4, <2>1
<1>6. PICK root : root = input.roots[Taken]
  OBVIOUS
<1>7. /\ Taken \in 1..Len(input.roots)
      /\ \A j \in 1..Len(parsed) : \E path \in DOMAIN input.files :
           Under(root, path) /\ Files[path] # <<>> /\ parsed[j] = Files[path]
      /\ root \in DOMAIN input.files /\ parsed[Len(parsed)] = Files[root]
  BY <1>1, <1>6 DEF RootsAll, RootInv
<1>8. PICK path \in DOMAIN input.files : Under(root, path) /\ Files[path] # <<>> /\ p = Files[path]
  BY <1>0, <1>3, <1>7
<1>9. AreServices(p.services)
  BY <1>8, FilesDeclareServices DEF RootsAll, PathInv
<1>10. PICK old, new : old = merged /\ new = merged'
  OBVIOUS
<1>11. Brings(old, p.services, new)
  <2>1. new = IF old = <<>> THEN MergeProject(p) ELSE merge_projects(old, MergeProject(p))
    BY <1>1, <1>10
  <2>2. QED
    BY <1>9, <2>1, MergeBrings
<1>12. Taken' = Taken /\ Done = Taken - 1 /\ Done' = (IF Len(parsed) = 1 THEN Taken ELSE Taken - 1)
  BY <1>1, <1>5 DEF Taken, Done
<1>13. RootInv'
  <2>1. \A j \in 1..(Len(parsed) - 1) : j + 1 \in 1..Len(parsed)
    BY <1>3
  <2>2. \A j \in 1..Len(parsed') : \E q \in DOMAIN input.files :
          Under(root, q) /\ Files[q] # <<>> /\ parsed'[j] = Files[q]
    BY <1>4, <1>7, <2>1
  <2>3. parsed' # <<>> => parsed'[Len(parsed')] = Files[root]
    <3> SUFFICES ASSUME parsed' # <<>>
                 PROVE  parsed'[Len(parsed')] = Files[root]
      OBVIOUS
    <3>0. PICK k : k = Len(parsed)
      OBVIOUS
    <3>1. k \in Nat \ {0} /\ k # 1
      BY <1>3, <1>5, <3>0
    <3>2. k - 1 \in 1..(k - 1) /\ (k - 1) + 1 = k
      BY <3>1
    <3>3. QED
      BY <1>4, <1>7, <3>0, <3>2
  <2>4. Len(todo) <= Len(input.roots) /\ \A i \in 1..Len(todo) : todo[i] = input.roots[Taken + i]
    BY DEF RootsAll, RootInv
  <2>5. QED
    BY <1>1, <1>2, <1>4, <1>6, <1>7, <1>12, <2>2, <2>3, <2>4 DEF RootInv
<1>14. ASSUME ~Limited, NEW i \in 1..Done', FileAt(Files, input.roots[i]) # <<>>,
              NEW j \in DOMAIN Files[input.roots[i]].services,
              NEW n, NEW d, n = Files[input.roots[i]].services[j][1], d = Files[input.roots[i]].services[j][2].decl,
              NEW slot \in DOMAIN d
       PROVE  Overtaken(i, n, slot) \/ Has(new, n, slot, d[slot])
  <2>1. CASE i \in 1..Done
    <3>1. Overtaken(i, n, slot) \/ Has(old, n, slot, d[slot])
      BY <1>10, <1>14, <2>1 DEF RootsAll, PrevailInv
    <3>2. CASE Has(old, n, slot, d[slot]) /\ ~Has(new, n, slot, d[slot])
      <4>1. PICK k \in DOMAIN p.services :
              p.services[k][1] = n /\ (slot \in DOMAIN p.services[k][2].decl \/ p.services[k][2].tag # "merge")
        BY <1>11, <3>2 DEF Brings
      <4>2. FileAt(Files, path) = p
        BY <1>8 DEF FileAt, Files, ParsedFiles
      <4>3. Declares(Files, path, n, slot)
        BY <1>8, <4>1, <4>2 DEF Declares
      <4>4. Taken \in (i + 1)..Len(input.roots)
        BY <1>7, <1>12, <2>1
      <4>5. QED
        BY <1>6, <1>8, <4>3, <4>4 DEF Overtaken
    <3>3. QED
      BY <3>1, <3>2
  <2>2. CASE i \notin 1..Done
    <3>1. Len(parsed) = 1 /\ i = Taken
      BY <1>7, <1>12, <2>2
    <3>2. p = Files[root]
      BY <1>0, <1>3, <1>7, <3>1
    <3>3. j \in DOMAIN p.services /\ n = p.services[j][1] /\ d = p.services[j][2].decl
      BY <1>6, <1>14, <3>1, <3>2
    <3>4. QED
      BY <1>11, <3>3 DEF Brings
  <2>3. QED
    BY <2>1, <2>2
<1>15. PrevailInv'
  <2>1. Limited' <=> Limited
    BY <1>1 DEF Limited
  <2>2. \A x : FileAt(Files, x)' = FileAt(Files, x)
    BY <1>2 DEF FileAt
  <2>3. \A n, slot, value : Has(merged, n, slot, value)' <=> Has(new, n, slot, value)
    BY <1>10 DEF Has
  <2> SUFFICES ASSUME ~Limited', NEW i \in 1..Done', FileAt(Files, input.roots[i])' # <<>>,
                      NEW j \in DOMAIN Files[input.roots[i]].services',
                      NEW slot \in DOMAIN Files[input.roots[i]].services[j][2].decl'
               PROVE  LET s == Files[input.roots[i]].services[j]
                      IN  (Overtaken(i, s[1], slot) \/ Has(merged, s[1], slot, s[2].decl[slot]))'
    BY DEF PrevailInv
  <2>4. PICK n, d : n = Files[input.roots[i]].services[j][1] /\ d = Files[input.roots[i]].services[j][2].decl
    OBVIOUS
  <2>5. FileAt(Files, input.roots[i]) # <<>> /\ j \in DOMAIN Files[input.roots[i]].services /\ slot \in DOMAIN d /\ ~Limited
    BY <1>1, <1>2, <2>1, <2>2, <2>4
  <2>6. Overtaken(i, n, slot) \/ Has(new, n, slot, d[slot])
    BY <1>14, <2>4, <2>5
  <2>7. QED
    BY <1>1, <1>2, <2>3, <2>4, <2>6
<1>16. QED
  BY <1>13, <1>15

LEMMA RootsInitial == Init => RootInv /\ PrevailInv
<1> SUFFICES ASSUME Init
             PROVE  RootInv /\ PrevailInv
  OBVIOUS
<1>1. frames = <<>> /\ todo = input.roots /\ parsed = <<>> /\ pc = "begin" /\ input \in Inputs
  BY DEF Init
<1>2. IsList(input.roots) /\ Len(input.roots) \in Nat
  BY <1>1, InputsAssumption, Sequences
<1>3. Taken = 0 /\ Done = 0
  BY <1>1, <1>2 DEF Taken, Done
<1>4. IsList(<<>>) /\ Len(<<>>) = 0
  BY DEF IsList, Range
<1>5. RootInv
  BY <1>1, <1>2, <1>3, <1>4 DEF RootInv
<1>6. PrevailInv
  BY <1>3 DEF PrevailInv
<1>7. QED
  BY <1>5, <1>6

LEMMA RootsStep == RootsAll /\ [Next]_vars => RootsAll'
<1> SUFFICES ASSUME RootsAll, [Next]_vars
             PROVE  RootsAll'
  OBVIOUS
<1>1. PathInv'
  BY PathStep DEF RootsAll
<1>2. CASE Refuse
  BY <1>1, <1>2, RootRefused DEF RootsAll
<1>3. CASE LoadFile
  BY <1>1, <1>3, RootLoaded DEF RootsAll
<1>4. CASE LeaveFile
  BY <1>1, <1>4, RootLeft DEF RootsAll
<1>5. CASE Merge
  BY <1>1, <1>5, RootMerged DEF RootsAll
<1>6. CASE Begin \/ LoadFails \/ Loaded \/ ResolveExtends \/ Normalize \/ PlaceService \/ Conclude \/ Returned \/ UNCHANGED vars
  <2>1. pc = "begin" => report = {}
    BY DEF RootsAll, PathInv, PhaseInv
  <2>2. pc = "extends" => parsed = <<>>
    BY DEF RootsAll, RootInv
  <2>3. /\ input' = input /\ frames' = frames /\ todo' = todo /\ parsed' = parsed /\ merged' = merged
        /\ report \subseteq report' /\ (pc' = "extends" => parsed = <<>>)
    <3>1. CASE Begin
      BY <2>1, <3>1 DEF Begin, loadVars
    <3>2. CASE LoadFails \/ Loaded
      BY <3>2 DEF LoadFails, Loaded, loadVars
    <3>3. CASE ResolveExtends
      BY <2>2, <3>3 DEF ResolveExtends, loadVars
    <3>4. CASE Normalize
      BY <3>4 DEF Normalize, loadVars
    <3>5. CASE PlaceService \/ Conclude
      BY <3>5 DEF PlaceService, Conclude, loadVars
    <3>6. CASE Returned \/ UNCHANGED vars
      BY <2>2, <3>6 DEF Returned, vars, loadVars
    <3>7. QED
      BY <1>6, <3>1, <3>2, <3>3, <3>4, <3>5, <3>6
  <2>4. RootInv' /\ PrevailInv'
    BY <2>3, RootStays
  <2>5. QED
    BY <1>1, <2>4 DEF RootsAll
<1>7. QED
  BY <1>2, <1>3, <1>4, <1>5, <1>6 DEF Next, Analyze, Load

(* A file that was named prevails over what it includes and over the files *)
(* named before it, whatever the files declare and include (IncludeLoader  *)
(* and the merging of crates/susun-normalize).                             *)
THEOREM NamedFilesPrevail == Spec => []RootsPrevail
<1>1. RootsAll => RootsPrevail
  <2> SUFFICES ASSUME RootsAll, pc = "extends", ~Limited, NEW i \in DOMAIN input.roots,
                      FileAt(Files, input.roots[i]) # <<>>,
                      NEW s \in Range(Files[input.roots[i]].services), NEW slot \in DOMAIN s[2].decl
               PROVE  Prevails(Files, i, s[1], slot, s[2].decl[slot])
    BY DEF RootsPrevail, RootsPrevailIn, Files
  <2>1. frames = <<>> /\ todo = <<>> /\ parsed = <<>>
    BY DEF RootsAll, PathInv, PhaseInv, RootInv
  <2>2. IsList(input.roots)
    BY InputsAssumption DEF RootsAll, PathInv, StackInv
  <2>3. Done = Len(input.roots) /\ i \in 1..Done
    BY <2>1, <2>2, Sequences DEF Done, Taken
  <2>4. PICK j \in DOMAIN Files[input.roots[i]].services : s = Files[input.roots[i]].services[j]
    BY DEF Range
  <2>5. PICK n, d : n = s[1] /\ d = s[2].decl
    OBVIOUS
  <2>6. Overtaken(i, n, slot) \/ Has(merged, n, slot, d[slot])
    BY <2>3, <2>4, <2>5 DEF RootsAll, PrevailInv
  <2>7. CASE Overtaken(i, n, slot)
    BY <2>5, <2>7, UnderIsBelow DEF Overtaken, Prevails
  <2>8. CASE Has(merged, n, slot, d[slot])
    BY <2>5, <2>8 DEF Has, Prevails
  <2>9. QED
    BY <2>5, <2>6, <2>7, <2>8
<1>2. Init => RootsAll
  BY PathInitial, RootsInitial DEF RootsAll
<1>3. QED
  BY <1>1, <1>2, RootsStep, PTL DEF Spec

-----------------------------------------------------------------------------
\* The services of a merged project.

\* No service extends what has no name.
Extending(f) == <<"extends">> \in DOMAIN f => f[<<"extends">>] # Absent

LEMMA ExtendingOnTop ==
  ASSUME NEW f, Extending(f), NEW g, Extending(g)
  PROVE  Extending(Over(f, g))
<1>1. PICK x : x = <<"extends">>
  OBVIOUS
<1>2. (x \in DOMAIN f => f[x] # Absent) /\ (x \in DOMAIN g => g[x] # Absent)
  BY <1>1 DEF Extending
<1>3. x \in DOMAIN Over(f, g) => Over(f, g)[x] # Absent
  BY <1>2 DEF Over
<1>4. QED
  BY <1>1, <1>3 DEF Extending

LEMMA ExtendingTogether ==
  ASSUME NEW F, \A f \in F : Extending(f)
  PROVE  Extending(Together(F))
<1> SUFFICES ASSUME <<"extends">> \in DOMAIN Together(F)
             PROVE  Together(F)[<<"extends">>] # Absent
  BY DEF Extending
<1> DEFINE g == CHOOSE f \in F : <<"extends">> \in DOMAIN f
<1>1. \E f \in F : <<"extends">> \in DOMAIN f
  BY DEF Together
<1>2. g \in F /\ <<"extends">> \in DOMAIN g
  BY <1>1
<1>3. Together(F)[<<"extends">>] = g[<<"extends">>]
  BY <1>1 DEF Together
<1>4. QED
  BY <1>2, <1>3 DEF Extending

LEMMA ExtendingSingle == \A field, value : Extending(Single(field, value))
<1> SUFFICES ASSUME NEW field, NEW value
             PROVE  Extending(Single(field, value))
  OBVIOUS
<1>1. CASE value = Absent
  BY <1>1 DEF Single, Extending
<1>2. CASE value # Absent
  BY <1>2 DEF Single, Extending
<1>3. QED
  BY <1>1, <1>2

LEMMA ExtendingKeyed == \A field, f : Extending(Keyed(field, f))
<1> SUFFICES ASSUME NEW field, NEW f
             PROVE  <<"extends">> \notin DOMAIN Keyed(field, f)
  BY DEF Extending
<1>1. \A k : <<field, k>> # <<"extends">>
  OBVIOUS
<1>2. DOMAIN Keyed(field, f) = {<<field, k>> : k \in DOMAIN f}
  BY DEF Keyed
<1>3. QED
  BY <1>1, <1>2

LEMMA ServiceExtends == \A n, layers : Extending(parse_service(n, layers).decl)
<1> SUFFICES ASSUME NEW n, NEW layers
             PROVE  Extending(parse_service(n, layers).decl)
  OBVIOUS
<1>1. CASE untagged(n).kind # "mapping"
  <2>1. parse_service(n, layers) = EmptyService
    BY <1>1 DEF parse_service
  <2>2. EmptyService.decl = <<>>
    BY DEF EmptyService
  <2>3. QED
    BY <2>1, <2>2 DEF Extending
<1>2. CASE untagged(n).kind = "mapping"
  <2> DEFINE image == interpolated_spanned(Field(n, "image"), layers)
             restart == interpolated_spanned(Field(n, "restart"), layers)
             command == FieldOr(n, "command", LAMBDA v : parse_string_or_list(v, layers), Absent)
             entrypoint == FieldOr(n, "entrypoint", LAMBDA v : parse_string_or_list(v, layers), Absent)
             environment == FieldOr(n, "environment", LAMBDA v : parse_mapping(v, layers), <<>>)
             labels == FieldOr(n, "labels", LAMBDA v : parse_mapping(v, layers), <<>>)
             build == FieldOr(n, "build", LAMBDA v : parse_build(v, layers), Absent)
             base == FieldOr(n, "extends", LAMBDA v : parse_extends(v, layers), Absent)
             healthcheck == FieldOr(n, "healthcheck", LAMBDA v : parse_healthcheck(v, layers), Absent)
             listed == FieldOr(n, "profiles", LAMBDA v : parse_string_sequence(v, layers), <<>>)
             profiles == IF listed = <<>> THEN Absent ELSE listed
             depends_on == FieldOr(n, "depends_on", LAMBDA v : parse_depends_on(v, layers), <<>>)
             networks == FieldOr(n, "networks", LAMBDA v : parse_service_networks(v, layers), <<>>)
             slots == {Single("image", image), Single("restart", restart), Single("command", command),
                       Single("entrypoint", entrypoint), Keyed("environment", environment), Keyed("labels", labels),
                       Single("build", build), Single("extends", base), Single("healthcheck", healthcheck),
                       Single("profiles", profiles), Keyed("depends_on", depends_on), Keyed("networks", networks)}
  <2>1. \E t, l : parse_service(n, layers) = [tag |-> t, decl |-> Together(slots), lists |-> l]
    BY <1>2, Zenon DEF parse_service
  <2> HIDE DEF image, restart, command, entrypoint, environment, labels, build, base, healthcheck, listed, profiles,
               depends_on, networks
  <2>2. \A f \in slots : Extending(f)
    BY ExtendingSingle, ExtendingKeyed
  <2> HIDE DEF slots
  <2>3. QED
    BY <2>1, <2>2, ExtendingTogether
<1>3. QED
  BY <1>1, <1>2


\* What services can be called.
ServiceNames == {<<k>> : k \in ServiceKeys(input)}

LEMMA FileNames ==
  ASSUME StackInv, NEW path \in DOMAIN input.files, Files[path] # <<>>
  PROVE  /\ Names(Files[path].services) \subseteq ServiceNames
         /\ \A i \in DOMAIN Files[path].services : Extending(Files[path].services[i][2].decl)
<1> DEFINE yaml == input.files[path]
           documents == UNION {Range(y) : y \in Range(input.files) \ {Absent}}
           declared == {Field(doc, "services") : doc \in documents} \ {Absent}
<1>1. Files[path] = ParsedFile(yaml, Layers(path))
  BY DEF Files, ParsedFiles
<1>2. IsYaml(yaml)
  BY InputsAssumption DEF StackInv
<1>3. PICK listed : listed = Files[path].services
  OBVIOUS
<1>4. yaml # Absent /\ ~(Len(IF yaml = <<>> THEN <<Mapping(<<>>)>> ELSE yaml) > 1 /\ yaml # <<>>)
  BY <1>1 DEF ParsedFile
<1>5. CASE yaml = <<>>
  <2>1. Files[path] = ProjectOf(Mapping(<<>>), Layers(path))
    BY <1>1, <1>4, <1>5 DEF ParsedFile
  <2>2. Fields(Mapping(<<>>)) = <<>>
    BY DEF Mapping, Fields, untagged
  <2>3. Field(Mapping(<<>>), "services") = Absent
    BY <2>2 DEF Field
  <2>4. listed = <<>>
    BY <1>3, <2>1, <2>3 DEF ProjectOf, FieldOr, ValueOr
  <2>5. QED
    BY <1>3, <2>4 DEF Names
<1>6. CASE yaml # <<>>
  <2>1. PICK doc : doc = yaml[1]
    OBVIOUS
  <2>2. IsList(yaml) /\ 1 \in DOMAIN yaml /\ \A n \in Nodes(doc) : IsNode(n)
    BY <1>2, <1>4, <1>6, <2>1 DEF IsYaml, IsList
  <2>3. Files[path] = ProjectOf(doc, Layers(path))
    BY <1>1, <1>4, <1>6, <2>1 DEF ParsedFile
  <2>4. PICK node : node = Field(doc, "services")
    OBVIOUS
  <2>5. /\ \A i \in DOMAIN listed : \E k \in Keys(node) : listed[i][1] = <<k>>
        /\ listed # <<>> => node # Absent
    BY <1>3, <2>2, <2>3, <2>4, ServicesRead
  <2>6. doc \in documents
    <3>1. yaml \in Range(input.files) \ {Absent}
      BY <1>4 DEF Range
    <3>2. doc \in Range(yaml)
      BY <2>1, <2>2 DEF Range
    <3> HIDE DEF yaml
    <3>3. QED
      BY <3>1, <3>2
  <2>7. ASSUME NEW i \in DOMAIN listed
        PROVE  listed[i][1] \in ServiceNames
    <3>1. listed # <<>>
      BY <2>7
    <3>2. node \in declared
      BY <2>4, <2>5, <2>6, <3>1
    <3>3. PICK k \in Keys(node) : listed[i][1] = <<k>>
      BY <2>5, <2>7
    <3>4. ServiceKeys(input) = UNION {Keys(n) : n \in declared}
      BY DEF ServiceKeys
    <3> HIDE DEF declared
    <3>5. k \in ServiceKeys(input)
      BY <3>2, <3>3, <3>4
    <3>6. QED
      BY <3>3, <3>5 DEF ServiceNames
  <2>8. listed = IF node = Absent THEN <<>> ELSE parse_services(node, Layers(path))
    BY <1>3, <2>3, <2>4 DEF ProjectOf, FieldOr, ValueOr
  <2>9. ASSUME NEW i \in DOMAIN listed
        PROVE  Extending(listed[i][2].decl)
    <3>1. listed # <<>>
      BY <2>9
    <3>2. \E m : listed[i][2] = parse_service(m, Layers(path))
      BY <2>5, <2>8, <2>9, <3>1 DEF parse_services
    <3>3. QED
      BY <3>2, ServiceExtends
  <2>10. QED
    BY <1>3, <2>7, <2>9 DEF Names
<1>7. QED
  BY <1>5, <1>6


(* The order of merged services, one service after the other.              *)
LEMMA OrderDefined ==
  ASSUME NEW base, NEW overlay, IsList(overlay.order)
  PROVE  \E upto : /\ merge_projects(base, overlay).order = upto[Len(overlay.order)] /\ upto[0] = base.order
                   /\ \A i \in 1..Len(overlay.order) : upto[i] = AddedLast(upto[i - 1], overlay.order[i])
<1> DEFINE N == Len(overlay.order)
           Solves(g, n) == g = [i \in 0..n |-> IF i = 0 THEN base.order ELSE AddedLast(g[i - 1], overlay.order[i])]
           T == {n \in 0..N : \E g : Solves(g, n)}
<1>1. N \in Nat
  BY Sequences
<1>2. 0 \in T
  <2>1. Solves([i \in 0..0 |-> base.order], 0)
    OBVIOUS
  <2> HIDE DEF Solves, N
  <2>2. QED
    BY <1>1, <2>1
<1>3. ASSUME NEW n \in 0..(N - 1), n \in T
      PROVE  n + 1 \in T
  <2>1. PICK g : Solves(g, n)
    BY <1>3
  <2> DEFINE h == [i \in 0..(n + 1) |-> IF i = n + 1 THEN AddedLast(g[i - 1], overlay.order[i]) ELSE g[i]]
  <2>2. \A i \in 0..(n + 1) : h[i] = IF i = 0 THEN base.order ELSE AddedLast(h[i - 1], overlay.order[i])
    <3> SUFFICES ASSUME NEW i \in 0..(n + 1)
                 PROVE  h[i] = IF i = 0 THEN base.order ELSE AddedLast(h[i - 1], overlay.order[i])
      OBVIOUS
    <3> HIDE DEF N
    <3>1. i # 0 => i - 1 \in 0..n /\ h[i - 1] = g[i - 1]
      BY <1>1
    <3>2. CASE i = n + 1
      <4>1. h[i] = (AddedLast(g[i - 1], overlay.order[i])) /\ i # 0
        BY <1>1, <3>2
      <4> HIDE DEF h, Solves
      <4>2. QED
        BY <3>1, <4>1
    <3>3. CASE i # n + 1
      <4>1. i \in 0..n /\ h[i] = g[i]
        BY <1>1, <3>3
      <4>2. g[i] = IF i = 0 THEN base.order ELSE AddedLast(g[i - 1], overlay.order[i])
        BY <2>1, <4>1
      <4> HIDE DEF h, Solves
      <4>3. QED
        BY <3>1, <4>1, <4>2
    <3>4. QED
      BY <3>2, <3>3
  <2>3. Solves(h, n + 1)
    BY <2>2
  <2>4. n + 1 \in 0..N
    BY <1>1
  <2> HIDE DEF h, Solves
  <2>5. QED
    BY <2>3, <2>4
<1>4. \E g : Solves(g, N)
  <2> HIDE DEF Solves
  <2>1. N \in T
    <3> HIDE DEF T, N
    <3>1. \A n \in 0..(N - 1) : n \in T => n + 1 \in T
      BY <1>3
    <3>2. \A n \in 0..N : n \in T
      BY <1>1, <1>2, <3>1, UpTo
    <3> QED
      BY <1>1, <3>2
  <2>2. QED
    BY <2>1
<1> DEFINE upto == CHOOSE g : Solves(g, N)
<1>5. Solves(upto, N)
  <2> HIDE DEF Solves
  <2> QED
    BY <1>4
<1>6. merge_projects(base, overlay).order = upto[N]
  BY DEF merge_projects
<1> HIDE DEF upto
<1>7. /\ upto[0] = base.order
      /\ \A i \in 1..N : upto[i] = AddedLast(upto[i - 1], overlay.order[i])
  <2>1. upto = [i \in 0..N |-> IF i = 0 THEN base.order ELSE AddedLast(upto[i - 1], overlay.order[i])]
    BY <1>5
  <2>2. \A i \in 0..N : upto[i] = IF i = 0 THEN base.order ELSE AddedLast(upto[i - 1], overlay.order[i])
    BY <2>1
  <2>3. 0 \in 0..N /\ \A i \in 1..N : i \in 0..N /\ i # 0
    BY <1>1
  <2> HIDE DEF N, Solves
  <2>4. QED
    BY <2>2, <2>3
<1>8. QED
  BY <1>6, <1>7


\* A list of the members of S, each once.
Listed(s, S) ==
  /\ IsList(s) /\ Range(s) = S
  /\ \A i, j \in 1..Len(s) : s[i] = s[j] => i = j

LEMMA SwapRemoved ==
  ASSUME NEW S, NEW s, Listed(s, S), NEW k \in 1..Len(s)
  PROVE  Listed(SwapRemove(s, k), S \ {s[k]})
<1>0. PICK n : n = Len(s)
  OBVIOUS
<1> DEFINE r == SwapRemove(s, k)
           p == SubSeq(s, 1, n - 1)
           at(i) == IF i = k THEN n ELSE i
<1>1. /\ IsList(s) /\ Range(s) = S /\ n \in Nat /\ DOMAIN s = 1..n /\ Range(s) = {s[i] : i \in 1..n}
      /\ \A i, j \in 1..n : s[i] = s[j] => i = j
  BY <1>0, Sequences DEF Listed
<1>2. n - 1 \in 0..n /\ k \in 1..n /\ n \in 1..n
  BY <1>0, <1>1
<1>3. IsList(p) /\ Len(p) = n - 1 /\ \A i \in 1..(n - 1) : p[i] = s[i]
  BY <1>0, <1>1, <1>2, PrefixList
<1>4. p \in Seq(S) /\ DOMAIN p = 1..(n - 1) /\ p = [i \in 1..(n - 1) |-> p[i]]
  <2>1. p \in Seq(Range(p)) /\ DOMAIN p = 1..(n - 1)
    BY <1>3, Sequences
  <2>2. \A i \in 1..(n - 1) : p[i] \in S
    BY <1>1, <1>2, <1>3
  <2> HIDE DEF p
  <2>3. QED
    BY <1>1, <1>3, <2>1, <2>2
<1>5. /\ r \in Seq(S) /\ Len(r) = n - 1
      /\ \A i \in 1..(n - 1) : r[i] = s[at(i)]
  <2>1. CASE k = n
    <3>1. r = p
      BY <1>0, <2>1 DEF SwapRemove
    <3> HIDE DEF r, p
    <3>2. \A i \in 1..(n - 1) : at(i) = i
      BY <1>1, <2>1
    <3>3. QED
      BY <1>3, <1>4, <3>1, <3>2
  <2>2. CASE k # n
    <3>1. r = [p EXCEPT ![k] = s[n]]
      BY <1>0, <2>2 DEF SwapRemove
    <3>2. s[n] \in S
      BY <1>1, <1>2
    <3> HIDE DEF r, p
    <3>3. DOMAIN r = 1..(n - 1) /\ \A i \in 1..(n - 1) : r[i] = IF i = k THEN s[n] ELSE p[i]
      BY <1>4, <3>1
    <3>4. r = [i \in 1..(n - 1) |-> r[i]] /\ \A i \in 1..(n - 1) : r[i] \in S
      <4>1. \A i \in 1..(n - 1) : p[i] \in S
        BY <1>1, <1>2, <1>3
      <4>2. r = [i \in 1..(n - 1) |-> r[i]]
        BY <1>4, <3>1
      <4>3. QED
        BY <3>2, <3>3, <4>1, <4>2
    <3>5. QED
      BY <1>1, <1>2, <1>3, <3>3, <3>4
  <2>3. QED
    BY <2>1, <2>2
<1> HIDE DEF r, p
<1>6. IsList(r) /\ Range(r) = {r[i] : i \in 1..(n - 1)}
  <2>1. IsList(r)
    BY <1>5, SequenceIsList
  <2>2. QED
    BY <1>1, <1>5, <2>1, Sequences
<1>7. \A i \in 1..(n - 1) : at(i) \in 1..n /\ at(i) # k
  BY <1>1, <1>2
<1>8. \A i, j \in 1..(n - 1) : at(i) = at(j) => i = j
  BY <1>1, <1>2
<1>9. \A i \in 1..n : i # k => \E j \in 1..(n - 1) : at(j) = i
  <2> SUFFICES ASSUME NEW i \in 1..n, i # k
               PROVE  \E j \in 1..(n - 1) : at(j) = i
    OBVIOUS
  <2>1. CASE i = n
    <3>1. k \in 1..(n - 1) /\ at(k) = i
      BY <1>1, <1>2, <2>1
    <3>2. QED
      BY <3>1
  <2>2. CASE i # n
    <3>1. i \in 1..(n - 1) /\ at(i) = i
      BY <1>1, <1>2, <2>2
    <3>2. QED
      BY <3>1
  <2>3. QED
    BY <2>1, <2>2
<1> HIDE DEF at
<1>10. \A i, j \in 1..(n - 1) : r[i] = r[j] => i = j
  BY <1>1, <1>5, <1>7, <1>8
<1>11. Range(r) = S \ {s[k]}
  <2>1. Range(r) \subseteq S \ {s[k]}
    <3> SUFFICES ASSUME NEW i \in 1..(n - 1)
                 PROVE  r[i] \in S \ {s[k]}
      BY <1>6
    <3>1. r[i] = s[at(i)] /\ at(i) \in 1..n /\ at(i) # k
      BY <1>5, <1>7
    <3>2. QED
      BY <1>1, <1>2, <3>1
  <2>2. S \ {s[k]} \subseteq Range(r)
    <3> SUFFICES ASSUME NEW x \in S, x # s[k]
                 PROVE  x \in Range(r)
      OBVIOUS
    <3>1. PICK i \in 1..n : x = s[i]
      BY <1>1
    <3>2. PICK j \in 1..(n - 1) : at(j) = i
      BY <1>9, <3>1
    <3>3. r[j] = x
      BY <1>5, <3>1, <3>2
    <3>4. QED
      BY <1>6, <3>3
  <2>3. QED
    BY <2>1, <2>2
<1>12. QED
  BY <1>5, <1>6, <1>10, <1>11 DEF Listed, r

LEMMA LastAdded ==
  ASSUME NEW S, NEW s, Listed(s, S), NEW n
  PROVE  Listed(AddedLast(s, n), S \cup {n})
<1> DEFINE at == {i \in DOMAIN s : s[i] = n}
           r == IF at = {} THEN s ELSE SwapRemove(s, Min(at))
<1>1. IsList(s) /\ Range(s) = S /\ Len(s) \in Nat /\ DOMAIN s = 1..Len(s) /\ Range(s) = {s[i] : i \in 1..Len(s)}
  BY Sequences DEF Listed
<1>2. Listed(r, S \ {n})
  <2>1. CASE at = {}
    <3>1. n \notin S
      BY <1>1, <2>1
    <3>2. QED
      BY <2>1, <3>1
  <2>2. CASE at # {}
    <3>1. PICK k \in at : \A i \in at : ~(i < k)
      <4>1. at \in SUBSET Nat
        BY <1>1
      <4> HIDE DEF at
      <4>2. QED
        BY <2>2, <4>1, LeastPosition
    <3>2. k \in 1..Len(s) /\ s[k] = n
      BY <1>1
    <3>3. at = {k}
      BY <1>1, <3>2 DEF Listed
    <3>4. Min(at) = k
      <4> HIDE DEF at
      <4>1. k \in Nat
        BY <1>1, <3>2
      <4>2. QED
        BY <3>3, <4>1 DEF Min
    <3> HIDE DEF at
    <3>5. QED
      BY <2>2, <3>2, <3>4, SwapRemoved
  <2>3. QED
    BY <2>1, <2>2
<1>3. AddedLast(s, n) = Append(r, n)
  BY DEF AddedLast
<1> HIDE DEF r
<1>4. /\ IsList(Append(r, n)) /\ Len(Append(r, n)) = Len(r) + 1 /\ Append(r, n)[Len(r) + 1] = n
      /\ \A i \in 1..Len(r) : Append(r, n)[i] = r[i]
  BY <1>2, AppendList DEF Listed
<1>5. Range(Append(r, n)) = (S \ {n}) \cup {n}
  <2>1. r \in Seq(Range(r)) /\ Range(r) = S \ {n}
    BY <1>2 DEF Listed, IsList
  <2>2. QED
    BY <2>1, AppendRange
<1>6. \A i, j \in 1..Len(Append(r, n)) : Append(r, n)[i] = Append(r, n)[j] => i = j
  <2>1. Len(r) \in Nat /\ \A i \in 1..Len(r) : r[i] # n
    <3>1. Len(r) \in Nat /\ Range(r) = {r[i] : i \in 1..Len(r)} /\ Range(r) = S \ {n}
      BY <1>2, Sequences DEF Listed
    <3>2. QED
      BY <3>1
  <2>2. \A i \in 1..(Len(r) + 1) : i \in 1..Len(r) \/ i = Len(r) + 1
    BY <2>1
  <2>3. \A i, j \in 1..Len(r) : r[i] = r[j] => i = j
    BY <1>2 DEF Listed
  <2>4. QED
    BY <1>4, <2>1, <2>2, <2>3
<1>7. QED
  BY <1>3, <1>4, <1>5, <1>6 DEF Listed


-----------------------------------------------------------------------------
\* The merged project.

IsProject(m) ==
  /\ \E a, b, c, d : m = [name |-> a, order |-> b, services |-> c, resources |-> d]
  /\ Listed(m.order, DOMAIN m.services)
  /\ DOMAIN m.services \subseteq ServiceNames
  /\ \A n \in DOMAIN m.services : IsService(m.services[n]) /\ Extending(m.services[n].decl)

MergedInv == merged # <<>> => IsProject(merged)

LEMMA FileProject ==
  ASSUME StackInv, NEW path \in DOMAIN input.files, Files[path] # <<>>
  PROVE  IsProject(MergeProject(Files[path]))
<1>1. PICK p : p = Files[path]
  OBVIOUS
<1>2. PICK S : S = p.services
  OBVIOUS
<1>3. AreServices(S) /\ Names(S) \subseteq ServiceNames /\ \A i \in DOMAIN S : Extending(S[i][2].decl)
  BY <1>1, <1>2, FilesDeclareServices, FileNames
<1>4. PICK m : m = MergeProject(p)
  OBVIOUS
<1>5. DOMAIN m.services = Names(S) /\ \A i \in DOMAIN S : m.services[S[i][1]] = S[i][2]
  BY <1>2, <1>3, <1>4, ProjectServices
<1>6. m.order = [i \in DOMAIN S |-> S[i][1]]
  BY <1>2, <1>4 DEF MergeProject
<1>7. \E a, b, c, d : m = [name |-> a, order |-> b, services |-> c, resources |-> d]
  BY <1>4, Zenon DEF MergeProject
<1>8. Listed(m.order, DOMAIN m.services)
  <2>1. IsList(S) /\ DOMAIN S = 1..Len(S) /\ Len(S) \in Nat /\ \A i, j \in DOMAIN S : S[i][1] = S[j][1] => i = j
    BY <1>3, Sequences DEF AreServices
  <2>2. PICK o : o = m.order
    OBVIOUS
  <2>3. o = [i \in 1..Len(S) |-> S[i][1]]
    BY <1>6, <2>1, <2>2
  <2>4. o \in Seq(Names(S)) /\ Len(o) = Len(S)
    BY <2>1, <2>3 DEF Names
  <2>5. IsList(o)
    BY <2>4, SequenceIsList
  <2>6. Range(o) = Names(S)
    BY <2>1, <2>3 DEF Range, Names
  <2>7. \A i, j \in 1..Len(o) : o[i] = o[j] => i = j
    BY <2>1, <2>3, <2>4
  <2>8. QED
    BY <1>5, <2>2, <2>5, <2>6, <2>7 DEF Listed
<1>9. \A n \in DOMAIN m.services : IsService(m.services[n]) /\ Extending(m.services[n].decl)
  <2> SUFFICES ASSUME NEW i \in DOMAIN S
               PROVE  IsService(m.services[S[i][1]]) /\ Extending(m.services[S[i][1]].decl)
    BY <1>5 DEF Names
  <2>1. m.services[S[i][1]] = S[i][2]
    BY <1>5
  <2>2. QED
    BY <1>3, <2>1 DEF AreServices
<1>10. QED
  BY <1>1, <1>3, <1>4, <1>5, <1>7, <1>8, <1>9 DEF IsProject

(* The order of a merged project lists the services of both.               *)
LEMMA OrderMerged ==
  ASSUME NEW base, NEW overlay, NEW S, NEW T, Listed(base.order, S), Listed(overlay.order, T)
  PROVE  Listed(merge_projects(base, overlay).order, S \cup T)
<1>1. PICK o : o = overlay.order
  OBVIOUS
<1>2. PICK N : N = Len(o)
  OBVIOUS
<1>3. IsList(o) /\ N \in Nat /\ Range(o) = T /\ Range(o) = {o[i] : i \in 1..N}
  <2>1. IsList(o) /\ Range(o) = T
    BY <1>1 DEF Listed
  <2>2. QED
    BY <1>2, <2>1, Sequences
<1>4. PICK upto : /\ merge_projects(base, overlay).order = upto[N] /\ upto[0] = base.order
                  /\ \A i \in 1..N : upto[i] = AddedLast(upto[i - 1], o[i])
  BY <1>1, <1>2, <1>3, OrderDefined
<1> DEFINE First(k) == {o[i] : i \in 1..k}
           G == {k \in 0..N : Listed(upto[k], S \cup First(k))}
<1>5. 0 \in G
  <2>1. First(0) = {} /\ S \cup {} = S
    OBVIOUS
  <2> HIDE DEF First
  <2>2. QED
    BY <1>3, <1>4, <2>1
<1>6. \A k \in 0..(N - 1) : k \in G => k + 1 \in G
  <2> SUFFICES ASSUME NEW k \in 0..(N - 1), k \in G
               PROVE  k + 1 \in G
    OBVIOUS
  <2>1. k + 1 \in 1..N /\ (k + 1) - 1 = k /\ k + 1 \in 0..N /\ 1..(k + 1) = 1..k \cup {k + 1}
    BY <1>3
  <2>2. First(k + 1) = First(k) \cup {o[k + 1]}
    BY <2>1
  <2>3. upto[k + 1] = AddedLast(upto[k], o[k + 1]) /\ Listed(upto[k], S \cup First(k))
    BY <1>4, <2>1
  <2> HIDE DEF First
  <2>4. Listed(AddedLast(upto[k], o[k + 1]), (S \cup First(k)) \cup {o[k + 1]})
    BY <2>3, LastAdded
  <2>5. (S \cup First(k)) \cup {o[k + 1]} = S \cup First(k + 1)
    BY <2>2
  <2>6. QED
    BY <2>1, <2>3, <2>4, <2>5
<1>7. N \in G
  <2> HIDE DEF G
  <2>1. \A k \in 0..N : k \in G
    BY <1>3, <1>5, <1>6, UpTo
  <2>2. QED
    BY <1>3, <2>1
<1>8. Listed(upto[N], S \cup First(N)) /\ First(N) = T
  BY <1>3, <1>7
<1>9. QED
  BY <1>4, <1>8

LEMMA MergedService ==
  ASSUME NEW base, NEW over, IsService(over), Extending(base.decl), Extending(over.decl)
  PROVE  /\ IsService(merge_services(base, over))
         /\ Extending(merge_services(base, over).decl)
<1>1. merge_services(base, over).decl = IF over.tag # "merge" THEN over.decl ELSE Over(over.decl, base.decl)
  BY MergedDeclarations
<1>2. Extending(merge_services(base, over).decl)
  BY <1>1, ExtendingOnTop
<1>3. CASE over.tag # "merge"
  <2>1. PICK t, d, l : over = [tag |-> t, decl |-> d, lists |-> l]
    BY DEF IsService
  <2>2. merge_services(base, over) = [over EXCEPT !.tag = "merge"]
    BY <1>3 DEF merge_services
  <2>3. [over EXCEPT !.tag = "merge"] = [tag |-> "merge", decl |-> d, lists |-> l]
    BY <2>1
  <2>4. QED
    BY <1>2, <2>2, <2>3 DEF IsService
<1>4. CASE over.tag = "merge"
  <2>1. \E t, d, l : merge_services(base, over) = [tag |-> t, decl |-> d, lists |-> l]
    BY <1>4, Zenon DEF merge_services
  <2>2. QED
    BY <1>2, <2>1 DEF IsService
<1>5. QED
  BY <1>3, <1>4

LEMMA ProjectsMerge ==
  ASSUME NEW base, IsProject(base), NEW over, IsProject(over)
  PROVE  IsProject(merge_projects(base, over))
<1>1. PICK m : m = merge_projects(base, over)
  OBVIOUS
<1>2. \E a, b, c, d : m = [name |-> a, order |-> b, services |-> c, resources |-> d]
  BY <1>1, Zenon DEF merge_projects
<1> DEFINE g == [n \in DOMAIN over.services |->
                       IF n \in DOMAIN base.services
                       THEN merge_services(base.services[n], over.services[n]) ELSE over.services[n]]
<1>3. m.services = Over(g, base.services)
  BY <1>1 DEF merge_projects
<1>4. /\ DOMAIN m.services = DOMAIN over.services \cup DOMAIN base.services
      /\ \A n \in DOMAIN base.services \ DOMAIN over.services : m.services[n] = base.services[n]
      /\ \A n \in DOMAIN over.services : m.services[n] = g[n]
  BY <1>3 DEF Over
<1>5. \A n \in DOMAIN over.services : IsService(g[n]) /\ Extending(g[n].decl)
  <2> SUFFICES ASSUME NEW n \in DOMAIN over.services
               PROVE  IsService(g[n]) /\ Extending(g[n].decl)
    OBVIOUS
  <2>1. IsService(over.services[n]) /\ Extending(over.services[n].decl)
    BY DEF IsProject
  <2>2. CASE n \in DOMAIN base.services
    <3>1. g[n] = merge_services(base.services[n], over.services[n])
      BY <2>2
    <3>2. Extending(base.services[n].decl)
      BY <2>2 DEF IsProject
    <3> HIDE DEF g
    <3>3. QED
      BY <2>1, <3>1, <3>2, MergedService
  <2>3. CASE n \notin DOMAIN base.services
    <3>1. g[n] = over.services[n]
      BY <2>3
    <3>2. QED
      BY <2>1, <3>1
  <2>4. QED
    BY <2>2, <2>3
<1> HIDE DEF g
<1>6. \A n \in DOMAIN m.services : IsService(m.services[n]) /\ Extending(m.services[n].decl)
  <2> SUFFICES ASSUME NEW n \in DOMAIN m.services
               PROVE  IsService(m.services[n]) /\ Extending(m.services[n].decl)
    OBVIOUS
  <2>1. CASE n \in DOMAIN over.services
    BY <1>4, <1>5, <2>1
  <2>2. CASE n \notin DOMAIN over.services
    BY <1>4, <2>2 DEF IsProject
  <2>3. QED
    BY <2>1, <2>2
<1>7. Listed(m.order, DOMAIN m.services)
  <2>1. Listed(m.order, DOMAIN base.services \cup DOMAIN over.services)
    BY <1>1, OrderMerged DEF IsProject
  <2>2. DOMAIN base.services \cup DOMAIN over.services = DOMAIN m.services
    BY <1>4
  <2>3. QED
    BY <2>1, <2>2
<1>8. DOMAIN m.services \subseteq ServiceNames
  BY <1>4 DEF IsProject
<1>9. QED
  BY <1>1, <1>2, <1>6, <1>7, <1>8 DEF IsProject

LEMMA MergedKeeps ==
  ASSUME RootsAll, MergedInv, [Next]_vars
  PROVE  MergedInv'
<1>1. CASE Merge
  <2>1. PICK p, old, new : p = Head(parsed) /\ old = merged /\ new = merged'
    OBVIOUS
  <2>2. /\ frames = <<>> /\ parsed # <<>> /\ input' = input
        /\ new = IF old = <<>> THEN MergeProject(p) ELSE merge_projects(old, MergeProject(p))
    BY <1>1, <2>1 DEF Merge
  <2>3. IsList(parsed) /\ 1 \in 1..Len(parsed) /\ Head(parsed) = parsed[1]
    BY <2>2, Sequences DEF RootsAll, RootInv
  <2>4. PICK path \in DOMAIN input.files : Files[path] # <<>> /\ p = Files[path]
    BY <2>1, <2>2, <2>3 DEF RootsAll, RootInv
  <2>5. IsProject(MergeProject(p))
    BY <2>4, FileProject DEF RootsAll, PathInv
  <2>6. IsProject(new)
    BY <2>1, <2>2, <2>5, ProjectsMerge DEF MergedInv
  <2>7. ServiceNames' = ServiceNames
    BY <2>2 DEF ServiceNames
  <2>8. QED
    BY <2>1, <2>6, <2>7 DEF MergedInv, IsProject
<1>2. CASE ~Merge
  <2>1. merged' = merged /\ input' = input
    BY <1>2 DEF Next, Analyze, Load, Begin, Refuse, LoadFails, LoadFile, LeaveFile, Loaded, ResolveExtends, Normalize,
                PlaceService, Conclude, Returned, Begun, vars, loadVars
  <2>2. QED
    BY <2>1 DEF MergedInv, IsProject, ServiceNames
<1>3. QED
  BY <1>1, <1>2


-----------------------------------------------------------------------------
\* Along extends.

LEMMA ListedCounts ==
  ASSUME NEW s, NEW S, Listed(s, S)
  PROVE  IsFiniteSet(S) /\ Cardinality(S) = Len(s) /\ Len(s) \in Nat
<1>1. s \in Seq(S) /\ Len(s) \in Nat /\ DOMAIN s = 1..Len(s) /\ S = {s[i] : i \in 1..Len(s)}
      /\ \A i, j \in 1..Len(s) : s[i] = s[j] => i = j
  <2>1. IsList(s) /\ Range(s) = S
    BY DEF Listed
  <2>2. QED
    BY <2>1, Sequences DEF Listed
<1>2. s \in Bijection(1..Len(s), S)
  <2>1. s \in [1..Len(s) -> S]
    BY <1>1
  <2>2. s \in Injection(1..Len(s), S)
    BY <1>1, <2>1 DEF Injection, IsInjective
  <2>3. s \in Surjection(1..Len(s), S)
    BY <1>1, <2>1 DEF Surjection
  <2>4. QED
    BY <2>2, <2>3 DEF Bijection
<1>3. ExistsBijection(1..Len(s), S)
  BY <1>2 DEF ExistsBijection
<1>4. Cardinality(S) = Len(s) /\ IsFiniteSet(S)
  BY <1>1, <1>3, FS_CountingElements, FS_NatBijection
<1>5. QED
  BY <1>1, <1>4

LEMMA DifferentAreFew ==
  ASSUME NEW w, IsList(w), NEW S, IsFiniteSet(S), Range(w) \subseteq S,
         \A i, j \in 1..Len(w) : w[i] = w[j] => i = j
  PROVE  Len(w) <= Cardinality(S)
<1>1. Listed(w, Range(w))
  BY DEF Listed
<1>2. Cardinality(Range(w)) = Len(w)
  BY <1>1, ListedCounts
<1>3. QED
  BY <1>2, FS_Subset

\* What a service of the merged files extends.
Ext(n) == Extended(merged.services, n)

Merged == merged # <<>> /\ IsProject(merged)

LEMMA MergedFinite ==
  ASSUME StackInv, Merged
  PROVE  /\ IsFiniteSet(DOMAIN merged.services) /\ Cardinality(DOMAIN merged.services) \in Nat
         /\ Absent \notin DOMAIN merged.services
<1>1. Absent \notin ServiceNames
  BY InputsAssumption DEF StackInv, ServiceNames
<1>2. Listed(merged.order, DOMAIN merged.services) /\ DOMAIN merged.services \subseteq ServiceNames
  BY DEF Merged, IsProject
<1>3. QED
  BY <1>1, <1>2, ListedCounts

(* The services from n along extends, as far as they are there.            *)
Line(w, n) ==
  /\ IsList(w) /\ w # <<>> /\ w[1] = n
  /\ \A i \in 1..Len(w) : w[i] \in DOMAIN merged.services
  /\ \A i \in 1..(Len(w) - 1) : w[i + 1] = Ext(w[i])

Ended(w) == Ext(w[Len(w)]) \notin DOMAIN merged.services

LEMMA LinesAgree ==
  ASSUME NEW n, NEW v, Line(v, n), NEW w, Line(w, n), NEW i \in 1..Len(v), i <= Len(w)
  PROVE  v[i] = w[i]
<1>1. Len(v) \in Nat /\ Len(w) \in Nat
  BY Sequences DEF Line
<1>2. PICK k : k = i - 1 /\ k \in Nat
  BY <1>1
<1> DEFINE T == {j \in 0..k : v[j + 1] = w[j + 1]}
<1>3. 0 \in T
  BY <1>2 DEF Line
<1>4. \A j \in 0..(k - 1) : j \in T => j + 1 \in T
  <2> SUFFICES ASSUME NEW j \in 0..(k - 1), v[j + 1] = w[j + 1]
               PROVE  v[(j + 1) + 1] = w[(j + 1) + 1]
    BY <1>2
  <2>1. j + 1 \in 1..(Len(v) - 1) /\ j + 1 \in 1..(Len(w) - 1)
    BY <1>1, <1>2
  <2>2. QED
    BY <2>1 DEF Line
<1>5. k \in T
  <2> HIDE DEF T
  <2>1. \A j \in 0..k : j \in T
    BY <1>2, <1>3, <1>4, UpTo
  <2>2. QED
    BY <1>2, <2>1
<1>6. QED
  BY <1>1, <1>2, <1>5

(* A line that ends meets no service twice.                                *)
LEMMA EndedDiffer ==
  ASSUME NEW n, NEW w, Line(w, n), Ended(w)
  PROVE  \A i, j \in 1..Len(w) : w[i] = w[j] => i = j
<1>1. PICK L : L = Len(w) /\ L \in Nat
  BY Sequences DEF Line
<1>2. ASSUME NEW i \in 1..L, NEW j \in 1..L, i < j, w[i] = w[j]
      PROVE  FALSE
  <2>1. PICK N : N = L - j /\ N \in Nat
    BY <1>1
  <2> DEFINE T == {k \in 0..N : w[i + k] = w[j + k]}
  <2>2. 0 \in T
    BY <1>2, <2>1
  <2>3. \A k \in 0..(N - 1) : k \in T => k + 1 \in T
    <3> SUFFICES ASSUME NEW k \in 0..(N - 1), w[i + k] = w[j + k]
                 PROVE  w[i + (k + 1)] = w[j + (k + 1)]
      BY <2>1
    <3>1. i + k \in 1..(L - 1) /\ j + k \in 1..(L - 1) /\ (i + k) + 1 = i + (k + 1) /\ (j + k) + 1 = j + (k + 1)
      BY <1>1, <1>2, <2>1
    <3>2. QED
      BY <1>1, <3>1 DEF Line
  <2>4. N \in T
    <3> HIDE DEF T
    <3>1. \A k \in 0..N : k \in T
      BY <2>1, <2>2, <2>3, UpTo
    <3>2. QED
      BY <2>1, <3>1
  <2>5. j + N = L /\ i + N \in 1..(L - 1) /\ (i + N) + 1 \in 1..L
    BY <1>1, <1>2, <2>1
  <2>6. w[i + N] = w[L]
    BY <2>4, <2>5
  <2>7. w[(i + N) + 1] = Ext(w[L]) /\ w[(i + N) + 1] \in DOMAIN merged.services
    BY <1>1, <2>5, <2>6 DEF Line
  <2>8. QED
    BY <1>1, <2>7 DEF Ended
<1>3. SUFFICES ASSUME NEW i \in 1..L, NEW j \in 1..L, w[i] = w[j], i # j
               PROVE  FALSE
  BY <1>1
<1>4. i < j \/ j < i
  BY <1>1, <1>3
<1>5. QED
  BY <1>2, <1>3, <1>4

AncestryStep(w) ==
  IF Ext(w[Len(w)]) \in DOMAIN merged.services THEN Append(w, Ext(w[Len(w)])) ELSE w

(* Ancestry, service by service.                                           *)
LEMMA AncestryDefined ==
  ASSUME NEW s, Cardinality(DOMAIN merged.services) \in Nat
  PROVE  \E upto : /\ Ancestry(s) = upto[Cardinality(DOMAIN merged.services)] /\ upto[0] = <<s>>
                   /\ \A i \in 1..Cardinality(DOMAIN merged.services) : upto[i] = AncestryStep(upto[i - 1])
<1> DEFINE N == Cardinality(DOMAIN merged.services)
           Solves(g, n) == g = [i \in 0..n |-> IF i = 0 THEN <<s>> ELSE AncestryStep(g[i - 1])]
           T == {n \in 0..N : \E g : Solves(g, n)}
<1>1. N \in Nat
  OBVIOUS
<1>2. 0 \in T
  <2>1. Solves([i \in 0..0 |-> <<s>>], 0)
    OBVIOUS
  <2> HIDE DEF Solves, N
  <2>2. QED
    BY <1>1, <2>1
<1>3. ASSUME NEW n \in 0..(N - 1), n \in T
      PROVE  n + 1 \in T
  <2>1. PICK g : Solves(g, n)
    BY <1>3
  <2> DEFINE h == [i \in 0..(n + 1) |-> IF i = n + 1 THEN AncestryStep(g[i - 1]) ELSE g[i]]
  <2>2. \A i \in 0..(n + 1) : h[i] = IF i = 0 THEN <<s>> ELSE AncestryStep(h[i - 1])
    <3> SUFFICES ASSUME NEW i \in 0..(n + 1)
                 PROVE  h[i] = IF i = 0 THEN <<s>> ELSE AncestryStep(h[i - 1])
      OBVIOUS
    <3> HIDE DEF N
    <3>1. i # 0 => i - 1 \in 0..n /\ h[i - 1] = g[i - 1]
      BY <1>1
    <3>2. CASE i = n + 1
      <4>1. h[i] = (AncestryStep(g[i - 1])) /\ i # 0
        BY <1>1, <3>2
      <4> HIDE DEF h, Solves
      <4>2. QED
        BY <3>1, <4>1
    <3>3. CASE i # n + 1
      <4>1. i \in 0..n /\ h[i] = g[i]
        BY <1>1, <3>3
      <4>2. g[i] = IF i = 0 THEN <<s>> ELSE AncestryStep(g[i - 1])
        BY <2>1, <4>1
      <4> HIDE DEF h, Solves
      <4>3. QED
        BY <3>1, <4>1, <4>2
    <3>4. QED
      BY <3>2, <3>3
  <2>3. Solves(h, n + 1)
    BY <2>2
  <2>4. n + 1 \in 0..N
    BY <1>1
  <2> HIDE DEF h, Solves
  <2>5. QED
    BY <2>3, <2>4
<1>4. \E g : Solves(g, N)
  <2> HIDE DEF Solves
  <2>1. N \in T
    <3> HIDE DEF T, N
    <3>1. \A n \in 0..(N - 1) : n \in T => n + 1 \in T
      BY <1>3
    <3>2. \A n \in 0..N : n \in T
      BY <1>1, <1>2, <3>1, UpTo
    <3> QED
      BY <1>1, <3>2
  <2>2. QED
    BY <2>1
<1> DEFINE upto == CHOOSE g : Solves(g, N)
<1>5. Solves(upto, N)
  <2> HIDE DEF Solves
  <2> QED
    BY <1>4
<1>6. Ancestry(s) = upto[N]
  BY DEF Ancestry, AncestryStep, Ext
<1> HIDE DEF upto
<1>7. /\ upto[0] = <<s>>
      /\ \A i \in 1..N : upto[i] = AncestryStep(upto[i - 1])
  <2>1. upto = [i \in 0..N |-> IF i = 0 THEN <<s>> ELSE AncestryStep(upto[i - 1])]
    BY <1>5
  <2>2. \A i \in 0..N : upto[i] = IF i = 0 THEN <<s>> ELSE AncestryStep(upto[i - 1])
    BY <2>1
  <2>3. 0 \in 0..N /\ \A i \in 1..N : i \in 0..N /\ i # 0
    BY <1>1
  <2> HIDE DEF N, Solves
  <2>4. QED
    BY <2>2, <2>3
<1>8. QED
  BY <1>6, <1>7


LEMMA LineGrows ==
  ASSUME NEW n, NEW w, Line(w, n), NEW b \in DOMAIN merged.services, b = Ext(w[Len(w)])
  PROVE  /\ Line(Append(w, b), n) /\ Len(Append(w, b)) = Len(w) + 1
         /\ Append(w, b)[Len(w) + 1] = b /\ \A i \in 1..Len(w) : Append(w, b)[i] = w[i]
<1>1. PICK L : L = Len(w) /\ L \in Nat \ {0}
  BY Sequences DEF Line
<1>2. /\ IsList(w) /\ w[1] = n
      /\ \A i \in 1..L : w[i] \in DOMAIN merged.services
      /\ \A i \in 1..(L - 1) : w[i + 1] = Ext(w[i])
  BY <1>1 DEF Line
<1>3. PICK v : v = Append(w, b)
  OBVIOUS
<1>4. IsList(v) /\ Len(v) = L + 1 /\ v[L + 1] = b /\ \A i \in 1..L : v[i] = w[i]
  BY <1>1, <1>2, <1>3, AppendList
<1>5. \A i \in 1..(L + 1) : i \in 1..L \/ i = L + 1
  BY <1>1
<1>6. \A i \in 1..(L + 1) : v[i] \in DOMAIN merged.services
  BY <1>2, <1>4, <1>5
<1>7. \A i \in 1..L : v[i + 1] = Ext(v[i])
  <2> SUFFICES ASSUME NEW i \in 1..L
               PROVE  v[i + 1] = Ext(v[i])
    OBVIOUS
  <2>1. CASE i = L
    BY <1>1, <1>4, <2>1
  <2>2. CASE i # L
    <3>1. i \in 1..(L - 1) /\ i + 1 \in 1..L
      BY <1>1, <2>2
    <3>2. v[i + 1] = w[i + 1] /\ v[i] = w[i]
      BY <1>4, <3>1
    <3>3. QED
      BY <1>2, <3>1, <3>2
  <2>3. QED
    BY <2>1, <2>2
<1>8. v # <<>> /\ v[1] = n /\ (L + 1) - 1 = L
  <2>1. 1 \in 1..L /\ L + 1 # 0 /\ (L + 1) - 1 = L
    BY <1>1
  <2>2. v # <<>>
    BY <1>4, <2>1, Sequences
  <2>3. QED
    BY <1>2, <1>4, <2>1, <2>2
<1>9. Line(v, n)
  BY <1>4, <1>6, <1>7, <1>8 DEF Line
<1>10. QED
  BY <1>1, <1>3, <1>4, <1>9

LEMMA AncestryLine ==
  ASSUME StackInv, Merged, NEW n \in DOMAIN merged.services
  PROVE  /\ Line(Ancestry(n), n)
         /\ Len(Ancestry(n)) <= Cardinality(DOMAIN merged.services) + 1
         /\ Len(Ancestry(n)) = Cardinality(DOMAIN merged.services) + 1 \/ Ended(Ancestry(n))
<1>1. PICK N : N = Cardinality(DOMAIN merged.services) /\ N \in Nat
  BY MergedFinite
<1>2. PICK upto : /\ Ancestry(n) = upto[N] /\ upto[0] = <<n>>
                  /\ \A i \in 1..N : upto[i] = AncestryStep(upto[i - 1])
  BY <1>1, AncestryDefined
<1> DEFINE Right(w, k) == Line(w, n) /\ Len(w) <= k + 1 /\ (Len(w) = k + 1 \/ Ended(w))
           T == {k \in 0..N : Right(upto[k], k)}
<1>3. Right(<<n>>, 0)
  <2>1. IsList(<<n>>) /\ Len(<<n>>) = 1 /\ <<n>> # <<>>
    BY DEF IsList, Range
  <2>2. QED
    BY <2>1 DEF Line
<1>4. ASSUME NEW w, NEW k \in Nat, Right(w, k)
      PROVE  Right(AncestryStep(w), k + 1)
  <2>1. PICK L : L = Len(w) /\ L \in Nat \ {0}
    BY <1>4, Sequences DEF Line
  <2>2. /\ IsList(w) /\ w[1] = n /\ L <= k + 1
        /\ \A i \in 1..L : w[i] \in DOMAIN merged.services
        /\ \A i \in 1..(L - 1) : w[i + 1] = Ext(w[i])
    BY <1>4, <2>1 DEF Line
  <2>3. CASE Ended(w)
    <3>1. AncestryStep(w) = w
      BY <2>3 DEF AncestryStep, Ended
    <3>2. L <= (k + 1) + 1
      BY <2>1, <2>2
    <3>3. QED
      BY <1>4, <2>1, <2>3, <3>1, <3>2
  <2>4. CASE ~Ended(w)
    <3>1. PICK b : b = Ext(w[L]) /\ b \in DOMAIN merged.services
      BY <2>1, <2>4 DEF Ended
    <3>2. AncestryStep(w) = Append(w, b)
      BY <2>1, <3>1 DEF AncestryStep
    <3>3. Line(Append(w, b), n) /\ Len(Append(w, b)) = L + 1
      BY <1>4, <2>1, <3>1, LineGrows
    <3>4. L = k + 1
      BY <1>4, <2>1, <2>4
    <3>5. QED
      BY <3>2, <3>3, <3>4
  <2>5. QED
    BY <2>3, <2>4
<1> HIDE DEF Right
<1>5. 0 \in T
  BY <1>1, <1>2, <1>3
<1>6. \A k \in 0..(N - 1) : k \in T => k + 1 \in T
  <2> SUFFICES ASSUME NEW k \in 0..(N - 1), k \in T
               PROVE  k + 1 \in T
    OBVIOUS
  <2>1. k + 1 \in 1..N /\ (k + 1) - 1 = k /\ k \in Nat /\ k + 1 \in 0..N
    BY <1>1
  <2>2. QED
    BY <1>2, <1>4, <2>1
<1>7. N \in T
  <2> HIDE DEF T
  <2>1. \A k \in 0..N : k \in T
    BY <1>1, <1>5, <1>6, UpTo
  <2>2. QED
    BY <1>1, <2>1
<1>8. Right(upto[N], N)
  BY <1>7
<1>9. QED
  BY <1>1, <1>2, <1>8 DEF Right

(* A line that ends is the ancestry.                                       *)
LEMMA AncestryEnds ==
  ASSUME StackInv, Merged, NEW n \in DOMAIN merged.services, NEW w, Line(w, n), Ended(w)
  PROVE  Ancestry(n) = w
<1>1. PICK v : v = Ancestry(n)
  OBVIOUS
<1>2. PICK N : N = Cardinality(DOMAIN merged.services) /\ N \in Nat
  BY MergedFinite
<1>3. Line(v, n) /\ Len(v) <= N + 1 /\ (Len(v) = N + 1 \/ Ended(v))
  BY <1>1, <1>2, AncestryLine
<1>4. /\ IsList(v) /\ IsList(w) /\ Len(v) \in Nat \ {0} /\ Len(w) \in Nat \ {0}
      /\ v = [i \in 1..Len(v) |-> v[i]] /\ w = [i \in 1..Len(w) |-> w[i]]
      /\ Range(w) \subseteq DOMAIN merged.services
  <2>1. \A m, u : Line(u, m) => IsList(u) /\ Len(u) \in Nat \ {0}
    BY Sequences DEF Line
  <2>2. \A u : IsList(u) => u = [i \in 1..Len(u) |-> u[i]]
    <3> SUFFICES ASSUME NEW u, u \in Seq(Range(u))
                 PROVE  u = [i \in 1..Len(u) |-> u[i]]
      BY DEF IsList
    <3>1. QED
      OBVIOUS
  <2>3. Range(w) = {w[i] : i \in 1..Len(w)}
    BY <2>1, Sequences
  <2>4. QED
    BY <1>3, <2>1, <2>2, <2>3 DEF Line
<1>5. Len(w) <= N
  BY <1>2, <1>4, EndedDiffer, DifferentAreFew, MergedFinite
<1>6. \A i \in 1..Len(v) : i <= Len(w) => v[i] = w[i]
  BY <1>3, LinesAgree
<1>7. ~(Len(w) < Len(v))
  <2> SUFFICES ASSUME Len(w) < Len(v)
               PROVE  FALSE
    OBVIOUS
  <2>1. Len(w) \in 1..(Len(v) - 1) /\ Len(w) + 1 \in 1..Len(v) /\ Len(w) \in 1..Len(v) /\ Len(w) <= Len(w)
    BY <1>4
  <2>2. v[Len(w)] = w[Len(w)]
    BY <1>6, <2>1
  <2>3. v[Len(w) + 1] = Ext(v[Len(w)]) /\ v[Len(w) + 1] \in DOMAIN merged.services
    BY <1>3, <2>1 DEF Line
  <2>4. QED
    BY <2>2, <2>3 DEF Ended
<1>8. ~(Len(v) < Len(w))
  <2> SUFFICES ASSUME Len(v) < Len(w)
               PROVE  FALSE
    OBVIOUS
  <2>0. Ended(v)
    BY <1>2, <1>3, <1>4, <1>5
  <2>1. Len(v) \in 1..(Len(w) - 1) /\ Len(v) + 1 \in 1..Len(w) /\ Len(v) \in 1..Len(v) /\ Len(v) <= Len(w)
    BY <1>4
  <2>2. v[Len(v)] = w[Len(v)]
    BY <1>6, <2>1
  <2>3. w[Len(v) + 1] = Ext(w[Len(v)]) /\ w[Len(v) + 1] \in DOMAIN merged.services
    BY <2>1 DEF Line
  <2>4. QED
    BY <2>0, <2>2, <2>3 DEF Ended
<1>9. Len(v) = Len(w)
  <2>1. \A k, m \in Nat : ~(k < m) /\ ~(m < k) => k = m
    OBVIOUS
  <2>2. Len(v) \in Nat /\ Len(w) \in Nat
    BY <1>4
  <2>3. QED
    BY <1>7, <1>8, <2>1, <2>2
<1>10. v = w
  <2>1. \A i \in 1..Len(w) : v[i] = w[i]
    BY <1>4, <1>6, <1>9
  <2>2. QED
    BY <1>4, <1>9, <2>1
<1>11. QED
  BY <1>1, <1>10

(* The ancestry of a service that extends nothing.                         *)
LEMMA AncestryAlone ==
  ASSUME StackInv, Merged, NEW n \in DOMAIN merged.services, Ext(n) = Absent
  PROVE  Ancestry(n) = <<n>> /\ WellExtended(n)
<1>1. PICK w : w = <<n>>
  OBVIOUS
<1>2. IsList(w) /\ Len(w) = 1 /\ w # <<>> /\ w[1] = n
  BY <1>1 DEF IsList, Range
<1>3. Line(w, n) /\ Ended(w)
  BY <1>2, MergedFinite DEF Line, Ended
<1>4. Ancestry(n) = w
  BY <1>3, AncestryEnds
<1>5. QED
  BY <1>1, <1>2, <1>4 DEF WellExtended, Ext

(* The ancestry of a service that extends another comes after it.          *)
LEMMA AncestryOnTop ==
  ASSUME StackInv, Merged, NEW n \in DOMAIN merged.services, NEW b \in DOMAIN merged.services, Ext(n) = b, WellExtended(b)
  PROVE  /\ WellExtended(n)
         /\ Len(Ancestry(b)) \in Nat /\ Len(Ancestry(n)) = Len(Ancestry(b)) + 1
         /\ DOMAIN Ancestry(n) = 1..(Len(Ancestry(b)) + 1) /\ DOMAIN Ancestry(b) = 1..Len(Ancestry(b))
         /\ Ancestry(n)[1] = n /\ \A i \in 1..Len(Ancestry(b)) : Ancestry(n)[i + 1] = Ancestry(b)[i]
<1>1. PICK v : v = Ancestry(b)
  OBVIOUS
<1>2. Line(v, b)
  BY <1>1, AncestryLine
<1>3. PICK L : L = Len(v)
  OBVIOUS
<1>4. /\ IsList(v) /\ L \in Nat \ {0} /\ v[1] = b /\ DOMAIN v = 1..L
      /\ \A i \in 1..L : v[i] \in DOMAIN merged.services
      /\ \A i \in 1..(L - 1) : v[i + 1] = Ext(v[i])
  BY <1>2, <1>3, Sequences DEF Line
<1>5. PICK w : w = [i \in 1..(L + 1) |-> IF i = 1 THEN n ELSE v[i - 1]]
  OBVIOUS
<1>6. \A i \in 1..(L + 1) : i = 1 \/ i - 1 \in 1..L
  BY <1>4
<1>7. w \in Seq(DOMAIN merged.services) /\ Len(w) = L + 1
  BY <1>4, <1>5, <1>6
<1>8. IsList(w)
  BY <1>7, SequenceIsList
<1>9. w[1] = n /\ \A i \in 1..L : w[i + 1] = v[i]
  <2>1. \A i \in 1..L : i + 1 \in 1..(L + 1) /\ i + 1 # 1 /\ (i + 1) - 1 = i
    BY <1>4
  <2>2. 1 \in 1..(L + 1)
    BY <1>4
  <2>3. QED
    BY <1>5, <2>1, <2>2
<1>10. \A i \in 1..L : w[i + 1] = Ext(w[i])
  <2> SUFFICES ASSUME NEW i \in 1..L
               PROVE  w[i + 1] = Ext(w[i])
    OBVIOUS
  <2>1. CASE i = 1
    BY <1>4, <1>9, <2>1
  <2>2. CASE i # 1
    <3>1. i - 1 \in 1..(L - 1) /\ (i - 1) + 1 = i /\ i - 1 \in 1..L
      BY <1>4, <2>2
    <3>2. w[i] = v[i - 1] /\ w[i + 1] = v[i] /\ v[i] = Ext(v[i - 1])
      BY <1>4, <1>9, <3>1
    <3>3. QED
      BY <3>2
  <2>3. QED
    BY <2>1, <2>2
<1>11. Line(w, n)
  <2>1. w # <<>> /\ \A i \in 1..(L + 1) : w[i] \in DOMAIN merged.services
    BY <1>4, <1>7
  <2>2. (L + 1) - 1 = L
    BY <1>4
  <2>3. QED
    BY <1>7, <1>8, <1>9, <1>10, <2>1, <2>2 DEF Line
<1>12. Ext(w[L + 1]) = Absent
  <2>1. w[L + 1] = v[L]
    BY <1>4, <1>9
  <2>2. QED
    BY <1>1, <1>3, <2>1 DEF WellExtended, Ext
<1>13. Ancestry(n) = w
  BY <1>7, <1>11, <1>12, AncestryEnds, MergedFinite DEF Ended
<1>14. WellExtended(n)
  BY <1>7, <1>12, <1>13 DEF WellExtended, Ext
<1>15. QED
  BY <1>1, <1>3, <1>4, <1>5, <1>7, <1>9, <1>13, <1>14


PathEnds(w) ==
  \/ w[Len(w)] \in resolved
  \/ Extended(services, w[Len(w)]) \notin DOMAIN services
  \/ Extended(services, w[Len(w)]) \in Range(w)

PathGrows(w) == IF PathEnds(w) THEN w ELSE Append(w, Extended(services, w[Len(w)]))

(* ExtendsPath, service by service.                                        *)
LEMMA ExtendsPathDefined ==
  ASSUME NEW s, Cardinality(DOMAIN services) \in Nat
  PROVE  \E upto : /\ ExtendsPath(s) = upto[Cardinality(DOMAIN services)] /\ upto[0] = <<s>>
                   /\ \A i \in 1..Cardinality(DOMAIN services) : upto[i] = PathGrows(upto[i - 1])
<1> DEFINE N == Cardinality(DOMAIN services)
           Solves(g, n) == g = [i \in 0..n |-> IF i = 0 THEN <<s>> ELSE PathGrows(g[i - 1])]
           T == {n \in 0..N : \E g : Solves(g, n)}
<1>1. N \in Nat
  OBVIOUS
<1>2. 0 \in T
  <2>1. Solves([i \in 0..0 |-> <<s>>], 0)
    OBVIOUS
  <2> HIDE DEF Solves, N
  <2>2. QED
    BY <1>1, <2>1
<1>3. ASSUME NEW n \in 0..(N - 1), n \in T
      PROVE  n + 1 \in T
  <2>1. PICK g : Solves(g, n)
    BY <1>3
  <2> DEFINE h == [i \in 0..(n + 1) |-> IF i = n + 1 THEN PathGrows(g[i - 1]) ELSE g[i]]
  <2>2. \A i \in 0..(n + 1) : h[i] = IF i = 0 THEN <<s>> ELSE PathGrows(h[i - 1])
    <3> SUFFICES ASSUME NEW i \in 0..(n + 1)
                 PROVE  h[i] = IF i = 0 THEN <<s>> ELSE PathGrows(h[i - 1])
      OBVIOUS
    <3> HIDE DEF N
    <3>1. i # 0 => i - 1 \in 0..n /\ h[i - 1] = g[i - 1]
      BY <1>1
    <3>2. CASE i = n + 1
      <4>1. h[i] = (PathGrows(g[i - 1])) /\ i # 0
        BY <1>1, <3>2
      <4> HIDE DEF h, Solves
      <4>2. QED
        BY <3>1, <4>1
    <3>3. CASE i # n + 1
      <4>1. i \in 0..n /\ h[i] = g[i]
        BY <1>1, <3>3
      <4>2. g[i] = IF i = 0 THEN <<s>> ELSE PathGrows(g[i - 1])
        BY <2>1, <4>1
      <4> HIDE DEF h, Solves
      <4>3. QED
        BY <3>1, <4>1, <4>2
    <3>4. QED
      BY <3>2, <3>3
  <2>3. Solves(h, n + 1)
    BY <2>2
  <2>4. n + 1 \in 0..N
    BY <1>1
  <2> HIDE DEF h, Solves
  <2>5. QED
    BY <2>3, <2>4
<1>4. \E g : Solves(g, N)
  <2> HIDE DEF Solves
  <2>1. N \in T
    <3> HIDE DEF T, N
    <3>1. \A n \in 0..(N - 1) : n \in T => n + 1 \in T
      BY <1>3
    <3>2. \A n \in 0..N : n \in T
      BY <1>1, <1>2, <3>1, UpTo
    <3> QED
      BY <1>1, <3>2
  <2>2. QED
    BY <2>1
<1> DEFINE upto == CHOOSE g : Solves(g, N)
<1>5. Solves(upto, N)
  <2> HIDE DEF Solves
  <2> QED
    BY <1>4
<1>6. ExtendsPath(s) = upto[N]
  BY DEF ExtendsPath, PathEnds, PathGrows
<1> HIDE DEF upto
<1>7. /\ upto[0] = <<s>>
      /\ \A i \in 1..N : upto[i] = PathGrows(upto[i - 1])
  <2>1. upto = [i \in 0..N |-> IF i = 0 THEN <<s>> ELSE PathGrows(upto[i - 1])]
    BY <1>5
  <2>2. \A i \in 0..N : upto[i] = IF i = 0 THEN <<s>> ELSE PathGrows(upto[i - 1])
    BY <2>1
  <2>3. 0 \in 0..N /\ \A i \in 1..N : i \in 0..N /\ i # 0
    BY <1>1
  <2> HIDE DEF N, Solves
  <2>4. QED
    BY <2>2, <2>3
<1>8. QED
  BY <1>6, <1>7

\* Services that are not resolved are as they were merged.
Untouched ==
  /\ DOMAIN services = DOMAIN merged.services
  /\ \A n \in DOMAIN services \ resolved : services[n] = merged.services[n]

LEMMA PathIsLine ==
  ASSUME StackInv, Merged, Untouched, NEW n \in DOMAIN merged.services
  PROVE  /\ Line(ExtendsPath(n), n) /\ PathEnds(ExtendsPath(n))
         /\ \A i, j \in 1..Len(ExtendsPath(n)) : ExtendsPath(n)[i] = ExtendsPath(n)[j] => i = j
         /\ \A i \in 1..(Len(ExtendsPath(n)) - 1) : ExtendsPath(n)[i] \notin resolved
<1>1. PICK N : N = Cardinality(DOMAIN services) /\ N = Cardinality(DOMAIN merged.services) /\ N \in Nat
  BY MergedFinite DEF Untouched
<1>2. PICK upto : /\ ExtendsPath(n) = upto[N] /\ upto[0] = <<n>>
                  /\ \A i \in 1..N : upto[i] = PathGrows(upto[i - 1])
  BY <1>1, ExtendsPathDefined
<1> DEFINE Differs(w) == \A i, j \in 1..Len(w) : w[i] = w[j] => i = j
           Open(w) == \A i \in 1..(Len(w) - 1) : w[i] \notin resolved
           Right(w, k) == Line(w, n) /\ Differs(w) /\ Open(w) /\ (Len(w) = k + 1 \/ PathEnds(w))
           T == {k \in 0..N : Right(upto[k], k)}
<1>3. Right(<<n>>, 0)
  <2>1. IsList(<<n>>) /\ Len(<<n>>) = 1 /\ <<n>> # <<>>
    BY DEF IsList, Range
  <2>2. QED
    BY <2>1 DEF Line
<1>4. ASSUME NEW w, NEW k \in Nat, Right(w, k)
      PROVE  Right(PathGrows(w), k + 1)
  <2>1. PICK L : L = Len(w) /\ L \in Nat \ {0} /\ Range(w) = {w[i] : i \in 1..L}
    BY <1>4, Sequences DEF Line
  <2>2. \A i \in 1..L : w[i] \in DOMAIN merged.services
    BY <1>4, <2>1 DEF Line
  <2>3. CASE PathEnds(w)
    <3>1. PathGrows(w) = w
      BY <2>3 DEF PathGrows
    <3>2. QED
      BY <1>4, <2>3, <3>1
  <2>4. CASE ~PathEnds(w)
    <3>1. PICK b : b = Extended(services, w[L])
      OBVIOUS
    <3>2. w[L] \notin resolved /\ b \in DOMAIN services /\ b \notin Range(w) /\ PathGrows(w) = Append(w, b)
      BY <2>1, <2>4, <3>1 DEF PathEnds, PathGrows
    <3>3. b = Ext(w[L]) /\ b \in DOMAIN merged.services
      <4>1. services[w[L]] = merged.services[w[L]] /\ DOMAIN services = DOMAIN merged.services
        BY <2>1, <2>2, <3>2 DEF Untouched
      <4>2. QED
        BY <3>1, <3>2, <4>1 DEF Ext, Extended
    <3>4. PICK v : v = Append(w, b)
      OBVIOUS
    <3>5. Line(v, n) /\ Len(v) = L + 1 /\ v[L + 1] = b /\ \A i \in 1..L : v[i] = w[i]
      BY <1>4, <2>1, <3>3, <3>4, LineGrows
    <3>6. \A i \in 1..(L + 1) : i \in 1..L \/ i = L + 1
      BY <2>1
    <3>7. Differs(v)
      <4>1. \A i \in 1..L : v[i] # b
        BY <2>1, <3>2, <3>5
      <4>2. \A i, j \in 1..L : v[i] = v[j] => i = j
        BY <1>4, <2>1, <3>5
      <4>3. \A i, j \in 1..(L + 1) : v[i] = v[j] => i = j
        BY <3>5, <3>6, <4>1, <4>2
      <4>4. QED
        BY <3>5, <4>3
    <3>8. Open(v)
      <4>1. \A i \in 1..L : i = L \/ i \in 1..(L - 1)
        BY <2>1
      <4>2. \A i \in 1..L : v[i] \notin resolved
        BY <1>4, <2>1, <3>2, <3>5, <4>1
      <4>3. (L + 1) - 1 = L
        BY <2>1
      <4>4. QED
        BY <3>5, <4>2, <4>3
    <3> HIDE DEF Differs, Open
    <3>9. L = k + 1
      BY <1>4, <2>1, <2>4
    <3>10. QED
      BY <3>2, <3>4, <3>5, <3>7, <3>8, <3>9
  <2>5. QED
    BY <2>3, <2>4
<1> HIDE DEF Right
<1>5. 0 \in T
  BY <1>1, <1>2, <1>3
<1>6. \A k \in 0..(N - 1) : k \in T => k + 1 \in T
  <2> SUFFICES ASSUME NEW k \in 0..(N - 1), k \in T
               PROVE  k + 1 \in T
    OBVIOUS
  <2>1. k + 1 \in 1..N /\ (k + 1) - 1 = k /\ k \in Nat /\ k + 1 \in 0..N
    BY <1>1
  <2>2. QED
    BY <1>2, <1>4, <2>1
<1>7. Right(upto[N], N)
  <2> HIDE DEF T
  <2>1. \A k \in 0..N : k \in T
    BY <1>1, <1>5, <1>6, UpTo
  <2>2. N \in T
    BY <1>1, <2>1
  <2>3. QED
    BY <2>2 DEF T
<1>8. PICK w : w = ExtendsPath(n)
  OBVIOUS
<1>9. Line(w, n) /\ Differs(w) /\ Open(w) /\ (Len(w) = N + 1 \/ PathEnds(w))
  BY <1>2, <1>7, <1>8 DEF Right
<1>10. Len(w) # N + 1
  <2>1. IsList(w) /\ Range(w) \subseteq DOMAIN merged.services /\ Len(w) \in Nat
    <3>1. IsList(w) /\ \A i \in 1..Len(w) : w[i] \in DOMAIN merged.services
      BY <1>9 DEF Line
    <3>2. QED
      BY <3>1, Sequences
  <2>2. Len(w) <= N
    BY <1>1, <1>9, <2>1, DifferentAreFew, MergedFinite
  <2>3. QED
    BY <1>1, <2>1, <2>2
<1>11. QED
  BY <1>8, <1>9, <1>10


-----------------------------------------------------------------------------
\* What is inherited.

LEMMA Least ==
  ASSUME NEW S \in SUBSET Nat, S # {}
  PROVE  Min(S) \in S /\ \A i \in S : Min(S) <= i
<1>1. PICK x \in S : \A y \in S : ~(y < x)
  BY LeastPosition
<1>2. \A y \in S : x <= y
  BY <1>1
<1>3. QED
  BY <1>2 DEF Min

LEMMA LeastIs ==
  ASSUME NEW S \in SUBSET Nat, NEW m \in S, \A i \in S : m <= i
  PROVE  Min(S) = m
<1>1. PICK x : x = Min(S) /\ x \in S /\ x <= m
  BY Least
<1>2. m \in Nat /\ x \in Nat /\ m <= x
  BY <1>1
<1>3. QED
  BY <1>1, <1>2

(* A service has what its ancestors declare and nothing else.              *)
Inherits(f, n) ==
  \A slot :
    /\ slot \in DOMAIN f <=> slot # <<"extends">> /\ Declarers(n, slot) # {}
    /\ slot \in DOMAIN f => f[slot] = merged.services[Ancestry(n)[Min(Declarers(n, slot))]].decl[slot]

LEMMA InheritsAlone ==
  ASSUME StackInv, Merged, NEW n \in DOMAIN merged.services, Ext(n) = Absent
  PROVE  Inherits(merged.services[n].decl, n)
<1>1. PICK d : d = merged.services[n].decl
  OBVIOUS
<1>2. PICK a : a = Ancestry(n)
  OBVIOUS
<1>3. a = <<n>> /\ DOMAIN a = {1} /\ a[1] = n
  <2>1. a = <<n>>
    BY <1>2, AncestryAlone
  <2>2. QED
    BY <2>1
<1>4. <<"extends">> \notin DOMAIN d
  BY <1>1 DEF Ext, Extended, Value, Extending, Merged, IsProject
<1>5. \A slot : Declarers(n, slot) = IF slot \in DOMAIN d THEN {1} ELSE {}
  <2> SUFFICES ASSUME NEW slot
               PROVE  Declarers(n, slot) = IF slot \in DOMAIN d THEN {1} ELSE {}
    OBVIOUS
  <2>1. Declarers(n, slot) = {i \in {1} : /\ slot \in DOMAIN merged.services[a[i]].decl
                                          /\ \A j \in 1..(i - 1) : merged.services[a[j]].tag = "merge"}
    BY <1>2, <1>3 DEF Declarers
  <2>2. \A j \in 1..(1 - 1) : FALSE
    OBVIOUS
  <2>3. QED
    BY <1>1, <1>3, <2>1, <2>2
<1>6. Min({1}) = 1
  BY LeastIs
<1>7. \A slot \in DOMAIN d : slot # <<"extends">>
  BY <1>4
<1> SUFFICES ASSUME NEW slot
             PROVE  /\ slot \in DOMAIN d <=> slot # <<"extends">> /\ Declarers(n, slot) # {}
                    /\ slot \in DOMAIN d => d[slot] = merged.services[a[Min(Declarers(n, slot))]].decl[slot]
  BY <1>1, <1>2 DEF Inherits
<1>8. CASE slot \in DOMAIN d
  BY <1>1, <1>3, <1>5, <1>6, <1>7, <1>8
<1>9. CASE slot \notin DOMAIN d
  BY <1>5, <1>9
<1>10. QED
  BY <1>8, <1>9

LEMMA WithoutExtending ==
  ASSUME NEW s, IsService(s)
  PROVE  /\ IsService(WithoutExtends(s)) /\ WithoutExtends(s).tag = s.tag
         /\ DOMAIN WithoutExtends(s).decl = DOMAIN s.decl \ {<<"extends">>}
         /\ \A slot \in DOMAIN s.decl \ {<<"extends">>} : WithoutExtends(s).decl[slot] = s.decl[slot]
<1>1. PICK e : e = <<"extends">>
  OBVIOUS
<1>2. PICK w : w = WithoutExtends(s)
  OBVIOUS
<1>3. PICK t, d, l : s = [tag |-> t, decl |-> d, lists |-> l]
  BY DEF IsService
<1>4. PICK r : r = [slot \in DOMAIN s.decl \ {e} |-> s.decl[slot]]
  OBVIOUS
<1>5. w = [s EXCEPT !.decl = r]
  BY <1>1, <1>2, <1>4 DEF WithoutExtends
<1>6. w = [tag |-> t, decl |-> r, lists |-> l]
  BY <1>3, <1>5
<1>7. IsService(w) /\ w.tag = s.tag /\ w.decl = r
  BY <1>3, <1>6 DEF IsService
<1>8. QED
  BY <1>1, <1>2, <1>4, <1>7

(* Who declares a slot first, if a service extends another.                *)
LEMMA DeclarersOnTop ==
  ASSUME StackInv, Merged, NEW n \in DOMAIN merged.services, NEW b \in DOMAIN merged.services, Ext(n) = b, WellExtended(b),
         NEW slot
  PROVE  LET s == merged.services[n]
         IN  /\ slot \in DOMAIN s.decl =>
                  Declarers(n, slot) # {} /\ Ancestry(n)[Min(Declarers(n, slot))] = n
             /\ slot \notin DOMAIN s.decl =>
                  /\ Declarers(n, slot) # {} <=> s.tag = "merge" /\ Declarers(b, slot) # {}
                  /\ Declarers(n, slot) # {} =>
                       Ancestry(n)[Min(Declarers(n, slot))] = Ancestry(b)[Min(Declarers(b, slot))]
<1>1. PICK A, B, K, L : A = Ancestry(n) /\ B = Ancestry(b) /\ K = merged.services /\ L = Len(Ancestry(b))
  OBVIOUS
<1>2. /\ L \in Nat /\ DOMAIN A = 1..(L + 1) /\ DOMAIN B = 1..L
      /\ A[1] = n /\ \A i \in 1..L : A[i + 1] = B[i]
  BY <1>1, AncestryOnTop
<1>3. PICK P, Q : P = Declarers(n, slot) /\ Q = Declarers(b, slot)
  OBVIOUS
<1>4. /\ P = {i \in 1..(L + 1) : slot \in DOMAIN K[A[i]].decl /\ \A j \in 1..(i - 1) : K[A[j]].tag = "merge"}
      /\ Q = {i \in 1..L : slot \in DOMAIN K[B[i]].decl /\ \A j \in 1..(i - 1) : K[B[j]].tag = "merge"}
  BY <1>1, <1>2, <1>3 DEF Declarers
<1>5. P \in SUBSET Nat /\ Q \in SUBSET Nat
  BY <1>2, <1>4
<1>6. 1 \in P <=> slot \in DOMAIN K[n].decl
  <2>1. 1 \in 1..(L + 1) /\ \A j \in 1..(1 - 1) : FALSE
    BY <1>2
  <2>2. QED
    BY <1>2, <1>4, <2>1
<1>7. \A i \in 1..L : i + 1 \in P <=> K[n].tag = "merge" /\ i \in Q
  <2> SUFFICES ASSUME NEW i \in 1..L
               PROVE  i + 1 \in P <=> K[n].tag = "merge" /\ i \in Q
    OBVIOUS
  <2>1. i + 1 \in 1..(L + 1) /\ (i + 1) - 1 = i /\ A[i + 1] = B[i]
    BY <1>2
  <2>2. (\A j \in 1..i : K[A[j]].tag = "merge") <=> K[n].tag = "merge" /\ \A j \in 1..(i - 1) : K[B[j]].tag = "merge"
    <3>1. \A j \in 1..(i - 1) : j + 1 \in 1..i /\ A[j + 1] = B[j]
      BY <1>2
    <3>2. \A j \in 1..i : j = 1 \/ (j - 1 \in 1..(i - 1) /\ A[j] = B[j - 1])
      <4> SUFFICES ASSUME NEW j \in 1..i, j # 1
                   PROVE  j - 1 \in 1..(i - 1) /\ A[j] = B[j - 1]
        OBVIOUS
      <4>1. j - 1 \in 1..(i - 1) /\ j - 1 \in 1..L /\ (j - 1) + 1 = j
        BY <1>2
      <4>2. QED
        BY <1>2, <4>1
    <3>3. 1 \in 1..i
      OBVIOUS
    <3>4. QED
      BY <1>2, <3>1, <3>2, <3>3
  <2>3. QED
    BY <1>4, <2>1, <2>2
<1>8. \A i \in P : i = 1 \/ i - 1 \in 1..L
  BY <1>2, <1>4
<1>9. ASSUME slot \in DOMAIN K[n].decl
      PROVE  P # {} /\ A[Min(P)] = n
  <2>1. 1 \in P /\ \A i \in P : 1 <= i
    BY <1>2, <1>4, <1>6, <1>9
  <2>2. Min(P) = 1
    BY <1>5, <2>1, LeastIs
  <2>3. QED
    BY <1>2, <2>1, <2>2
<1>10. ASSUME slot \notin DOMAIN K[n].decl
       PROVE  P # {} <=> K[n].tag = "merge" /\ Q # {}
  <2>1. \A i \in P : i - 1 \in 1..L /\ (i - 1) + 1 = i
    BY <1>5, <1>6, <1>8, <1>10
  <2>2. Q \subseteq 1..L
    BY <1>4
  <2>3. QED
    BY <1>7, <2>1, <2>2
<1>11. ASSUME slot \notin DOMAIN K[n].decl, P # {}
       PROVE  A[Min(P)] = B[Min(Q)]
  <2>1. K[n].tag = "merge" /\ Q # {} /\ Q \subseteq 1..L
    BY <1>4, <1>10, <1>11
  <2>2. PICK m : m = Min(Q) /\ m \in Q /\ \A i \in Q : m <= i
    BY <1>5, <2>1, Least
  <2>3. m + 1 \in P
    BY <1>7, <2>1, <2>2
  <2>4. \A i \in P : m + 1 <= i
    <3> SUFFICES ASSUME NEW i \in P
                 PROVE  m + 1 <= i
      OBVIOUS
    <3>1. i - 1 \in 1..L /\ (i - 1) + 1 = i
      BY <1>5, <1>6, <1>8, <1>11
    <3>2. i - 1 \in Q
      BY <1>7, <3>1
    <3>3. m <= i - 1
      BY <2>2, <3>2
    <3>4. QED
      BY <1>5, <2>2, <3>3
  <2>5. Min(P) = m + 1
    BY <1>5, <2>3, <2>4, LeastIs
  <2>6. QED
    BY <1>2, <2>1, <2>2, <2>5
<1>12. QED
  BY <1>1, <1>3, <1>9, <1>10, <1>11

LEMMA InheritsOnTop ==
  ASSUME StackInv, Merged, NEW n \in DOMAIN merged.services, NEW b \in DOMAIN merged.services, Ext(n) = b, WellExtended(b),
         NEW base, Inherits(base.decl, b)
  PROVE  Inherits(merge_services(base, WithoutExtends(merged.services[n])).decl, n)
<1>1. PICK s, e : s = merged.services[n] /\ e = <<"extends">>
  OBVIOUS
<1>2. PICK w : w = WithoutExtends(s)
  OBVIOUS
<1>3. /\ IsService(w) /\ w.tag = s.tag /\ DOMAIN w.decl = DOMAIN s.decl \ {e}
      /\ \A slot \in DOMAIN s.decl \ {e} : w.decl[slot] = s.decl[slot]
  BY <1>1, <1>2, WithoutExtending DEF Merged, IsProject
<1>4. PICK g : g = merge_services(base, w).decl
  OBVIOUS
<1>5. g = IF s.tag # "merge" THEN w.decl ELSE Over(w.decl, base.decl)
  BY <1>3, <1>4, MergedDeclarations
<1>6. PICK f : f = base.decl
  OBVIOUS
<1>7. /\ DOMAIN g = IF s.tag # "merge" THEN DOMAIN w.decl ELSE DOMAIN w.decl \cup DOMAIN f
      /\ \A slot \in DOMAIN g : g[slot] = IF slot \in DOMAIN w.decl THEN w.decl[slot] ELSE f[slot]
  <2>1. CASE s.tag # "merge"
    BY <1>5, <2>1
  <2>2. CASE s.tag = "merge"
    <3>1. PICK d : d = w.decl
      OBVIOUS
    <3>2. g = Over(d, f)
      BY <1>5, <1>6, <2>2, <3>1
    <3>3. /\ DOMAIN Over(d, f) = DOMAIN d \cup DOMAIN f
          /\ \A slot \in DOMAIN d \cup DOMAIN f : Over(d, f)[slot] = IF slot \in DOMAIN d THEN d[slot] ELSE f[slot]
      BY DEF Over
    <3>4. /\ DOMAIN g = DOMAIN d \cup DOMAIN f
          /\ \A slot \in DOMAIN g : g[slot] = IF slot \in DOMAIN d THEN d[slot] ELSE f[slot]
      BY <3>2, <3>3
    <3>5. QED
      BY <2>2, <3>1, <3>4
  <2>3. QED
    BY <2>1, <2>2
<1>8. ASSUME NEW slot
      PROVE  /\ slot \in DOMAIN g <=> slot # e /\ Declarers(n, slot) # {}
             /\ slot \in DOMAIN g => g[slot] = merged.services[Ancestry(n)[Min(Declarers(n, slot))]].decl[slot]
  <2>1. /\ slot \in DOMAIN s.decl =>
             Declarers(n, slot) # {} /\ Ancestry(n)[Min(Declarers(n, slot))] = n
        /\ slot \notin DOMAIN s.decl =>
             /\ Declarers(n, slot) # {} <=> s.tag = "merge" /\ Declarers(b, slot) # {}
             /\ Declarers(n, slot) # {} =>
                  Ancestry(n)[Min(Declarers(n, slot))] = Ancestry(b)[Min(Declarers(b, slot))]
    BY <1>1, DeclarersOnTop
  <2>2. /\ slot \in DOMAIN f <=> slot # e /\ Declarers(b, slot) # {}
        /\ slot \in DOMAIN f => f[slot] = merged.services[Ancestry(b)[Min(Declarers(b, slot))]].decl[slot]
    BY <1>1, <1>6 DEF Inherits
  <2>3. CASE slot = e
    BY <1>3, <1>7, <2>2, <2>3
  <2>4. CASE slot # e /\ slot \in DOMAIN s.decl
    BY <1>1, <1>3, <1>7, <2>1, <2>4
  <2>5. CASE slot # e /\ slot \notin DOMAIN s.decl
    BY <1>3, <1>7, <2>1, <2>2, <2>5
  <2>6. QED
    BY <2>3, <2>4, <2>5
<1>9. QED
  BY <1>1, <1>2, <1>4, <1>8 DEF Inherits


(* FlattenedPath, service by service from the end of the path.             *)
LEMMA FlattenedDefined ==
  ASSUME NEW path, IsList(path), path # <<>>
  PROVE  /\ FlattenedPath(path)[Len(path)] = services[path[Len(path)]]
         /\ \A k \in 1..(Len(path) - 1) :
              FlattenedPath(path)[k] = merge_services(FlattenedPath(path)[k + 1], WithoutExtends(services[path[k]]))
<1> DEFINE N == Len(path)
           Solves(g, m) == g = [k \in m..N |-> IF k = N THEN services[path[k]]
                                  ELSE merge_services(g[k + 1], WithoutExtends(services[path[k]]))]
           T == {n \in 0..(N - 1) : \E g : Solves(g, N - n)}
<1>1. N \in Nat \ {0}
  BY Sequences
<1>2. 0 \in T
  <2>1. Solves([k \in N..N |-> services[path[k]]], N)
    <3> HIDE DEF N
    <3>1. \A k \in N..N : k = N
      BY <1>1
    <3>2. QED
      BY <3>1
  <2>2. N - 0 = N /\ 0 \in 0..(N - 1)
    BY <1>1
  <2> HIDE DEF Solves, N
  <2>3. QED
    BY <2>1, <2>2
<1>3. ASSUME NEW n \in 0..((N - 1) - 1), n \in T
      PROVE  n + 1 \in T
  <2>0. PICK m : m = N - (n + 1)
    OBVIOUS
  <2>1. m \in 1..(N - 1) /\ N - n = m + 1 /\ m..N = {m} \cup (m + 1)..N /\ m \notin (m + 1)..N
    BY <1>1, <2>0
  <2>2. PICK g : Solves(g, m + 1)
    BY <1>3, <2>1
  <2> DEFINE h == [k \in m..N |-> IF k = m THEN merge_services(g[k + 1], WithoutExtends(services[path[k]])) ELSE g[k]]
  <2>3. \A k \in m..N : h[k] = IF k = N THEN services[path[k]]
                               ELSE merge_services(h[k + 1], WithoutExtends(services[path[k]]))
    <3> SUFFICES ASSUME NEW k \in m..N
                 PROVE  h[k] = IF k = N THEN services[path[k]]
                               ELSE merge_services(h[k + 1], WithoutExtends(services[path[k]]))
      OBVIOUS
    <3> HIDE DEF N
    <3>1. k # N => k + 1 \in (m + 1)..N /\ h[k + 1] = g[k + 1]
      BY <1>1, <2>1
    <3>2. CASE k = m
      <4>1. h[k] = merge_services(g[k + 1], WithoutExtends(services[path[k]])) /\ k # N
        BY <1>1, <2>1, <3>2
      <4> HIDE DEF h, Solves
      <4>2. QED
        BY <3>1, <4>1
    <3>3. CASE k # m
      <4>1. k \in (m + 1)..N /\ h[k] = g[k]
        BY <2>1, <3>3
      <4>2. g[k] = IF k = N THEN services[path[k]] ELSE merge_services(g[k + 1], WithoutExtends(services[path[k]]))
        BY <2>2, <4>1
      <4> HIDE DEF h, Solves
      <4>3. QED
        BY <3>1, <4>1, <4>2
    <3>4. QED
      BY <3>2, <3>3
  <2>4. Solves(h, m)
    BY <2>3
  <2>5. n + 1 \in 0..(N - 1)
    BY <1>1
  <2> HIDE DEF h, Solves
  <2>6. QED
    BY <2>0, <2>4, <2>5
<1>4. \E g : Solves(g, 1)
  <2> HIDE DEF Solves
  <2>1. N - 1 \in T
    <3> HIDE DEF T, N
    <3>1. N - 1 \in Nat /\ \A n \in 0..((N - 1) - 1) : n \in T => n + 1 \in T
      BY <1>1, <1>3
    <3>2. \A n \in 0..(N - 1) : n \in T
      BY <1>2, <3>1, UpTo
    <3> QED
      BY <3>1, <3>2
  <2>2. N - (N - 1) = 1
    BY <1>1
  <2>3. QED
    BY <2>1, <2>2
<1> DEFINE flat == CHOOSE g : Solves(g, 1)
<1>5. Solves(flat, 1)
  <2> HIDE DEF Solves
  <2> QED
    BY <1>4
<1>6. FlattenedPath(path) = flat
  BY DEF FlattenedPath
<1> HIDE DEF flat
<1>7. /\ flat[N] = services[path[N]]
      /\ \A k \in 1..(N - 1) : flat[k] = merge_services(flat[k + 1], WithoutExtends(services[path[k]]))
  <2>1. flat = [k \in 1..N |-> IF k = N THEN services[path[k]]
                               ELSE merge_services(flat[k + 1], WithoutExtends(services[path[k]]))]
    BY <1>5
  <2>2. \A k \in 1..N : flat[k] = IF k = N THEN services[path[k]]
                                  ELSE merge_services(flat[k + 1], WithoutExtends(services[path[k]]))
    BY <2>1
  <2>3. N \in 1..N /\ \A k \in 1..(N - 1) : k \in 1..N /\ k # N
    BY <1>1
  <2> HIDE DEF N, Solves
  <2>4. QED
    BY <2>2, <2>3
<1>8. QED
  BY <1>6, <1>7

\* What is resolved is right.
WellResolved ==
  /\ resolved \subseteq DOMAIN merged.services
  /\ \A n \in resolved : WellExtended(n) /\ Inherits(services[n].decl, n)

(* Along a path that ends well, every service has what it inherits.        *)
LEMMA Flattened ==
  ASSUME StackInv, Merged, Untouched, WellResolved, NEW n, NEW w, Line(w, n),
         \A i \in 1..(Len(w) - 1) : w[i] \notin resolved,
         w[Len(w)] \in resolved \/ Extended(services, w[Len(w)]) = Absent
  PROVE  \A i \in 1..Len(w) : WellExtended(w[i]) /\ Inherits(FlattenedPath(w)[i].decl, w[i])
<1>1. PICK L, f : L = Len(w) /\ f = FlattenedPath(w)
  OBVIOUS
<1>2. /\ L \in Nat \ {0} /\ IsList(w) /\ w # <<>>
      /\ \A i \in 1..L : w[i] \in DOMAIN merged.services
      /\ \A i \in 1..(L - 1) : w[i + 1] = Ext(w[i])
  BY <1>1, Sequences DEF Line
<1>3. /\ f[L] = services[w[L]]
      /\ \A i \in 1..(L - 1) : f[i] = merge_services(f[i + 1], WithoutExtends(services[w[i]]))
  BY <1>1, <1>2, FlattenedDefined
<1> DEFINE Good(i) == WellExtended(w[i]) /\ Inherits(f[i].decl, w[i])
           T == {k \in 0..(L - 1) : Good(L - k)}
<1>4. Good(L)
  <2>1. CASE w[L] \in resolved
    BY <1>3, <2>1 DEF WellResolved
  <2>2. CASE w[L] \notin resolved
    <3>1. w[L] \in DOMAIN merged.services /\ Extended(services, w[L]) = Absent
      BY <1>1, <1>2, <2>2
    <3>2. services[w[L]] = merged.services[w[L]]
      BY <2>2, <3>1 DEF Untouched
    <3>3. Ext(w[L]) = Absent
      BY <3>1, <3>2 DEF Ext, Extended
    <3>4. QED
      BY <1>3, <3>1, <3>2, <3>3, AncestryAlone, InheritsAlone
  <2>3. QED
    BY <2>1, <2>2
<1>5. ASSUME NEW i \in 1..(L - 1), Good(i + 1)
      PROVE  Good(i)
  <2>1. PICK m, b : m = w[i] /\ b = w[i + 1]
    OBVIOUS
  <2>2. i \in 1..L /\ i + 1 \in 1..L
    BY <1>2
  <2>3. m \in DOMAIN merged.services /\ b \in DOMAIN merged.services /\ Ext(m) = b /\ m \notin resolved
    BY <1>1, <1>2, <2>1, <2>2
  <2>4. services[m] = merged.services[m]
    BY <2>3 DEF Untouched
  <2>5. f[i] = merge_services(f[i + 1], WithoutExtends(merged.services[m]))
    BY <1>3, <2>1, <2>4
  <2>6. WellExtended(b) /\ Inherits(f[i + 1].decl, b)
    BY <1>5, <2>1
  <2>7. WellExtended(m)
    BY <2>3, <2>6, AncestryOnTop
  <2>8. Inherits(f[i].decl, m)
    BY <2>3, <2>5, <2>6, InheritsOnTop
  <2>9. QED
    BY <2>1, <2>7, <2>8
<1> HIDE DEF Good
<1>6. 0 \in T
  <2>1. L - 0 = L /\ 0 \in 0..(L - 1)
    BY <1>2
  <2>2. QED
    BY <1>4, <2>1
<1>7. \A k \in 0..((L - 1) - 1) : k \in T => k + 1 \in T
  <2> SUFFICES ASSUME NEW k \in 0..((L - 1) - 1), Good(L - k)
               PROVE  k + 1 \in 0..(L - 1) /\ Good(L - (k + 1))
    OBVIOUS
  <2>1. L - (k + 1) \in 1..(L - 1) /\ (L - (k + 1)) + 1 = L - k /\ k + 1 \in 0..(L - 1)
    BY <1>2
  <2>2. QED
    BY <1>5, <2>1
<1>8. \A k \in 0..(L - 1) : k \in T
  <2> HIDE DEF T
  <2>1. L - 1 \in Nat
    BY <1>2
  <2>2. QED
    BY <1>6, <1>7, <2>1, UpTo
<1>9. \A i \in 1..L : Good(i)
  <2> SUFFICES ASSUME NEW i \in 1..L
               PROVE  Good(i)
    OBVIOUS
  <2>1. L - i \in 0..(L - 1) /\ L - (L - i) = i
    BY <1>2
  <2>2. Good(L - (L - i))
    BY <1>8, <2>1
  <2>3. QED
    BY <2>1, <2>2
<1>10. QED
  BY <1>1, <1>9 DEF Good


(* A path that ends in what is missing, or in a service it has met before, *)
(* does not end well.                                                      *)
LEMMA EndsBadly ==
  ASSUME StackInv, Merged, Untouched, NEW n \in DOMAIN merged.services, NEW w, Line(w, n), PathEnds(w),
         w[Len(w)] \notin resolved, Extended(services, w[Len(w)]) # Absent
  PROVE  ~WellExtended(n)
<1> SUFFICES ASSUME WellExtended(n)
             PROVE  FALSE
  OBVIOUS
<1>1. PICK v, L, M : v = Ancestry(n) /\ L = Len(w) /\ M = Len(v)
  OBVIOUS
<1>2. Line(v, n)
  BY <1>1, AncestryLine
<1>3. L \in Nat \ {0} /\ M \in Nat \ {0} /\ Range(w) = {w[i] : i \in 1..L}
  BY <1>1, <1>2, Sequences DEF Line
<1>4. Ext(v[M]) = Absent /\ Ext(v[M]) \notin DOMAIN merged.services
  BY <1>1, MergedFinite DEF WellExtended, Ext
<1>5. \A i, j \in 1..M : v[i] = v[j] => i = j
  BY <1>1, <1>2, <1>4, EndedDiffer DEF Ended
<1>6. \A i \in 1..L : i <= M => w[i] = v[i]
  BY <1>1, <1>2, LinesAgree
<1>7. PICK b : b = Extended(services, w[L])
  OBVIOUS
<1>8. b = Ext(w[L]) /\ b # Absent /\ (b \notin DOMAIN merged.services \/ b \in Range(w))
  <2>1. w[L] \in DOMAIN merged.services /\ w[L] \notin resolved
    BY <1>1, <1>3 DEF Line
  <2>2. services[w[L]] = merged.services[w[L]] /\ DOMAIN services = DOMAIN merged.services
    BY <2>1 DEF Untouched
  <2>3. QED
    BY <1>1, <1>7, <2>1, <2>2 DEF Ext, Extended, PathEnds
<1>9. CASE M < L
  <2>1. M \in 1..L /\ M <= M /\ M \in 1..(L - 1) /\ M + 1 \in 1..L
    BY <1>3, <1>9
  <2>2. w[M] = v[M] /\ w[M + 1] = Ext(w[M]) /\ w[M + 1] \in DOMAIN merged.services
    BY <1>1, <1>6, <2>1 DEF Line
  <2>3. QED
    BY <1>4, <2>2
<1>10. CASE M = L
  <2>1. L \in 1..L /\ L <= M
    BY <1>3, <1>10
  <2>2. w[L] = v[M]
    BY <1>6, <1>10, <2>1
  <2>3. QED
    BY <1>4, <1>8, <2>2
<1>11. CASE L < M
  <2>1. L \in 1..L /\ L <= M /\ L \in 1..(M - 1) /\ L + 1 \in 1..M
    BY <1>3, <1>11
  <2>2. w[L] = v[L] /\ v[L + 1] = Ext(v[L]) /\ v[L + 1] \in DOMAIN merged.services
    BY <1>1, <1>2, <1>6, <2>1 DEF Line
  <2>3. v[L + 1] \in Range(w)
    BY <1>8, <2>2
  <2>4. PICK i \in 1..L : w[i] = v[L + 1]
    BY <1>3, <2>3
  <2>5. i <= M /\ i \in 1..M /\ i # L + 1
    BY <1>3, <1>11, <2>4
  <2>6. v[i] = v[L + 1]
    BY <1>6, <2>4, <2>5
  <2>7. QED
    BY <1>5, <2>1, <2>5, <2>6
<1>12. QED
  BY <1>3, <1>9, <1>10, <1>11

-----------------------------------------------------------------------------
\* Resolving.

Resolving == pc \in {"extends", "graph", "done"} /\ merged # <<>>

(* What extends itself or something missing, and the report says so.       *)
LeftAsItWas(n) == ~WellExtended(n) /\ \E d \in report : d[1] \in {"SUS-EXT-001", "SUS-EXT-002"}

ExtendsInv ==
  /\ pc \in {"begin", "load"} => resolved = {}
  /\ Resolving =>
       /\ Untouched /\ WellResolved
       /\ IsList(names) /\ Range(names) \subseteq DOMAIN merged.services
       /\ pc # "extends" => names = <<>>
       /\ \A n \in DOMAIN merged.services \ resolved : n \in Range(names) \/ LeftAsItWas(n)

LEMMA SameExtends ==
  ASSUME merged' = merged
  PROVE  /\ \A n : WellExtended(n)' <=> WellExtended(n)
         /\ \A f, n : Inherits(f, n)' <=> Inherits(f, n)
<1>1. \A n : Ancestry(n)' = Ancestry(n)
  BY DEF Ancestry, Extended, Value
<1>2. \A n : WellExtended(n)' <=> WellExtended(n)
  BY <1>1 DEF WellExtended, Extended, Value
<1>3. \A n, slot : Declarers(n, slot)' = Declarers(n, slot)
  BY <1>1 DEF Declarers
<1>4. \A f, n : Inherits(f, n)' <=> Inherits(f, n)
  BY <1>1, <1>3 DEF Inherits
<1>5. QED
  BY <1>2, <1>4

(* What is resolved right stays so.                                        *)
LEMMA StillInherits ==
  ASSUME merged' = merged, NEW S, \A n \in S : services'[n] = services[n]
  PROVE  \A n \in S : WellExtended(n) /\ Inherits(services[n].decl, n) =>
                       WellExtended(n)' /\ Inherits(services[n].decl, n)'
<1> SUFFICES ASSUME NEW n \in S, WellExtended(n), Inherits(services[n].decl, n)
             PROVE  WellExtended(n)' /\ Inherits(services[n].decl, n)'
  OBVIOUS
<1>1. PICK f : f = services[n].decl
  OBVIOUS
<1>2. WellExtended(n)' /\ Inherits(f, n)'
  BY <1>1, SameExtends
<1>3. services'[n].decl = f
  BY <1>1
<1>4. QED
  BY <1>2, <1>3 DEF Inherits

LEMMA ExtendsStay ==
  ASSUME ExtendsInv, merged' = merged, services' = services, resolved' = resolved, names' = names, report \subseteq report',
         pc' \in {"begin", "load"} => pc \in {"begin", "load"},
         Resolving' => Resolving,
         Resolving' => (pc' # "extends" => pc # "extends" \/ names = <<>>)
  PROVE  ExtendsInv'
<1>1. pc' \in {"begin", "load"} => resolved' = {}
  BY DEF ExtendsInv
<1>2. ASSUME Resolving'
      PROVE  /\ Untouched' /\ WellResolved'
             /\ IsList(names') /\ Range(names') \subseteq DOMAIN merged'.services
             /\ pc' # "extends" => names' = <<>>
             /\ \A n \in DOMAIN merged'.services \ resolved' : n \in Range(names') \/ LeftAsItWas(n)'
  <2>1. Resolving
    BY <1>2
  <2>2. Untouched /\ WellResolved /\ IsList(names) /\ Range(names) \subseteq DOMAIN merged.services
        /\ (pc # "extends" => names = <<>>)
    BY <2>1 DEF ExtendsInv
  <2>3. Untouched'
    BY <2>2 DEF Untouched
  <2>4. WellResolved'
    BY <2>2, StillInherits DEF WellResolved
  <2>5. \A n \in DOMAIN merged.services \ resolved : n \in Range(names) \/ LeftAsItWas(n)'
    <3> SUFFICES ASSUME NEW n \in DOMAIN merged.services \ resolved, n \notin Range(names)
                 PROVE  LeftAsItWas(n)'
      OBVIOUS
    <3>1. LeftAsItWas(n)
      BY <2>1 DEF ExtendsInv
    <3>2. ~WellExtended(n)'
      BY <3>1, SameExtends DEF LeftAsItWas
    <3>3. QED
      BY <3>1, <3>2 DEF LeftAsItWas
  <2>6. pc' # "extends" => names' = <<>>
    BY <1>2, <2>2
  <2>7. QED
    BY <2>2, <2>3, <2>4, <2>5, <2>6
<1>3. QED
  BY <1>1, <1>2 DEF ExtendsInv


LEMMA ExtendsResolved ==
  ASSUME RootsAll, MergedInv, ExtendsInv, ResolveExtends
  PROVE  ExtendsInv'
<1>1. pc = "extends" /\ pc' = pc /\ names # <<>> /\ names' = Tail(names) /\ merged' = merged
  BY DEF ResolveExtends, loadVars
<1> SUFFICES ASSUME merged # <<>>
             PROVE  ExtendsInv'
  BY <1>1 DEF ExtendsInv, Resolving
<1>2. StackInv /\ Merged /\ Resolving
  BY <1>1 DEF RootsAll, PathInv, MergedInv, Merged, Resolving
<1>3. /\ Untouched /\ WellResolved
      /\ IsList(names) /\ Range(names) \subseteq DOMAIN merged.services
      /\ \A m \in DOMAIN merged.services \ resolved : m \in Range(names) \/ LeftAsItWas(m)
  BY <1>2 DEF ExtendsInv
<1>4. PICK n, w, last : n = Head(names) /\ w = ExtendsPath(n) /\ last = w[Len(w)]
  OBVIOUS
<1>5. IsList(names') /\ Range(names) = {n} \cup Range(names')
  BY <1>1, <1>3, <1>4, ListTail
<1>6. n \in DOMAIN merged.services
  BY <1>3, <1>5
<1>7. /\ Line(w, n) /\ PathEnds(w)
      /\ \A i, j \in 1..Len(w) : w[i] = w[j] => i = j
      /\ \A i \in 1..(Len(w) - 1) : w[i] \notin resolved
  BY <1>2, <1>3, <1>4, <1>6, PathIsLine
<1>8. /\ DOMAIN w = 1..Len(w) /\ Len(w) \in Nat \ {0} /\ Range(w) = {w[i] : i \in 1..Len(w)}
      /\ Range(w) \subseteq DOMAIN merged.services /\ n \in Range(w)
  <2>1. IsList(w) /\ w # <<>> /\ w[1] = n /\ \A i \in 1..Len(w) : w[i] \in DOMAIN merged.services
    BY <1>7 DEF Line
  <2>2. DOMAIN w = 1..Len(w) /\ Len(w) \in Nat \ {0} /\ Range(w) = {w[i] : i \in 1..Len(w)}
    BY <2>1, Sequences
  <2>3. 1 \in 1..Len(w)
    BY <2>2
  <2>4. QED
    BY <2>1, <2>2, <2>3
<1>9. PICK flat : flat = FlattenedPath(w)
  OBVIOUS
<1>10. CASE last \in resolved \/ Extended(services, last) = Absent
  <2> DEFINE g == [m \in Range(w) |-> flat[Min({i \in DOMAIN w : w[i] = m})]]
  <2>1. services' = Over(g, services) /\ resolved' = resolved \cup Range(w) /\ report' = report
    BY <1>4, <1>9, <1>10 DEF ResolveExtends
  <2>2. \A i \in 1..Len(w) : g[w[i]] = flat[i]
    <3> SUFFICES ASSUME NEW i \in 1..Len(w)
                 PROVE  g[w[i]] = flat[i]
      OBVIOUS
    <3>1. {j \in DOMAIN w : w[j] = w[i]} = {i}
      BY <1>7, <1>8
    <3>2. Min({i}) = i
      BY <1>8, LeastIs
    <3>3. w[i] \in Range(w)
      BY <1>8
    <3>4. QED
      BY <3>1, <3>2, <3>3
  <2>3. /\ DOMAIN services' = DOMAIN services
        /\ \A i \in 1..Len(w) : services'[w[i]] = flat[i]
        /\ \A m \in DOMAIN services \ Range(w) : services'[m] = services[m]
    <3>1. DOMAIN g = Range(w)
      OBVIOUS
    <3> HIDE DEF g
    <3>2. PICK s : s = services'
      OBVIOUS
    <3>3. /\ DOMAIN s = Range(w) \cup DOMAIN services
          /\ \A m \in Range(w) : s[m] = g[m]
          /\ \A m \in DOMAIN services \ Range(w) : s[m] = services[m]
      BY <2>1, <3>1, <3>2 DEF Over
    <3>4. Range(w) \subseteq DOMAIN services
      BY <1>3, <1>8 DEF Untouched
    <3>5. \A i \in 1..Len(w) : s[w[i]] = flat[i]
      BY <1>8, <2>2, <3>3
    <3>6. QED
      BY <3>2, <3>3, <3>4, <3>5
  <2> HIDE DEF g
  <2>4. Untouched'
    BY <1>1, <1>3, <2>1, <2>3 DEF Untouched
  <2>5. \A i \in 1..Len(w) : WellExtended(w[i]) /\ Inherits(flat[i].decl, w[i])
    BY <1>2, <1>3, <1>4, <1>7, <1>9, <1>10, Flattened
  <2>6. WellResolved'
    <3>1. resolved' \subseteq DOMAIN merged'.services
      BY <1>1, <1>3, <1>8, <2>1 DEF WellResolved
    <3>2. ASSUME NEW m \in Range(w)
          PROVE  WellExtended(m)' /\ Inherits(services[m].decl, m)'
      <4>1. PICK i \in 1..Len(w) : m = w[i]
        BY <1>8
      <4>2. PICK f : f = flat[i].decl
        OBVIOUS
      <4>3. WellExtended(m) /\ Inherits(f, m)
        BY <2>5, <4>1, <4>2
      <4>4. WellExtended(m)' /\ Inherits(f, m)'
        BY <1>1, <4>3, SameExtends
      <4>5. services'[m].decl = f
        BY <2>3, <4>1, <4>2
      <4>6. QED
        BY <4>4, <4>5 DEF Inherits
    <3>3. ASSUME NEW m \in resolved \ Range(w)
          PROVE  WellExtended(m)' /\ Inherits(services[m].decl, m)'
      <4>1. \A k \in resolved \ Range(w) : services'[k] = services[k]
        BY <1>3, <2>3 DEF WellResolved, Untouched
      <4>2. QED
        BY <1>1, <1>3, <3>3, <4>1, StillInherits DEF WellResolved
    <3>4. QED
      BY <2>1, <3>1, <3>2, <3>3 DEF WellResolved
  <2>7. ASSUME NEW m \in DOMAIN merged.services \ resolved'
        PROVE  m \in Range(names') \/ LeftAsItWas(m)'
    <3>1. m \notin resolved /\ m # n
      BY <1>8, <2>1, <2>7
    <3>2. CASE m \in Range(names)
      BY <1>5, <3>1, <3>2
    <3>3. CASE LeftAsItWas(m)
      BY <1>1, <2>1, <3>3, SameExtends DEF LeftAsItWas
    <3>4. QED
      BY <1>3, <3>1, <3>2, <3>3
  <2>8. QED
    BY <1>1, <1>3, <1>5, <2>4, <2>6, <2>7 DEF ExtendsInv
<1>11. CASE last \notin resolved /\ Extended(services, last) # Absent
  <2>1. PICK b : b = Extended(services, last)
    OBVIOUS
  <2>2. /\ services' = services /\ resolved' = resolved
        /\ report' = report \cup {<<IF b \in DOMAIN services THEN "SUS-EXT-002" ELSE "SUS-EXT-001", b>>}
    BY <1>4, <1>11, <2>1 DEF ResolveExtends
  <2>3. Untouched'
    BY <1>1, <1>3, <2>2 DEF Untouched
  <2>4. WellResolved'
    BY <1>1, <1>3, <2>2, StillInherits DEF WellResolved
  <2>5. report \subseteq report' /\ \E d \in report' : d[1] \in {"SUS-EXT-001", "SUS-EXT-002"}
    <3>1. CASE b \in DOMAIN services
      <4>1. <<"SUS-EXT-002", b>> \in report' /\ <<"SUS-EXT-002", b>>[1] = "SUS-EXT-002"
        BY <2>2, <3>1
      <4>2. QED
        BY <2>2, <4>1
    <3>2. CASE b \notin DOMAIN services
      <4>1. <<"SUS-EXT-001", b>> \in report' /\ <<"SUS-EXT-001", b>>[1] = "SUS-EXT-001"
        BY <2>2, <3>2
      <4>2. QED
        BY <2>2, <4>1
    <3>3. QED
      BY <3>1, <3>2
  <2>6. ~WellExtended(n)
    BY <1>2, <1>3, <1>4, <1>6, <1>7, <1>11, EndsBadly
  <2>7. ASSUME NEW m \in DOMAIN merged.services \ resolved'
        PROVE  m \in Range(names') \/ LeftAsItWas(m)'
    <3>1. CASE m = n
      BY <1>1, <2>5, <2>6, <3>1, SameExtends DEF LeftAsItWas
    <3>2. CASE m # n /\ m \in Range(names)
      BY <1>5, <3>2
    <3>3. CASE LeftAsItWas(m)
      BY <1>1, <2>5, <3>3, SameExtends DEF LeftAsItWas
    <3>4. QED
      BY <1>3, <2>2, <2>7, <3>1, <3>2, <3>3
  <2>8. QED
    BY <1>1, <1>3, <1>5, <2>3, <2>4, <2>7 DEF ExtendsInv
<1>12. QED
  BY <1>10, <1>11

LEMMA ExtendsStep ==
  ASSUME RootsAll, MergedInv, ExtendsInv, [Next]_vars
  PROVE  ExtendsInv'
<1>1. CASE ResolveExtends
  BY <1>1, ExtendsResolved
<1>2. CASE Loaded
  <2>1. pc = "load" /\ merged' = merged /\ report' = report /\ pc' \in {"done", "extends"}
        /\ (merged = <<>> => pc' = "done")
        /\ (merged # <<>> => pc' = "extends" /\ names' = merged.order /\ services' = merged.services /\ resolved' = resolved)
    BY <1>2 DEF Loaded, loadVars
  <2>2. resolved = {}
    BY <2>1 DEF ExtendsInv
  <2>3. CASE merged = <<>>
    BY <2>1, <2>3 DEF ExtendsInv, Resolving
  <2>4. CASE merged # <<>>
    <3>1. Listed(merged.order, DOMAIN merged.services)
      BY <2>4 DEF MergedInv, IsProject
    <3>2. Untouched' /\ WellResolved'
      BY <2>1, <2>2, <2>4 DEF Untouched, WellResolved
    <3>3. IsList(names') /\ Range(names') = DOMAIN merged'.services
      BY <2>1, <2>4, <3>1 DEF Listed
    <3>4. QED
      BY <2>1, <2>2, <2>4, <3>2, <3>3 DEF ExtendsInv, Resolving
  <2>5. QED
    BY <2>3, <2>4
<1>3. CASE Begin \/ Refuse \/ LoadFails \/ LoadFile \/ LeaveFile \/ Merge
  <2>1. pc \in {"begin", "load"} /\ pc' \in {"begin", "load", "error"} /\ resolved' = resolved
    BY <1>3 DEF Begin, Refuse, LoadFails, LoadFile, LeaveFile, Merge, extendsVars
  <2>2. QED
    BY <2>1 DEF ExtendsInv, Resolving
<1>4. CASE Normalize \/ PlaceService \/ Conclude \/ Returned \/ UNCHANGED vars
  <2>1. merged' = merged /\ services' = services /\ resolved' = resolved /\ names' = names /\ report \subseteq report'
        /\ (pc' \in {"begin", "load"} => pc \in {"begin", "load"})
        /\ (pc' \in {"extends", "graph", "done"} => pc \in {"extends", "graph", "done"})
        /\ (pc' # "extends" => pc # "extends" \/ names = <<>>)
    <3>1. CASE Normalize
      BY <3>1 DEF Normalize, loadVars, extendsVars
    <3>2. CASE PlaceService \/ Conclude
      BY <3>2 DEF PlaceService, Conclude, loadVars, extendsVars
    <3>3. CASE Returned \/ UNCHANGED vars
      BY <3>3 DEF Returned, vars, loadVars, extendsVars
    <3>4. QED
      BY <1>4, <3>1, <3>2, <3>3
  <2>2. QED
    BY <2>1, ExtendsStay DEF Resolving
<1>5. QED
  BY <1>1, <1>2, <1>3, <1>4 DEF Next, Analyze, Load

ExtendsAll == RootsAll /\ MergedInv /\ ExtendsInv

LEMMA ExtendsAlways == Spec => []ExtendsAll
<1>1. Init => ExtendsAll
  BY PathInitial, RootsInitial DEF ExtendsAll, RootsAll, Init, MergedInv, ExtendsInv, Resolving
<1>2. ExtendsAll /\ [Next]_vars => ExtendsAll'
  BY RootsStep, MergedKeeps, ExtendsStep DEF ExtendsAll
<1>3. QED
  BY <1>1, <1>2, PTL DEF Spec

(* Every service has what it inherits and nothing else, in whatever order  *)
(* extends was resolved, or is left as it was, and the report says so      *)
(* (resolve_extends of crates/susun).                                      *)
THEOREM ExtendsIsFlattened == Spec => []ExtendsFlat
<1>1. ExtendsAll => ExtendsFlat
  <2> SUFFICES ASSUME ExtendsAll, Resolving, names = <<>>, NEW n \in DOMAIN services
               PROVE  IF WellExtended(n)
                      THEN /\ DOMAIN services[n].decl =
                                {slot \in UNION {DOMAIN merged.services[m].decl : m \in Range(Ancestry(n))} :
                                   slot # <<"extends">> /\ Declarers(n, slot) # {}}
                           /\ \A slot \in DOMAIN services[n].decl :
                                services[n].decl[slot] = merged.services[Ancestry(n)[Min(Declarers(n, slot))]].decl[slot]
                      ELSE services[n] = merged.services[n] /\ \E d \in report : d[1] \in {"SUS-EXT-001", "SUS-EXT-002"}
    BY DEF ExtendsFlat, Resolving
  <2>1. Untouched /\ WellResolved /\ (n \in resolved \/ LeftAsItWas(n))
    BY DEF ExtendsAll, ExtendsInv, Range, Untouched
  <2>2. CASE n \in resolved
    <3>1. PICK f : f = services[n].decl
      OBVIOUS
    <3>2. WellExtended(n) /\ Inherits(f, n)
      BY <2>1, <2>2, <3>1 DEF WellResolved
    <3>3. \A slot : Declarers(n, slot) # {} => slot \in UNION {DOMAIN merged.services[m].decl : m \in Range(Ancestry(n))}
      BY DEF Declarers, Range
    <3>4. QED
      BY <3>1, <3>2, <3>3 DEF Inherits
  <2>3. CASE n \notin resolved
    BY <2>1, <2>3 DEF Untouched, LeftAsItWas
  <2>4. QED
    BY <2>2, <2>3
<1>2. QED
  BY <1>1, ExtendsAlways, PTL

-----------------------------------------------------------------------------
\* What a report without errors says of the files.

(* A file that is read is as it must be, or its problems are errors.       *)
LEMMA ReadableOrReported ==
  ASSUME StackInv, NEW path \in DOMAIN input.files,
         \A d \in ParseProblems(input.files[path], Layers(path)) : d[1] \in Mild
  PROVE  Readable(path)
<1>1. PICK yaml, layers : yaml = input.files[path] /\ layers = Layers(path)
  OBVIOUS
<1>2. PICK P : P = ParseProblems(yaml, layers)
  OBVIOUS
<1>3. \A d \in P : d[1] \in Mild
  BY <1>1, <1>2
<1>4. /\ "SUS-PARSE-001" \notin Mild /\ "SUS-PARSE-003" \notin Mild /\ "SUS-PARSE-010" \notin Mild
      /\ "SUS-ENV-001" \notin Mild
  BY DEF Mild
<1>5. /\ <<"SUS-PARSE-001">>[1] = "SUS-PARSE-001" /\ <<"SUS-PARSE-003">>[1] = "SUS-PARSE-003"
      /\ <<"SUS-PARSE-010">>[1] = "SUS-PARSE-010" /\ \A x : <<"SUS-ENV-001", x>>[1] = "SUS-ENV-001"
  OBVIOUS
<1>6. yaml # Absent
  <2>1. yaml = Absent => P = {<<"SUS-PARSE-001">>}
    BY <1>2 DEF ParseProblems
  <2>2. QED
    BY <1>3, <1>4, <1>5, <2>1
<1>7. IsList(yaml) /\ Len(yaml) \in Nat /\ DOMAIN yaml = 1..Len(yaml) /\ (yaml = <<>> <=> Len(yaml) = 0)
  <2>1. IsYaml(yaml)
    BY <1>1, InputsAssumption DEF StackInv
  <2>2. IsList(yaml)
    BY <1>6, <2>1 DEF IsYaml
  <2>3. QED
    BY <2>2, Sequences
<1>8. ~(Len(yaml) > 1)
  <2>1. Len(yaml) > 1 => P = {<<"SUS-PARSE-003">>}
    BY <1>2, <1>6 DEF ParseProblems
  <2>2. QED
    BY <1>3, <1>4, <1>5, <2>1
<1>9. ASSUME NEW i \in DOMAIN yaml
      PROVE  /\ untagged(yaml[i]).kind = "mapping"
             /\ \A t \in InterpolatedTexts(yaml[i]) :
                  \A token \in {x \in Range(parse(t)) : x.kind = "variable" /\ x.op \in Required} :
                    get(layers, token.name) \notin {Absent} \cup (IF token.op = ":?" THEN {<<>>} ELSE {})
  <2>1. i = 1 /\ yaml # <<>>
    BY <1>7, <1>8, <1>9
  <2>2. untagged(yaml[1]).kind = "mapping"
    <3>1. untagged(yaml[1]).kind # "mapping" => P = {<<"SUS-PARSE-010">>}
      BY <1>2, <1>6, <1>8, <2>1 DEF ParseProblems
    <3>2. QED
      BY <1>3, <1>4, <1>5, <3>1
  <2>3. \A t \in InterpolatedTexts(yaml[1]) : InterpolationProblems(t, layers) \subseteq P
    BY <1>2, <1>6, <1>8, <2>1, <2>2 DEF ParseProblems
  <2>4. ASSUME NEW t \in InterpolatedTexts(yaml[1]),
               NEW token \in Range(parse(t)), token.kind = "variable", token.op \in Required
        PROVE  get(layers, token.name) \notin {Absent} \cup (IF token.op = ":?" THEN {<<>>} ELSE {})
    <3>1. ~IsMissing(token, layers)
      <4>1. IsMissing(token, layers) => <<"SUS-ENV-001", token.name>> \in InterpolationProblems(t, layers)
        BY <2>4 DEF InterpolationProblems
      <4>2. QED
        BY <1>3, <1>4, <1>5, <2>3, <4>1
    <3>2. QED
      BY <3>1 DEF IsMissing, ChecksEmpty
  <2>5. QED
    BY <2>1, <2>2, <2>4
<1>10. QED
  BY <1>1, <1>6, <1>7, <1>8, <1>9 DEF Readable

(* All that can be reached from a file is as it must be.                   *)
Sealed(path) == \A w : Chain(Files, path, w) => \A i \in 1..Len(w) : Readable(w[i])

LEMMA ChainTail ==
  ASSUME NEW files, NEW root, NEW w, Chain(files, root, w), Len(w) > 1
  PROVE  Chain(files, w[2], Tail(w))
<1>1. PICK n, t : n = Len(w) /\ t = Tail(w)
  OBVIOUS
<1>2. IsList(w) /\ w # <<>> /\ \A i \in 1..(n - 1) : w[i + 1] \in IncludedBy(files, w[i])
  BY <1>1 DEF Chain
<1>3. n \in Nat /\ n > 1
  BY <1>1, <1>2, Sequences
<1>4. IsList(t) /\ Len(t) = n - 1 /\ \A i \in 1..(n - 1) : t[i] = w[i + 1]
  BY <1>1, <1>2, ListTail
<1>5. t # <<>> /\ t[1] = w[2]
  <2>1. t # <<>>
    BY <1>3, <1>4, Sequences
  <2>2. 1 \in 1..(n - 1) /\ 1 + 1 = 2
    BY <1>3
  <2>3. QED
    BY <1>4, <2>1, <2>2
<1>6. \A i \in 1..(Len(t) - 1) : t[i + 1] \in IncludedBy(files, t[i])
  <2> SUFFICES ASSUME NEW i \in 1..(Len(t) - 1)
               PROVE  t[i + 1] \in IncludedBy(files, t[i])
    OBVIOUS
  <2>1. i \in 1..(n - 1) /\ i + 1 \in 1..(n - 1)
    BY <1>3, <1>4
  <2>2. QED
    BY <1>2, <1>4, <2>1
<1>7. QED
  BY <1>1, <1>4, <1>5, <1>6 DEF Chain

LEMMA SealedAbove ==
  ASSUME NEW path, Readable(path), \A q \in IncludedBy(Files, path) : Sealed(q)
  PROVE  Sealed(path)
<1> SUFFICES ASSUME NEW w, Chain(Files, path, w), NEW i \in 1..Len(w)
             PROVE  Readable(w[i])
  BY DEF Sealed
<1>1. PICK n : n = Len(w)
  OBVIOUS
<1>2. IsList(w) /\ n \in Nat /\ w[1] = path
  BY <1>1, Sequences DEF Chain
<1>3. CASE i = 1
  BY <1>2, <1>3
<1>4. CASE i # 1
  <2>1. n > 1 /\ 1 \in 1..(n - 1) /\ 1 + 1 = 2 /\ i - 1 \in 1..(n - 1) /\ (i - 1) + 1 = i
    BY <1>1, <1>2, <1>4
  <2>2. w[2] \in IncludedBy(Files, path)
    BY <1>1, <1>2, <2>1 DEF Chain
  <2>3. Chain(Files, w[2], Tail(w))
    BY <1>1, <2>1, ChainTail
  <2>4. Len(Tail(w)) = n - 1 /\ \A k \in 1..(n - 1) : Tail(w)[k] = w[k + 1]
    <3>1. w # <<>>
      BY DEF Chain
    <3>2. QED
      BY <1>1, <1>2, <3>1, ListTail
  <2>5. Readable(Tail(w)[i - 1])
    BY <2>1, <2>2, <2>3, <2>4 DEF Sealed
  <2>6. QED
    BY <2>1, <2>4, <2>5
<1>5. QED
  BY <1>3, <1>4


(* As long as no error is reported, what is loaded is as it must be, and so*)
(* is all below a file that does not wait.                                 *)
SoundInv ==
  Errors = {} =>
    /\ \A d \in 1..Len(frames) : Readable(frames[d].path)
    /\ \A d \in 0..Len(frames) : \A path \in Nexts(d) :
         \/ path \in Waiting(d)
         \/ d < Len(frames) /\ path = frames[d + 1].path
         \/ Sealed(path)

LEMMA SameFindings ==
  ASSUME input' = input
  PROVE  /\ Files' = Files
         /\ \A path : Readable(path)' <=> Readable(path)
         /\ \A path : Sealed(path)' <=> Sealed(path)
<1>1. Files' = Files
  BY SameFiles
<1>2. \A path : Readable(path)' <=> Readable(path)
  <2>1. \A path : Layers(path)' = Layers(path)
    BY DEF Layers, EnvFileLines, DotenvLines
  <2>2. QED
    BY <2>1 DEF Readable
<1>3. \A path : Sealed(path)' <=> Sealed(path)
  BY <1>1, <1>2 DEF Sealed
<1>4. QED
  BY <1>1, <1>2, <1>3

(* Steps that leave the files that are being loaded as they are.           *)
LEMMA SoundStays ==
  ASSUME SoundInv, input' = input, frames' = frames, todo' = todo, report \subseteq report'
  PROVE  SoundInv'
<1>1. Files' = Files /\ (\A path : Readable(path)' <=> Readable(path)) /\ (\A path : Sealed(path)' <=> Sealed(path))
  BY SameFindings
<1>2. Errors' = {} => Errors = {}
  BY DEF Errors
<1>3. \A d : Nexts(d)' = Nexts(d) /\ Waiting(d)' = Waiting(d)
  BY <1>1 DEF Nexts, Waiting
<1>4. QED
  BY <1>1, <1>2, <1>3 DEF SoundInv

LEMMA SoundLoads ==
  ASSUME PathInv, SoundInv, LoadFile
  PROVE  SoundInv'
<1>0. PICK n, path : n = Len(frames) /\ path = Next_path
  OBVIOUS
<1> DEFINE file == Files[path]
           new == [path |-> path, key |-> Canonical(path), left |-> file.includes, project |-> file]
           fs == IF file = <<>> THEN <<>> ELSE <<new>>
<1>1. /\ Pending /\ path \in DOMAIN input.files
      /\ report' = report \cup DotenvProblems(DotenvLines(Parent(path)))
                          \cup ParseProblems(input.files[path], Layers(path))
      /\ input' = input
  BY <1>0 DEF LoadFile
<1>2. file = ParsedFile(input.files[path], Layers(path))
  BY <1>1 DEF Files, ParsedFiles
<1>3. Begun(fs, <<parsed, merged>>)
  BY <1>0, <1>2 DEF LoadFile
<1>4. Files' = Files /\ (\A q : Readable(q)' <=> Readable(q)) /\ (\A q : Sealed(q)' <=> Sealed(q))
  BY <1>1, SameFindings
<1>5. Len(fs) = (IF file = <<>> THEN 0 ELSE 1) /\ fs \in {<<>>, <<new>>} /\ (file = <<>> <=> fs = <<>>)
  BY Zenon
<1> HIDE DEF fs, new, file
<1>6. /\ Len(frames') = n + Len(fs) /\ n \in Nat
      /\ \A d \in 1..n : frames'[d].path = frames[d].path
      /\ fs # <<>> => frames'[n + 1] = new
      /\ \A d \in 0..n : /\ Nexts(d)' = Nexts(d)
                         /\ Waiting(d) \subseteq Waiting(d)' \cup (IF d = n THEN {path} ELSE {})
  BY <1>0, <1>1, <1>3, <1>5, Begins DEF PathInv
<1>7. file # <<>> => /\ Len(frames') = n + 1 /\ frames'[n + 1] = new
                       /\ new.path = path /\ new.left = file.includes
  BY <1>5, <1>6 DEF new
<1> SUFFICES ASSUME Errors' = {}
             PROVE  /\ \A d \in 1..Len(frames') : Readable(frames[d].path)'
                    /\ \A d \in 0..Len(frames') : \A q \in Nexts(d)' :
                         \/ q \in Waiting(d)'
                         \/ d < Len(frames') /\ q = frames'[d + 1].path
                         \/ Sealed(q)'
  BY DEF SoundInv
<1>8. Errors = {} /\ \A d \in ParseProblems(input.files[path], Layers(path)) : d[1] \in Mild
  BY <1>1 DEF Errors
<1>9. Readable(path)
  BY <1>1, <1>8, ReadableOrReported DEF PathInv
<1>10. \A d \in 1..Len(frames') : d \in 1..n \/ (d = n + 1 /\ file # <<>>)
  BY <1>5, <1>6
<1>11. \A d \in 1..Len(frames') : Readable(frames[d].path)'
  <2> SUFFICES ASSUME NEW d \in 1..Len(frames')
               PROVE  Readable(frames[d].path)'
    OBVIOUS
  <2>1. PICK q : q = frames'[d].path
    OBVIOUS
  <2>2. Readable(q)
    BY <1>0, <1>6, <1>7, <1>8, <1>9, <1>10, <2>1 DEF SoundInv
  <2>3. Readable(q)'
    BY <1>4, <2>2
  <2>4. QED
    BY <2>1, <2>3 DEF Readable
<1>12. ASSUME NEW d \in 0..Len(frames'), NEW q \in Nexts(d)'
       PROVE  \/ q \in Waiting(d)'
              \/ d < Len(frames') /\ q = frames'[d + 1].path
              \/ Sealed(q)'
  <2>1. CASE d \in 0..n
    <3>1. q \in Nexts(d) /\ d \in Nat
      BY <1>6, <1>12, <2>1
    <3>2. \/ q \in Waiting(d)
          \/ d < n /\ q = frames[d + 1].path
          \/ Sealed(q)
      BY <1>0, <1>8, <2>1, <3>1 DEF SoundInv
    <3>3. CASE d < n /\ q = frames[d + 1].path
      <4>1. d + 1 \in 1..n /\ d < Len(frames')
        BY <1>5, <1>6, <2>1, <3>3
      <4>2. QED
        BY <1>6, <3>3, <4>1
    <3>4. CASE d = n /\ q = path /\ file # <<>>
      BY <1>6, <1>7, <3>4
    <3>5. CASE d = n /\ q = path /\ file = <<>>
      <4>1. FileAt(Files, path) = <<>>
        BY <3>5 DEF FileAt, file
      <4>2. IncludedBy(Files, path) = {}
        BY <4>1 DEF IncludedBy
      <4>3. Sealed(path)
        BY <1>9, <4>2, SealedAbove
      <4>4. QED
        BY <1>4, <3>5, <4>3
    <3>6. QED
      BY <1>4, <1>6, <2>1, <3>2, <3>3, <3>4, <3>5
  <2>2. CASE d \notin 0..n
    <3>1. d = n + 1 /\ file # <<>>
      BY <1>5, <1>6, <1>12, <2>2
    <3>2. d # 0 /\ frames'[d].path = path /\ frames'[d].left = file.includes
      BY <1>6, <1>7, <3>1
    <3>3. q \in IncludedBy(Files, path)
      BY <1>4, <1>12, <3>2 DEF Nexts
    <3>4. FileAt(Files, path) = file
      BY <1>1 DEF FileAt, Files, ParsedFiles, file
    <3>5. q \in {resolve_related_path(path, t) : t \in Range(file.includes)}
      BY <3>1, <3>3, <3>4 DEF IncludedBy, file
    <3>6. QED
      BY <3>2, <3>5 DEF Waiting
  <2>3. QED
    BY <2>1, <2>2
<1>13. QED
  BY <1>11, <1>12

LEMMA SoundLeaves ==
  ASSUME PathInv, SoundInv, LeaveFile
  PROVE  SoundInv'
<1>0. PICK n : n = Len(frames)
  OBVIOUS
<1>1. /\ frames # <<>> /\ frames[n].left = <<>> /\ frames' = SubSeq(frames, 1, n - 1)
      /\ input' = input /\ todo' = todo /\ report' = report
  BY <1>0 DEF LeaveFile
<1>2. IsList(frames) /\ n \in Nat \ {0} /\ n - 1 \in 0..n /\ n - 1 < n
  BY <1>0, <1>1, Sequences DEF PathInv, StackInv
<1>3. Len(frames') = n - 1 /\ \A i \in 1..(n - 1) : frames'[i] = frames[i]
  BY <1>0, <1>1, <1>2, PrefixList
<1>4. Files' = Files /\ (\A q : Readable(q)' <=> Readable(q)) /\ (\A q : Sealed(q)' <=> Sealed(q))
  BY <1>1, SameFindings
<1> SUFFICES ASSUME Errors' = {}
             PROVE  /\ \A d \in 1..Len(frames') : Readable(frames[d].path)'
                    /\ \A d \in 0..Len(frames') : \A q \in Nexts(d)' :
                         \/ q \in Waiting(d)'
                         \/ d < Len(frames') /\ q = frames'[d + 1].path
                         \/ Sealed(q)'
  BY DEF SoundInv
<1>5. Errors = {}
  BY <1>1 DEF Errors
<1>6. \A d \in 1..Len(frames') : Readable(frames[d].path)'
  <2> SUFFICES ASSUME NEW d \in 1..Len(frames')
               PROVE  Readable(frames[d].path)'
    OBVIOUS
  <2>1. PICK q : q = frames'[d].path
    OBVIOUS
  <2>2. d \in 1..(n - 1) /\ d \in 1..n
    BY <1>2, <1>3
  <2>3. Readable(q)
    BY <1>0, <1>3, <1>5, <2>1, <2>2 DEF SoundInv
  <2>4. Readable(q)'
    BY <1>4, <2>3
  <2>5. QED
    BY <2>1, <2>4 DEF Readable
<1>7. Sealed(frames[n].path)
  <2>1. Readable(frames[n].path)
    BY <1>0, <1>2, <1>5 DEF SoundInv
  <2>2. n \in 0..n /\ ~(n < n) /\ n # 0
    BY <1>2
  <2>3. Waiting(n) = {} /\ Nexts(n) = IncludedBy(Files, frames[n].path)
    BY <1>1, <2>2 DEF Waiting, Nexts, Range
  <2>4. \A q \in IncludedBy(Files, frames[n].path) : Sealed(q)
    BY <1>0, <1>5, <2>2, <2>3 DEF SoundInv
  <2>5. QED
    BY <2>1, <2>4, SealedAbove
<1>8. ASSUME NEW d \in 0..(n - 1), NEW q \in Nexts(d)'
      PROVE  \/ q \in Waiting(d)'
             \/ d < n - 1 /\ q = frames'[d + 1].path
             \/ Sealed(q)'
  <2>1. Nexts(d)' = Nexts(d) /\ Waiting(d)' = Waiting(d)
    <3>1. d = 0 \/ d \in 1..(n - 1)
      BY <1>2
    <3>2. QED
      BY <1>1, <1>3, <1>4, <3>1 DEF Nexts, Waiting
  <2>2. d \in 0..n
    BY <1>2
  <2>3. \/ q \in Waiting(d)
        \/ d < n /\ q = frames[d + 1].path
        \/ Sealed(q)
    BY <1>0, <1>5, <1>8, <2>1, <2>2 DEF SoundInv
  <2>4. CASE d < n - 1 /\ q = frames[d + 1].path
    <3>1. d + 1 \in 1..(n - 1)
      BY <1>2, <2>4
    <3>2. QED
      BY <1>3, <2>4, <3>1
  <2>5. CASE d = n - 1 /\ q = frames[d + 1].path
    <3>1. d + 1 = n
      BY <1>2, <2>5
    <3>2. QED
      BY <1>4, <1>7, <2>5, <3>1
  <2>6. d = n - 1 \/ d < n - 1
    BY <1>2
  <2>7. QED
    BY <1>4, <2>1, <2>3, <2>4, <2>5, <2>6
<1>9. QED
  BY <1>3, <1>6, <1>8

LEMMA SoundInitial == Init => SoundInv
<1> SUFFICES ASSUME Init
             PROVE  SoundInv
  OBVIOUS
<1>1. frames = <<>> /\ Len(<<>>) = 0 /\ todo = input.roots
  BY DEF Init
<1>2. Nexts(0) = Waiting(0)
  BY <1>1 DEF Nexts, Waiting
<1>3. (\A d \in 0..Len(frames) : d = 0) /\ 1..Len(frames) = {}
  BY <1>1
<1>4. QED
  BY <1>2, <1>3 DEF SoundInv

LEMMA SoundStep ==
  ASSUME PathInv, SoundInv, [Next]_vars
  PROVE  SoundInv'
<1>1. CASE Refuse
  <2>1. Refusal(Len(frames), Next_path) # "none" /\ report' = report \cup {<<Refusal(Len(frames), Next_path)>>}
    BY <1>1 DEF Refuse
  <2>2. PICK code : code = Refusal(Len(frames), Next_path)
    OBVIOUS
  <2>3. code \in {"SUS-INC-001", "SUS-INC-002", "SUS-INC-003"}
    BY <2>1, <2>2 DEF Refusal
  <2>4. <<code>>[1] = code /\ code \notin Mild
    BY <2>3 DEF Mild
  <2>5. Errors' # {}
    BY <2>1, <2>2, <2>4 DEF Errors
  <2>6. QED
    BY <2>5 DEF SoundInv
<1>2. CASE LoadFile
  BY <1>2, SoundLoads
<1>3. CASE LeaveFile
  BY <1>3, SoundLeaves
<1>4. CASE Begin
  <2>1. input' = input /\ frames' = frames /\ todo' = todo /\ pc = "begin"
    BY <1>4 DEF Begin, loadVars
  <2>2. report \subseteq report'
    BY <2>1 DEF PathInv, PhaseInv
  <2>3. QED
    BY <2>1, <2>2, SoundStays
<1>5. CASE LoadFails \/ Merge \/ Loaded
  <2>1. input' = input /\ frames' = frames /\ todo' = todo /\ report' = report
    BY <1>5 DEF LoadFails, Merge, Loaded, loadVars
  <2>2. QED
    BY <2>1, SoundStays
<1>6. CASE ResolveExtends \/ Normalize
  <2>1. input' = input /\ frames' = frames /\ todo' = todo /\ report \subseteq report'
    <3>1. CASE ResolveExtends
      BY <3>1 DEF ResolveExtends, loadVars
    <3>2. CASE Normalize
      BY <3>2 DEF Normalize, loadVars
    <3>3. QED
      BY <1>6, <3>1, <3>2
  <2>2. QED
    BY <2>1, SoundStays
<1>7. CASE PlaceService \/ Conclude \/ Returned \/ UNCHANGED vars
  <2>1. input' = input /\ frames' = frames /\ todo' = todo /\ report \subseteq report'
    BY <1>7 DEF PlaceService, Conclude, Returned, vars, loadVars
  <2>2. QED
    BY <2>1, SoundStays
<1>8. QED
  BY <1>1, <1>2, <1>3, <1>4, <1>5, <1>6, <1>7 DEF Next, Analyze, Load

(* Where no error is reported and all is loaded, nothing is missing.       *)
LEMMA NothingIsMissing ==
  ASSUME PathInv, SoundInv, Errors = {}, pc \in {"extends", "graph", "done"}, NEW i \in DOMAIN input.roots
  PROVE  NothingMissing(input.roots[i])
<1>1. frames = <<>> /\ todo = <<>> /\ Len(<<>>) = 0
  BY DEF PathInv, PhaseInv
<1>2. Waiting(0) = {} /\ Nexts(0) = Range(input.roots)
  BY <1>1 DEF Waiting, Nexts, Range
<1>3. 0 \in 0..Len(frames) /\ ~(0 < Len(frames))
  BY <1>1
<1>4. Sealed(input.roots[i])
  BY <1>2, <1>3 DEF SoundInv, Range
<1> SUFFICES ASSUME NEW path \in Below(ParsedFiles, input.roots[i])
             PROVE  Readable(path)
  BY DEF NothingMissing
<1>5. PICK w \in Ways(Files, input.roots[i]) : path \in Range(w)
  BY DEF Below, Files
<1>6. Chain(Files, input.roots[i], w)
  BY WaysAreChains
<1>7. PICK k \in 1..Len(w) : path = w[k]
  BY <1>5, <1>6, Sequences DEF Chain
<1>8. QED
  BY <1>4, <1>6, <1>7 DEF Sealed


-----------------------------------------------------------------------------
\* The project and the order of its services.

(* The canonical project, and the numbers of services.                     *)
Canon ==
  normalize([merged EXCEPT !.services = services], resolve_project_name(merged.name), Parent(Head(input.roots)))
Number(p, n) == CHOOSE i \in DOMAIN p.order : p.order[i] = n
Numbers(p, S) == {Number(p, n) : n \in S}
Selected == Range(select_services(Canon, input.profiles))
Dependencies(p, i) == DOMAIN p.services[p.order[i]].depends_on \cap DOMAIN p.services

(* What the graph is made of, once it is.                                  *)
GraphMade ==
  /\ pc \in {"graph", "done"} /\ merged # <<>>
  /\ project = Canon
  /\ active = Numbers(Canon, Selected)
  /\ needs = [i \in Actions |-> IF i \in DOMAIN Canon.order THEN Numbers(Canon, Dependencies(Canon, i)) ELSE {}]
  /\ validate(Canon, Selected, input.hostFiles) \subseteq report

GraphMadeInv ==
  /\ GraphInv
  /\ pc = "extends" => merged # <<>>
  /\ pc = "graph" => stage = "Sort"
  /\ stage = "Idle" => project = <<>>
  /\ stage # "Idle" => GraphMade
  /\ stage = "Sort" => pc = "graph"
  /\ stage = "Cycle" => <<"SUS-GRAPH-001">> \in report

LEMMA Canonized ==
  ASSUME MergedInv, merged # <<>>, DOMAIN services = DOMAIN merged.services
  PROVE  /\ Canon.order = merged.order /\ DOMAIN Canon.services = DOMAIN merged.services
         /\ Listed(Canon.order, DOMAIN Canon.services)
         /\ \E a, b, c, d : Canon = [name |-> a, order |-> b, services |-> c, resources |-> d]
<1>1. PICK a, b, c, d : merged = [name |-> a, order |-> b, services |-> c, resources |-> d]
  BY DEF MergedInv, IsProject
<1>2. PICK m : m = [merged EXCEPT !.services = services]
  OBVIOUS
<1>3. m.order = merged.order /\ m.services = services
  BY <1>1, <1>2
<1>4. PICK p, name, dir : p = Canon /\ name = resolve_project_name(merged.name) /\ dir = Parent(Head(input.roots))
  OBVIOUS
<1>5. p = normalize(m, name, dir)
  BY <1>2, <1>4 DEF Canon
<1>6. p.order = m.order /\ DOMAIN p.services = DOMAIN m.services
  BY <1>5 DEF normalize
<1>7. \E x, y, z, u : p = [name |-> x, order |-> y, services |-> z, resources |-> u]
  BY <1>5, Zenon DEF normalize
<1>8. Listed(merged.order, DOMAIN merged.services)
  BY DEF MergedInv, IsProject
<1>9. QED
  BY <1>3, <1>4, <1>6, <1>7, <1>8

(* There is a number for each service.                                     *)
LEMMA EnoughNumbers ==
  ASSUME input \in Inputs, MergedInv, merged # <<>>
  PROVE  1..Len(merged.order) \subseteq Actions
<1>1. PICK n, S : n = Len(merged.order) /\ S = DOMAIN merged.services
  OBVIOUS
<1>2. Listed(merged.order, S) /\ S \subseteq ServiceNames
  BY <1>1 DEF MergedInv, IsProject
<1>3. n \in Nat /\ Cardinality(S) = n /\ IsFiniteSet(S)
  BY <1>1, <1>2, ListedCounts
<1>4. PICK K : K = ServiceKeys(input)
  OBVIOUS
<1>5. IsFiniteSet(K) /\ Cardinality(K) <= NumActions
  BY <1>4, InputsAssumption
<1> DEFINE f == [k \in K |-> <<k>>]
<1>6. ServiceNames = {<<k>> : k \in K}
  BY <1>4 DEF ServiceNames
<1>7. f \in Surjection(K, ServiceNames)
  BY <1>6 DEF Surjection
<1>8. IsFiniteSet(ServiceNames) /\ Cardinality(ServiceNames) <= Cardinality(K)
  BY <1>5, <1>7, FS_Surjection
<1>9. n <= Cardinality(ServiceNames)
  BY <1>2, <1>3, <1>8, FS_Subset
<1>10. Cardinality(ServiceNames) \in Nat /\ Cardinality(K) \in Nat
  BY <1>5, <1>8, FS_CardinalityType
<1>11. n <= NumActions
  <2>1. PICK a, b : a = Cardinality(ServiceNames) /\ b = Cardinality(K)
    OBVIOUS
  <2>2. a \in Nat /\ b \in Nat /\ n <= a /\ a <= b /\ b <= NumActions
    BY <1>5, <1>8, <1>9, <1>10, <2>1
  <2>3. QED
    BY <1>3, <2>2, NumActionsAssumption
<1>12. QED
  BY <1>1, <1>3, <1>11, NumActionsAssumption DEF Actions

(* Numbers are positions, and different for different services.            *)
LEMMA NumbersArePositions ==
  ASSUME NEW p, NEW S, Listed(p.order, S), NEW n \in S
  PROVE  Number(p, n) \in DOMAIN p.order /\ p.order[Number(p, n)] = n
<1>1. \E i \in DOMAIN p.order : p.order[i] = n
  BY DEF Listed, Range
<1>2. QED
  BY <1>1 DEF Number

LEMMA SelectedFromOrder ==
  ASSUME NEW p, NEW S, Listed(p.order, S), NEW profiles
  PROVE  Range(select_services(p, profiles)) \subseteq S
<1>1. PICK o, P : o = p.order /\ select_services(p, profiles) = ItemsAt(o, P)
  BY DEF select_services
<1>2. o \in Seq(S) /\ DOMAIN o = 1..Len(o) /\ Range(o) = S
  BY <1>1, Sequences DEF Listed
<1>3. Range(ItemsAt(o, P)) = {o[i] : i \in P \cap 1..Len(o)}
  BY <1>2, ItemsAtItems
<1>4. \A i \in 1..Len(o) : o[i] \in S
  BY <1>2 DEF Range
<1>5. Range(select_services(p, profiles)) = {o[i] : i \in P \cap 1..Len(o)}
  BY <1>1, <1>3
<1>6. QED
  BY <1>4, <1>5


LEMMA GraphIsMade ==
  ASSUME PathInv, MergedInv, ExtendsInv, GraphMadeInv, Normalize
  PROVE  GraphMadeInv'
<1>1. /\ pc = "extends" /\ names = <<>> /\ pc' = "graph" /\ merged' = merged /\ services' = services /\ input' = input
      /\ input \in Inputs
  BY DEF Normalize, loadVars, extendsVars, PathInv, StackInv
<1>2. PICK p : p = project'
  OBVIOUS
<1>3. p = Canon /\ Canon' = Canon
  <2>1. project' = Canon
    BY DEF Normalize, Canon
  <2>2. Canon' = Canon
    BY <1>1 DEF Canon, resolve_project_name
  <2>3. QED
    BY <1>2, <2>1, <2>2
<1>4. \E chosen : /\ chosen = Range(select_services(project', input.profiles))
                  /\ report' = report \cup validate(project', chosen, input.hostFiles)
                  /\ BuildEdges(Numbers(project', chosen),
                                [i \in Actions |-> IF i \in DOMAIN project'.order
                                                   THEN Numbers(project', Dependencies(project', i)) ELSE {}])
  BY Zenon DEF Normalize, Numbers, Number, Dependencies
<1>5. PICK S, dep : /\ S = Numbers(p, Selected) /\ S = active'
                   /\ dep = [i \in Actions |-> IF i \in DOMAIN p.order THEN Numbers(p, Dependencies(p, i)) ELSE {}]
                   /\ BuildEdges(S, dep)
                   /\ report' = report \cup validate(p, Selected, input.hostFiles)
  <2>1. PICK chosen : /\ chosen = Range(select_services(p, input.profiles))
                     /\ report' = report \cup validate(p, chosen, input.hostFiles)
                     /\ BuildEdges(Numbers(p, chosen),
                                   [i \in Actions |-> IF i \in DOMAIN p.order
                                                      THEN Numbers(p, Dependencies(p, i)) ELSE {}])
    BY <1>2, <1>4, Zenon
  <2>2. chosen = Selected
    BY <1>3, <2>1 DEF Selected
  <2>3. Numbers(p, chosen) = active'
    BY <2>1 DEF BuildEdges
  <2>4. QED
    BY <2>1, <2>2, <2>3
<1>6. PICK all : all = DOMAIN p.services
  OBVIOUS
<1>7. /\ merged # <<>> /\ Listed(p.order, all) /\ p.order = merged.order
  <2>1. merged # <<>> /\ Untouched
    BY <1>1 DEF GraphMadeInv, ExtendsInv, Resolving
  <2>2. DOMAIN services = DOMAIN merged.services
    BY <2>1 DEF Untouched
  <2>3. QED
    BY <1>3, <1>6, <2>1, <2>2, Canonized
<1>8. DOMAIN p.order = 1..Len(p.order) /\ DOMAIN p.order \subseteq Actions
  <2>1. DOMAIN p.order = 1..Len(p.order)
    BY <1>7, Sequences DEF Listed
  <2>2. 1..Len(merged.order) \subseteq Actions
    BY <1>1, <1>7, EnoughNumbers
  <2>3. QED
    BY <1>7, <2>1, <2>2
<1>9. ASSUME NEW T \in SUBSET all
      PROVE  Numbers(p, T) \in SUBSET Actions
  BY <1>7, <1>8, <1>9, NumbersArePositions DEF Numbers
<1>10. S \in SUBSET Actions
  <2>1. Selected \subseteq all
    BY <1>3, <1>7, SelectedFromOrder DEF Selected
  <2>2. QED
    BY <1>5, <1>9, <2>1
<1>11. dep \in [Actions -> SUBSET Actions]
  <2>1. \A i : Dependencies(p, i) \in SUBSET all
    BY <1>6 DEF Dependencies
  <2>2. \A i \in Actions : dep[i] \in SUBSET Actions
    BY <1>5, <1>9, <2>1
  <2>3. QED
    BY <1>5, <2>2
<1>12. GraphInv'
  BY <1>5, <1>10, <1>11, BuildKeeps DEF GraphMadeInv
<1>13. stage' = "Sort" /\ needs' = dep
  BY <1>5 DEF BuildEdges
<1>14. Selected' = Selected
  BY <1>1, <1>3 DEF Selected
<1>15. GraphMade'
  <2>1. validate(p, Selected, input.hostFiles) \subseteq report'
    BY <1>5
  <2>2. validate(Canon, Selected, input.hostFiles)' = validate(p, Selected, input.hostFiles)
    BY <1>1, <1>3, <1>14
  <2>3. active' = Numbers(Canon, Selected)'
    BY <1>3, <1>5, <1>14
  <2>4. needs' = [i \in Actions |-> IF i \in DOMAIN Canon'.order THEN Numbers(Canon', Dependencies(Canon', i)) ELSE {}]
    BY <1>3, <1>5, <1>13
  <2>5. project' = Canon'
    BY <1>2, <1>3
  <2>6. QED
    BY <1>1, <1>7, <2>1, <2>2, <2>3, <2>4, <2>5 DEF GraphMade
<1>16. QED
  BY <1>1, <1>7, <1>12, <1>13, <1>15 DEF GraphMadeInv

(* Steps that leave the graph as it is.                                    *)
LEMMA GraphStays ==
  ASSUME GraphMadeInv, UNCHANGED graphVars, project' = project, report \subseteq report', input' = input,
         pc' = "extends" => merged' # <<>>,
         pc' = "graph" <=> pc = "graph",
         stage # "Idle" => pc' \in {"graph", "done"} /\ merged' = merged /\ services' = services
  PROVE  GraphMadeInv'
<1>1. stage' = stage /\ active' = active /\ needs' = needs
  BY DEF graphVars
<1>2. GraphInv'
  BY GraphUnchanged DEF GraphMadeInv
<1>3. ASSUME stage # "Idle"
      PROVE  GraphMade'
  <2>1. Canon' = Canon
    BY <1>3 DEF Canon, resolve_project_name
  <2>2. Selected' = Selected
    BY <2>1 DEF Selected
  <2>3. GraphMade
    BY <1>3 DEF GraphMadeInv
  <2>4. QED
    BY <1>1, <1>3, <2>1, <2>2, <2>3 DEF GraphMade
<1>4. QED
  BY <1>1, <1>2, <1>3 DEF GraphMadeInv

LEMMA GraphMadeStep ==
  ASSUME PathInv, MergedInv, ExtendsInv, GraphMadeInv, [Next]_vars
  PROVE  GraphMadeInv'
<1>1. CASE Normalize
  BY <1>1, GraphIsMade
<1>2. CASE PlaceService \/ Conclude
  <2>1. /\ pc = "graph" /\ pc' \in {"graph", "done"} /\ report \subseteq report' /\ input' = input
        /\ project' = project /\ merged' = merged /\ services' = services /\ active' = active /\ needs' = needs
        /\ (Place /\ pc' = pc) \/ (Settle /\ pc' = "done")
        /\ stage' = "Cycle" /\ stage # "Cycle" => <<"SUS-GRAPH-001">> \in report'
    BY <1>2 DEF PlaceService, Conclude, loadVars, extendsVars, Place, Settle
  <2>2. stage = "Sort" /\ (stage' = "Sort" => pc' = "graph") /\ stage' # "Idle"
        /\ (pc' = "graph" => stage' = "Sort")
    BY <2>1 DEF Place, Settle
  <2>3. GraphInv'
    BY <2>1, PlaceKeeps, SettleKeeps DEF GraphMadeInv
  <2>4. Canon' = Canon
    BY <2>1 DEF Canon, resolve_project_name
  <2>5. Selected' = Selected
    BY <2>1, <2>4 DEF Selected
  <2>6. GraphMade
    BY <2>2 DEF GraphMadeInv
  <2>7. GraphMade'
    BY <2>1, <2>4, <2>5, <2>6 DEF GraphMade
  <2>8. QED
    BY <2>1, <2>2, <2>3, <2>7 DEF GraphMadeInv
<1>3. CASE Begin \/ Load \/ ResolveExtends
  <2>1. /\ UNCHANGED graphVars /\ project' = project /\ input' = input /\ pc' # "graph" /\ pc # "graph"
        /\ pc \in {"begin", "load", "extends"}
    BY <1>3 DEF Begin, Load, Refuse, LoadFails, LoadFile, LeaveFile, Merge, Loaded, ResolveExtends
  <2>2. pc' = "extends" => merged' # <<>>
    BY <1>3 DEF GraphMadeInv, Begin, Load, Refuse, LoadFails, LoadFile, LeaveFile, Merge, Loaded, ResolveExtends, loadVars,
                extendsVars
  <2>3. report \subseteq report'
    BY <1>3 DEF PathInv, PhaseInv, Begin, Load, Refuse, LoadFails, LoadFile, LeaveFile, Merge, Loaded, ResolveExtends
  <2>4. stage = "Idle"
    BY <2>1 DEF GraphMadeInv, GraphMade
  <2>5. QED
    BY <2>1, <2>2, <2>3, <2>4, GraphStays
<1>4. CASE Returned \/ UNCHANGED vars
  <2>1. /\ UNCHANGED graphVars /\ project' = project /\ input' = input /\ pc' = pc /\ report' = report
        /\ merged' = merged /\ services' = services
    BY <1>4 DEF Returned, vars, loadVars, extendsVars
  <2>2. QED
    BY <2>1, GraphStays DEF GraphMadeInv, GraphMade
<1>5. QED
  BY <1>1, <1>2, <1>3, <1>4 DEF Next, Analyze

GraphAll == ExtendsAll /\ SoundInv /\ GraphMadeInv

LEMMA GraphAlways == Spec => []GraphAll
<1>1. Init => GraphMadeInv
  BY GraphInitial DEF Init, GraphInit, GraphMadeInv
<1>2. Init => GraphAll
  BY <1>1, PathInitial, RootsInitial, SoundInitial
    DEF GraphAll, ExtendsAll, RootsAll, Init, MergedInv, ExtendsInv, Resolving
<1>3. GraphAll /\ [Next]_vars => GraphAll'
  BY RootsStep, MergedKeeps, ExtendsStep, SoundStep, GraphMadeStep DEF GraphAll, ExtendsAll, RootsAll
<1>4. QED
  BY <1>2, <1>3, PTL DEF Spec


-----------------------------------------------------------------------------
\* What a report without errors says of the project.

(* Of a project that validation finds nothing in, configs and secrets kept *)
(* in a file are not external and the file is there.                       *)
LEMMA DefinitionsMean ==
  ASSUME NEW p, NEW S, NEW hostFiles, \A d \in validate(p, S, hostFiles) : d[1] \in Mild,
         NEW r \in {"configs", "secrets"}, NEW name \in DOMAIN p.resources[r], p.resources[r][name].file # Absent
  PROVE  p.resources[r][name].file \in hostFiles /\ ~p.resources[r][name].external
<1> DEFINE wrong == {m \in DOMAIN p.resources[r] :
                       /\ p.resources[r][m].file # Absent
                       /\ p.resources[r][m].external \/ p.resources[r][m].file \notin hostFiles}
<1> SUFFICES ASSUME name \in wrong
             PROVE  FALSE
  OBVIOUS
<1>1. {<<"SUS-SEM-007", m>> : m \in wrong} \subseteq validate_config_secret_definitions(p, hostFiles)
  BY DEF validate_config_secret_definitions
<1> HIDE DEF wrong
<1>2. <<"SUS-SEM-007", name>> \in validate(p, S, hostFiles)
  BY <1>1 DEF validate
<1>3. <<"SUS-SEM-007", name>>[1] = "SUS-SEM-007" /\ "SUS-SEM-007" \notin Mild
  BY DEF Mild
<1>4. QED
  BY <1>2, <1>3

(* A selected service of a project that validation finds nothing in names  *)
(* what is there.                                                          *)
LEMMA ValidMeans ==
  ASSUME NEW p, NEW S, NEW hostFiles, \A d \in validate(p, S, hostFiles) : d[1] \in Mild, NEW n \in S
  PROVE  /\ \A d \in DOMAIN p.services[n].depends_on :
              /\ d \in DOMAIN p.services
              /\ p.services[n].depends_on[d].condition = "service_healthy" => p.services[d].healthcheck # Absent
         /\ \A v \in Range(p.services[n].volumes) :
              v.kind = "volume" /\ v.source # Absent => v.source \in DOMAIN p.resources["volumes"]
         /\ DOMAIN p.services[n].networks \subseteq DOMAIN p.resources["networks"]
         /\ \A c \in Range(p.services[n].configs) : c.source \in DOMAIN p.resources["configs"]
         /\ \A c \in Range(p.services[n].secrets) : c.source \in DOMAIN p.resources["secrets"]
<1>1. /\ \A x \in validate_references(p, S) : x[1] \in Mild
      /\ \A x \in validate_health_dependencies(p, S) : x[1] \in Mild
  BY DEF validate
<1>2. /\ "SUS-SEM-001" \notin Mild /\ "SUS-SEM-003" \notin Mild /\ "SUS-SEM-004" \notin Mild
      /\ "SUS-SEM-005" \notin Mild /\ "SUS-SEM-006" \notin Mild
  BY DEF Mild
<1>3. \A x, y : /\ <<"SUS-SEM-001", x, y>>[1] = "SUS-SEM-001" /\ <<"SUS-SEM-003", x, y>>[1] = "SUS-SEM-003"
                /\ <<"SUS-SEM-004", x, y>>[1] = "SUS-SEM-004" /\ <<"SUS-SEM-005", x, y>>[1] = "SUS-SEM-005"
                /\ <<"SUS-SEM-006", x, y>>[1] = "SUS-SEM-006"
  OBVIOUS
<1>4. ASSUME NEW d \in DOMAIN p.services[n].depends_on
      PROVE  d \in DOMAIN p.services
  <2>1. d \notin DOMAIN p.services => <<"SUS-SEM-001", n, d>> \in validate_references(p, S)
    <3>1. {<<"SUS-SEM-001", n, x>> : x \in DOMAIN p.services[n].depends_on \ DOMAIN p.services} \subseteq validate_references(p, S)
      BY DEF validate_references
    <3>2. QED
      BY <1>4, <3>1
  <2>2. QED
    BY <1>1, <1>2, <1>3, <2>1
<1>5. ASSUME NEW d \in DOMAIN p.services[n].depends_on, p.services[n].depends_on[d].condition = "service_healthy"
      PROVE  p.services[d].healthcheck # Absent
  <2>1. d \in DOMAIN p.services
    BY <1>4, <1>5
  <2>2. p.services[d].healthcheck = Absent => <<"SUS-SEM-006", n, d>> \in validate_health_dependencies(p, S)
    <3> DEFINE unchecked == {x \in DOMAIN p.services[n].depends_on \cap DOMAIN p.services :
                              /\ p.services[n].depends_on[x].condition = "service_healthy"
                              /\ p.services[x].healthcheck = Absent}
    <3>1. {<<"SUS-SEM-006", n, x>> : x \in unchecked} \subseteq validate_health_dependencies(p, S)
      BY DEF validate_health_dependencies
    <3>2. p.services[d].healthcheck = Absent => d \in unchecked
      BY <1>5, <2>1
    <3> HIDE DEF unchecked
    <3>3. QED
      BY <3>1, <3>2
  <2>3. QED
    BY <1>1, <1>2, <1>3, <2>2
<1>6. ASSUME NEW v \in Range(p.services[n].volumes), v.kind = "volume", v.source # Absent
      PROVE  v.source \in DOMAIN p.resources["volumes"]
  <2>1. v.source \notin DOMAIN p.resources["volumes"] => <<"SUS-SEM-003", n, v.source>> \in validate_references(p, S)
    <3> DEFINE unknown == {w \in Range(p.services[n].volumes) :
                             w.kind = "volume" /\ w.source # Absent /\ w.source \notin DOMAIN p.resources["volumes"]}
    <3>1. {<<"SUS-SEM-003", n, x.source>> : x \in unknown} \subseteq validate_references(p, S)
      BY DEF validate_references
    <3>2. v.source \notin DOMAIN p.resources["volumes"] => v \in unknown
      BY <1>6
    <3> HIDE DEF unknown
    <3>3. QED
      BY <3>1, <3>2
  <2>2. QED
    BY <1>1, <1>2, <1>3, <2>1
<1>7. ASSUME NEW w \in DOMAIN p.services[n].networks
      PROVE  w \in DOMAIN p.resources["networks"]
  <2>1. {<<"SUS-SEM-004", n, x>> : x \in DOMAIN p.services[n].networks \ DOMAIN p.resources["networks"]}
          \subseteq validate_references(p, S)
    BY DEF validate_references
  <2>2. QED
    BY <1>1, <1>2, <1>3, <1>7, <2>1
<1>8. ASSUME NEW c \in Range(p.services[n].configs)
      PROVE  c.source \in DOMAIN p.resources["configs"]
  <2>1. c.source \notin DOMAIN p.resources["configs"] => <<"SUS-SEM-005", n, c.source>> \in validate_references(p, S)
    <3> DEFINE unknown == {x \in Range(p.services[n].configs) : x.source \notin DOMAIN p.resources["configs"]}
    <3>1. {<<"SUS-SEM-005", n, x.source>> : x \in unknown} \subseteq validate_references(p, S)
      BY DEF validate_references
    <3>2. c.source \notin DOMAIN p.resources["configs"] => c \in unknown
      BY <1>8
    <3> HIDE DEF unknown
    <3>3. QED
      BY <3>1, <3>2
  <2>2. QED
    BY <1>1, <1>2, <1>3, <2>1
<1>9. ASSUME NEW c \in Range(p.services[n].secrets)
      PROVE  c.source \in DOMAIN p.resources["secrets"]
  <2>1. c.source \notin DOMAIN p.resources["secrets"] => <<"SUS-SEM-005", n, c.source>> \in validate_references(p, S)
    <3> DEFINE unknown == {x \in Range(p.services[n].secrets) : x.source \notin DOMAIN p.resources["secrets"]}
    <3>1. {<<"SUS-SEM-005", n, x.source>> : x \in unknown} \subseteq validate_references(p, S)
      BY DEF validate_references
    <3>2. c.source \notin DOMAIN p.resources["secrets"] => c \in unknown
      BY <1>9
    <3> HIDE DEF unknown
    <3>3. QED
      BY <3>1, <3>2
  <2>2. QED
    BY <1>1, <1>2, <1>3, <2>1
<1>10. QED
  BY <1>4, <1>5, <1>6, <1>7, <1>8, <1>9

(* No two ports of the selected services are published alike.              *)
LEMMA PortsDiffer ==
  ASSUME NEW p, NEW S, NEW hostFiles, \A d \in validate(p, S, hostFiles) : d[1] \in Mild,
         NEW n \in S, NEW i \in DOMAIN p.services[n].ports, NEW m \in S, NEW j \in DOMAIN p.services[m].ports,
         <<n, i>> # <<m, j>>,
         p.services[n].ports[i].published # <<>>,
         p.services[n].ports[i].published = p.services[m].ports[j].published
  PROVE  \/ p.services[n].ports[i].host_ip # p.services[m].ports[j].host_ip
         \/ p.services[n].ports[i].protocol # p.services[m].ports[j].protocol
<1> SUFFICES ASSUME p.services[n].ports[i].host_ip = p.services[m].ports[j].host_ip,
                    p.services[n].ports[i].protocol = p.services[m].ports[j].protocol
             PROVE  FALSE
  OBVIOUS
<1>1. PICK k : k = port_key(p.services[n].ports[i])
  OBVIOUS
<1>2. k = port_key(p.services[m].ports[j])
  BY <1>1 DEF port_key
<1>3. i \in Published(p, n) /\ j \in Published(p, m)
  BY DEF Published
<1> DEFINE published == UNION {{x} \X Published(p, x) : x \in S}
<1>4. PICK y : y = <<m, j>>
  OBVIOUS
<1>5. y[1] = m /\ y[2] = j
  BY <1>4
<1>6. y \in published
  BY <1>3, <1>4
<1> DEFINE taken == {y_1 \in published :
                       \E x \in S : \E h \in Published(p, x) :
                         <<x, h>> # y_1
                           /\ port_key(p.services[x].ports[h]) = port_key(p.services[y_1[1]].ports[y_1[2]])}
<1>7. y \in taken
  <2>1. <<n, i>> # y
    BY <1>4
  <2>2. port_key(p.services[n].ports[i]) = port_key(p.services[y[1]].ports[y[2]])
    BY <1>1, <1>2, <1>5
  <2> HIDE DEF published
  <2>3. QED
    BY <1>3, <1>6, <2>1, <2>2
<1>8. <<"SUS-SEM-002", k>> \in {<<"SUS-SEM-002", q>> : q \in {port_key(p.services[x[1]].ports[x[2]]) : x \in taken}}
  <2> HIDE DEF taken
  <2>1. k \in {port_key(p.services[x[1]].ports[x[2]]) : x \in taken}
    BY <1>2, <1>5, <1>7
  <2>2. QED
    BY <2>1
<1>9. validate_ports(p, S) = {<<"SUS-SEM-002", q>> : q \in {port_key(p.services[x[1]].ports[x[2]]) : x \in taken}}
  BY Zenon DEF validate_ports
<1> HIDE DEF taken, published
<1>10. <<"SUS-SEM-002", k>> \in validate(p, S, hostFiles)
  <2>1. <<"SUS-SEM-002", k>> \in validate_ports(p, S)
    BY <1>8, <1>9
  <2>2. QED
    BY <2>1 DEF validate
<1>11. <<"SUS-SEM-002", k>>[1] = "SUS-SEM-002" /\ "SUS-SEM-002" \notin Mild
  BY DEF Mild
<1>12. QED
  BY <1>10, <1>11


(* The services an analysis plans are put in order, once each and after    *)
(* what they depend on; an order there is exactly when there can be one    *)
(* (build_graph of crates/susun-graph, as the analyzer calls it).          *)
THEOREM AnalysisOrdersServices == Spec => []GraphOrdersServices
<1>1. GraphAll => GraphOrdersServices
  BY GraphIsOrdered DEF GraphAll, GraphMadeInv
<1>2. QED
  BY <1>1, GraphAlways, PTL

(* What a project in order comes from.                                     *)
LEMMA OrderIsMade ==
  ASSUME GraphAll, stage = "Order"
  PROVE  /\ GraphMade /\ Untouched /\ project = Canon
         /\ DOMAIN project.services = DOMAIN services
         /\ Listed(project.order, DOMAIN project.services)
<1>1. GraphMade
  BY DEF GraphAll, GraphMadeInv
<1>2. pc \in {"graph", "done"} /\ merged # <<>> /\ project = Canon
  BY <1>1 DEF GraphMade
<1>3. Untouched
  BY <1>2 DEF GraphAll, ExtendsAll, ExtendsInv, Resolving
<1>4. DOMAIN services = DOMAIN merged.services
  BY <1>3 DEF Untouched
<1>5. DOMAIN Canon.services = DOMAIN merged.services /\ Listed(Canon.order, DOMAIN Canon.services)
  BY <1>2, <1>4, Canonized DEF GraphAll, ExtendsAll
<1>6. QED
  BY <1>1, <1>2, <1>3, <1>4, <1>5

(* A project without errors is in order.                                   *)
LEMMA CleanIsMade ==
  ASSUME GraphAll, pc = "done", Errors = {}, project # <<>>
  PROVE  /\ stage = "Order" /\ GraphMade /\ Untouched /\ project = Canon
         /\ DOMAIN project.services = DOMAIN services
         /\ \A d \in validate(project, Selected, input.hostFiles) : d[1] \in Mild
<1>1. stage # "Idle" /\ stage # "Sort" /\ stage \in {"Idle", "Sort", "Order", "Cycle"}
  BY DEF GraphAll, GraphMadeInv, GraphInv, GraphTypeOK
<1>2. stage # "Cycle"
  <2>1. <<"SUS-GRAPH-001">>[1] = "SUS-GRAPH-001" /\ "SUS-GRAPH-001" \notin Mild
    BY DEF Mild
  <2>2. QED
    BY <2>1 DEF GraphAll, GraphMadeInv, Errors
<1>3. stage = "Order"
  BY <1>1, <1>2
<1>4. project = Canon /\ validate(Canon, Selected, input.hostFiles) \subseteq report
  BY <1>3, OrderIsMade DEF GraphMade
<1>5. \A d \in validate(project, Selected, input.hostFiles) : d[1] \in Mild
  BY <1>4 DEF Errors
<1>6. QED
  BY <1>3, <1>5, OrderIsMade

(* The order lists the services that were selected, each of them once, and *)
(* none of them depends on itself.                                         *)
LEMMA SelectedInOrder ==
  ASSUME GraphAll, stage = "Order"
  PROVE  /\ Len(order) = Cardinality(Selected)
         /\ {project.order[order[i]] : i \in DOMAIN order} = Selected
         /\ \A n \in Selected : n \notin DOMAIN project.services[n].depends_on
<1>1. PICK p, S : p = project /\ S = DOMAIN p.services
  OBVIOUS
<1>2. GraphMade /\ p = Canon /\ Listed(p.order, S)
  BY <1>1, OrderIsMade
<1>3. Selected \subseteq S
  BY <1>2, SelectedFromOrder DEF Selected
<1>4. \A n \in S : Number(p, n) \in DOMAIN p.order /\ p.order[Number(p, n)] = n
  BY <1>2, NumbersArePositions
<1>5. active = Numbers(p, Selected) /\ Lists(order, active)
  <2>1. GraphOrdersServices
    BY GraphIsOrdered DEF GraphAll, GraphMadeInv
  <2>2. QED
    BY <1>2, <2>1 DEF GraphOrdersServices, GraphMade
<1>6. Len(order) = Cardinality(Selected)
  <2>1. Cardinality(active) = Len(order) /\ active \in SUBSET Actions
    BY <1>5, ListsLength
  <2>2. PICK T, A : T = Selected /\ A = active
    OBVIOUS
  <2> DEFINE f == [a \in A |-> p.order[a]]
  <2>3. \A a \in A : f[a] \in T
    BY <1>3, <1>4, <1>5, <2>2 DEF Numbers
  <2>4. \A n \in T : Number(p, n) \in A /\ f[Number(p, n)] = n
    BY <1>3, <1>4, <1>5, <2>2 DEF Numbers
  <2>5. \A a \in A : a = Number(p, f[a])
    BY <1>3, <1>4, <1>5, <2>2 DEF Numbers
  <2>6. f \in Bijection(A, T)
    <3>1. f \in [A -> T]
      BY <2>3
    <3> HIDE DEF f
    <3>2. f \in Injection(A, T)
      BY <2>5, <3>1 DEF Injection, IsInjective
    <3>3. f \in Surjection(A, T)
      BY <2>4, <3>1 DEF Surjection
    <3>4. QED
      BY <3>2, <3>3 DEF Bijection
  <2> HIDE DEF f
  <2>7. ExistsBijection(A, T)
    BY <2>6 DEF ExistsBijection
  <2>8. IsFiniteSet(A)
    BY <2>1, <2>2, SubsetsFinite
  <2>9. Cardinality(T) = Cardinality(A)
    BY <2>7, <2>8, FS_Bijection
  <2>10. QED
    BY <2>1, <2>2, <2>9
<1>7. ASSUME NEW n \in Selected, n \in DOMAIN p.services[n].depends_on
      PROVE  FALSE
  <2>1. PICK a : a = Number(p, n)
    OBVIOUS
  <2>2. a \in DOMAIN p.order /\ p.order[a] = n /\ a \in active /\ n \in S
    BY <1>3, <1>4, <1>5, <1>7, <2>1 DEF Numbers
  <2>3. a \in Actions
    BY <1>5, <2>2, ListsLength
  <2>4. n \in Dependencies(p, a)
    BY <1>1, <1>7, <2>2 DEF Dependencies
  <2>5. a \in Numbers(p, Dependencies(p, a))
    BY <2>1, <2>4 DEF Numbers
  <2>6. needs[a] = Numbers(p, Dependencies(p, a))
    BY <1>2, <2>2, <2>3 DEF GraphMade
  <2>7. needs[a] \cap {a} # {}
    BY <2>5, <2>6
  <2>8. ActiveAcyclic
    BY <1>2, GraphIsOrdered DEF GraphAll, GraphMadeInv, GraphOrdersServices
  <2>9. {a} \in SUBSET active /\ {a} # {}
    BY <2>2
  <2>10. QED
    BY <2>7, <2>8, <2>9 DEF ActiveAcyclic
<1>8. {p.order[order[i]] : i \in DOMAIN order} = Selected
  <2>1. active = {order[i] : i \in DOMAIN order}
    BY <1>5, LenProperties DEF Lists
  <2>2. \A n \in Selected : Number(p, n) \in active /\ p.order[Number(p, n)] = n
    BY <1>3, <1>4, <1>5 DEF Numbers
  <2>3. \A a \in active : p.order[a] \in Selected
    BY <1>3, <1>4, <1>5 DEF Numbers
  <2>4. QED
    BY <2>1, <2>2, <2>3
<1>9. QED
  BY <1>1, <1>6, <1>7, <1>8

(* Nothing that extends is left in a project without errors.               *)
LEMMA CleanIsResolved ==
  ASSUME GraphAll, pc = "done", Errors = {}, project # <<>>, NEW n \in DOMAIN project.services
  PROVE  <<"extends">> \notin DOMAIN services[n].decl
<1>1. n \in DOMAIN services /\ Untouched /\ merged # <<>>
  BY CleanIsMade DEF GraphMade
<1>2. n \in DOMAIN merged.services /\ Resolving /\ names = <<>>
  BY <1>1 DEF Untouched, Resolving, GraphAll, ExtendsAll, ExtendsInv
<1>3. n \in resolved
  <2>1. ASSUME LeftAsItWas(n)
        PROVE  FALSE
    <3>1. PICK d \in report : d[1] \in {"SUS-EXT-001", "SUS-EXT-002"}
      BY <2>1 DEF LeftAsItWas
    <3>2. d[1] \notin Mild
      BY <3>1 DEF Mild
    <3>3. QED
      BY <3>1, <3>2 DEF Errors
  <2>2. Range(names) = {}
    BY <1>2 DEF Range
  <2>3. QED
    BY <1>2, <2>1, <2>2 DEF GraphAll, ExtendsAll, ExtendsInv
<1>4. Inherits(services[n].decl, n)
  BY <1>2, <1>3 DEF GraphAll, ExtendsAll, ExtendsInv, WellResolved
<1>5. QED
  BY <1>4 DEF Inherits

(* A report without errors is a project that can be planned: every file    *)
(* could be read with the variables its texts require, extends is resolved,*)
(* every selected service has its place in the order and names only what is*)
(* there, files of configs and secrets exist, and no host port is published*)
(* twice with the same number or range as written (Analyzer::analyze,      *)
(* validate of crates/susun-validation).                                   *)
THEOREM CleanReport == Spec => []CleanReportIsSound
<1>1. GraphAll => CleanReportIsSound
  <2> SUFFICES ASSUME GraphAll, pc = "done", Errors = {}, project # <<>>
               PROVE  CleanReportIsSound
    BY DEF CleanReportIsSound
  <2>1. /\ stage = "Order" /\ project = Canon
        /\ \A d \in validate(project, Selected, input.hostFiles) : d[1] \in Mild
    BY CleanIsMade
  <2> DEFINE S == Range(select_services(project, input.profiles))
  <2>2. S = Selected
    BY <2>1 DEF Selected
  <2> HIDE DEF S
  <2>3. Len(order) = Cardinality(S) /\ \A n \in S : n \notin DOMAIN project.services[n].depends_on
    BY <2>1, <2>2, SelectedInOrder
  <2>4. \A i \in DOMAIN input.roots : NothingMissing(input.roots[i])
    BY NothingIsMissing DEF GraphAll, ExtendsAll, RootsAll
  <2>5. \A n \in DOMAIN project.services : <<"extends">> \notin DOMAIN services[n].decl
    BY CleanIsResolved
  <2>6. \A n \in S : NamesWhatIsThere(project.services[n])
    BY <2>1, <2>2, ValidMeans DEF NamesWhatIsThere
  <2> DEFINE ports == UNION {{<<n, i>> : i \in DOMAIN project.services[n].ports} : n \in S}
             port(x) == project.services[x[1]].ports[x[2]]
  <2>7. ASSUME NEW x \in ports, NEW y \in ports, x # y, port(x).published # <<>>, port(x).published = port(y).published
        PROVE  port(x).host_ip # port(y).host_ip \/ port(x).protocol # port(y).protocol
    <3>1. PICK n \in S : \E i \in DOMAIN project.services[n].ports : x = <<n, i>>
      OBVIOUS
    <3>2. PICK i \in DOMAIN project.services[n].ports : x = <<n, i>>
      BY <3>1
    <3>3. PICK m \in S : \E j \in DOMAIN project.services[m].ports : y = <<m, j>>
      OBVIOUS
    <3>4. PICK j \in DOMAIN project.services[m].ports : y = <<m, j>>
      BY <3>3
    <3>5. port(x) = project.services[n].ports[i] /\ port(y) = project.services[m].ports[j]
      BY <3>2, <3>4
    <3>6. <<n, i>> # <<m, j>>
      BY <2>7, <3>2, <3>4
    <3> HIDE DEF port
    <3>7. QED
      BY <2>1, <2>2, <2>7, <3>5, <3>6, PortsDiffer
  <2>8. \A x, y \in ports :
          x # y /\ port(x).published # <<>> /\ port(x).published = port(y).published
            => port(x).host_ip # port(y).host_ip \/ port(x).protocol # port(y).protocol
    BY <2>7
  <2>9. \A r \in {"configs", "secrets"} : \A name \in DOMAIN project.resources[r] :
          LET d == project.resources[r][name]
          IN  d.file # Absent => d.file \in input.hostFiles /\ ~d.external
    BY <2>1, DefinitionsMean
  <2>10. \A n \in S : n \notin DOMAIN project.services[n].depends_on /\ NamesWhatIsThere(project.services[n])
    BY <2>3, <2>6
  <2>11. QED
    BY <2>1, <2>3, <2>4, <2>5, <2>8, <2>9, <2>10, Zenon DEF CleanReportIsSound, S
<1>2. QED
  BY <1>1, GraphAlways, PTL


-----------------------------------------------------------------------------
\* What the summary tells of the project.

(* A file that is read is a project if it is as it must be.                *)
LEMMA ReadableIsProject ==
  ASSUME NEW path, Readable(path), StackInv
  PROVE  Files[path] # <<>>
<1>1. PICK yaml, layers : yaml = input.files[path] /\ layers = Layers(path)
  OBVIOUS
<1>2. /\ path \in DOMAIN input.files /\ yaml # Absent /\ Len(yaml) <= 1
      /\ \A i \in DOMAIN yaml : untagged(yaml[i]).kind = "mapping"
  BY <1>1 DEF Readable
<1>3. IsList(yaml) /\ Len(yaml) \in Nat /\ DOMAIN yaml = 1..Len(yaml) /\ (yaml = <<>> <=> Len(yaml) = 0)
  <2>1. IsYaml(yaml)
    BY <1>1, <1>2, InputsAssumption DEF StackInv
  <2>2. IsList(yaml)
    BY <1>2, <2>1 DEF IsYaml
  <2>3. QED
    BY <2>2, Sequences
<1>4. PICK docs : docs = IF yaml = <<>> THEN <<Mapping(<<>>)>> ELSE yaml
  OBVIOUS
<1>5. untagged(docs[1]).kind = "mapping"
  <2>1. CASE yaml = <<>>
    <3>1. docs[1] = Mapping(<<>>)
      BY <1>4, <2>1
    <3>2. untagged(Mapping(<<>>)).kind = "mapping"
      BY DEF Mapping, untagged
    <3>3. QED
      BY <3>1, <3>2
  <2>2. CASE yaml # <<>>
    <3>1. 1 \in DOMAIN yaml /\ docs = yaml
      BY <1>3, <1>4, <2>2
    <3>2. QED
      BY <1>2, <3>1
  <2>3. QED
    BY <2>1, <2>2
<1>6. ~(Len(yaml) > 1)
  BY <1>2, <1>3
<1>7. ParsedFile(yaml, layers) = ProjectOf(docs[1], layers)
  BY <1>2, <1>4, <1>5, <1>6 DEF ParsedFile
<1>8. ProjectOf(docs[1], layers) # <<>>
  <2>1. PICK a, b, c, d : ProjectOf(docs[1], layers) = [name |-> a, includes |-> b, services |-> c, resources |-> d]
    BY Zenon DEF ProjectOf
  <2>2. [name |-> a, includes |-> b, services |-> c, resources |-> d] # <<>>
    OBVIOUS
  <2>3. QED
    BY <2>1, <2>2
<1>9. Files[path] = ParsedFile(yaml, layers)
  BY <1>1, <1>2 DEF Files, ParsedFiles
<1>10. QED
  BY <1>7, <1>8, <1>9

(* Of the files named that were begun one is left, or an error.            *)
SomethingLeft == todo = input.roots \/ frames # <<>> \/ parsed # <<>> \/ merged # <<>> \/ Errors # {}
ToldInv ==
  /\ SomethingLeft
  /\ pc = "done" /\ stage = "Idle" => Errors # {}

LEMMA ErrorsStay ==
  ASSUME report \subseteq report', Errors # {}
  PROVE  Errors' # {}
BY DEF Errors

LEMMA LoadingLeaves ==
  ASSUME PathInv, SomethingLeft, LoadFile
  PROVE  SomethingLeft'
<1>0. PICK n, path : n = Len(frames) /\ path = Next_path
  OBVIOUS
<1> DEFINE file == Files[path]
           new == [path |-> path, key |-> Canonical(path), left |-> file.includes, project |-> file]
           fs == IF file = <<>> THEN <<>> ELSE <<new>>
<1>1. /\ Pending /\ path \in DOMAIN input.files
      /\ report' = report \cup DotenvProblems(DotenvLines(Parent(path)))
                          \cup ParseProblems(input.files[path], Layers(path))
      /\ input' = input
  BY <1>0 DEF LoadFile
<1>2. file = ParsedFile(input.files[path], Layers(path))
  BY <1>1 DEF Files, ParsedFiles
<1>3. Begun(fs, <<parsed, merged>>)
  BY <1>0, <1>2 DEF LoadFile
<1>4. Len(fs) = (IF file = <<>> THEN 0 ELSE 1) /\ fs \in {<<>>, <<new>>} /\ (file = <<>> <=> fs = <<>>)
  BY Zenon
<1> HIDE DEF fs, new, file
<1>5. Len(frames') = n + Len(fs) /\ n \in Nat /\ IsList(frames')
  BY <1>0, <1>1, <1>3, <1>4, Begins DEF PathInv
<1>6. frames = <<>> <=> n = 0
  BY <1>0, Sequences DEF PathInv, StackInv
<1>7. CASE frames # <<>> \/ file # <<>>
  <2>1. Len(frames') # 0
    BY <1>4, <1>5, <1>6, <1>7
  <2>2. frames' # <<>>
    BY <2>1
  <2>3. QED
    BY <2>2 DEF SomethingLeft
<1>8. CASE file = <<>>
  <2>1. ~Readable(path)
    BY <1>8, ReadableIsProject DEF PathInv, file
  <2>2. PICK d \in ParseProblems(input.files[path], Layers(path)) : d[1] \notin Mild
    BY <1>1, <2>1, ReadableOrReported DEF PathInv
  <2>3. Errors' # {}
    BY <1>1, <2>2 DEF Errors
  <2>4. QED
    BY <2>3 DEF SomethingLeft
<1>9. QED
  BY <1>7, <1>8

LEMMA MergingLeaves ==
  ASSUME RootsAll, Merge
  PROVE  merged' # <<>>
<1>1. PICK p, old, new : p = Head(parsed) /\ old = merged /\ new = merged'
  OBVIOUS
<1>2. parsed # <<>> /\ new = IF old = <<>> THEN MergeProject(p) ELSE merge_projects(old, MergeProject(p))
  BY <1>1 DEF Merge
<1>3. IsList(parsed) /\ 1 \in 1..Len(parsed) /\ Head(parsed) = parsed[1]
  BY <1>2, Sequences DEF RootsAll, RootInv
<1>4. PICK path \in DOMAIN input.files : Files[path] # <<>> /\ p = Files[path]
  BY <1>1, <1>2, <1>3 DEF RootsAll, RootInv
<1>5. AreServices(p.services)
  BY <1>4, FilesDeclareServices DEF RootsAll, PathInv
<1>6. QED
  BY <1>1, <1>2, <1>5, ProjectServices, MergedServices

LEMMA ToldStep ==
  ASSUME GraphAll, ToldInv, [Next]_vars
  PROVE  ToldInv'
<1>1. CASE Refuse
  <2>1. Refusal(Len(frames), Next_path) # "none" /\ report' = report \cup {<<Refusal(Len(frames), Next_path)>>}
    BY <1>1 DEF Refuse
  <2>2. PICK code : code = Refusal(Len(frames), Next_path)
    OBVIOUS
  <2>3. code \in {"SUS-INC-001", "SUS-INC-002", "SUS-INC-003"}
    BY <2>1, <2>2 DEF Refusal
  <2>4. <<code>>[1] = code /\ code \notin Mild
    BY <2>3 DEF Mild
  <2>5. Errors' # {}
    BY <2>1, <2>2, <2>4 DEF Errors
  <2>6. QED
    BY <2>5 DEF ToldInv, SomethingLeft
<1>2. CASE LoadFile
  <2>1. SomethingLeft'
    BY <1>2, LoadingLeaves DEF ToldInv, GraphAll, ExtendsAll, RootsAll
  <2>2. pc' = "load"
    BY <1>2 DEF LoadFile
  <2>3. QED
    BY <2>1, <2>2 DEF ToldInv
<1>3. CASE LeaveFile
  <2>1. parsed' = Append(parsed, frames[Len(frames)].project) /\ pc' = "load"
    BY <1>3 DEF LeaveFile
  <2>2. IsList(parsed)
    BY DEF GraphAll, ExtendsAll, RootsAll, RootInv
  <2>3. parsed \in Seq(Range(parsed)) /\ Len(parsed') = Len(parsed) + 1 /\ Len(parsed) \in Nat
    BY <2>1, <2>2, Sequences
  <2>4. parsed' # <<>>
    BY <2>3
  <2>5. QED
    BY <2>1, <2>4 DEF ToldInv, SomethingLeft
<1>4. CASE Merge
  <2>1. merged' # <<>>
    BY <1>4, MergingLeaves DEF GraphAll, ExtendsAll
  <2>2. pc' = "load"
    BY <1>4 DEF Merge
  <2>3. QED
    BY <2>1, <2>2 DEF ToldInv, SomethingLeft
<1>5. CASE Loaded
  <2>1. frames = <<>> /\ parsed = <<>> /\ todo = <<>> /\ UNCHANGED <<input, loadVars, report>>
    BY <1>5 DEF Loaded
  <2>2. input.roots # <<>>
    BY InputsAssumption DEF GraphAll, ExtendsAll, RootsAll, PathInv, StackInv
  <2>3. merged # <<>> \/ Errors # {}
    BY <2>1, <2>2 DEF ToldInv, SomethingLeft
  <2>4. merged # <<>> => pc' = "extends"
    BY <1>5 DEF Loaded
  <2>5. Errors' = Errors /\ SomethingLeft'
    BY <2>1 DEF Errors, SomethingLeft, ToldInv, loadVars
  <2>6. QED
    BY <2>3, <2>4, <2>5 DEF ToldInv
<1>6. CASE Begin \/ LoadFails \/ ResolveExtends \/ Normalize \/ PlaceService \/ Conclude \/ Returned \/ UNCHANGED vars
  <2>1. UNCHANGED <<input, loadVars>> /\ report \subseteq report'
    <3>1. CASE Begin
      BY <3>1 DEF Begin, GraphAll, ExtendsAll, RootsAll, PathInv, PhaseInv
    <3>2. CASE ResolveExtends
      BY <3>2 DEF ResolveExtends
    <3>3. CASE Normalize
      BY <3>3 DEF Normalize
    <3>4. CASE LoadFails \/ PlaceService \/ Conclude \/ Returned \/ UNCHANGED vars
      BY <3>4 DEF LoadFails, PlaceService, Conclude, Returned, vars
    <3>5. QED
      BY <1>6, <3>1, <3>2, <3>3, <3>4
  <2>2. SomethingLeft'
    BY <2>1, ErrorsStay DEF ToldInv, SomethingLeft, loadVars
  <2>3. pc' = "done" /\ stage' = "Idle" => pc = "done" /\ stage = "Idle"
    BY <1>6 DEF Begin, LoadFails, ResolveExtends, Normalize, PlaceService, Conclude, Settle, Returned, vars, graphVars
  <2>4. QED
    BY <2>1, <2>2, <2>3, ErrorsStay DEF ToldInv
<1>7. QED
  BY <1>1, <1>2, <1>3, <1>4, <1>5, <1>6 DEF Next, Analyze, Load

(* Without an order of the services there is an error.                     *)
LEMMA OrderOrErrors ==
  ASSUME GraphAll, ToldInv, pc = "done"
  PROVE  stage = "Order" \/ Errors # {}
<1>1. stage # "Sort" /\ stage \in {"Idle", "Sort", "Order", "Cycle"}
  BY DEF GraphAll, GraphMadeInv, GraphInv, GraphTypeOK
<1>2. ASSUME stage = "Cycle"
      PROVE  Errors # {}
  <2>1. <<"SUS-GRAPH-001">>[1] = "SUS-GRAPH-001" /\ "SUS-GRAPH-001" \notin Mild
    BY DEF Mild
  <2>2. QED
    BY <1>2, <2>1 DEF GraphAll, GraphMadeInv, Errors
<1>3. QED
  BY <1>1, <1>2 DEF ToldInv

(* As many services are selected as are listed.                            *)
LEMMA SelectedOnce ==
  ASSUME NEW p, NEW S, Listed(p.order, S), NEW profiles
  PROVE  LET chosen == select_services(p, profiles)
         IN  Listed(chosen, Range(chosen)) /\ Range(chosen) \subseteq S
<1>1. PICK o, P, chosen : /\ o = p.order /\ chosen = select_services(p, profiles)
                          /\ chosen = ItemsAt(o, P)
  BY DEF select_services
<1>2. o \in Seq(S) /\ \A i, j \in 1..Len(o) : o[i] = o[j] => i = j
  BY <1>1, Sequences DEF Listed
<1>3. PICK pos : /\ \A i \in 1..Len(chosen) : pos[i] \in P \cap 1..Len(o) /\ chosen[i] = o[pos[i]]
                 /\ \A i, j \in 1..Len(chosen) : pos[i] = pos[j] => i = j
  <2>1. o \in Seq(S) /\ chosen = ItemsAt(o, P)
    BY <1>1, <1>2
  <2>2. \E q : /\ \A i \in 1..Len(ItemsAt(o, P)) : q[i] \in P \cap 1..Len(o) /\ ItemsAt(o, P)[i] = o[q[i]]
               /\ \A i, j \in 1..Len(ItemsAt(o, P)) : q[i] = q[j] => i = j
    BY <2>1, ItemsAtPositions
  <2>3. QED
    BY <2>1, <2>2, Zenon
<1>4. IsList(chosen)
  BY <1>1, <1>2, ItemsAtItems
<1>5. \A i, j \in 1..Len(chosen) : chosen[i] = chosen[j] => i = j
  BY <1>2, <1>3
<1>6. Range(chosen) \subseteq S
  BY <1>1, SelectedFromOrder
<1>7. QED
  BY <1>1, <1>4, <1>5, <1>6 DEF Listed


(* What the summary says of a project in order.                            *)
LEMMA SummaryOfOrder ==
  ASSUME GraphAll, stage = "Order", NEW summary, summary = Summary
  PROVE  /\ summary.has_errors = (Errors # {})
         /\ {summary.services[i].name : i \in {j \in DOMAIN summary.services : summary.services[j].active}} = Selected
         /\ summary.active_service_count = Len(order)
<1>1. PICK p, S, chosen, errors, dir : /\ p = project /\ S = DOMAIN p.services
                                       /\ chosen = select_services(p, input.profiles)
                                       /\ errors = (Errors # {}) /\ dir = Parent(Head(input.roots))
  OBVIOUS
<1>2. p = Canon /\ Listed(p.order, S)
  BY <1>1, OrderIsMade
<1>3. p # <<>>
  <2>1. Untouched /\ GraphMade
    BY OrderIsMade
  <2>2. merged # <<>> /\ DOMAIN services = DOMAIN merged.services
    BY <2>1 DEF GraphMade, Untouched
  <2>3. PICK a, b, c, d : Canon = [name |-> a, order |-> b, services |-> c, resources |-> d]
    BY <2>2, Canonized DEF GraphAll, ExtendsAll
  <2>4. QED
    BY <1>2, <2>3
<1>4. Range(chosen) = Selected
  BY <1>1, <1>2 DEF Selected
<1>5. Listed(chosen, Selected) /\ Selected \subseteq S
  BY <1>1, <1>2, <1>4, SelectedOnce
<1>6. summary = from_sdk_project(p, chosen, errors, dir)
  BY <1>1, <1>3 DEF Summary
<1>7. /\ summary.has_errors = errors
      /\ summary.active_service_count = Len(chosen)
      /\ summary.services = [i \in DOMAIN p.order |->
                              ServiceSummary(p.order[i], p.services[p.order[i]], p.order[i] \in Range(chosen))]
  BY <1>3, <1>6 DEF from_sdk_project, ActiveCount
<1>8. Len(chosen) = Len(order)
  <2>1. Len(order) = Cardinality(Selected)
    BY SelectedInOrder
  <2>2. Cardinality(Selected) = Len(chosen)
    BY <1>5, ListedCounts
  <2>3. QED
    BY <2>1, <2>2
<1>9. PICK rows : rows = summary.services
  OBVIOUS
<1>10. /\ DOMAIN rows = DOMAIN p.order
       /\ \A i \in DOMAIN p.order : rows[i].name = p.order[i] /\ (rows[i].active <=> p.order[i] \in Selected)
  <2>1. \A n, s, a : ServiceSummary(n, s, a).name = n /\ ServiceSummary(n, s, a).active = a
    BY DEF ServiceSummary
  <2>2. \A i \in DOMAIN p.order :
          rows[i] = ServiceSummary(p.order[i], p.services[p.order[i]], p.order[i] \in Selected)
    BY <1>4, <1>7, <1>9
  <2>3. \A i \in DOMAIN p.order : rows[i].name = p.order[i]
    BY <2>1, <2>2
  <2>4. ASSUME NEW i \in DOMAIN p.order
        PROVE  rows[i].active <=> p.order[i] \in Selected
    <3>1. rows[i].active = (p.order[i] \in Selected)
      BY <2>1, <2>2
    <3>2. QED
      BY <3>1
  <2>5. QED
    BY <1>7, <1>9, <2>3, <2>4
<1>11. \A n \in Selected : \E i \in DOMAIN p.order : p.order[i] = n
  BY <1>2, <1>5 DEF Listed, Range
<1>12. {rows[i].name : i \in {j \in DOMAIN rows : rows[j].active}} = Selected
  <2>1. \A i \in DOMAIN rows : rows[i].active => rows[i].name \in Selected
    BY <1>10
  <2>2. \A n \in Selected : \E i \in DOMAIN rows : rows[i].active /\ rows[i].name = n
    BY <1>10, <1>11
  <2>3. QED
    BY <2>1, <2>2
<1>13. QED
  BY <1>1, <1>7, <1>8, <1>9, <1>12

(* A consumer of the summary is told of an error whenever there is no      *)
(* order of the services, the services called active are the ones that were*)
(* put in order, and their count is right; nothing is said of the rest the *)
(* summary lists (ProjectSummary::from_sdk_project).                       *)
THEOREM SummaryIsTrue == Spec => []SummaryTellsWhatIsPlanned
<1>1. GraphAll /\ ToldInv => SummaryTellsWhatIsPlanned
  <2> SUFFICES ASSUME GraphAll, ToldInv, pc = "done"
               PROVE  SummaryTellsWhatIsPlanned
    BY DEF SummaryTellsWhatIsPlanned
  <2> DEFINE summary == Summary
  <2>1. stage = "Order" \/ Errors # {}
    BY OrderOrErrors
  <2>2. ASSUME stage # "Order"
        PROVE  summary.has_errors
    <3>1. PICK p, chosen, errors, dir : /\ summary = from_sdk_project(p, chosen, errors, dir)
                                        /\ errors = (Errors # {})
      BY DEF Summary
    <3>2. summary.has_errors = errors
      BY <3>1 DEF from_sdk_project, NoProjectSummary
    <3>3. QED
      BY <2>1, <2>2, <3>1, <3>2
  <2>3. ASSUME stage = "Order"
        PROVE  /\ {summary.services[i].name : i \in {j \in DOMAIN summary.services : summary.services[j].active}}
                    = {project.order[order[i]] : i \in DOMAIN order}
               /\ summary.active_service_count = Len(order)
    BY <2>3, SelectedInOrder, SummaryOfOrder
  <2> HIDE DEF summary
  <2>4. QED
    BY <2>2, <2>3, Zenon DEF SummaryTellsWhatIsPlanned, summary
<1>2. Init => ToldInv
  BY DEF Init, ToldInv, SomethingLeft
<1>3. (GraphAll /\ ToldInv) /\ [Next]_vars => (GraphAll /\ ToldInv)'
  BY ToldStep, RootsStep, MergedKeeps, ExtendsStep, SoundStep, GraphMadeStep DEF GraphAll, ExtendsAll, RootsAll
<1>4. QED
  BY <1>1, <1>2, <1>3, GraphAlways, PTL DEF Spec
=============================================================================

--------------------------- MODULE RuntimeProofs ---------------------------
(***************************************************************************)
(* Proofs about the plan executor, for every plan, concurrency limit and   *)
(* retry limit.  They rest on the inductive invariant ExecutorInv.         *)
(***************************************************************************)
EXTENDS RuntimeProperties, PlanGraphProofs

-----------------------------------------------------------------------------
\* Lemmas about the queue, the counters and the events.

(* Releasing the dependents of `a`, which was eligible and is now done,    *)
(* counts every dependency once and appends exactly those that became      *)
(* eligible with it.                                                       *)
LEMMA ReleaseLists ==
  ASSUME TypeOK,
         \A d \in Actions : remaining[d] = Cardinality(deps[d] \ completed),
         NEW a \in Actions \ completed, completed' = completed \cup {a},
         NEW q, NEW S, Lists(q, S), S \subseteq Eligible,
         Release(a, q)
  PROVE  /\ remaining' \in [Actions -> Nat]
         /\ \A d \in Actions : remaining'[d] = Cardinality(deps[d] \ completed')
         /\ Lists(ready', S \cup {d \in Actions \ completed' : a \in deps[d] /\ deps[d] \subseteq completed'})
<1>1. deps \in [Actions -> SUBSET Actions] /\ completed \in SUBSET Actions
  BY ConstantsAssumption DEF TypeOK
<1>2. remaining' = CountDown(remaining, Dependents(a)) /\ remaining \in [Actions -> Nat]
  BY DEF Release, TypeOK
<1>3. /\ remaining' \in [Actions -> Nat]
      /\ \A d \in Actions :
           /\ remaining'[d] = Cardinality(deps[d] \ completed')
           /\ remaining'[d] = 0 <=> deps[d] \subseteq completed'
  <2>1. ASSUME NEW d \in Actions
        PROVE  /\ remaining'[d] = Cardinality(deps[d] \ completed')
               /\ remaining'[d] \in Nat
               /\ remaining'[d] = 0 <=> deps[d] \subseteq completed'
    <3> DEFINE W == deps[d] \ completed
    <3>1. W \in SUBSET Actions /\ deps[d] \ completed' = W \ {a} /\ (a \in W <=> a \in deps[d])
      BY <1>1, <2>1
    <3>2. remaining'[d] = IF a \in W THEN SaturatingPred(Cardinality(W)) ELSE Cardinality(W)
      BY <1>2, <2>1, <3>1 DEF CountDown, Dependents
    <3>3. /\ Cardinality(W \ {a}) \in Nat
          /\ Cardinality(W \ {a}) = IF a \in W THEN SaturatingPred(Cardinality(W))
                                   ELSE Cardinality(W)
          /\ Cardinality(W \ {a}) = 0 <=> W \ {a} = {}
      <4> HIDE DEF W
      <4>1. W \in SUBSET Actions
        BY <3>1
      <4>2. QED
        BY <4>1, CountWithout
    <3>4. remaining'[d] = Cardinality(W \ {a})
      BY <3>2, <3>3
    <3>5. QED
      BY <3>1, <3>3, <3>4
  <2>2. remaining' = [d \in Actions |-> remaining'[d]]
    BY <1>2 DEF CountDown
  <2>3. QED
    BY <2>1, <2>2
<1> DEFINE R == {d \in Dependents(a) \ completed' : remaining'[d] = 0}
<1>4. PICK order \in InPlanOrder(R) : ready' = q \o order
  BY DEF Release
<1>5. Lists(order, R)
  BY InPlanOrderLists DEF Dependents
<1>6. S \cap R = {}
  BY DEF Eligible, Dependents
<1>7. Lists(ready', S \cup R)
  BY <1>4, <1>5, <1>6, ListsConcat
<1>8. R = {d \in Actions \ completed' : a \in deps[d] /\ deps[d] \subseteq completed'}
  BY <1>3 DEF Dependents
<1>9. QED
  BY <1>3, <1>7, <1>8

(* What Append does, entry by entry.                                       *)
LEMMA AppendEntries ==
  ASSUME NEW s \in Seq(Event), NEW e \in Event
  PROVE  /\ Append(s, e) \in Seq(Event)
         /\ Len(Append(s, e)) = Len(s) + 1
         /\ \A i \in 1..Len(s) : Append(s, e)[i] = s[i]
         /\ Append(s, e)[Len(s) + 1] = e
  BY AppendProperties

(* The event sequences of an action that ran.                              *)
LEMMA EventSequences ==
  /\ Append(<<"ActionQueued">>, "ActionStarted") = <<"ActionQueued", "ActionStarted">>
  /\ Append(<<"ActionQueued", "ActionStarted">>, "ActionFinished")
       = <<"ActionQueued", "ActionStarted", "ActionFinished">>
<1>1. ASSUME NEW e \in Event, NEW f \in Event
      PROVE  Append(<<e>>, f) = <<e, f>>
  <2>1. <<e>> \in Seq(Event) /\ Len(<<e>>) = 1 /\ <<e>>[1] = e
    OBVIOUS
  <2>2. <<e, f>> \in Seq(Event) /\ Len(<<e, f>>) = 2 /\ <<e, f>>[1] = e /\ <<e, f>>[2] = f
    OBVIOUS
  <2> DEFINE one == <<e>>
             two == <<e, f>>
             both == Append(one, f)
  <2>3. /\ both \in Seq(Event) /\ Len(both) = Len(one) + 1
        /\ \A i \in 1..Len(one) : both[i] = one[i]
        /\ both[Len(one) + 1] = f
    <3> HIDE DEF one
    <3>1. one \in Seq(Event)
      BY <2>1 DEF one
    <3>2. QED
      BY <3>1, AppendEntries
  <2> HIDE DEF one, two, both
  <2>4. \A i \in 1..Len(two) : both[i] = two[i]
    BY <2>1, <2>2, <2>3 DEF one, two
  <2>5. both = two
    BY <2>1, <2>2, <2>3, <2>4, SeqEqual DEF one, two
  <2>6. QED
    BY <2>5 DEF one, two, both
<1>2. ASSUME NEW e \in Event, NEW f \in Event, NEW g \in Event
      PROVE  Append(<<e, f>>, g) = <<e, f, g>>
  <2>1. <<e, f>> \in Seq(Event) /\ Len(<<e, f>>) = 2 /\ <<e, f>>[1] = e /\ <<e, f>>[2] = f
    OBVIOUS
  <2>2. /\ <<e, f, g>> \in Seq(Event) /\ Len(<<e, f, g>>) = 3
        /\ <<e, f, g>>[1] = e /\ <<e, f, g>>[2] = f /\ <<e, f, g>>[3] = g
    OBVIOUS
  <2> DEFINE two == <<e, f>>
             three == <<e, f, g>>
             both == Append(two, g)
  <2>3. /\ both \in Seq(Event) /\ Len(both) = Len(two) + 1
        /\ \A i \in 1..Len(two) : both[i] = two[i]
        /\ both[Len(two) + 1] = g
    <3> HIDE DEF two
    <3>1. two \in Seq(Event)
      BY <2>1 DEF two
    <3>2. QED
      BY <3>1, AppendEntries
  <2> HIDE DEF two, three, both
  <2>4. \A i \in 1..Len(three) : both[i] = three[i]
    BY <2>1, <2>2, <2>3 DEF two, three
  <2>5. both = three
    BY <2>1, <2>2, <2>3, <2>4, SeqEqual DEF two, three
  <2>6. QED
    BY <2>5 DEF two, three, both
<1>3. QED
  BY <1>1, <1>2 DEF Event

-----------------------------------------------------------------------------
\* ExecutorInv holds initially and is preserved by every action.

LEMMA InitEstablishes == Init => ExecutorInv
<1> SUFFICES ASSUME Init
             PROVE  ExecutorInv
  OBVIOUS
<1>1. \A st \in [Actions -> Status] : Summarize(st) \in Summary
  <2> SUFFICES ASSUME NEW st \in [Actions -> Status]
               PROVE  Summarize(st) \in Summary
    OBVIOUS
  <2>1. \A v : Count(st, v) \in Nat
    BY SubsetsFinite DEF Count
  <2>2. QED
    BY <2>1, NumActionsAssumption DEF Summarize, Summary
<1>2. status \in [Actions -> Status]
  BY DEF Init, Status
<1>3. TypeOK
  <2>1. summary \in Summary
    BY <1>1, <1>2 DEF Init
  <2>2. events \in [Actions -> Seq(Event)]
    BY DEF Init
  <2>3. ready \in Seq(Actions)
    BY DEF Init
  <2>4. QED
    BY <1>2, <2>1, <2>2, <2>3 DEF Init, TypeOK, Location
<1>4. LocationInv /\ QueueInv
  BY DEF Init, LocationInv, QueueInv, Applying, None
<1>5. OutcomeInv /\ EventInv
  BY DEF Init, OutcomeInv, EventInv, None, Actions
<1>6. QED
  BY <1>3, <1>4, <1>5 DEF ExecutorInv

(* Nothing in flight, only the location moves.                             *)
LEMMA PreflightPreserves == ExecutorInv /\ Preflight => ExecutorInv'
<1> SUFFICES ASSUME ExecutorInv, Preflight
             PROVE  ExecutorInv'
  OBVIOUS
<1> USE DEF ExecutorInv
<1>1. CASE Validate \/ QueryCapabilities \/ SnapshotFails
  <2>1. /\ UNCHANGED <<deps, current, running, completed, failed, events,
                       graphVars, reportVars, cancelVars>>
        /\ pc \in {"Validate", "Capabilities", "Snapshot"}
        /\ pc' \in {"Capabilities", "Snapshot", "Refused"}
        /\ pc' # "Refused" => Acyclic(deps)
    BY <1>1 DEF Validate, QueryCapabilities, SnapshotFails, LocationInv
  <2>2. TypeOK'
    BY <2>1 DEF TypeOK, Location, graphVars, reportVars, cancelVars
  <2>3. LocationInv'
    BY <2>1 DEF LocationInv, Applying, Acyclic
  <2>4. QueueInv' /\ OutcomeInv' /\ EventInv'
    BY <2>1 DEF QueueInv, OutcomeInv, EventInv, Eligible, Applying,
                graphVars, reportVars, cancelVars
  <2>5. QED
    BY <2>2, <2>3, <2>4
<1>2. CASE Begin
  <2>1. /\ UNCHANGED <<deps, current, running, completed, failed, events,
                       reportVars, cancelVars>>
        /\ pc = "Snapshot" /\ pc' = "Check"
        /\ remaining' = [a \in Actions |-> Cardinality(deps[a])]
        /\ ready' \in InPlanOrder({a \in Actions : remaining'[a] = 0})
    BY <1>2 DEF Begin
  <2>2. completed = {} /\ running = {} /\ current = None
    BY <2>1 DEF LocationInv, Applying
  <2>3. \A a \in Actions :
          /\ remaining'[a] = Cardinality(deps[a] \ completed)
          /\ remaining'[a] \in Nat
          /\ remaining'[a] = 0 <=> deps[a] = {}
    <3> TAKE a \in Actions
    <3>1. deps[a] \in SUBSET Actions
      BY ConstantsAssumption DEF TypeOK
    <3>2. remaining'[a] = Cardinality(deps[a]) /\ deps[a] \ completed = deps[a]
      BY <2>1, <2>2
    <3>3. QED
      BY <3>1, <3>2, SubsetsFinite, FS_EmptySet
  <2>4. Lists(ready', {a \in Actions : remaining'[a] = 0})
    BY <2>1, InPlanOrderLists
  <2>5. {a \in Actions : remaining'[a] = 0} = (Eligible' \ running') \ {current'}
    BY <2>1, <2>2, <2>3 DEF Eligible, None, Actions
  <2>6. TypeOK'
    BY <2>1, <2>3, <2>4 DEF TypeOK, Location, Lists, reportVars, cancelVars
  <2>7. LocationInv'
    BY <2>1, <2>2 DEF LocationInv, Applying, Acyclic
  <2>8. QueueInv'
    BY <2>1, <2>2, <2>3, <2>4, <2>5 DEF QueueInv
  <2>9. OutcomeInv' /\ EventInv'
    BY <2>1, <2>2 DEF OutcomeInv, EventInv, reportVars, cancelVars
  <2>10. QED
    BY <2>6, <2>7, <2>8, <2>9
<1>3. QED
  BY <1>1, <1>2 DEF Preflight

LEMMA CheckPreserves == ExecutorInv /\ (CheckPasses \/ StopDispatching) => ExecutorInv'
<1> SUFFICES ASSUME ExecutorInv, CheckPasses \/ StopDispatching
             PROVE  ExecutorInv'
  OBVIOUS
<1> USE DEF ExecutorInv
<1>1. /\ UNCHANGED <<deps, current, running, completed, failed, events, ready, remaining,
                     status, attempts, summary, cancelled, announced>>
      /\ pc = "Check" /\ pc' \in {"Pop", "Await"}
      /\ pc' = "Pop" => ready # <<>>
  BY DEF CheckPasses, StopDispatching, CanDispatch, graphVars, reportVars, cancelVars
<1>2. TypeOK'
  BY <1>1 DEF TypeOK, Location
<1>3. LocationInv'
  BY <1>1 DEF LocationInv, Applying, Acyclic
<1>4. QueueInv'
  BY <1>1 DEF QueueInv, Eligible, Applying
<1>5. OutcomeInv' /\ EventInv'
  BY <1>1 DEF OutcomeInv, EventInv
<1>6. QED
  BY <1>2, <1>3, <1>4, <1>5

(* A popped action is eligible, neither running nor being started: it      *)
(* cannot have been completed, so DropCompleted never happens.             *)
LEMMA PoppedIsEligible ==
  ASSUME ExecutorInv, pc = "Pop"
  PROVE  /\ Head(ready) \in Eligible \ running
         /\ current = None
         /\ Lists(Tail(ready), (Eligible \ running) \ {Head(ready)})
<1>1. ready # <<>> /\ current = None /\ Lists(ready, (Eligible \ running) \ {None})
  BY DEF ExecutorInv, LocationInv, QueueInv, Applying
<1>2. (Eligible \ running) \ {None} = Eligible \ running
  BY DEF Eligible, Actions, None
<1>3. QED
  BY <1>1, <1>2, ListsTail

LEMMA AnnouncePreserves ==
  ASSUME ExecutorInv, pc = "Pop", ~HasFailedDependency(Head(ready)), Announce(Head(ready))
  PROVE  ExecutorInv'
<1> DEFINE a == Head(ready)
<1> USE DEF ExecutorInv
<1>1. /\ UNCHANGED <<deps, running, remaining, completed, failed,
                     status, attempts, summary, cancelled, announced>>
      /\ pc' = "Start" /\ current' = a /\ ready' = Tail(ready)
      /\ events' = [events EXCEPT ![a] = Append(@, "ActionQueued")]
  BY DEF Announce, Emit, reportVars, cancelVars
<1>2. /\ a \in Eligible \ running /\ current = None
      /\ Lists(Tail(ready), (Eligible \ running) \ {a})
  BY PoppedIsEligible
<1>3. a \in Actions /\ a # None /\ Eligible' = Eligible
  BY <1>1, <1>2 DEF Eligible, Actions, None
<1>4. TypeOK'
  <2>1. events' \in [Actions -> Seq(Event)]
    BY <1>1, <1>3 DEF TypeOK, Event
  <2>2. ready' \in Seq(Actions)
    BY <1>1, <1>2 DEF Lists
  <2>3. QED
    BY <1>1, <1>3, <2>1, <2>2 DEF TypeOK, Location
<1>5. LocationInv'
  BY <1>1, <1>3 DEF LocationInv, Applying, Acyclic
<1>6. QueueInv'
  BY <1>1, <1>2, <1>3 DEF QueueInv, Applying
<1>7. OutcomeInv'
  BY <1>1 DEF OutcomeInv, HasFailedDependency
<1>8. EventInv'
  <2>1. events[a] = <<>>
    BY <1>2, <1>3 DEF EventInv, Eligible
  <2>2. events'[a] = <<"ActionQueued">>
    BY <1>1, <1>3, <2>1 DEF TypeOK
  <2>3. \A b \in Actions \ {a} : events'[b] = events[b]
    BY <1>1 DEF TypeOK
  <2>4. QED
    BY <1>1, <1>2, <1>3, <2>2, <2>3 DEF EventInv, Eligible, None, Actions
<1>9. QED
  BY <1>4, <1>5, <1>6, <1>7, <1>8

LEMMA SkipPreserves ==
  ASSUME ExecutorInv, pc = "Pop", HasFailedDependency(Head(ready)), Skip(Head(ready))
  PROVE  ExecutorInv'
<1> DEFINE a == Head(ready)
<1> USE DEF ExecutorInv
<1>1. /\ UNCHANGED <<deps, current, running, attempts, summary, cancelled, announced>>
      /\ pc' = "Check"
      /\ status' = [status EXCEPT ![a] = "SkippedDependencyFailed"]
      /\ failed' = failed \cup {a} /\ completed' = completed \cup {a}
      /\ events' = [events EXCEPT ![a] = Append(@, "ActionFinished")]
      /\ Release(a, Tail(ready))
  BY DEF Skip, Emit, cancelVars
<1>2. /\ a \in Eligible \ running /\ current = None
      /\ Lists(Tail(ready), (Eligible \ running) \ {a})
  BY PoppedIsEligible
<1>3. a \in Actions \ completed /\ a # None /\ deps[a] \subseteq completed
  BY <1>2 DEF Eligible, Actions, None
<1> DEFINE R == {d \in Actions \ completed' : a \in deps[d] /\ deps[d] \subseteq completed'}
<1>4. /\ remaining' \in [Actions -> Nat]
      /\ \A d \in Actions : remaining'[d] = Cardinality(deps[d] \ completed')
      /\ Lists(ready', ((Eligible \ running) \ {a}) \cup R)
  <2>1. \A d \in Actions : remaining[d] = Cardinality(deps[d] \ completed)
    BY DEF QueueInv, Applying
  <2>2. (Eligible \ running) \ {a} \subseteq Eligible
    OBVIOUS
  <2>3. Lists(Tail(ready), (Eligible \ running) \ {a}) /\ Release(a, Tail(ready))
    BY <1>1, <1>2
  <2>4. completed' = completed \cup {a} /\ a \in Actions \ completed
    BY <1>1, <1>3
  <2> HIDE DEF a, R
  <2>5. QED
    BY <2>1, <2>2, <2>3, <2>4, ReleaseLists DEF R
<1>5. Eligible' = (Eligible \ {a}) \cup R
  BY <1>1, <1>3 DEF Eligible
<1>6. R \cap running = {}
  BY <1>3 DEF QueueInv, Eligible
<1>7. ((Eligible \ running) \ {a}) \cup R = (Eligible' \ running') \ {current'}
  BY <1>1, <1>2, <1>5, <1>6 DEF Eligible, Actions, None
<1>8. TypeOK'
  <2>1. events' \in [Actions -> Seq(Event)]
    BY <1>1, <1>3 DEF TypeOK, Event
  <2>2. ready' \in Seq(Actions)
    BY <1>4 DEF Lists
  <2>3. QED
    BY <1>1, <1>3, <1>4, <2>1, <2>2 DEF TypeOK, Location, Status
<1>9. LocationInv'
  BY <1>1, <1>2 DEF LocationInv, Applying, Acyclic
<1>10. QueueInv'
  <2>1. running' \subseteq Eligible'
    BY <1>1, <1>2, <1>5 DEF QueueInv
  <2>2. QED
    BY <1>1, <1>2, <1>4, <1>7, <2>1 DEF QueueInv, Applying
<1>11. OutcomeInv'
  <2>1. status'[a] = "SkippedDependencyFailed" /\ \A b \in Actions \ {a} : status'[b] = status[b]
    BY <1>1, <1>3 DEF TypeOK
  <2>2. ASSUME NEW b \in completed
        PROVE  a \notin deps[b] /\ b # a
    BY <1>3 DEF OutcomeInv
  <2>3. \A b \in running : a \notin deps[b]
    BY <1>3 DEF QueueInv, Eligible
  <2>4. deps[a] \cap failed # {} /\ a \notin deps[a]
    BY <1>3 DEF HasFailedDependency
  <2>5. ASSUME NEW b \in completed'
        PROVE  /\ deps[b] \subseteq completed'
               /\ status'[b] \in Outcomes
               /\ status'[b] = "Succeeded" <=> b \notin failed'
               /\ status'[b] = "SkippedDependencyFailed" <=> deps[b] \cap failed' # {}
    <3>1. CASE b = a
      BY <1>1, <1>3, <2>1, <2>4, <3>1 DEF Outcomes
    <3>2. CASE b # a
      <4>1. b \in completed /\ status'[b] = status[b] /\ a \notin deps[b]
        BY <1>1, <2>1, <2>2, <3>2 DEF TypeOK
      <4>2. QED
        BY <1>1, <3>2, <4>1 DEF OutcomeInv
    <3>3. QED
      BY <3>1, <3>2
  <2>6. \A b \in Actions \ completed' : status'[b] = "Pending"
    BY <1>1, <2>1 DEF OutcomeInv
  <2>7. QED
    BY <1>1, <1>2, <2>3, <2>5, <2>6 DEF OutcomeInv
<1>12. EventInv'
  <2>1. events'[a] = <<"ActionFinished">>
    <3>1. events[a] = <<>>
      BY <1>2, <1>3 DEF EventInv
    <3>2. QED
      BY <1>1, <1>3, <3>1 DEF TypeOK
  <2>2. \A b \in Actions \ {a} : events'[b] = events[b] /\ status'[b] = status[b]
    BY <1>1 DEF TypeOK
  <2>3. status'[a] = "SkippedDependencyFailed"
    BY <1>1, <1>3 DEF TypeOK
  <2>4. QED
    BY <1>1, <1>2, <1>3, <2>1, <2>2, <2>3 DEF EventInv
<1>13. QED
  BY <1>8, <1>9, <1>10, <1>11, <1>12

LEMMA StartPreserves == ExecutorInv /\ Start => ExecutorInv'
<1> SUFFICES ASSUME ExecutorInv, Start
             PROVE  ExecutorInv'
  OBVIOUS
<1> USE DEF ExecutorInv
<1>1. /\ UNCHANGED <<deps, completed, failed, status, summary, ready, remaining,
                     cancelled, announced>>
      /\ pc = "Start" /\ pc' = "Check" /\ current' = None
      /\ running' = running \cup {current}
      /\ attempts' = [attempts EXCEPT ![current] = 1]
      /\ events' = [events EXCEPT ![current] = Append(@, "ActionStarted")]
  BY DEF Start, Emit, graphVars, cancelVars
<1>2. current \in Actions /\ current # None /\ current \in Eligible \ running
  BY <1>1 DEF LocationInv, QueueInv, TypeOK
<1>3. Eligible' = Eligible
  BY <1>1 DEF Eligible
<1>4. TypeOK'
  <2>1. events' \in [Actions -> Seq(Event)]
    BY <1>1, <1>2 DEF TypeOK, Event
  <2>2. attempts' \in [Actions -> Nat]
    BY <1>1, <1>2 DEF TypeOK
  <2>3. QED
    BY <1>1, <1>2, <2>1, <2>2 DEF TypeOK, Location
<1>5. LocationInv'
  BY <1>1 DEF LocationInv, Applying, Acyclic
<1>6. QueueInv'
  <2>1. (Eligible' \ running') \ {current'} = (Eligible \ running) \ {current}
    BY <1>1, <1>2, <1>3 DEF Eligible, None, Actions
  <2>2. QED
    BY <1>1, <1>2, <1>3, <2>1 DEF QueueInv, Applying
<1>7. OutcomeInv'
  BY <1>1 DEF OutcomeInv
<1>8. EventInv'
  <2>1. events'[current] = <<"ActionQueued", "ActionStarted">>
    <3>1. events[current] = <<"ActionQueued">>
      BY <1>2 DEF EventInv
    <3>2. events'[current] = Append(<<"ActionQueued">>, "ActionStarted")
      BY <1>1, <1>2, <3>1 DEF TypeOK
    <3>3. QED
      BY <3>2, EventSequences
  <2>2. \A b \in Actions \ {current} : events'[b] = events[b]
    BY <1>1 DEF TypeOK
  <2>3. QED
    BY <1>1, <1>2, <2>1, <2>2 DEF EventInv, Eligible, None, Actions
<1>9. QED
  BY <1>4, <1>5, <1>6, <1>7, <1>8

LEMMA RetryPreserves ==
  ASSUME ExecutorInv, NEW a \in Actions, Retry(a)
  PROVE  ExecutorInv'
<1> USE DEF ExecutorInv
<1>1. /\ UNCHANGED <<deps, pc, current, running, completed, failed, events, status,
                     summary, ready, remaining, cancelled, announced>>
      /\ attempts' = [attempts EXCEPT ![a] = @ + 1]
  BY DEF Retry, graphVars, cancelVars
<1>2. TypeOK'
  BY <1>1 DEF TypeOK
<1>3. LocationInv' /\ QueueInv'
  BY <1>1 DEF LocationInv, QueueInv, Applying, Acyclic, Eligible
<1>4. OutcomeInv' /\ EventInv'
  BY <1>1 DEF OutcomeInv, EventInv
<1>5. QED
  BY <1>2, <1>3, <1>4

LEMMA CompletePreserves ==
  ASSUME ExecutorInv, NEW a \in Actions, NEW outcome \in {"Succeeded", "Failed"},
         Complete(a, outcome)
  PROVE  ExecutorInv'
<1> USE DEF ExecutorInv
<1>1. /\ UNCHANGED <<deps, current, attempts, summary, cancelled, announced>>
      /\ pc = "Await" /\ pc' = "Check" /\ a \in running
      /\ running' = running \ {a}
      /\ status' = [status EXCEPT ![a] = outcome]
      /\ failed' = IF outcome # "Succeeded" THEN failed \cup {a} ELSE failed
      /\ completed' = completed \cup {a}
      /\ events' = [events EXCEPT ![a] = Append(@, "ActionFinished")]
      /\ Release(a, ready)
  BY DEF Complete, Emit, cancelVars
<1>2. current = None /\ a # None
  BY <1>1 DEF LocationInv, Actions, None
<1>3. /\ a \in Eligible /\ a \in Actions \ completed
      /\ deps[a] \subseteq completed /\ deps[a] \cap failed = {}
  BY <1>1, <1>2 DEF QueueInv, OutcomeInv, Eligible
<1> DEFINE R == {d \in Actions \ completed' : a \in deps[d] /\ deps[d] \subseteq completed'}
<1>4. /\ remaining' \in [Actions -> Nat]
      /\ \A d \in Actions : remaining'[d] = Cardinality(deps[d] \ completed')
      /\ Lists(ready', (Eligible \ running) \cup R)
  <2>1. \A d \in Actions : remaining[d] = Cardinality(deps[d] \ completed)
    BY <1>1 DEF QueueInv, Applying
  <2>2. Lists(ready, Eligible \ running)
    <3>1. (Eligible \ running) \ {current} = Eligible \ running
      BY <1>2 DEF Eligible, Actions, None
    <3>2. QED
      BY <1>1, <3>1 DEF QueueInv, Applying
  <2>3. QED
    BY <1>1, <1>3, <2>1, <2>2, ReleaseLists
<1>5. Eligible' = (Eligible \ {a}) \cup R
  BY <1>1, <1>3 DEF Eligible
<1>6. R \cap running = {}
  BY <1>3 DEF QueueInv, Eligible
<1>7. (Eligible \ running) \cup R = (Eligible' \ running') \ {current'}
  BY <1>1, <1>2, <1>5, <1>6 DEF Eligible, Actions, None
<1>8. TypeOK'
  <2>1. events' \in [Actions -> Seq(Event)]
    BY <1>1 DEF TypeOK, Event
  <2>2. ready' \in Seq(Actions)
    BY <1>4 DEF Lists
  <2>3. status' \in [Actions -> Status]
    BY <1>1 DEF TypeOK, Status
  <2>4. failed' \in SUBSET completed' /\ completed' \in SUBSET Actions
    BY <1>1 DEF TypeOK
  <2>5. QED
    BY <1>1, <1>4, <2>1, <2>2, <2>3, <2>4 DEF TypeOK, Location
<1>9. LocationInv'
  BY <1>1, <1>2 DEF LocationInv, Applying, Acyclic
<1>10. QueueInv'
  <2>1. running' \subseteq Eligible'
    BY <1>1, <1>5 DEF QueueInv
  <2>2. QED
    BY <1>1, <1>2, <1>4, <1>7, <2>1 DEF QueueInv, Applying
<1>11. status'[a] = outcome /\ \A b \in Actions \ {a} : status'[b] = status[b]
  BY <1>1 DEF TypeOK
<1>12. OutcomeInv'
  <2>1. \A b \in completed : a \notin deps[b] /\ b # a
    BY <1>3 DEF OutcomeInv
  <2>2. \A b \in running : a \notin deps[b]
    BY <1>3 DEF QueueInv, Eligible
  <2>3. ASSUME NEW b \in completed'
        PROVE  /\ deps[b] \subseteq completed'
               /\ status'[b] \in Outcomes
               /\ status'[b] = "Succeeded" <=> b \notin failed'
               /\ status'[b] = "SkippedDependencyFailed" <=> deps[b] \cap failed' # {}
    <3>1. CASE b = a
      <4>1. a \notin failed /\ a \notin deps[a]
        BY <1>3 DEF TypeOK
      <4>2. QED
        BY <1>1, <1>3, <1>11, <3>1, <4>1 DEF Outcomes
    <3>2. CASE b # a
      <4>1. b \in completed /\ status'[b] = status[b] /\ a \notin deps[b]
        BY <1>1, <1>11, <2>1, <3>2 DEF TypeOK
      <4>2. QED
        BY <1>1, <3>2, <4>1 DEF OutcomeInv
    <3>3. QED
      BY <3>1, <3>2
  <2>4. \A b \in Actions \ completed' : status'[b] = "Pending"
    BY <1>1, <1>11 DEF OutcomeInv
  <2>5. QED
    BY <1>1, <1>2, <2>2, <2>3, <2>4 DEF OutcomeInv
<1>13. EventInv'
  <2>1. events'[a] = <<"ActionQueued", "ActionStarted", "ActionFinished">>
    <3>1. events[a] = <<"ActionQueued", "ActionStarted">>
      BY <1>1 DEF EventInv
    <3>2. events'[a] = Append(<<"ActionQueued", "ActionStarted">>, "ActionFinished")
      BY <1>1, <3>1 DEF TypeOK
    <3>3. QED
      BY <3>2, EventSequences
  <2>2. \A b \in Actions \ {a} : events'[b] = events[b]
    BY <1>1 DEF TypeOK
  <2>3. QED
    BY <1>1, <1>2, <1>11, <2>1, <2>2 DEF EventInv
<1>14. QED
  BY <1>8, <1>9, <1>10, <1>12, <1>13

(* The loop ends uncancelled only when every action is completed: if some  *)
(* were not, one of them would depend on completed ones alone, because the *)
(* graph is acyclic, and the queue would hold it.                          *)
LEMMA FinishPreserves == ExecutorInv /\ Finish => ExecutorInv'
<1> SUFFICES ASSUME ExecutorInv, Finish
             PROVE  ExecutorInv'
  OBVIOUS
<1> USE DEF ExecutorInv
<1>1. /\ UNCHANGED <<deps, current, running, completed, failed, attempts, events,
                     ready, remaining, cancelled, announced>>
      /\ pc = "Check" /\ pc' = "Done" /\ running = {}
      /\ status' = [a \in Actions |->
                      IF a \notin completed /\ status[a] = "Pending" THEN "Cancelled"
                      ELSE status[a]]
      /\ summary' = Summarize(status')
      /\ cancelled \/ ~CanDispatch
  BY DEF Finish, MarkRemainingCancelled, graphVars, cancelVars
<1>2. current = None
  BY <1>1 DEF LocationInv
<1>3. ~cancelled => completed = Actions
  <2> SUFFICES ASSUME ~cancelled, completed # Actions
               PROVE  FALSE
    OBVIOUS
  <2>1. Cardinality(running) = 0 /\ MaxConcurrency > 0
    BY <1>1, FS_EmptySet, ConstantsAssumption
  <2>2. ready = <<>>
    BY <1>1, <2>1, ConstantsAssumption DEF CanDispatch
  <2>3. Lists(ready, (Eligible \ running) \ {current})
    BY <1>1 DEF QueueInv, Applying
  <2>4. Eligible = {}
    <3>1. (Eligible \ running) \ {current} = {}
      BY <2>2, <2>3 DEF Lists
    <3>2. QED
      BY <1>1, <1>2, <3>1 DEF Eligible, Actions, None
  <2>5. Acyclic(deps) /\ Actions \ completed # {}
    BY <1>1, completed \in SUBSET Actions DEF LocationInv, TypeOK
  <2>6. PICK a \in Actions \ completed : deps[a] \cap (Actions \ completed) = {}
    BY <2>5 DEF Acyclic
  <2>7. deps[a] \subseteq Actions
    BY ConstantsAssumption DEF TypeOK
  <2>8. a \in Eligible
    BY <2>6, <2>7 DEF Eligible
  <2>9. QED
    BY <2>4, <2>8
<1>4. status' \in [Actions -> Status]
  BY <1>1 DEF TypeOK, Status
<1>5. TypeOK'
  <2>1. \A v : Count(status', v) \in Nat
    BY SubsetsFinite DEF Count
  <2>2. summary' \in Summary
    BY <1>1, <2>1, NumActionsAssumption DEF Summarize, Summary
  <2>3. QED
    BY <1>1, <1>4, <2>2 DEF TypeOK, Location
<1>6. LocationInv'
  BY <1>1, <1>2, <1>3 DEF LocationInv, Applying, Acyclic
<1>7. QueueInv'
  BY <1>1, <1>2 DEF QueueInv, Eligible, Applying
<1>8. \A a \in completed : status'[a] = status[a]
  BY <1>1 DEF TypeOK
<1>9. OutcomeInv'
  <2>1. \A a \in Actions \ completed : status'[a] = "Cancelled"
    BY <1>1 DEF OutcomeInv
  <2>2. QED
    BY <1>1, <1>8, <2>1 DEF OutcomeInv
<1>10. EventInv'
  BY <1>1, <1>8 DEF EventInv
<1>11. QED
  BY <1>5, <1>6, <1>7, <1>9, <1>10

LEMMA CancelPreserves == ExecutorInv /\ Cancel => ExecutorInv'
<1> SUFFICES ASSUME ExecutorInv, Cancel
             PROVE  ExecutorInv'
  OBVIOUS
<1> USE DEF ExecutorInv
<1>1. /\ UNCHANGED <<deps, pc, current, running, completed, failed, events, status,
                     attempts, summary, ready, remaining>>
      /\ cancelled' = TRUE /\ announced' = Announced
  BY DEF Cancel, graphVars, reportVars
<1>2. TypeOK'
  BY <1>1 DEF TypeOK, Announced
<1>3. LocationInv' /\ QueueInv'
  BY <1>1 DEF LocationInv, QueueInv, Applying, Acyclic, Eligible
<1>4. OutcomeInv' /\ EventInv'
  BY <1>1 DEF OutcomeInv, EventInv
<1>5. QED
  BY <1>2, <1>3, <1>4

-----------------------------------------------------------------------------
\* The theorems.

(* The invariant is inductive, so it holds in every reachable state.       *)
THEOREM ExecutorInvariant == Spec => []ExecutorInv
<1>1. ExecutorInv /\ [Next]_vars => ExecutorInv'
  <2> SUFFICES ASSUME ExecutorInv, [Next]_vars
               PROVE  ExecutorInv'
    OBVIOUS
  <2>1. CASE Preflight
    BY <2>1, PreflightPreserves
  <2>2. CASE Dispatch
    <3>1. CASE CheckPasses \/ StopDispatching
      BY <3>1, CheckPreserves
    <3>2. CASE Pop
      <4>1. pc = "Pop" /\ Head(ready) \notin completed
        BY <3>2, PoppedIsEligible DEF Pop, Eligible
      <4>2. \/ HasFailedDependency(Head(ready)) /\ Skip(Head(ready))
            \/ ~HasFailedDependency(Head(ready)) /\ Announce(Head(ready))
        BY <3>2, <4>1 DEF Pop
      <4>3. QED
        BY <4>1, <4>2, SkipPreserves, AnnouncePreserves
    <3>3. CASE Start
      BY <3>3, StartPreserves
    <3>4. CASE Finish
      BY <3>4, FinishPreserves
    <3>5. QED
      BY <2>2, <3>1, <3>2, <3>3, <3>4 DEF Dispatch
  <2>3. CASE Engine
    BY <2>3, RetryPreserves, CompletePreserves DEF Engine
  <2>4. CASE Cancel
    BY <2>4, CancelPreserves
  <2>5. CASE UNCHANGED vars
    <3>1. TypeOK'
      BY <2>5 DEF ExecutorInv, TypeOK, vars, graphVars, reportVars, cancelVars
    <3>2. LocationInv' /\ QueueInv'
      BY <2>5 DEF ExecutorInv, LocationInv, QueueInv, Applying, Acyclic, Eligible,
                  vars, graphVars, cancelVars
    <3>3. OutcomeInv' /\ EventInv'
      BY <2>5 DEF ExecutorInv, OutcomeInv, EventInv, vars, reportVars
    <3>4. QED
      BY <3>1, <3>2, <3>3 DEF ExecutorInv
  <2>6. QED
    BY <2>1, <2>2, <2>3, <2>4, <2>5 DEF Next, Returned
<1>2. QED
  BY InitEstablishes, <1>1, PTL DEF Spec

(* Type correctness.                                                       *)
THEOREM TypeCorrect == Spec => []TypeOK
<1>1. ExecutorInv => TypeOK
  BY DEF ExecutorInv
<1>2. QED
  BY ExecutorInvariant, <1>1, PTL

(* An action starts only after everything it depends on succeeded.         *)
THEOREM DependencyOrder == Spec => []DependenciesSucceedFirst
<1>1. ExecutorInv => DependenciesSucceedFirst
  <2> SUFFICES ASSUME ExecutorInv, NEW a \in Started, NEW d \in deps[a]
               PROVE  status[d] = "Succeeded"
    BY DEF DependenciesSucceedFirst
  <2> USE DEF ExecutorInv
  <2>1. a \in Actions /\ \E i \in 1..Len(events[a]) : events[a][i] = "ActionStarted"
    BY DEF Started
  <2>2. CASE a \in running
    <3>1. deps[a] \subseteq completed /\ deps[a] \cap failed = {}
      BY <2>2, <2>1 DEF QueueInv, OutcomeInv, Eligible, Actions, None
    <3>2. QED
      BY <3>1 DEF OutcomeInv
  <2>3. CASE a \in completed
    <3>1. status[a] # "SkippedDependencyFailed"
      <4> SUFFICES ASSUME status[a] = "SkippedDependencyFailed"
                   PROVE  FALSE
        OBVIOUS
      <4>1. events[a] = <<"ActionFinished">>
        BY <2>1, <2>3 DEF EventInv
      <4>2. QED
        BY <2>1, <4>1
    <3>2. deps[a] \subseteq completed /\ deps[a] \cap failed = {}
      BY <2>3, <3>1 DEF OutcomeInv
    <3>3. QED
      BY <3>2 DEF OutcomeInv
  <2>4. CASE a = current
    <3>1. events[a] = <<"ActionQueued">>
      BY <2>1, <2>4 DEF EventInv
    <3>2. QED
      BY <2>1, <3>1
  <2>5. CASE a \in Actions \ (completed \cup running \cup {current})
    <3>1. events[a] = <<>>
      BY <2>5 DEF EventInv
    <3>2. QED
      BY <2>1, <3>1
  <2>6. QED
    BY <2>1, <2>2, <2>3, <2>4, <2>5
<1>2. QED
  BY ExecutorInvariant, <1>1, PTL

(* An action is skipped exactly when something it depends on failed or was *)
(* skipped.                                                                *)
THEOREM FailureReachesDependents == Spec => []SkippedIffDependencyFailed
<1>1. ExecutorInv => SkippedIffDependencyFailed
  <2> SUFFICES ASSUME ExecutorInv, NEW a \in completed
               PROVE  status[a] = "SkippedDependencyFailed"
                        <=> \E d \in deps[a] : status[d] \in {"Failed", "SkippedDependencyFailed"}
    BY DEF SkippedIffDependencyFailed
  <2>1. \A d \in deps[a] : d \in completed
    BY DEF ExecutorInv, OutcomeInv
  <2>2. \A d \in deps[a] : d \in failed <=> status[d] \in {"Failed", "SkippedDependencyFailed"}
    BY <2>1 DEF ExecutorInv, OutcomeInv, Outcomes
  <2>3. QED
    BY <2>2 DEF ExecutorInv, OutcomeInv
<1>2. QED
  BY ExecutorInvariant, <1>1, PTL

(* Without a cancellation every action of a returned report has its own    *)
(* outcome.                                                                *)
THEOREM NothingLeftOver == Spec => []CompleteUnlessCancelled
<1>1. ExecutorInv => CompleteUnlessCancelled
  BY DEF ExecutorInv, LocationInv, OutcomeInv, CompleteUnlessCancelled
<1>2. QED
  BY ExecutorInvariant, <1>1, PTL

(* An action the executor must hold is in one place, once; every other     *)
(* action is in none.                                                      *)
THEOREM EveryActionHeldOnce == Spec => []HeldExactlyOnce
<1>1. ExecutorInv => HeldExactlyOnce
  <2> SUFFICES ASSUME ExecutorInv, Applying, NEW a \in Actions
               PROVE  Cardinality(QueuedAt(a)) + Cardinality({a} \cap running)
                        + Cardinality({a} \cap {current})
                        = IF deps[a] \subseteq completed /\ a \notin completed THEN 1 ELSE 0
    BY DEF HeldExactlyOnce
  <2>1. /\ a \in Eligible <=> deps[a] \subseteq completed /\ a \notin completed
        /\ a \in running => a \in Eligible
        /\ a = current => a \in Eligible \ running
        /\ Lists(ready, (Eligible \ running) \ {current})
    BY DEF ExecutorInv, QueueInv, Eligible, Actions, None
  <2>2. Cardinality({a} \cap running) = IF a \in running THEN 1 ELSE 0
    <3>1. {a} \cap running = IF a \in running THEN {a} ELSE {}
      OBVIOUS
    <3>2. QED
      BY <3>1, FS_EmptySet, FS_Singleton
  <2>3. Cardinality({a} \cap {current}) = IF a = current THEN 1 ELSE 0
    <3>1. {a} \cap {current} = IF a = current THEN {a} ELSE {}
      OBVIOUS
    <3>2. QED
      BY <3>1, FS_EmptySet, FS_Singleton
  <2>4. Cardinality(QueuedAt(a)) = IF a \in (Eligible \ running) \ {current} THEN 1 ELSE 0
    <3>1. CASE a \in (Eligible \ running) \ {current}
      <4>1. PICK k \in 1..Len(ready) : ready[k] = a
        BY <2>1, <3>1 DEF Lists
      <4>2. QueuedAt(a) = {k}
        BY <2>1, <4>1 DEF Lists, QueuedAt
      <4>3. QED
        BY <3>1, <4>2, FS_Singleton
    <3>2. CASE a \notin (Eligible \ running) \ {current}
      <4>1. QueuedAt(a) = {}
        BY <2>1, <3>2 DEF Lists, QueuedAt
      <4>2. QED
        BY <3>2, <4>1, FS_EmptySet
    <3>3. QED
      BY <3>1, <3>2
  <2>5. QED
    BY <2>1, <2>2, <2>3, <2>4
<1>2. QED
  BY ExecutorInvariant, <1>1, PTL

LEMMA SlotInvariant == Spec => []SlotInv
<1>1. Init => SlotInv
  <2> SUFFICES ASSUME Init
               PROVE  SlotInv
    OBVIOUS
  <2>1. running = {} /\ {current} \ {None} = {} /\ pc = "Validate"
    BY DEF Init
  <2>2. Cardinality(running) = 0 /\ Cardinality({current} \ {None}) = 0
    BY <2>1, FS_EmptySet
  <2>3. Cardinality(running) + Cardinality({current} \ {None}) <= MaxConcurrency
    BY <2>2, ConstantsAssumption
  <2>4. QED
    BY <2>1, <2>3 DEF SlotInv, SlotsRespectedAndUsed
<1>2. ExecutorInv /\ SlotInv /\ [Next]_vars => SlotInv'
  <2> SUFFICES ASSUME ExecutorInv, SlotInv, [Next]_vars
               PROVE  SlotInv'
    OBVIOUS
  <2>1. /\ running \in SUBSET Actions /\ IsFiniteSet(running)
        /\ Cardinality(running) \in Nat /\ MaxConcurrency \in Nat
    BY SubsetsFinite, ConstantsAssumption DEF ExecutorInv, TypeOK
  <2>2. Cardinality({None} \ {None}) = 0
    <3>1. {None} \ {None} = {}
      OBVIOUS
    <3>2. QED
      BY <3>1, FS_EmptySet
  <2>3. \A a \in Actions : Cardinality({a} \ {None}) = 1
    <3> TAKE a \in Actions
    <3>1. {a} \ {None} = {a}
      BY DEF Actions, None
    <3>2. QED
      BY <3>1, FS_Singleton
  <2>4. CASE Preflight
    <3>1. /\ pc' \in {"Capabilities", "Snapshot", "Refused", "Check"}
          /\ UNCHANGED <<current, running>>
      BY <2>4 DEF Preflight, Validate, QueryCapabilities, SnapshotFails, Begin
    <3>2. QED
      BY <3>1 DEF SlotInv, SlotsRespectedAndUsed
  <2>5. CASE CheckPasses
    BY <2>5 DEF CheckPasses, CanDispatch, SlotInv, SlotsRespectedAndUsed
  <2>6. CASE StopDispatching
    <3>1. /\ UNCHANGED <<current, running, ready, cancelled>>
          /\ pc' = "Await"
          /\ cancelled \/ ready = <<>> \/ ~(Cardinality(running) < MaxConcurrency)
      BY <2>6 DEF StopDispatching, CanDispatch, graphVars, cancelVars
    <3>2. current = None
      BY <2>6 DEF StopDispatching, ExecutorInv, LocationInv
    <3>3. Cardinality(running) <= MaxConcurrency
      BY <2>1, <2>2, <3>2 DEF SlotInv, SlotsRespectedAndUsed
    <3>4. QED
      BY <2>1, <3>1, <3>3 DEF SlotInv, SlotsRespectedAndUsed
  <2>7. CASE Pop
    <3>1. current = None /\ Cardinality(running) < MaxConcurrency
      BY <2>7 DEF Pop, ExecutorInv, LocationInv, SlotInv
    <3>2. /\ pc' \in {"Check", "Start"} /\ running' = running
          /\ current' = None \/ current' = Head(ready)
      BY <2>7, <3>1 DEF Pop, DropCompleted, Skip, Announce
    <3>3. Head(ready) \in Actions
      BY <2>7, PoppedIsEligible DEF Pop, Eligible
    <3>4. Cardinality({current'} \ {None}) \in 0..1
      BY <2>2, <2>3, <3>1, <3>2, <3>3
    <3>5. Cardinality(running') + Cardinality({current'} \ {None}) <= MaxConcurrency
      BY <2>1, <3>1, <3>2, <3>4
    <3>6. QED
      BY <3>2, <3>5 DEF SlotInv, SlotsRespectedAndUsed
  <2>8. CASE Start
    <3>1. /\ pc' = "Check" /\ current' = None /\ running' = running \cup {current}
          /\ current \in Actions \ running
      BY <2>8 DEF Start, ExecutorInv, LocationInv, QueueInv, Eligible
    <3>2. Cardinality(running') = Cardinality(running) + 1
      BY <2>1, <3>1, FS_AddElement
    <3>3. QED
      BY <2>1, <2>2, <2>3, <3>1, <3>2 DEF SlotInv, SlotsRespectedAndUsed
  <2>9. CASE Finish
    BY <2>9 DEF Finish, SlotInv, SlotsRespectedAndUsed
  <2>10. CASE Engine
    <3>1. PICK a \in Actions :
             \/ Retry(a)
             \/ \E outcome \in {"Succeeded", "Failed"} : Complete(a, outcome)
      BY <2>10 DEF Engine
    <3>2. CASE Retry(a)
      BY <3>2 DEF Retry, SlotInv, SlotsRespectedAndUsed, graphVars, cancelVars
    <3>3. CASE \E outcome \in {"Succeeded", "Failed"} : Complete(a, outcome)
      <4>1. /\ pc' = "Check" /\ current' = current /\ running' = running \ {a}
            /\ a \in running
        BY <3>3 DEF Complete
      <4>2. Cardinality(running') = Cardinality(running) - 1
        BY <2>1, <4>1, FS_RemoveElement
      <4>3. current = None
        BY <3>3 DEF Complete, ExecutorInv, LocationInv
      <4>4. QED
        BY <2>1, <2>2, <4>1, <4>2, <4>3 DEF SlotInv, SlotsRespectedAndUsed
    <3>4. QED
      BY <3>1, <3>2, <3>3
  <2>11. CASE Cancel
    BY <2>11 DEF Cancel, SlotInv, SlotsRespectedAndUsed, graphVars
  <2>12. CASE UNCHANGED vars
    BY <2>12 DEF vars, SlotInv, SlotsRespectedAndUsed, graphVars, cancelVars
  <2>13. QED
    BY <2>4, <2>5, <2>6, <2>7, <2>8, <2>9, <2>10, <2>11, <2>12
       DEF Next, Dispatch, Returned
<1>3. QED
  BY ExecutorInvariant, <1>1, <1>2, PTL DEF Spec

(* At most max_concurrency actions are in flight, and the executor awaits  *)
(* a completion only when it can start nothing.                            *)
THEOREM SlotsUsed == Spec => []SlotsRespectedAndUsed
<1>1. SlotInv => SlotsRespectedAndUsed
  BY DEF SlotInv
<1>2. QED
  BY SlotInvariant, <1>1, PTL

(* After the token is cancelled at most one more action is heard of.       *)
THEOREM LateDispatchBound == Spec => []AtMostOneLateDispatch
<1>1. Init => CancelInv
  BY DEF Init, CancelInv, AtMostOneLateDispatch
<1>2. ExecutorInv /\ CancelInv /\ [Next]_vars => CancelInv'
  <2> SUFFICES ASSUME ExecutorInv, CancelInv, [Next]_vars
               PROVE  CancelInv'
    OBVIOUS
  <2>1. CASE /\ UNCHANGED <<events, cancelVars>>
             /\ pc' = "Pop" /\ pc # "Pop" => ~cancelled
    BY <2>1 DEF CancelInv, AtMostOneLateDispatch, Announced, cancelVars
  <2>2. CASE Preflight \/ CheckPasses \/ StopDispatching \/ Finish \/ UNCHANGED vars
    <3>1. /\ UNCHANGED <<events, cancelVars>>
          /\ pc' = "Pop" /\ pc # "Pop" => ~cancelled
      BY <2>2 DEF Preflight, Validate, QueryCapabilities, SnapshotFails, Begin,
                  CheckPasses, StopDispatching, Finish, vars
    <3>2. QED
      BY <2>1, <3>1
  <2>3. CASE Pop
    <3> DEFINE a == Head(ready)
    <3>1. /\ a \in Actions \ completed
          /\ Skip(a) \/ Announce(a)
      BY <2>3, PoppedIsEligible DEF Pop, Eligible
    <3>2. /\ pc' # "Pop" /\ UNCHANGED cancelVars
          /\ \A b \in Actions \ {a} : events'[b] = events[b]
      BY <3>1 DEF Skip, Announce, Emit, ExecutorInv, TypeOK
    <3>3. cancelled => Announced = announced
      BY <2>3 DEF Pop, CancelInv
    <3>4. cancelled => Announced' \ announced' = {} \/ Announced' \ announced' = {a}
      BY <3>2, <3>3 DEF Announced, cancelVars
    <3>5. Cardinality({}) = 0 /\ Cardinality({a}) = 1
      BY FS_EmptySet, FS_Singleton
    <3>6. cancelled' => Cardinality(Announced' \ announced') <= 1
      BY <3>2, <3>4, <3>5 DEF cancelVars
    <3>7. QED
      BY <3>2, <3>6 DEF CancelInv, AtMostOneLateDispatch
  <2>4. CASE Start \/ Engine
    <3>1. PICK a \in Actions :
            /\ UNCHANGED cancelVars /\ pc' # "Pop"
            /\ events[a] # <<>> /\ events'[a] # <<>>
            /\ \A b \in Actions \ {a} : events'[b] = events[b]
      <4>1. CASE Start
        <5>1. current \in Actions /\ events[current] = <<"ActionQueued">>
          BY <4>1 DEF Start, ExecutorInv, LocationInv, QueueInv, EventInv, Eligible
        <5>2. /\ UNCHANGED cancelVars /\ pc' # "Pop"
              /\ events'[current] = <<"ActionQueued", "ActionStarted">>
              /\ \A b \in Actions \ {current} : events'[b] = events[b]
          BY <4>1, <5>1, EventSequences DEF Start, Emit, ExecutorInv, TypeOK
        <5>3. QED
          BY <5>1, <5>2
      <4>2. CASE Engine
        <5>1. PICK a \in running :
                 \/ Retry(a)
                 \/ \E outcome \in {"Succeeded", "Failed"} : Complete(a, outcome)
          BY <4>2 DEF Engine, Retry, Complete
        <5>2. a \in Actions /\ events[a] = <<"ActionQueued", "ActionStarted">>
          BY <5>1 DEF ExecutorInv, TypeOK, EventInv
        <5>3. /\ UNCHANGED cancelVars /\ pc' # "Pop"
              /\ \/ events' = events
                 \/ events' = [events EXCEPT ![a] = Append(@, "ActionFinished")]
          BY <5>1 DEF Retry, Complete, Emit
        <5>4. /\ events'[a] # <<>>
              /\ \A b \in Actions \ {a} : events'[b] = events[b]
          <6>1. CASE events' = events
            BY <5>2, <6>1
          <6>2. CASE events' = [events EXCEPT ![a] = Append(@, "ActionFinished")]
            <7>1. events'[a] = Append(<<"ActionQueued", "ActionStarted">>, "ActionFinished")
              BY <5>2, <6>2 DEF ExecutorInv, TypeOK
            <7>2. events'[a] = <<"ActionQueued", "ActionStarted", "ActionFinished">>
              BY <7>1, EventSequences
            <7>3. QED
              BY <5>2, <6>2, <7>2
          <6>3. QED
            BY <5>3, <6>1, <6>2
        <5>5. QED
          BY <5>2, <5>3, <5>4
      <4>3. QED
        BY <2>4, <4>1, <4>2
    <3>2. Announced' = Announced
      BY <3>1 DEF Announced
    <3>3. QED
      BY <3>1, <3>2 DEF CancelInv, AtMostOneLateDispatch, cancelVars
  <2>5. CASE Cancel
    <3>1. Announced' = announced'
      BY <2>5 DEF Cancel, Announced
    <3>2. Cardinality(Announced' \ announced') = 0
      BY <3>1, FS_EmptySet
    <3>3. QED
      BY <3>1, <3>2 DEF CancelInv, AtMostOneLateDispatch
  <2>6. QED
    BY <2>2, <2>3, <2>4, <2>5 DEF Next, Dispatch, Returned
<1>3. CancelInv => AtMostOneLateDispatch
  BY DEF CancelInv
<1>4. QED
  BY ExecutorInvariant, <1>1, <1>2, <1>3, PTL DEF Spec

LEMMA ReportInvariant == Spec => []ReportInv
<1>1. Init => ReportInv
  BY DEF Init, ReportInv
<1>2. ExecutorInv /\ ReportInv /\ [Next]_vars => ReportInv'
  <2> SUFFICES ASSUME ExecutorInv, ReportInv, [Next]_vars
               PROVE  ReportInv'
    OBVIOUS
  <2> USE DEF ReportInv
  <2>1. CASE Preflight \/ CheckPasses \/ StopDispatching \/ Cancel \/ UNCHANGED vars
    <3>1. /\ UNCHANGED <<running, completed, status, attempts, summary>>
          /\ pc' = "Done" => pc = "Done"
      BY <2>1 DEF Preflight, Validate, QueryCapabilities, SnapshotFails, Begin, CheckPasses,
                  StopDispatching, Cancel, vars, reportVars
    <3>2. QED
      BY <3>1 DEF Summarize, Count
  <2>2. CASE Pop
    <3> DEFINE a == Head(ready)
    <3>1. /\ a \in Actions \ (completed \cup running)
          /\ Skip(a) \/ Announce(a)
      BY <2>2, PoppedIsEligible DEF Pop, Eligible
    <3> HIDE DEF a
    <3>2. CASE Skip(a)
      <4>1. /\ pc' = "Check" /\ running' = running /\ attempts' = attempts
            /\ completed' = completed \cup {a}
            /\ status' = [status EXCEPT ![a] = "SkippedDependencyFailed"]
        BY <3>2 DEF Skip
      <4>2. status'[a] = "SkippedDependencyFailed" /\ \A b \in Actions \ {a} : status'[b] = status[b]
        BY <3>1, <4>1 DEF ExecutorInv, TypeOK
      <4>3. QED
        BY <3>1, <4>1, <4>2
    <3>3. CASE Announce(a)
      <4>1. pc' = "Start" /\ UNCHANGED <<running, completed, status, attempts>>
        BY <3>3 DEF Announce, reportVars
      <4>2. QED
        BY <4>1
    <3>4. QED
      BY <3>1, <3>2, <3>3
  <2>3. CASE Start
    <3>1. /\ pc' = "Check" /\ running' = running \cup {current}
          /\ attempts' = [attempts EXCEPT ![current] = 1]
          /\ UNCHANGED <<completed, status>>
      BY <2>3 DEF Start
    <3>2. current \in Actions \ completed
      BY <2>3 DEF Start, ExecutorInv, LocationInv, QueueInv, Eligible
    <3>3. status[current] = "Pending"
      BY <2>3, <3>2 DEF Start, ExecutorInv, OutcomeInv
    <3>4. attempts'[current] = 1 /\ \A b \in Actions \ {current} : attempts'[b] = attempts[b]
      BY <3>1, <3>2 DEF ExecutorInv, TypeOK
    <3>5. QED
      BY <3>1, <3>2, <3>3, <3>4
  <2>4. CASE Finish
    <3>1. /\ UNCHANGED <<running, completed, attempts>> /\ running = {}
          /\ status' = [a \in Actions |->
                          IF a \notin completed /\ status[a] = "Pending" THEN "Cancelled" ELSE status[a]]
          /\ summary' = Summarize(status')
      BY <2>4 DEF Finish, MarkRemainingCancelled
    <3>2. summary' = Summarize(status)'
      BY <3>1 DEF Summarize, Count
    <3>3. \A a \in Actions : status'[a] = "SkippedDependencyFailed" <=> status[a] = "SkippedDependencyFailed"
      BY <3>1
    <3>4. QED
      BY <3>1, <3>2, <3>3
  <2>5. CASE Engine
    <3>1. PICK a \in running :
             \/ Retry(a)
             \/ \E outcome \in {"Succeeded", "Failed"} : Complete(a, outcome)
      BY <2>5 DEF Engine, Retry, Complete
    <3>2. a \in Actions \ completed /\ status[a] = "Pending"
      BY <2>5, <3>1 DEF Engine, Retry, Complete, ExecutorInv, TypeOK, QueueInv, Eligible, OutcomeInv
    <3>3. attempts \in [Actions -> Nat] /\ MaxAttempts \in Nat
      BY ConstantsAssumption DEF ExecutorInv, TypeOK
    <3>4. CASE Retry(a)
      <4>1. /\ a \in PullImages /\ attempts[a] < MaxAttempts
            /\ attempts' = [attempts EXCEPT ![a] = @ + 1]
            /\ pc' = "Await" /\ UNCHANGED <<running, completed, status>>
        BY <3>4 DEF Retry
      <4>2. attempts'[a] = attempts[a] + 1 /\ \A b \in Actions \ {a} : attempts'[b] = attempts[b]
        BY <3>2, <3>3, <4>1
      <4>3. attempts[a] \in Nat
        BY <3>2, <3>3
      <4>4. QED
        BY <3>1, <3>2, <3>3, <4>1, <4>2, <4>3
    <3>5. CASE \E outcome \in {"Succeeded", "Failed"} : Complete(a, outcome)
      <4>1. PICK outcome \in {"Succeeded", "Failed"} : Complete(a, outcome)
        BY <3>5
      <4>2. /\ pc' = "Check" /\ running' = running \ {a} /\ completed' = completed \cup {a}
            /\ status' = [status EXCEPT ![a] = outcome] /\ attempts' = attempts
        BY <4>1 DEF Complete
      <4>3. status'[a] = outcome /\ \A b \in Actions \ {a} : status'[b] = status[b]
        BY <3>2, <4>2 DEF ExecutorInv, TypeOK
      <4>4. QED
        BY <3>1, <3>2, <4>1, <4>2, <4>3
    <3>6. QED
      BY <3>1, <3>4, <3>5
  <2>6. QED
    BY <2>1, <2>2, <2>3, <2>4, <2>5 DEF Next, Dispatch, Returned
<1>3. QED
  BY ExecutorInvariant, <1>1, <1>2, PTL DEF Spec

(* The event stream, the attempts and the summary of a returned report say *)
(* the same of every action as its status does.                            *)
THEOREM ReportAgreesWithEvents == Spec => []ReportMatchesEvents
<1>1. ExecutorInv /\ ReportInv => ReportMatchesEvents
  <2> SUFFICES ASSUME ExecutorInv, ReportInv, pc = "Done"
               PROVE  ReportMatchesEvents
    BY DEF ReportMatchesEvents
  <2>1. running = {} /\ current = None
    BY DEF ExecutorInv, LocationInv, Applying
  <2>2. \A a \in Actions :
          \/ a \in completed /\ status[a] \in Outcomes
          \/ a \notin completed /\ status[a] = "Cancelled"
    BY DEF ExecutorInv, OutcomeInv
  <2>3. \A counted \in {<<"Succeeded", summary.succeeded>>, <<"Failed", summary.failed>>,
                         <<"SkippedDependencyFailed", summary.skipped>>, <<"Cancelled", summary.cancelled>>} :
          counted[2] = Cardinality({a \in Actions : status[a] = counted[1]})
    BY DEF ReportInv, Summarize, Count
  <2>4. summary.total = NumActions
    BY DEF ReportInv, Summarize
  <2>5. ASSUME NEW a \in Actions
        PROVE  /\ status[a] \in {"Succeeded", "Failed"} =>
                    events[a] = <<"ActionQueued", "ActionStarted", "ActionFinished">>
               /\ status[a] = "SkippedDependencyFailed" => events[a] = <<"ActionFinished">>
               /\ status[a] = "Cancelled" => events[a] = <<>>
    BY <2>1, <2>2 DEF ExecutorInv, EventInv, None, Actions, Outcomes
  <2>6. ASSUME NEW a \in Actions
        PROVE  /\ attempts[a] = 0 <=> status[a] \in {"SkippedDependencyFailed", "Cancelled"}
               /\ attempts[a] > 1 => a \in PullImages /\ attempts[a] <= MaxAttempts
    BY <2>1, <2>2 DEF ReportInv, Outcomes
  <2>7. \A a \in Actions : status[a] \in {"Succeeded", "Failed", "SkippedDependencyFailed", "Cancelled"}
    BY <2>2 DEF Outcomes
  <2>8. QED
    BY <2>3, <2>4, <2>5, <2>6, <2>7 DEF ReportMatchesEvents
<1>2. QED
  BY ExecutorInvariant, ReportInvariant, <1>1, PTL

-----------------------------------------------------------------------------
(***************************************************************************)
(* The plan executor keeps the safety part of the promise made by          *)
(* PlanExecution: its initial states are initial states there, and each of *)
(* its steps is a step or a stutter there.                                 *)
(***************************************************************************)

(* The fate of every action, read off where the executor holds it.         *)
FateFacts ==
  \A a \in Actions :
    /\ a \in running => FateOf(a) = "running"
    /\ a \in completed =>
         FateOf(a) = CASE status[a] = "Succeeded" -> "succeeded"
                       [] status[a] = "Failed" -> "failed"
                       [] status[a] = "SkippedDependencyFailed" -> "skipped"
    /\ a \in Actions \ (completed \cup running) =>
         FateOf(a) = IF pc = "Done" THEN "cancelled" ELSE "waiting"

LEMMA FatesKnown == ExecutorInv => FateFacts
<1> SUFFICES ASSUME ExecutorInv, NEW a \in Actions
             PROVE  /\ a \in running => FateOf(a) = "running"
                    /\ a \in completed =>
                         FateOf(a) = CASE status[a] = "Succeeded" -> "succeeded"
                                       [] status[a] = "Failed" -> "failed"
                                       [] status[a] = "SkippedDependencyFailed" -> "skipped"
                    /\ a \in Actions \ (completed \cup running) =>
                         FateOf(a) = IF pc = "Done" THEN "cancelled" ELSE "waiting"
  BY DEF FateFacts
<1>1. CASE a \in running
  <2>1. a \notin completed /\ status[a] = "Pending"
    BY <1>1 DEF ExecutorInv, LocationInv, QueueInv, OutcomeInv, Eligible, Applying
  <2>2. QED
    BY <1>1, <2>1 DEF FateOf
<1>2. CASE a \in completed
  <2>1. a \notin running /\ status[a] \in Outcomes
    BY <1>2 DEF ExecutorInv, QueueInv, OutcomeInv, Eligible
  <2>2. QED
    BY <1>2, <2>1 DEF FateOf, Outcomes
<1>3. CASE a \in Actions \ (completed \cup running)
  BY <1>3 DEF FateOf, ExecutorInv, OutcomeInv
<1>4. QED
  BY <1>1, <1>2, <1>3

(* The same, one step later.                                               *)
LEMMA FatesKnownNext == ExecutorInv' => FateFacts'
<1>1. ExecutorInv => FateFacts
  BY FatesKnown
<1>2. QED
  BY <1>1, PTL

(* Nothing a caller sees has changed.                                      *)
LEMMA SameFates ==
  ASSUME UNCHANGED <<running, status>>
  PROVE  Fates' = Fates
BY DEF Fates, FateOf

(* A change of one action's state changes that action's fate alone.        *)
LEMMA OneFateChanges ==
  ASSUME NEW a \in Actions,
         \A b \in Actions \ {a} : status'[b] = status[b] /\ (b \in running' <=> b \in running)
  PROVE  Fates' = [Fates EXCEPT ![a] = FateOf(a)']
<1>1. \A b \in Actions \ {a} : FateOf(b)' = FateOf(b)
  BY DEF FateOf
<1>2. QED
  BY <1>1 DEF Fates

(* Running actions are those whose fate is to be running.                  *)
LEMMA SameRunning == ExecutorInv => Abstract!Running = running
<1> SUFFICES ASSUME ExecutorInv
             PROVE  Abstract!Running = running
  OBVIOUS
<1>1. \A a \in Actions : Fates[a] = "running" <=> a \in running
  BY FatesKnown DEF Fates, FateFacts, ExecutorInv, OutcomeInv, Outcomes
<1>2. running \subseteq Actions
  BY DEF ExecutorInv, TypeOK
<1>3. QED
  BY <1>1, <1>2 DEF Abstract!Running, Abstract!Actions, Actions

-----------------------------------------------------------------------------

LEMMA InitRefines == Init => Abstract!Init
<1> SUFFICES ASSUME Init
             PROVE  Abstract!Init
  OBVIOUS
<1>1. Fates = [a \in Actions |-> "waiting"]
  BY DEF Init, Fates, FateOf
<1>2. deps \in [Actions -> SUBSET Actions]
  BY ConstantsAssumption DEF Init
<1>3. PhaseOf = "offered" /\ cancelled = FALSE
  BY DEF Init, PhaseOf
<1>4. QED
  BY <1>1, <1>2, <1>3 DEF Abstract!Init, Abstract!Actions, Actions

LEMMA StartRefines ==
  ASSUME ExecutorInv, ExecutorInv', SlotInv, Start, NEW a \in Actions, a = current
  PROVE  Abstract!StartAction(a)
<1>1. /\ a \notin completed /\ a \notin running
      /\ deps[a] \subseteq completed
      /\ deps[a] \cap failed = {}
      /\ pc = "Start" /\ pc' = "Check"
      /\ running' = running \cup {a}
      /\ UNCHANGED <<deps, status, cancelled>>
  BY DEF Start, ExecutorInv, LocationInv, QueueInv, OutcomeInv, Eligible, cancelVars, Actions, None
<1>2. Fates[a] = "waiting"
  BY <1>1, FatesKnown DEF FateFacts, Fates
<1>3. \A d \in deps[a] : Fates[d] = "succeeded"
  <2> TAKE d \in deps[a]
  <2>1. d \in Actions /\ d \in completed /\ status[d] = "Succeeded"
    BY <1>1 DEF ExecutorInv, TypeOK, OutcomeInv
  <2>2. QED
    BY <2>1, FatesKnown DEF FateFacts, Fates
<1>4. Fates' = [Fates EXCEPT ![a] = "running"]
  <2>1. FateOf(a)' = "running"
    BY <1>1, FatesKnownNext DEF FateFacts
  <2>2. QED
    BY <1>1, <2>1, OneFateChanges
<1>5. PhaseOf = "applying" /\ PhaseOf' = "applying"
  BY <1>1 DEF PhaseOf
<1>6. Cardinality(running) < MaxConcurrency
  <2>1. {current} \ {None} = {a}
    BY DEF Actions, None
  <2>2. Cardinality({current} \ {None}) = 1
    BY <2>1, FS_Singleton
  <2>3. Cardinality(running) \in Nat
    BY SubsetsFinite DEF ExecutorInv, TypeOK
  <2>4. QED
    BY <2>2, <2>3, ConstantsAssumption DEF SlotInv, SlotsRespectedAndUsed
<1>7. Abstract!Cardinality(Abstract!Running) < MaxConcurrency
  BY <1>6, SameRunning DEF Cardinality, Abstract!Cardinality
<1>8. QED
  BY <1>1, <1>2, <1>3, <1>4, <1>5, <1>7 DEF Abstract!StartAction

LEMMA SkipRefines ==
  ASSUME ExecutorInv, ExecutorInv', NEW a \in Actions, pc = "Pop",
         a \in Eligible \ running, HasFailedDependency(a), Skip(a)
  PROVE  Abstract!SkipAction(a)
<1>1. /\ a \notin completed /\ a \notin running
      /\ deps[a] \subseteq completed
      /\ deps[a] \cap failed # {}
      /\ pc' = "Check"
      /\ completed' = completed \cup {a}
      /\ status' = [status EXCEPT ![a] = "SkippedDependencyFailed"]
      /\ UNCHANGED <<deps, running, cancelled>>
  BY DEF Skip, HasFailedDependency, Eligible, cancelVars
<1>2. Fates[a] = "waiting"
  BY <1>1, FatesKnown DEF FateFacts, Fates
<1>3. \A d \in deps[a] :
         /\ Fates[d] \in Abstract!Settled
         /\ d \in failed => Fates[d] \in {"failed", "skipped"}
  <2> TAKE d \in deps[a]
  <2>1. /\ d \in Actions /\ d \in completed /\ status[d] \in Outcomes
        /\ d \in failed => status[d] # "Succeeded"
    BY <1>1 DEF ExecutorInv, TypeOK, OutcomeInv
  <2>2. QED
    BY <2>1, FatesKnown DEF FateFacts, Fates, Outcomes, Abstract!Settled
<1>4. Fates' = [Fates EXCEPT ![a] = "skipped"]
  <2>1. status'[a] = "SkippedDependencyFailed" /\ \A b \in Actions \ {a} : status'[b] = status[b]
    BY <1>1 DEF ExecutorInv, TypeOK
  <2>2. FateOf(a)' = "skipped"
    BY <1>1, <2>1, FatesKnownNext DEF FateFacts
  <2>3. QED
    BY <1>1, <2>1, <2>2, OneFateChanges
<1>5. PhaseOf = "applying" /\ PhaseOf' = "applying"
  BY <1>1 DEF PhaseOf
<1>6. QED
  BY <1>1, <1>2, <1>3, <1>4, <1>5 DEF Abstract!SkipAction

LEMMA CompleteRefines ==
  ASSUME ExecutorInv, ExecutorInv', NEW a \in Actions,
         NEW outcome \in {"Succeeded", "Failed"}, Complete(a, outcome)
  PROVE  \E f \in Abstract!Settled : Abstract!EndAction(a, f)
<1> DEFINE f == IF outcome = "Succeeded" THEN "succeeded" ELSE "failed"
<1>1. /\ a \in running /\ running' = running \ {a}
      /\ completed' = completed \cup {a}
      /\ pc = "Await" /\ pc' = "Check"
      /\ status' = [status EXCEPT ![a] = outcome]
      /\ UNCHANGED <<deps, cancelled>>
  BY DEF Complete, cancelVars
<1>2. Fates[a] = "running"
  BY <1>1, FatesKnown DEF FateFacts, Fates
<1>3. Fates' = [Fates EXCEPT ![a] = f]
  <2>1. status'[a] = outcome /\ \A b \in Actions \ {a} : status'[b] = status[b]
    BY <1>1 DEF ExecutorInv, TypeOK
  <2>2. FateOf(a)' = f
    BY <1>1, <2>1, FatesKnownNext DEF FateFacts
  <2>3. QED
    BY <1>1, <2>1, <2>2, OneFateChanges
<1>4. PhaseOf = "applying" /\ PhaseOf' = "applying"
  BY <1>1 DEF PhaseOf
<1>5. f \in Abstract!Settled /\ f \in {"succeeded", "failed"}
  BY DEF Abstract!Settled
<1>6. Abstract!EndAction(a, f)
  BY <1>1, <1>2, <1>3, <1>4, <1>5 DEF Abstract!EndAction
<1>7. QED
  BY <1>5, <1>6

LEMMA FinishRefines ==
  ASSUME ExecutorInv, ExecutorInv', Finish
  PROVE  Abstract!Close
<1>1. /\ running = {} /\ pc = "Check" /\ pc' = "Done"
      /\ UNCHANGED <<deps, running, completed, cancelled>>
      /\ status' = [a \in Actions |->
                      IF a \notin completed /\ status[a] = "Pending" THEN "Cancelled"
                      ELSE status[a]]
  BY DEF Finish, MarkRemainingCancelled, cancelVars
<1>2. PhaseOf = "applying" /\ PhaseOf' = "closed"
  BY <1>1 DEF PhaseOf
<1>3. \A a \in Actions :
        /\ a \in completed => Fates[a] \in Abstract!Settled /\ Fates'[a] = Fates[a]
        /\ a \notin completed => Fates[a] = "waiting" /\ Fates'[a] = "cancelled"
  <2> TAKE a \in Actions
  <2>1. CASE a \in completed
    <3>1. status[a] \in Outcomes /\ status'[a] = status[a] /\ a \in completed'
      BY <1>1, <2>1 DEF ExecutorInv, OutcomeInv, TypeOK
    <3>2. Fates[a] = FateOf(a) /\ Fates'[a] = FateOf(a)'
      BY DEF Fates
    <3>3. FateOf(a) \in Abstract!Settled /\ FateOf(a)' = FateOf(a)
      BY <2>1, <3>1, FatesKnown, FatesKnownNext DEF FateFacts, Outcomes, Abstract!Settled
    <3>4. QED
      BY <2>1, <3>2, <3>3
  <2>2. CASE a \notin completed
    <3>1. a \notin completed' /\ a \notin running /\ a \notin running'
      BY <1>1, <2>2
    <3>2. QED
      BY <1>1, <2>2, <3>1, FatesKnown, FatesKnownNext DEF FateFacts, Fates
  <2>3. QED
    BY <2>1, <2>2
<1>4. Fates' = [a \in Actions |-> IF Fates[a] = "waiting" THEN "cancelled" ELSE Fates[a]]
  <2>1. Fates' = [a \in Actions |-> Fates'[a]]
    BY DEF Fates
  <2>2. QED
    BY <1>3, <2>1 DEF Abstract!Settled
<1>5. cancelled \/ \A a \in Actions : Fates[a] \in Abstract!Settled
  BY <1>1, <1>3 DEF ExecutorInv, LocationInv
<1>6. QED
  BY <1>1, <1>2, <1>4, <1>5, SameRunning DEF Abstract!Close, Abstract!Actions, Actions

-----------------------------------------------------------------------------

(* Every step of the executor is a step of PlanExecution or changes        *)
(* nothing a caller of it sees, whatever fails and whenever the token is   *)
(* cancelled.                                                              *)
THEOREM RuntimeImplementsPlanExecution ==
  Spec => Abstract!Init /\ [][Abstract!Next]_(Abstract!vars)
<1>1. ASSUME ExecutorInv, ExecutorInv', SlotInv, [Next]_vars
      PROVE  [Abstract!Next]_(Abstract!vars)
  <2>1. ASSUME UNCHANGED <<deps, running, status, cancelled>>, PhaseOf' = PhaseOf
        PROVE  UNCHANGED Abstract!vars
    BY <2>1, SameFates DEF Abstract!vars
  <2>2. CASE Preflight
    <3>1. /\ UNCHANGED <<deps, running, status, cancelled>>
          /\ PhaseOf = "offered" /\ PhaseOf' \in {"offered", "applying", "refused"}
      BY <2>2 DEF Preflight, Validate, QueryCapabilities, SnapshotFails, Begin,
                  PhaseOf, reportVars, cancelVars
    <3>2. Fates' = Fates
      BY <3>1, SameFates
    <3>3. QED
      BY <2>1, <3>1, <3>2 DEF Abstract!Next, Abstract!Decide
  <2>3. CASE CheckPasses \/ StopDispatching
    <3>1. UNCHANGED <<deps, running, status, cancelled>> /\ PhaseOf' = PhaseOf
      BY <2>3 DEF CheckPasses, StopDispatching, PhaseOf, reportVars, cancelVars
    <3>2. QED
      BY <2>1, <3>1
  <2>4. CASE Pop
    <3>1. PICK a \in Actions : a = Head(ready) /\ a \in Eligible \ running
      BY <1>1, <2>4, PoppedIsEligible DEF Pop, Eligible
    <3>2. a \notin completed
      BY <3>1 DEF Eligible
    <3>3. CASE HasFailedDependency(a)
      <4>1. pc = "Pop" /\ Skip(a)
        BY <2>4, <3>1, <3>2, <3>3 DEF Pop
      <4>2. Abstract!SkipAction(a)
        BY <1>1, <3>1, <3>3, <4>1, SkipRefines
      <4>3. QED
        BY <4>2 DEF Abstract!Next, Abstract!Actions, Actions
    <3>4. CASE ~HasFailedDependency(a)
      <4>1. pc = "Pop" /\ Announce(a)
        BY <2>4, <3>1, <3>2, <3>4 DEF Pop
      <4>2. UNCHANGED <<deps, running, status, cancelled>> /\ PhaseOf' = PhaseOf
        BY <4>1 DEF Announce, PhaseOf, reportVars, cancelVars
      <4>3. QED
        BY <2>1, <4>2
    <3>5. QED
      BY <3>3, <3>4
  <2>5. CASE Start
    <3>1. PICK a \in Actions : a = current
      BY <1>1, <2>5 DEF Start, ExecutorInv, LocationInv, QueueInv, Eligible
    <3>2. Abstract!StartAction(a)
      BY <1>1, <2>5, <3>1, StartRefines
    <3>3. QED
      BY <3>2 DEF Abstract!Next, Abstract!Actions, Actions
  <2>6. CASE Finish
    BY <1>1, <2>6, FinishRefines DEF Abstract!Next
  <2>7. CASE Engine
    <3>1. PICK a \in Actions :
             \/ Retry(a)
             \/ \E outcome \in {"Succeeded", "Failed"} : Complete(a, outcome)
      BY <2>7 DEF Engine
    <3>2. CASE Retry(a)
      <4>1. UNCHANGED <<deps, running, status, cancelled>> /\ PhaseOf' = PhaseOf
        BY <3>2 DEF Retry, PhaseOf, cancelVars
      <4>2. QED
        BY <2>1, <4>1
    <3>3. CASE \E outcome \in {"Succeeded", "Failed"} : Complete(a, outcome)
      <4>1. \E f \in Abstract!Settled : Abstract!EndAction(a, f)
        BY <1>1, <3>3, CompleteRefines
      <4>2. QED
        BY <4>1 DEF Abstract!Next, Abstract!Actions, Actions
    <3>4. QED
      BY <3>1, <3>2, <3>3
  <2>8. CASE Cancel
    <3>1. /\ UNCHANGED <<deps, running, status>> /\ PhaseOf' = PhaseOf
          /\ ~cancelled /\ cancelled' = TRUE /\ pc \notin {"Done", "Refused"}
      BY <2>8 DEF Cancel, PhaseOf, reportVars
    <3>2. PhaseOf \in {"offered", "applying"}
      BY <3>1 DEF PhaseOf
    <3>3. QED
      BY <3>1, <3>2, SameFates DEF Abstract!Next, Abstract!Ask
  <2>9. CASE UNCHANGED vars
    <3>1. UNCHANGED <<deps, running, status, cancelled>> /\ PhaseOf' = PhaseOf
      BY <2>9 DEF vars, PhaseOf, reportVars, cancelVars
    <3>2. QED
      BY <2>1, <3>1
  <2>10. QED
    BY <1>1, <2>2, <2>3, <2>4, <2>5, <2>6, <2>7, <2>8, <2>9 DEF Next, Dispatch, Returned
<1>2. QED
  BY ExecutorInvariant, SlotInvariant, InitRefines, <1>1, PTL DEF Spec
=============================================================================

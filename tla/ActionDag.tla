----------------------------- MODULE ActionDag -----------------------------
(***************************************************************************)
(* topological_action_order of crates/susun-planner: the check every plan  *)
(* passes when it is made and again before it is applied, and the order    *)
(* the executor takes its first actions from.                              *)
(*                                                                         *)
(* The walk over plan.actions and each turn of the sorting loop is a step. *)
(* A plan read from outside may map a key to a node of another id, depend  *)
(* on itself or on an action it does not have.                             *)
(***************************************************************************)
EXTENDS PlanGraph

CONSTANT Inputs  \* the values of node.dependencies a plan may have

Unknown == 0     \* an id that is no key of plan.actions

ASSUME InputsAssumption == Inputs \subseteq [Actions -> SUBSET (Actions \cup {Unknown})]

VARIABLES
  deps,        \* node.dependencies
  mislabelled, \* the keys whose node carries another id
  pc,          \* "Walk", "Sort", or the result: "Ok" or the error's name
  walked,      \* how many actions the validating walk has passed
  indegree,    \* dependencies not yet in the order
  dependents,  \* the actions that depend on each
  ready,       \* the queue of actions whose dependencies are all in the order
  ordered      \* the order so far

vars == <<deps, mislabelled, pc, walked, indegree, dependents, ready, ordered>>

\* A cycle is an InvariantViolation too, told apart by its detail.
Errors == {"InvariantViolation", "InvalidDependencyReference", "Cycle"}

Init ==
  /\ deps \in Inputs
  /\ mislabelled \in SUBSET Actions
  /\ pc = "Walk"
  /\ walked = 0
  /\ indegree = [a \in Actions |-> 0]
  /\ dependents = [a \in Actions |-> {}]
  /\ ready = <<>>
  /\ ordered = <<>>

(* The errors the walk may report for action `a`: a wrong id is found      *)
(* before its dependencies are looked at, in an order of the node's own.   *)
Complaints(a) ==
  IF a \in mislabelled THEN {"InvariantViolation"}
  ELSE (IF a \in deps[a] THEN {"InvariantViolation"} ELSE {})
         \cup (IF Unknown \in deps[a] THEN {"InvalidDependencyReference"} ELSE {})

(* The walk ends at the first action with something wrong.                 *)
Reject ==
  /\ pc = "Walk"
  /\ walked < NumActions
  /\ pc' \in Complaints(walked + 1)
  /\ UNCHANGED <<deps, mislabelled, walked, indegree, dependents, ready, ordered>>

(* The walk passes an action and enters it under its dependencies.         *)
Walk ==
  /\ pc = "Walk"
  /\ walked < NumActions
  /\ Complaints(walked + 1) = {}
  /\ walked' = walked + 1
  /\ indegree' = [indegree EXCEPT ![walked + 1] = Cardinality(deps[walked + 1])]
  /\ dependents' = [d \in Actions |-> IF d \in deps[walked + 1]
                                     THEN dependents[d] \cup {walked + 1} ELSE dependents[d]]
  /\ UNCHANGED <<deps, mislabelled, pc, ready, ordered>>

(* The actions without dependencies are ready first.                       *)
BeginSort ==
  /\ pc = "Walk"
  /\ walked = NumActions
  /\ pc' = "Sort"
  /\ ready' \in InPlanOrder({a \in Actions : indegree[a] = 0})
  /\ UNCHANGED <<deps, mislabelled, walked, indegree, dependents, ordered>>

(* Variant: a dependent is released with its first dependency.             *)
TakeEagerly ==
  /\ pc = "Sort"
  /\ ready # <<>>
  /\ LET a == Head(ready)
     IN  /\ ordered' = Append(ordered, a)
         /\ indegree' = CountDown(indegree, dependents[a])
         /\ \E released \in InPlanOrder({d \in dependents[a] :
                                           d \notin {ordered[i] : i \in 1..Len(ordered)}
                                             \cup {ready[i] : i \in 1..Len(ready)}}) :
              ready' = Tail(ready) \o released
  /\ UNCHANGED <<deps, mislabelled, pc, walked, dependents>>

(* The front of the queue joins the order and releases the dependents it   *)
(* was the last dependency of.                                             *)
Take ==
  /\ pc = "Sort"
  /\ ready # <<>>
  /\ LET a == Head(ready)
     IN  /\ ordered' = Append(ordered, a)
         /\ indegree' = CountDown(indegree, dependents[a])
         /\ \E released \in InPlanOrder({d \in dependents[a] : indegree'[d] = 0}) :
              ready' = Tail(ready) \o released
  /\ UNCHANGED <<deps, mislabelled, pc, walked, dependents>>

(* Variant: an order that misses actions is returned.                      *)
ConcludeOk ==
  /\ pc = "Sort"
  /\ ready = <<>>
  /\ pc' = "Ok"
  /\ UNCHANGED <<deps, mislabelled, walked, indegree, dependents, ready, ordered>>

(* The queue is empty: an order that misses actions means a cycle.         *)
Conclude ==
  /\ pc = "Sort"
  /\ ready = <<>>
  /\ pc' = IF Len(ordered) # NumActions THEN "Cycle" ELSE "Ok"
  /\ UNCHANGED <<deps, mislabelled, walked, indegree, dependents, ready, ordered>>

(* The function returned.                                                  *)
Returned ==
  /\ pc \in Errors \cup {"Ok"}
  /\ UNCHANGED vars

Sort == Reject \/ Walk \/ BeginSort \/ Take \/ Conclude

Next == Sort \/ Returned

Spec == Init /\ [][Next]_vars /\ WF_vars(Sort)

-----------------------------------------------------------------------------
TypeOK ==
  /\ deps \in Inputs
  /\ mislabelled \in SUBSET Actions
  /\ pc \in {"Walk", "Sort", "Ok"} \cup Errors
  /\ walked \in 0..NumActions
  /\ indegree \in [Actions -> Nat]
  /\ dependents \in [Actions -> SUBSET Actions]
  /\ ready \in Seq(Actions)
  /\ ordered \in Seq(Actions)

Taken == {ordered[i] : i \in 1..Len(ordered)}

(* Every node is filed under its own id and names only other actions of    *)
(* the plan.                                                               *)
WellFormed ==
  /\ mislabelled = {}
  /\ \A a \in Actions : deps[a] \subseteq Actions \ {a}

(* A plan is accepted exactly when it is well formed and has no cycle; a   *)
(* cycle is reported only where there is one.  Planning ends with this     *)
(* check and the executor relies on it to terminate.                       *)
AcceptsExactlyDags ==
  /\ pc = "Ok" <=> pc \in Errors \cup {"Ok"} /\ WellFormed /\ Acyclic(deps)
  /\ pc = "Cycle" => WellFormed /\ ~Acyclic(deps)

(* The order returned lists every action once, after all it depends on.    *)
OrderIsTopological ==
  pc = "Ok" =>
    /\ Lists(ordered, Actions)
    /\ \A i \in 1..Len(ordered) : deps[ordered[i]] \subseteq {ordered[j] : j \in 1..(i - 1)}

-----------------------------------------------------------------------------
\* The inductive invariant, in named parts.

(* What the walk has passed is well formed and entered.                    *)
WalkInv ==
  /\ \A a \in 1..walked : Complaints(a) = {}
  /\ pc \in Errors \ {"Cycle"} => walked < NumActions /\ pc \in Complaints(walked + 1)
  /\ pc \in {"Sort", "Ok", "Cycle"} => walked = NumActions
  /\ \A a \in Actions : dependents[a] = {d \in 1..walked : a \in deps[d]}
  /\ pc = "Walk" =>
       /\ ordered = <<>>
       /\ \A a \in 1..walked : indegree[a] = Cardinality(deps[a])

(* The counters count what is not in the order yet, the queue lists what   *)
(* may join it, and what is in it came after its dependencies.             *)
SortInv ==
  /\ Lists(ordered, Taken)
  /\ \A i \in 1..Len(ordered) : deps[ordered[i]] \subseteq {ordered[j] : j \in 1..(i - 1)}
  /\ pc = "Sort" =>
       /\ \A a \in Actions : indegree[a] = Cardinality(deps[a] \ Taken)
       /\ Lists(ready, {a \in Actions \ Taken : deps[a] \subseteq Taken})
  /\ pc = "Ok" => Taken = Actions
  /\ pc = "Cycle" =>
       /\ Taken # Actions
       /\ \A a \in Actions \ Taken : ~(deps[a] \subseteq Taken)

SortingInv == TypeOK /\ WalkInv /\ SortInv
=============================================================================

----------------------------- MODULE PlanGraph -----------------------------
(***************************************************************************)
(* The actions of an execution plan and the queues over them: what the     *)
(* planner's topological sort (ActionDag) and the executor (Runtime) have  *)
(* in common.                                                              *)
(***************************************************************************)
EXTENDS Naturals, Sequences, FiniteSets

CONSTANT NumActions  \* the plan's actions are 1..NumActions, numbered in the
                     \* insertion order of the IndexMap plan.actions

ASSUME NumActionsAssumption == NumActions \in Nat

Actions == 1..NumActions

(* A dependency graph without a cycle: every non-empty set of actions has  *)
(* one that depends on none of them.                                       *)
Acyclic(d) ==
  \A S \in SUBSET Actions : S # {} => \E a \in S : d[a] \cap S = {}

(* The sequence q lists the members of S, each once.                       *)
Lists(q, S) ==
  /\ q \in Seq(Actions)
  /\ \A i, j \in 1..Len(q) : q[i] = q[j] => i = j
  /\ S = {q[i] : i \in 1..Len(q)}

(* The one sequence that lists S in plan order.  The dependents of an      *)
(* action are collected while walking plan.actions, so both the sort and   *)
(* the executor release them in that order.                                *)
InPlanOrder(S) ==
  {s \in [1..Cardinality(S) -> S] :
     /\ \A i, j \in 1..Cardinality(S) : i < j => s[i] < s[j]
     /\ \A a \in S : \E i \in 1..Cardinality(S) : s[i] = a}

(* usize::saturating_sub(1).                                               *)
SaturatingPred(n) == IF n = 0 THEN 0 ELSE n - 1

(* The dependency counters once an action with these dependents is out of  *)
(* the way.                                                                *)
CountDown(counters, dependents) ==
  [d \in Actions |-> IF d \in dependents THEN SaturatingPred(counters[d]) ELSE counters[d]]
=============================================================================

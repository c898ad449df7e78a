---------------------------- MODULE ServiceGraph ----------------------------
(***************************************************************************)
(* build_graph of crates/susun-graph: the active services in the order     *)
(* they are planned in, or the finding that they depend on each other in a *)
(* circle.  Each turn of its loop is a step.                               *)
(*                                                                         *)
(* PlanGraph's numbers stand for services here, in project order.          *)
(***************************************************************************)
EXTENDS PlanGraph

VARIABLES
  stage,     \* "Idle", "Sort", or the result: "Order" or "Cycle"
  active,    \* the services selected
  needs,     \* for each service the services depends_on names
  indegree,  \* dependencies among the active ones not yet in the order
  ready,     \* the active services whose dependencies are all in the order
  order      \* the order so far

graphVars == <<stage, active, needs, indegree, ready, order>>

GraphInit ==
  /\ stage = "Idle"
  /\ active = {}
  /\ needs = [s \in Actions |-> {}]
  /\ indegree = [s \in Actions |-> 0]
  /\ ready = <<>>
  /\ order = <<>>

(* What of its dependencies counts: those that are active too.             *)
Counted(s) == needs[s] \cap active

Dependents(s) == {d \in active : s \in needs[d]}

(* The edges among the selected services are counted; a service that needs *)
(* none of them is ready.                                                  *)
BuildEdges(selected, dependencies) ==
  /\ stage = "Idle"
  /\ stage' = "Sort"
  /\ active' = selected
  /\ needs' = dependencies
  /\ indegree' = [s \in Actions |-> Cardinality(dependencies[s] \cap selected)]
  /\ ready' \in InPlanOrder({s \in selected : indegree'[s] = 0})
  /\ UNCHANGED order

(* Variant: a service is released with its first dependency.               *)
PlaceEagerly ==
  /\ stage = "Sort"
  /\ ready # <<>>
  /\ order' = Append(order, Head(ready))
  /\ indegree' = CountDown(indegree, Dependents(Head(ready)))
  /\ \E released \in InPlanOrder({d \in Dependents(Head(ready)) :
                                    d \notin {order[i] : i \in 1..Len(order)}
                                      \cup {ready[i] : i \in 1..Len(ready)}}) :
       ready' = Tail(ready) \o released
  /\ UNCHANGED <<stage, active, needs>>

(* The first ready service is placed and releases the ones it was the last *)
(* dependency of, in project order.                                        *)
Place ==
  /\ stage = "Sort"
  /\ ready # <<>>
  /\ order' = Append(order, Head(ready))
  /\ indegree' = CountDown(indegree, Dependents(Head(ready)))
  /\ \E released \in InPlanOrder({d \in Dependents(Head(ready)) : indegree'[d] = 0}) :
       ready' = Tail(ready) \o released
  /\ UNCHANGED <<stage, active, needs>>

(* Services that were never released are in a cycle.                       *)
Settle ==
  /\ stage = "Sort"
  /\ ready = <<>>
  /\ stage' = IF Len(order) # Cardinality(active) THEN "Cycle" ELSE "Order"
  /\ UNCHANGED <<active, needs, indegree, ready, order>>

GraphNext ==
  \/ \E selected \in SUBSET Actions, dependencies \in [Actions -> SUBSET Actions] :
       BuildEdges(selected, dependencies)
  \/ Place
  \/ Settle

(* The graph of any services.                                              *)
GraphSpec == GraphInit /\ [][GraphNext]_graphVars

-----------------------------------------------------------------------------
Placed == {order[i] : i \in 1..Len(order)}

ActiveAcyclic ==
  \A S \in SUBSET active : S # {} => \E s \in S : needs[s] \cap S = {}

(* The order the planner works through lists every active service once,    *)
(* after the active services it depends on, and there is one exactly when  *)
(* they do not depend on each other in a circle.  This is what the planner *)
(* assumes of a project (InGraphOrder).                                    *)
GraphOrdersServices ==
  /\ stage = "Order" =>
       /\ Lists(order, active)
       /\ \A i \in 1..Len(order) : Counted(order[i]) \subseteq {order[j] : j \in 1..(i - 1)}
  /\ stage = "Order" => ActiveAcyclic
  /\ stage = "Cycle" => ~ActiveAcyclic

-----------------------------------------------------------------------------
GraphTypeOK ==
  /\ stage \in {"Idle", "Sort", "Order", "Cycle"}
  /\ active \in SUBSET Actions
  /\ needs \in [Actions -> SUBSET Actions]
  /\ indegree \in [Actions -> Nat]
  /\ ready \in Seq(Actions)
  /\ order \in Seq(Actions)

(* The counters count what is not placed yet, and what waits in the queue  *)
(* is what can be placed.                                                  *)
PlacingInv ==
  /\ Lists(order, Placed)
  /\ Placed \subseteq active
  /\ stage = "Idle" => order = <<>>
  /\ \A i \in 1..Len(order) : Counted(order[i]) \subseteq {order[j] : j \in 1..(i - 1)}
  /\ stage = "Sort" =>
       /\ \A s \in active : indegree[s] = Cardinality(Counted(s) \ Placed)
       /\ Lists(ready, {s \in active \ Placed : Counted(s) \subseteq Placed})
  /\ stage = "Order" => Placed = active
  /\ stage = "Cycle" =>
       /\ Placed # active
       /\ \A s \in active \ Placed : ~(Counted(s) \subseteq Placed)

GraphInv == GraphTypeOK /\ PlacingInv
=============================================================================

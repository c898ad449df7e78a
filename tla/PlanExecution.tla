--------------------------- MODULE PlanExecution ---------------------------
(***************************************************************************)
(* What applying a plan promises to a caller who sees each action's fate   *)
(* and not the executor's queues: an action runs once, only after all it   *)
(* depends on succeeded; it is skipped once all it depends on is settled   *)
(* and something of it did not succeed; it is left out only when the       *)
(* caller asked to stop.                                                   *)
(***************************************************************************)
EXTENDS Naturals, FiniteSets

CONSTANTS
  NumActions,      \* the plan's actions are 1..NumActions
  MaxConcurrency   \* how many of them may run at once

Actions == 1..NumActions

VARIABLES
  deps,     \* what each action depends on
  fate,     \* what became of each action so far
  asked,    \* the caller asked to stop
  phase     \* "offered", "applying", "closed" (a report) or "refused" (an error)

vars == <<deps, fate, asked, phase>>

Settled == {"succeeded", "failed", "skipped"}
Fate == {"waiting", "running", "cancelled"} \cup Settled

Running == {a \in Actions : fate[a] = "running"}

Init ==
  /\ deps \in [Actions -> SUBSET Actions]
  /\ fate = [a \in Actions |-> "waiting"]
  /\ asked = FALSE
  /\ phase = "offered"

(* The plan is accepted, or refused before anything was done.              *)
Decide ==
  /\ phase = "offered"
  /\ phase' \in {"applying", "refused"}
  /\ UNCHANGED <<deps, fate, asked>>

(* An action starts when everything it depends on succeeded.               *)
StartAction(a) ==
  /\ phase = "applying"
  /\ fate[a] = "waiting"
  /\ \A d \in deps[a] : fate[d] = "succeeded"
  /\ Cardinality(Running) < MaxConcurrency
  /\ fate' = [fate EXCEPT ![a] = "running"]
  /\ UNCHANGED <<deps, asked, phase>>

EndAction(a, f) ==
  /\ fate[a] = "running"
  /\ f \in {"succeeded", "failed"}
  /\ fate' = [fate EXCEPT ![a] = f]
  /\ UNCHANGED <<deps, asked, phase>>

(* An action is skipped when everything it depends on is settled and some  *)
(* of it did not succeed.                                                  *)
SkipAction(a) ==
  /\ phase = "applying"
  /\ fate[a] = "waiting"
  /\ \A d \in deps[a] : fate[d] \in Settled
  /\ \E d \in deps[a] : fate[d] \in {"failed", "skipped"}
  /\ fate' = [fate EXCEPT ![a] = "skipped"]
  /\ UNCHANGED <<deps, asked, phase>>

Ask ==
  /\ ~asked
  /\ phase \in {"offered", "applying"}
  /\ asked' = TRUE
  /\ UNCHANGED <<deps, fate, phase>>

(* The report is closed when nothing runs.  Something may be left waiting  *)
(* only when the caller asked to stop, and is then cancelled.              *)
Close ==
  /\ phase = "applying"
  /\ Running = {}
  /\ asked \/ \A a \in Actions : fate[a] \in Settled
  /\ phase' = "closed"
  /\ fate' = [a \in Actions |-> IF fate[a] = "waiting" THEN "cancelled" ELSE fate[a]]
  /\ UNCHANGED <<deps, asked>>

Next ==
  \/ Decide \/ Ask \/ Close
  \/ \E a \in Actions : StartAction(a) \/ SkipAction(a) \/ \E f \in Settled : EndAction(a, f)

(* A plan is always decided on and, once accepted, brought to its end.     *)
Fairness ==
  /\ WF_vars(Decide)
  /\ WF_vars(Close \/ \E a \in Actions :
               StartAction(a) \/ SkipAction(a) \/ \E f \in Settled : EndAction(a, f))

Spec == Init /\ [][Next]_vars /\ Fairness
=============================================================================

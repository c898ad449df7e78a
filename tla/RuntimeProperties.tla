------------------------- MODULE RuntimeProperties -------------------------
(***************************************************************************)
(* What must hold of the plan executor modelled by Runtime.                *)
(***************************************************************************)
EXTENDS Runtime

QueuedAt(a) == {i \in 1..Len(ready) : ready[i] = a}

Started == {a \in Actions : \E i \in 1..Len(events[a]) : events[a][i] = "ActionStarted"}

(* The actions whose dependencies are all completed and that are not       *)
(* themselves: the ones the executor must hold somewhere.                  *)
Eligible == {a \in Actions \ completed : deps[a] \subseteq completed}

Applying == pc \in {"Check", "Pop", "Start", "Await"}

Outcomes == {"Succeeded", "Failed", "SkippedDependencyFailed"}

(* Every variable has its type.                                            *)
TypeOK ==
  /\ deps \in Plans
  /\ pc \in Location
  /\ current \in Actions \cup {None}
  /\ ready \in Seq(Actions)
  /\ running \in SUBSET Actions
  /\ remaining \in [Actions -> Nat]
  /\ completed \in SUBSET Actions
  /\ failed \in SUBSET completed
  /\ status \in [Actions -> Status]
  /\ attempts \in [Actions -> Nat]
  /\ summary \in Summary
  /\ events \in [Actions -> Seq(Event)]
  /\ cancelled \in BOOLEAN
  /\ announced \in SUBSET Actions

(* An action is started only after everything it depends on succeeded,     *)
(* whatever the concurrency and however failures, skips and completions    *)
(* interleave (Runtime::apply, the dispatch loop and release_dependents).  *)
DependenciesSucceedFirst ==
  \A a \in Started : \A d \in deps[a] : status[d] = "Succeeded"

(* An action is skipped exactly when something it depends on failed or was *)
(* skipped: failure reaches every transitive dependent, and nobody else    *)
(* (has_failed_dependency reads `failed`, which the skip itself extends).  *)
SkippedIffDependencyFailed ==
  \A a \in completed :
    status[a] = "SkippedDependencyFailed"
      <=> \E d \in deps[a] : status[d] \in {"Failed", "SkippedDependencyFailed"}

(* While a plan is applied, an action whose dependencies are all completed *)
(* and that is not completed itself is in exactly one place: once in the   *)
(* queue, or being started, or running.  Every other action is in none.    *)
(* A lost release (nothing would ever start the action) or a double one    *)
(* (it would run twice) breaks this.                                       *)
HeldExactlyOnce ==
  Applying =>
    \A a \in Actions :
      Cardinality(QueuedAt(a)) + Cardinality({a} \cap running) + Cardinality({a} \cap {current})
        = IF deps[a] \subseteq completed /\ a \notin completed THEN 1 ELSE 0

(* Unless the token was cancelled, apply returns a report in which every   *)
(* action has its own outcome: none is left over and marked Cancelled      *)
(* because its release was lost.                                           *)
CompleteUnlessCancelled ==
  pc = "Done" /\ ~cancelled =>
    \A a \in Actions : status[a] \in Outcomes

(* The event stream and the report tell the same story: an action that ran *)
(* has Queued, Started and Finished, one skipped has Finished alone, one   *)
(* cancelled was never heard of; and only a pull was tried more than once, *)
(* at most max_attempts times, even when that is 0.  The counters of the   *)
(* summary are the numbers of those actions, which the facade demands of a *)
(* report before it shows it (validate_runtime_operation_summary).         *)
ReportMatchesEvents ==
  pc = "Done" =>
    /\ \A counted \in {<<"Succeeded", summary.succeeded>>, <<"Failed", summary.failed>>,
                       <<"SkippedDependencyFailed", summary.skipped>>, <<"Cancelled", summary.cancelled>>} :
         counted[2] = Cardinality({a \in Actions : status[a] = counted[1]})
    /\ summary.total = NumActions
    /\ \A a \in Actions :
      /\ events[a] = CASE status[a] \in {"Succeeded", "Failed"} ->
                            <<"ActionQueued", "ActionStarted", "ActionFinished">>
                       [] status[a] = "SkippedDependencyFailed" -> <<"ActionFinished">>
                       [] status[a] = "Cancelled" -> <<>>
                       [] OTHER -> <<"NoEvent">>
      /\ attempts[a] = 0 <=> status[a] \in {"SkippedDependencyFailed", "Cancelled"}
      /\ attempts[a] > 1 => a \in PullImages /\ attempts[a] <= MaxAttempts

(* After the token is cancelled at most one more action is heard of: the   *)
(* one the loop was popping when it had already read the token.            *)
AtMostOneLateDispatch ==
  cancelled => Cardinality(Announced \ announced) <= 1

(* No more actions are in flight than max_concurrency, counting the one    *)
(* about to start; and the executor does not wait for a completion while   *)
(* it could start something.                                               *)
SlotsRespectedAndUsed ==
  /\ Cardinality(running) + Cardinality({current} \ {None}) <= MaxConcurrency
  /\ pc = "Await" /\ ~cancelled =>
       Cardinality(running) = MaxConcurrency \/ ready = <<>>

-----------------------------------------------------------------------------
\* The inductive invariant behind these, in named parts.

(* The location decides what else may be in progress.                      *)
LocationInv ==
  /\ current # None <=> pc = "Start"
  /\ ~Applying => running = {}
  /\ pc \in {"Validate", "Capabilities", "Snapshot", "Refused"} => completed = {}
  /\ pc \notin {"Validate", "Refused"} => Acyclic(deps)
  /\ pc = "Pop" => ready # <<>>
  /\ pc = "Done" /\ ~cancelled => completed = Actions

(* The dependency counters are right, and the queue lists, once each, the  *)
(* eligible actions that are neither running nor being started.            *)
QueueInv ==
  /\ running \subseteq Eligible
  /\ current # None => current \in Eligible \ running
  /\ Applying =>
       /\ \A a \in Actions : remaining[a] = Cardinality(deps[a] \ completed)
       /\ Lists(ready, (Eligible \ running) \ {current})

(* `failed` is what the statuses say, failure reaches exactly the          *)
(* dependents, and nothing in flight depends on a failure.                 *)
OutcomeInv ==
  /\ \A a \in completed :
       /\ deps[a] \subseteq completed
       /\ status[a] \in Outcomes
       /\ status[a] = "Succeeded" <=> a \notin failed
       /\ status[a] = "SkippedDependencyFailed" <=> deps[a] \cap failed # {}
  /\ \A a \in Actions \ completed :
       status[a] = IF pc = "Done" THEN "Cancelled" ELSE "Pending"
  /\ \A a \in running \cup {current} : a # None => deps[a] \cap failed = {}

(* What was emitted for each action follows from where it is.              *)
EventInv ==
  \A a \in Actions :
    /\ a \in running => events[a] = <<"ActionQueued", "ActionStarted">>
    /\ a = current => events[a] = <<"ActionQueued">>
    /\ a \in Actions \ (completed \cup running \cup {current}) => events[a] = <<>>
    /\ a \in completed =>
         events[a] = IF status[a] = "SkippedDependencyFailed" THEN <<"ActionFinished">>
                     ELSE <<"ActionQueued", "ActionStarted", "ActionFinished">>

(* Together they are inductive: every action preserves them                *)
(* (RuntimeProofs.tla).                                                    *)
ExecutorInv == TypeOK /\ LocationInv /\ QueueInv /\ OutcomeInv /\ EventInv

(* A slot is free when the loop is about to pop, and none is left unused   *)
(* when it awaits.                                                         *)
SlotInv ==
  /\ SlotsRespectedAndUsed
  /\ pc = "Pop" => Cardinality(running) < MaxConcurrency

(* Once cancelled, an action can be announced only by the pop that already *)
(* read the token.                                                         *)
CancelInv ==
  /\ AtMostOneLateDispatch
  /\ pc = "Pop" /\ cancelled => Announced = announced

(* How often an action was tried follows from where it is, and the summary *)
(* counts the statuses once the report is closed.                          *)
ReportInv ==
  /\ \A a \in Actions :
       /\ attempts[a] = 0 <=> \/ a \notin completed \cup running
                              \/ status[a] = "SkippedDependencyFailed"
       /\ attempts[a] > 1 => a \in PullImages /\ attempts[a] <= MaxAttempts
  /\ pc = "Done" => summary = Summarize(status)

(* Everything the proofs rest on.                                          *)
InductiveInv == ExecutorInv /\ SlotInv /\ CancelInv /\ ReportInv

-----------------------------------------------------------------------------
\* Runtime implements PlanExecution.

(* What became of an action, read off the executor's state.                *)
FateOf(a) ==
  CASE a \in running -> "running"
    [] status[a] = "Succeeded" -> "succeeded"
    [] status[a] = "Failed" -> "failed"
    [] status[a] = "SkippedDependencyFailed" -> "skipped"
    [] status[a] = "Cancelled" -> "cancelled"
    [] OTHER -> "waiting"

PhaseOf ==
  CASE pc \in {"Validate", "Capabilities", "Snapshot"} -> "offered"
    [] pc = "Done" -> "closed"
    [] pc = "Refused" -> "refused"
    [] OTHER -> "applying"

Fates == [a \in Actions |-> FateOf(a)]

Abstract == INSTANCE PlanExecution
              WITH fate <- Fates,
                   asked <- cancelled,
                   phase <- PhaseOf

(* The executor implements the promise: each of its steps is one of        *)
(* PlanExecution or changes nothing there, and it keeps its liveness: it   *)
(* always comes to an end, cancelled or not, whatever fails.               *)
ImplementsPlanExecution == Abstract!Spec
=============================================================================

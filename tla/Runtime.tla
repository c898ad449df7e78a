------------------------------ MODULE Runtime ------------------------------
(***************************************************************************)
(* The plan executor of crates/susun-runtime: Runtime::apply_cancellable.  *)
(*                                                                         *)
(* One task runs the executor loop.  It dispatches ready actions while it  *)
(* has a free slot, then waits for one of the running actions, records its *)
(* result and releases its dependents.  The actions themselves are futures *)
(* of a FuturesUnordered: they are polled, so they make progress the       *)
(* executor can see, only while the loop awaits the next completion.  Any  *)
(* other thread may cancel the token at any moment.                        *)
(*                                                                         *)
(* What an action asks of the engine is abstracted to how it ends: it      *)
(* succeeds, it fails, or (image pulls) it fails in a way that is retried. *)
(***************************************************************************)
EXTENDS PlanGraph

CONSTANTS
  Plans,           \* the dependency functions a plan may have
  PullImages,      \* the actions of kind PullImage, the only ones retried
  MaxConcurrency,  \* RuntimeOptions.max_concurrency, a NonZeroUsize
  MaxAttempts      \* RetryPolicy.max_attempts, which may be 0

\* What the types of the code guarantee about a plan and the options.
ASSUME ConstantsAssumption ==
  /\ Plans \subseteq [Actions -> SUBSET Actions]
  /\ PullImages \subseteq Actions
  /\ MaxConcurrency \in Nat \ {0}
  /\ MaxAttempts \in Nat

None == 0   \* no action is being dispatched

\* ActionStatus.  The executor never assigns its Ready and Running values.
Status == {"Pending", "Succeeded", "Failed", "SkippedDependencyFailed", "Cancelled"}

\* The RuntimeEvents that name an action and order its execution.
Event == {"ActionQueued", "ActionStarted", "ActionFinished"}

\* Where the executor is between two awaits.
Location == {"Validate", "Capabilities", "Snapshot",
             "Check",    \* head of the dispatch loop, about to read the token
             "Pop",      \* the token was clear: about to pop a ready action
             "Start",    \* ActionQueued emitted: about to start `current`
             "Await",    \* awaiting running.next()
             "Done",     \* the report is returned
             "Refused"}  \* apply returned an error and no report

Summary == [total : Nat, succeeded : Nat, failed : Nat, skipped : Nat, cancelled : Nat]

VARIABLES
  deps,       \* node.dependencies of every action of the plan being applied
  pc,         \* the executor's location
  current,    \* the action popped and announced, not yet started
  ready,      \* the VecDeque of actions whose dependencies are all completed
  running,    \* the actions in the FuturesUnordered
  remaining,  \* graph.remaining_dependencies
  completed,  \* actions with a recorded outcome
  failed,     \* actions that failed or were skipped
  status,     \* report.actions[_].status
  attempts,   \* how often the action was tried, report.actions[_].attempts
  summary,    \* report.summary
  events,     \* the events emitted for each action, in order
  cancelled,  \* the token
  announced   \* history: the actions with an event when the token was cancelled

graphVars  == <<ready, remaining>>
reportVars == <<status, attempts, summary>>
cancelVars == <<cancelled, announced>>
vars == <<deps, pc, current, running, completed, failed, events,
          graphVars, reportVars, cancelVars>>

-----------------------------------------------------------------------------
\* The definitions the actions use.

Count(st, value) == Cardinality({a \in Actions : st[a] = value})

(* ExecutionReport::refresh_summary.                                         *)
Summarize(st) ==
  [total |-> NumActions, succeeded |-> Count(st, "Succeeded"),
   failed |-> Count(st, "Failed"), skipped |-> Count(st, "SkippedDependencyFailed"),
   cancelled |-> Count(st, "Cancelled")]

Announced == {a \in Actions : events[a] # <<>>}

Emit(a, name) == events' = [events EXCEPT ![a] = Append(@, name)]

(* graph.dependents.                                                         *)
Dependents(a) == {d \in Actions : a \in deps[d]}

(* Variant: only the first released dependent is pushed.                     *)
ReleaseOnlyFirst(a, queue) ==
  /\ remaining' = CountDown(remaining, Dependents(a))
  /\ \E order \in InPlanOrder({d \in Dependents(a) \ completed' : remaining'[d] = 0}) :
       ready' = queue \o SubSeq(order, 1, IF order = <<>> THEN 0 ELSE 1)

(* release_dependents: `a` was completed.  Each dependent has one dependency *)
(* less to wait for and joins the back of the queue when none is left.       *)
Release(a, queue) ==
  /\ remaining' = CountDown(remaining, Dependents(a))
  /\ \E order \in InPlanOrder({d \in Dependents(a) \ completed' : remaining'[d] = 0}) :
       ready' = queue \o order

-----------------------------------------------------------------------------
\* Initial states: apply is called with any plan.  (A token cancelled before
\* the call is a Cancel step at "Validate".)

Init ==
  /\ deps \in Plans
  /\ pc = "Validate"
  /\ current = None
  /\ ready = <<>>
  /\ running = {}
  /\ remaining = [a \in Actions |-> 0]
  /\ completed = {}
  /\ failed = {}
  /\ status = [a \in Actions |-> "Pending"]
  /\ attempts = [a \in Actions |-> 0]
  /\ summary = Summarize(status)
  /\ events = [a \in Actions |-> <<>>]
  /\ cancelled = FALSE
  /\ announced = {}

-----------------------------------------------------------------------------
\* The executor.

(* validate_plan_for_execution: an empty or cyclic plan is refused.  The     *)
(* sort that finds the cycle, and the order it returns, are in ActionDag.    *)
(* The schema version is not modelled: any plan may be refused for it.       *)
Validate ==
  /\ pc = "Validate"
  /\ pc' \in {"Refused"} \cup (IF Actions # {} /\ Acyclic(deps) THEN {"Capabilities"} ELSE {})
  /\ UNCHANGED <<deps, current, running, completed, failed, events,
                 graphVars, reportVars, cancelVars>>

(* engine.capabilities(): its answer is not used, an error ends the call.    *)
QueryCapabilities ==
  /\ pc = "Capabilities"
  /\ pc' \in {"Snapshot", "Refused"}
  /\ UNCHANGED <<deps, current, running, completed, failed, events,
                 graphVars, reportVars, cancelVars>>

(* engine.snapshot() fails.                                                  *)
SnapshotFails ==
  /\ pc = "Snapshot"
  /\ pc' = "Refused"
  /\ UNCHANGED <<deps, current, running, completed, failed, events,
                 graphVars, reportVars, cancelVars>>

(* engine.snapshot() answers: RuntimeGraph::new, and the actions without     *)
(* dependencies, in topological order, are ready.                            *)
Begin ==
  /\ pc = "Snapshot"
  /\ pc' = "Check"
  /\ remaining' = [a \in Actions |-> Cardinality(deps[a])]
  /\ ready' \in InPlanOrder({a \in Actions : remaining'[a] = 0})
  /\ UNCHANGED <<deps, current, running, completed, failed, events,
                 reportVars, cancelVars>>

CanDispatch == Cardinality(running) < MaxConcurrency /\ ready # <<>>

(* Variant: the loop condition does not read the token.                      *)
CheckIgnoringToken ==
  /\ pc = "Check"
  /\ CanDispatch
  /\ pc' = "Pop"
  /\ UNCHANGED <<deps, current, running, completed, failed, events,
                 graphVars, reportVars, cancelVars>>

(* Variant: an off-by-one in the loop condition, one action too many.        *)
CheckOneMore ==
  /\ pc = "Check"
  /\ ~cancelled
  /\ Cardinality(running) <= MaxConcurrency /\ ready # <<>>
  /\ pc' = "Pop"
  /\ UNCHANGED <<deps, current, running, completed, failed, events,
                 graphVars, reportVars, cancelVars>>

(* The dispatch loop's condition holds.  The token is read here and nowhere  *)
(* else.                                                                     *)
CheckPasses ==
  /\ pc = "Check"
  /\ ~cancelled
  /\ CanDispatch
  /\ pc' = "Pop"
  /\ UNCHANGED <<deps, current, running, completed, failed, events,
                 graphVars, reportVars, cancelVars>>

(* The dispatch loop ends while actions are running.                         *)
StopDispatching ==
  /\ pc = "Check"
  /\ cancelled \/ ~CanDispatch
  /\ running # {}
  /\ pc' = "Await"
  /\ UNCHANGED <<deps, current, running, completed, failed, events,
                 graphVars, reportVars, cancelVars>>

(* has_failed_dependency.                                                    *)
HasFailedDependency(a) == deps[a] \cap failed # {}

(* Variant: a skipped action is not remembered as failed.                    *)
SkipWithoutFailing(a) ==
  /\ pc' = "Check"
  /\ status' = [status EXCEPT ![a] = "SkippedDependencyFailed"]
  /\ completed' = completed \cup {a}
  /\ Emit(a, "ActionFinished")
  /\ Release(a, Tail(ready))
  /\ UNCHANGED <<deps, current, running, failed, attempts, summary, cancelVars>>

(* Variant: an action with a failed dependency goes back to the queue.       *)
SkipByRequeueing(a) ==
  /\ pc' = "Check"
  /\ ready' = Append(Tail(ready), a)
  /\ UNCHANGED <<deps, current, running, remaining, completed, failed, events,
                 reportVars, cancelVars>>

(* The popped action has a failed dependency: it is skipped, and its         *)
(* dependents see it as failed.                                              *)
Skip(a) ==
  /\ pc' = "Check"
  /\ status' = [status EXCEPT ![a] = "SkippedDependencyFailed"]
  /\ failed' = failed \cup {a}
  /\ completed' = completed \cup {a}
  /\ Emit(a, "ActionFinished")
  /\ Release(a, Tail(ready))
  /\ UNCHANGED <<deps, current, running, attempts, summary, cancelVars>>

(* The popped action is announced.                                           *)
Announce(a) ==
  /\ pc' = "Start"
  /\ current' = a
  /\ ready' = Tail(ready)
  /\ Emit(a, "ActionQueued")
  /\ UNCHANGED <<deps, running, remaining, completed, failed, reportVars, cancelVars>>

(* A completed action found in the queue is dropped.                         *)
DropCompleted ==
  /\ pc' = "Check"
  /\ ready' = Tail(ready)
  /\ UNCHANGED <<deps, current, running, remaining, completed, failed, events,
                 reportVars, cancelVars>>

(* ready.pop_front(), and what is done with the action.                      *)
Pop ==
  /\ pc = "Pop"
  /\ LET a == Head(ready)
     IN  IF a \in completed THEN DropCompleted
         ELSE IF HasFailedDependency(a) THEN Skip(a) ELSE Announce(a)

(* spawn_action: the future joins the running ones.  It begins its first     *)
(* attempt as soon as the loop awaits.                                       *)
Start ==
  /\ pc = "Start"
  /\ pc' = "Check"
  /\ current' = None
  /\ running' = running \cup {current}
  /\ attempts' = [attempts EXCEPT ![current] = 1]
  /\ Emit(current, "ActionStarted")
  /\ UNCHANGED <<deps, completed, failed, status, summary, graphVars, cancelVars>>

(* Variant: an off-by-one in should_retry, one attempt too many.             *)
RetryOnceMore(a) ==
  /\ pc = "Await"
  /\ a \in running
  /\ a \in PullImages
  /\ attempts[a] <= MaxAttempts
  /\ attempts' = [attempts EXCEPT ![a] = @ + 1]
  /\ UNCHANGED <<deps, pc, current, running, completed, failed, events, status,
                 summary, graphVars, cancelVars>>

(* An attempt fails with an error RetryPolicy::should_retry accepts.         *)
Retry(a) ==
  /\ pc = "Await"
  /\ a \in running
  /\ a \in PullImages
  /\ attempts[a] < MaxAttempts
  /\ attempts' = [attempts EXCEPT ![a] = @ + 1]
  /\ UNCHANGED <<deps, pc, current, running, completed, failed, events, status,
                 summary, graphVars, cancelVars>>

(* Variant: a failure is reported and not remembered as one.                 *)
CompleteForgettingFailure(a, outcome) ==
  /\ pc = "Await"
  /\ a \in running
  /\ pc' = "Check"
  /\ running' = running \ {a}
  /\ status' = [status EXCEPT ![a] = outcome]
  /\ Emit(a, "ActionFinished")
  /\ completed' = completed \cup {a}
  /\ Release(a, ready)
  /\ UNCHANGED <<deps, current, failed, attempts, summary, cancelVars>>

(* running.next() yields `a`, whose last attempt ended with `outcome`.       *)
Complete(a, outcome) ==
  /\ pc = "Await"
  /\ a \in running
  /\ pc' = "Check"
  /\ running' = running \ {a}
  /\ status' = [status EXCEPT ![a] = outcome]
  /\ Emit(a, "ActionFinished")
  /\ failed' = IF outcome # "Succeeded" THEN failed \cup {a} ELSE failed
  /\ completed' = completed \cup {a}
  /\ Release(a, ready)
  /\ UNCHANGED <<deps, current, attempts, summary, cancelVars>>

(* Variant: only the actions left in the queue are marked.                   *)
CancelOnlyQueued ==
  status' = [a \in Actions |->
               IF a \in {ready[i] : i \in 1..Len(ready)} THEN "Cancelled" ELSE status[a]]

(* mark_remaining_cancelled.                                                 *)
MarkRemainingCancelled ==
  status' = [a \in Actions |->
               IF a \notin completed /\ status[a] = "Pending" THEN "Cancelled"
               ELSE status[a]]

(* Nothing runs and nothing may be dispatched: the report is closed.         *)
Finish ==
  /\ pc = "Check"
  /\ cancelled \/ ~CanDispatch
  /\ running = {}
  /\ pc' = "Done"
  /\ MarkRemainingCancelled
  /\ summary' = Summarize(status')
  /\ UNCHANGED <<deps, current, running, completed, failed, attempts, events,
                 graphVars, cancelVars>>

-----------------------------------------------------------------------------
\* The environment: CancellationToken::cancel, from any thread.

Cancel ==
  /\ ~cancelled
  /\ pc \notin {"Done", "Refused"}
  /\ cancelled' = TRUE
  /\ announced' = Announced
  /\ UNCHANGED <<deps, pc, current, running, completed, failed, events,
                 graphVars, reportVars>>

(* apply returned.                                                           *)
Returned ==
  /\ pc \in {"Done", "Refused"}
  /\ UNCHANGED vars

-----------------------------------------------------------------------------
Dispatch == CheckPasses \/ StopDispatching \/ Pop \/ Start \/ Finish

Preflight == Validate \/ QueryCapabilities \/ SnapshotFails \/ Begin

Engine ==
  \E a \in Actions :
    Retry(a) \/ \E outcome \in {"Succeeded", "Failed"} : Complete(a, outcome)

Next == Preflight \/ Dispatch \/ Engine \/ Cancel \/ Returned

(* The runtime polls its task, and every engine call returns: stop has a     *)
(* timeout, a wait has one, and the others are requests the daemon answers.  *)
(* Cancellation is never assumed to happen.                                  *)
Fairness == WF_vars(Preflight \/ Dispatch \/ Engine)

Spec == Init /\ [][Next]_vars /\ Fairness
=============================================================================

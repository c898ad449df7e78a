------------------------------ MODULE Planning -----------------------------
(***************************************************************************)
(* One call of the planning facade: a project and a snapshot with whatever *)
(* it shows, among it resources of other projects and several containers   *)
(* that claim one service, become a plan or diagnostics.                   *)
(***************************************************************************)
EXTENDS Convergence

CONSTANT
  Requests  \* the calls: records op, and project, caps, snapshot, options for up
            \* and down; desired, containers for converge; instance, strategy,
            \* renamed for replace

(* The analysis found no dependency cycle and ordered the services, or the *)
(* planner is not reached (input_from_analysis).  An engine lists finitely *)
(* many resources.  Replica counts are given for active services: new does *)
(* not look, but those who call it give none at all.  A container's label  *)
(* is that of the configuration it was made from.                          *)
ASSUME RequestsAssumption ==
  \A r \in Requests :
    /\ r.op \in {"up", "down"} => WellFormed(r.project) /\ InGraphOrder(r.project)
    /\ r.op = "down" => IsFiniteSet(r.snapshot.networks) /\ IsFiniteSet(r.snapshot.volumes)
    /\ r.op = "converge" => IsFiniteSet(r.containers) /\ DOMAIN r.desired.given \subseteq r.desired.services
    /\ r.op = "converge" => /\ \A c \in r.containers : IsContainer(c)
                            /\ \A s \in DOMAIN r.desired.input : IsConfiguration(r.desired.input[s])

VARIABLES
  request,   \* the call
  answered,  \* it returned
  problems,  \* PlanOutcome.diagnostics
  plan       \* PlanOutcome.plan, without actions while there is none

vars == <<request, answered, problems, plan>>

Init ==
  /\ request \in Requests
  /\ answered = FALSE
  /\ problems = {}
  /\ plan = << >>

(* Planner::plan_up.                                                       *)
PlanUp ==
  /\ ~answered
  /\ request.op = "up"
  /\ answered' = TRUE
  /\ problems' = UpProblems(request.project, request.caps, request.snapshot, request.options)
  /\ plan' = IF problems' = {} THEN UpPlan(request.project, request.snapshot, request.options)
             ELSE plan
  /\ UNCHANGED request

(* Planner::plan_down.                                                     *)
PlanDown ==
  /\ ~answered
  /\ request.op = "down"
  /\ answered' = TRUE
  /\ problems' = DownProblems(request.project, request.snapshot)
  /\ plan' = IF problems' = {} THEN DownPlan(request.project, request.snapshot, request.options)
             ELSE plan
  /\ UNCHANGED request

(* plan_convergence.                                                       *)
Converge ==
  /\ ~answered
  /\ request.op = "converge"
  /\ answered' = TRUE
  /\ problems' = ConvergenceErrors(request.desired, request.containers)
  /\ plan' = IF problems' = {} THEN ConvergencePlan(request.desired, request.containers) ELSE plan
  /\ UNCHANGED request

(* plan_replacement; nothing calls it yet.                                 *)
Replace ==
  /\ ~answered
  /\ request.op = "replace"
  /\ answered' = TRUE
  /\ plan' = ReplacementPlan(request.instance, request.strategy, request.renamed)
  /\ UNCHANGED <<request, problems>>

Next == PlanUp \/ PlanDown \/ Converge \/ Replace

Spec == Init /\ [][Next]_vars

-----------------------------------------------------------------------------
Planned == answered /\ problems = {}

(* What is over before the action `a` runs, however far back.              *)
After(a) ==
  LET reached[n \in Nat] ==
        IF n = 0 THEN plan[a]
        ELSE reached[n - 1] \cup UNION {plan[b] : b \in reached[n - 1]}
  IN  reached[Cardinality(DOMAIN plan)]

(* Every plan is one the executor can work off: all dependencies are       *)
(* actions of the plan and there is no cycle, whatever the snapshot shows  *)
(* (validate_action_dag at the end of both planners never fails).  An up   *)
(* may still have nothing to do, which apply refuses.                      *)
PlansAreDags ==
  Planned => IsDag(plan) /\ (request.op = "down" => DOMAIN plan # {})

(* A service is started only after all it needs: its container, and before *)
(* that the image, which is pulled if it is missing and then may be, and   *)
(* built from verified inputs if builds are asked for, the declared        *)
(* networks and the volumes of it that are missing; and the start and the  *)
(* condition of every active service it depends on.                        *)
StartedAfterAllItNeeds ==
  Planned /\ request.op = "up" =>
    LET p == request.project
        snap == request.snapshot
    IN  \A s \in Active(p) :
          LET earlier == After(StartId(s))
          IN  /\ CreateId(s) \in earlier
              /\ \A d \in DependsOn(p, s) \cap Active(p) :
                   /\ StartId(d) \in earlier
                   /\ p.dependsOn[s][d] # "ServiceStarted" => WaitId(s, d) \in earlier
              /\ p.image[s] \notin snap.images /\ request.options.images # "NeverPull"
                   => PullId(p.image[s]) \in earlier
              /\ s \in p.build /\ request.options.builds = "BuildDeclared"
                   => {BuildId(s), VerifyId(s)} \subseteq earlier
              /\ \A n \in (p.networks[s] \cap Networks) \ {r.name : r \in snap.networks} :
                   Id(<<"network", n>>, "CreateNetwork", <<>>) \in earlier
              /\ \A v \in p.volumes[s] \ {r.name : r \in snap.volumes} :
                   Id(<<"volume", v>>, "CreateVolume", <<>>) \in earlier

(* In a replacement the old container is stopped and its name is free when *)
(* the new one is made, if the strategy frees it: RestartOnly does not,    *)
(* nor CreateThenSwitch without another name, and their creation cannot    *)
(* but fail.  Nothing is removed before it is stopped.                     *)
ReplacesInOrder ==
  LET id(kind) == ConvergeId(request.instance, kind)
  IN  /\ id("StopContainer") \in After(id("CreateContainer"))
      /\ request.strategy = "StopRemoveCreateStart"
           => id("RemoveContainer") \in After(id("CreateContainer"))
      /\ request.strategy = "CreateThenSwitch" /\ request.renamed
           => id("RenameContainer") \in After(id("CreateContainer"))
      /\ \A a \in DOMAIN plan : a.kind \in {"RemoveContainer", "RenameContainer"}
                                 => id("StopContainer") \in After(a)

(* Nothing of another project is torn down, and no network or volume is    *)
(* removed before the containers of all active services, which may use it; *)
(* a replacement keeps its order, too.                                     *)
TearsDownItsOwnInOrder ==
  /\ Planned /\ request.op = "replace" => ReplacesInOrder
  /\ Planned /\ request.op = "down" =>
       \A a \in DOMAIN plan :
         a.kind \in {"RemoveNetwork", "RemoveVolume"} =>
           /\ \E r \in request.snapshot.networks \cup request.snapshot.volumes :
                r.ours /\ a.disc = <<r.id>>
           /\ \A c \in request.snapshot.containers :
                c.ours /\ c.service \in Active(request.project) => RemoveId(c.service) \in After(a)

(* The actions of a convergence plan on an instance.                       *)
ActsOn(i) == {a.kind : a \in {a \in DOMAIN plan : a.key[2] = i}}

(* A convergence that is not blocked leaves one container for each replica *)
(* and none too many: what is missing is scaled up, what nobody asked for  *)
(* is scaled down, nothing of another project is touched, and nothing that *)
(* runs is taken down.  A replica that nobody asked for and that two       *)
(* containers claim is the exception: it is passed over, without a word.   *)
ReplicasAccountedFor ==
  Planned /\ request.op = "converge" =>
    LET wanted == DesiredInstances(request.desired)
        claims(i) == Claiming(request.containers, i)
        surplus(i) == i.ours /\ i.service \in request.desired.services /\ Cardinality(claims(i)) = 1
    IN  /\ \A i \in wanted : /\ Cardinality(claims(i)) <= 1
                             /\ "ScaleUpReplica" \in ActsOn(i) <=> claims(i) = {}
                             /\ "ScaleDownReplica" \notin ActsOn(i)
        /\ \A i \in {Instance(c) : c \in {c \in request.containers : c.claims}} \ wanted :
             ActsOn(i) = IF surplus(i) THEN {"ScaleDownReplica"} ELSE {}

(* The names of what the service uses, of all those that were resolved.    *)
NamesUsed(in) ==
  LET s == in.service
      names == in.names
  IN  [networks |-> [n \in DOMAIN s.networks |-> NameIn(names.networks, n)],
       volumes |-> [n \in {v.source : v \in {v \in s.volumes : v.kind = "Volume"}} |-> NameIn(names.volumes, n)],
       configs |-> [n \in {m.source : m \in s.configs} |-> NameIn(names.configs, n)],
       secrets |-> [n \in {m.source : m \in s.secrets} |-> NameIn(names.secrets, n)]]

(* The same configuration, as far as the fingerprint goes: lists in any    *)
(* order, and whatever the owners and modes of configs and secrets.        *)
SameConfiguration(one, other) ==
  LET alike(s, m) == {n \in s : n.source = m.source /\ n.target = m.target}
      same(s, t) == \A m \in s \cup t : Cardinality(alike(s, m)) = Cardinality(alike(t, m))
      restart(in) == IF in.service.restart = None THEN in.defaults.restart_policy ELSE in.service.restart
  IN  /\ one.image = other.image /\ one.defaults = other.defaults /\ NamesUsed(one) = NamesUsed(other)
      /\ same(one.service.configs, other.service.configs)
      /\ same(one.service.secrets, other.service.secrets)
      /\ restart(one) = restart(other)
      /\ \A part \in {"command", "entrypoint", "environment", "labels", "ports", "volumes", "networks", "healthcheck"} :
           one.service[part] = other.service[part]

(* A container is left as it is, or only started, exactly if it was made   *)
(* from the configuration that is wanted now and says so, and any other    *)
(* one is to be recreated: no change is missed because the container is    *)
(* stopped, and none is seen where there is none.                          *)
OnlyEqualLeftAlone ==
  Planned /\ request.op = "converge" =>
    \A i \in DesiredInstances(request.desired) : \A c \in Claiming(request.containers, i) :
      LET differences == classify_deployment_differences(request.desired, request.containers)
          decision == ConvergenceDecision(differences[i])
      IN  /\ ~decision.destructive <=>
               /\ c.fingerprint.version = 1
               /\ i.service \in DOMAIN request.desired.input
               /\ SameConfiguration(c.made, request.desired.input[i.service])
          /\ ActsOn(i) = IF decision.downtime_expected THEN {}
                         ELSE IF decision.mutates THEN {"StartContainer"} ELSE {"NoOp"}

-----------------------------------------------------------------------------
(* "A planned service container would duplicate an existing runtime        *)
(* container" is SUS-PLAN-002: an up that is not blocked creates no        *)
(* container for a service that has one.                                   *)
DuplicatesRefused ==
  Planned /\ request.op = "up" =>
    \A c \in request.snapshot.containers : c.ours => CreateId(c.service) \notin DOMAIN plan
=============================================================================

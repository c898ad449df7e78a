----------------------------- MODULE Deployment ----------------------------
(***************************************************************************)
(* up and down commands against a Docker engine.  Each command takes a     *)
(* snapshot, plans (Planner), takes a second snapshot and works the plan   *)
(* off; several commands may overlap, and each may be killed with requests *)
(* in flight, which the daemon may still carry out.                        *)
(*                                                                         *)
(* The executor's dispatch (Runtime) appears as PlanExecution describes    *)
(* it; what each action asks of the engine is modelled here.  The engine's *)
(* own behaviour is Docker's, as far as the Bollard adapter relies on it:  *)
(* names are unique, a container keeps its volumes in use and a running    *)
(* one its networks, a volume that a new container mounts is made if need  *)
(* be, and creating a volume that exists answers with that volume, whoever *)
(* made it.                                                                *)
(***************************************************************************)
EXTENDS Planner

CONSTANTS
  NumCommands,    \* the commands are 1..NumCommands, begun in this order
  Operations,     \* what a command may be asked: records op, volumes
  TheProject,     \* the project of all commands
  Starts,         \* the engines to begin with: records taken, left of InitialEngine
  Exits,          \* the ways a process may exit: "completed", "crashed"
  MaxConcurrency, \* options.max_concurrency of all commands
  MaxAlive,       \* bound: commands under way at a time
  MaxFaults,      \* bound: requests that fail for no reason of the engine's state
  MaxMeddling,    \* bound: resources made or removed by others than the commands
  Meddled         \* bound: the names under which they do

ASSUME ProjectAssumption ==
  /\ WellFormed(TheProject) /\ InGraphOrder(TheProject)
  /\ Services \cap Networks = {}
  /\ Operations \subseteq [op : {"up", "down"}, volumes : BOOLEAN]
  /\ MaxConcurrency \in Nat \ {0}
  /\ \A start \in Starts : \A s \in start.left :
       start.taken \cap ({s} \cup TheProject.networks[s] \cup TheProject.volumes[s]) = {}
  /\ Exits # {} /\ Exits \subseteq {"completed", "crashed"}

Commands == 1..NumCommands

(* The default options, and a down's remove_volumes.                       *)
Options(o) ==
  [images |-> "PullIfMissing", builds |-> "NeverBuild", waits |-> "EmitSupported",
   volumes |-> o.volumes]

(* "healthy" is running with a passing health check; "completed" and       *)
(* "crashed" are exited with and without the exit code 0.                  *)
Live == {"running", "healthy"}

NoContainer == [id |-> 0, ours |-> FALSE, state |-> "absent"]
NoNetwork   == [id |-> 0, ours |-> FALSE]

VARIABLES
  containers,  \* the engine's containers by name, one name for each service
  networks,    \* the engine's networks by name
  volumes,     \* the volume of each name: "absent", made by the project ("ours"),
               \* with its containers ("unlabelled"), or by others ("other")
  images,      \* the images present
  made,        \* the last id given out for each container and network name
  operation,   \* what each command was asked
  phase,       \* where each command is
  plan,        \* its plan; once it was killed, its requests still in flight
  fate,        \* what became of each action of the plan
  outputs,     \* its RuntimeOutputs: the references it has, by name
  seen,        \* the reference each action in flight took from its clone of them
  horizon,     \* history: the ids given out when it took its second snapshot
  owned,       \* history: the volumes that were the project's then
  faults, meddling,
  calm         \* history: since it began, only its own steps and the containers' own

engineVars  == <<containers, networks, volumes, images, made>>
commandVars == <<operation, phase, plan, fate, outputs, seen, horizon, owned>>
vars == <<engineVars, commandVars, faults, meddling, calm>>

-----------------------------------------------------------------------------
\* The engine, seen through the adapter.

Present(s) == containers[s].id # 0

(* A running container keeps the networks it is attached to.               *)
Attached(n) ==
  {s \in Services : /\ n \in TheProject.networks[s]
                    /\ containers[s].ours /\ containers[s].state \in Live}

(* Any container keeps the volumes it mounts.                              *)
Mounting(v) == {s \in Services : v \in TheProject.volumes[s] /\ Present(s) /\ containers[s].ours}

(* Variant: the lists are not filtered by the project's label.             *)
SnapshotOfAll ==
  [containers |-> {[id |-> containers[s].id, service |-> s, replica |-> 0, ours |-> TRUE,
                    complete |-> TRUE] : s \in {s \in Services : Present(s)}},
   networks |-> {[id |-> networks[n].id, name |-> n, ours |-> TRUE]
                    : n \in {n \in Networks : networks[n].id # 0}},
   volumes |-> {[id |-> v, name |-> v, ours |-> TRUE]
                    : v \in {v \in Volumes : volumes[v] # "absent"}},
   images |-> images]

(* snapshot: the resources with the project's label, all taken for the     *)
(* project's, and the images.  (The four lists are taken at one moment.)   *)
Snapshot ==
  [containers |-> {[id |-> containers[s].id, service |-> s, replica |-> 0, ours |-> TRUE,
                    complete |-> TRUE] : s \in {s \in Services : containers[s].ours}},
   networks |-> {[id |-> networks[n].id, name |-> n, ours |-> TRUE]
                    : n \in {n \in Networks : networks[n].ours}},
   volumes |-> {[id |-> v, name |-> v, ours |-> TRUE] : v \in {v \in Volumes : volumes[v] = "ours"}},
   images |-> images]

(* capabilities: Docker offers all that a project can ask for.             *)
Capabilities == {"health"} \cup UNION {TheProject.needs[s] : s \in Services}

(* RuntimeOutputs::from_snapshot: ids of containers and networks by name,  *)
(* and the names of volumes.                                               *)
FromSnapshot(snap) ==
  LET IdOf(S) == IF S = {} THEN 0 ELSE (CHOOSE r \in S : TRUE).id
  IN  [containers |-> [s \in Services |-> IdOf({c \in snap.containers : c.service = s})],
       networks |-> [n \in Networks |-> IdOf({r \in snap.networks : r.name = n})],
       volumes |-> {r.name : r \in snap.volumes}]

NoOutputs == FromSnapshot([containers |-> {}, networks |-> {}, volumes |-> {}])

(* Others hold the names in `taken`; an earlier up has left the services   *)
(* `left` running, with what they need.                                    *)
InitialEngine(taken, left) ==
  LET needed(uses) == UNION {uses[s] : s \in left}
      stay == left \cup needed(TheProject.networks)
  IN  /\ containers = [s \in Services |->
                         IF s \in taken \cup left THEN [id |-> 1, ours |-> s \in left, state |-> "running"]
                         ELSE NoContainer]
      /\ networks = [n \in Networks |->
                       IF n \in taken \cup stay THEN [id |-> 1, ours |-> n \in stay] ELSE NoNetwork]
      /\ volumes = [v \in Volumes |->
                      IF v \in taken THEN "other"
                      ELSE IF v \in needed(TheProject.volumes) THEN "ours" ELSE "absent"]
      /\ images = {TheProject.image[s] : s \in left}
      /\ made = [r \in Services \cup Networks |-> IF r \in taken \cup stay THEN 1 ELSE 0]

Init ==
  /\ \E start \in Starts : InitialEngine(start.taken, start.left)
  /\ operation = [c \in Commands |-> [op |-> "none", volumes |-> FALSE]]
  /\ phase = [c \in Commands |-> "idle"]
  /\ plan = [c \in Commands |-> << >>]
  /\ fate = [c \in Commands |-> << >>]
  /\ outputs = [c \in Commands |-> NoOutputs]
  /\ seen = [c \in Commands |-> << >>]
  /\ horizon = [c \in Commands |-> made]
  /\ owned = [c \in Commands |-> {}]
  /\ faults = 0
  /\ meddling = 0
  /\ calm = [c \in Commands |-> FALSE]

-----------------------------------------------------------------------------
\* A command: up_with_engine or down_with_engine.

InFlight(c) == {a \in DOMAIN plan[c] : fate[c][a] = "running"}

Alive(c) == phase[c] \in {"planned", "applying"}

UnderWay(c) == Alive(c) \/ (phase[c] = "dead" /\ InFlight(c) # {})

(* Something happened that none of the commands under way expects.         *)
Disturb == calm' = [c \in Commands |-> calm[c] /\ ~UnderWay(c)]

(* The first snapshot, and the plan made of it.                            *)
Begin(c, o) ==
  /\ phase[c] = "idle"
  /\ \A d \in Commands : d < c => phase[d] # "idle"
  /\ Cardinality({d \in Commands : Alive(d)}) < MaxAlive
  /\ LET problems == IF o.op = "up" THEN UpProblems(TheProject, Capabilities, Snapshot, Options(o))
                     ELSE DownProblems(TheProject, Snapshot)
     IN  /\ phase' = [phase EXCEPT ![c] = IF problems = {} THEN "planned" ELSE "blocked"]
         /\ plan' = [plan EXCEPT ![c] =
                       IF problems # {} THEN << >>
                       ELSE IF o.op = "up" THEN UpPlan(TheProject, Snapshot, Options(o))
                       ELSE DownPlan(TheProject, Snapshot, Options(o))]
  /\ operation' = [operation EXCEPT ![c] = o]
  /\ fate' = [fate EXCEPT ![c] = [a \in DOMAIN plan'[c] |-> "waiting"]]
  /\ seen' = [seen EXCEPT ![c] = [a \in DOMAIN plan'[c] |-> 0]]
  /\ calm' = [d \in Commands |->
                IF d = c THEN ~ \E e \in Commands : UnderWay(e) ELSE calm[d] /\ ~UnderWay(d)]
  /\ UNCHANGED <<engineVars, outputs, horizon, owned, faults, meddling>>

(* Runtime::apply begins with a second snapshot.                           *)
Apply(c) ==
  /\ phase[c] = "planned"
  /\ phase' = [phase EXCEPT ![c] = "applying"]
  /\ outputs' = [outputs EXCEPT ![c] = FromSnapshot(Snapshot)]
  /\ horizon' = [horizon EXCEPT ![c] = made]
  /\ owned' = [owned EXCEPT ![c] = {v \in Volumes : volumes[v] = "ours"}]
  /\ UNCHANGED <<engineVars, operation, plan, fate, seen, faults, meddling, calm>>

(* Variant: a volume is removed by its name without looking it up.         *)
ReferenceWithoutLookup(c, a) ==
  CASE a.kind \in {"StartContainer", "StopContainer", "RemoveContainer"} ->
         outputs[c].containers[Name(a)]
    [] a.kind = "RemoveNetwork" -> outputs[c].networks[Name(a)]
    [] a.kind = "RemoveVolume" -> 1
    [] OTHER -> 0

(* container_for, network_for, volume_for: 0 is no reference.              *)
Reference(c, a) ==
  CASE a.kind \in {"StartContainer", "StopContainer", "RemoveContainer"} ->
         outputs[c].containers[Name(a)]
    [] a.kind = "RemoveNetwork" -> outputs[c].networks[Name(a)]
    [] a.kind = "RemoveVolume" -> IF Name(a) \in outputs[c].volumes THEN 1 ELSE 0
    [] OTHER -> 0

Settled == {"succeeded", "failed", "skipped"}

(* All an action depends on succeeded: it is spawned with a clone of the   *)
(* outputs.                                                                *)
Spawn(c, a) ==
  /\ phase[c] = "applying"
  /\ fate[c][a] = "waiting"
  /\ \A d \in plan[c][a] : fate[c][d] = "succeeded"
  /\ Cardinality(InFlight(c)) < MaxConcurrency
  /\ fate' = [fate EXCEPT ![c][a] = "running"]
  /\ seen' = [seen EXCEPT ![c][a] = Reference(c, a)]
  /\ UNCHANGED <<engineVars, operation, phase, plan, outputs, horizon, owned, faults, meddling, calm>>

(* Something it depends on did not.                                        *)
Skip(c, a) ==
  /\ phase[c] = "applying"
  /\ fate[c][a] = "waiting"
  /\ \A d \in plan[c][a] : fate[c][d] \in Settled
  /\ \E d \in plan[c][a] : fate[c][d] # "succeeded"
  /\ fate' = [fate EXCEPT ![c][a] = "skipped"]
  /\ UNCHANGED <<engineVars, operation, phase, plan, outputs, seen, horizon, owned, faults, meddling, calm>>

(* What a command leaves behind: the requests `left` in flight.            *)
Forget(c, left) ==
  /\ plan' = [plan EXCEPT ![c] = [a \in left |-> {}]]
  /\ fate' = [fate EXCEPT ![c] = [a \in left |-> "running"]]
  /\ seen' = [seen EXCEPT ![c] = [a \in left |-> seen[c][a]]]
  /\ outputs' = [outputs EXCEPT ![c] = NoOutputs]

(* The report is returned.                                                 *)
Close(c) ==
  /\ phase[c] = "applying"
  /\ \A a \in DOMAIN plan[c] : fate[c][a] \in Settled
  /\ phase' = [phase EXCEPT ![c] = "closed"]
  /\ Forget(c, {})
  /\ UNCHANGED <<engineVars, operation, horizon, owned, faults, meddling, calm>>

(* The process is killed.  What is left of it are its requests in flight;  *)
(* waiting for a dependency was its own doing.                             *)
Kill(c) ==
  /\ Alive(c)
  /\ phase' = [phase EXCEPT ![c] = "dead"]
  /\ Forget(c, {a \in InFlight(c) : a.kind \notin {"WaitForDependency", "NoOp"}})
  /\ UNCHANGED <<engineVars, operation, horizon, owned, faults, meddling, calm>>

-----------------------------------------------------------------------------
\* What an action in flight asks of the engine (execute_action_inner and the
\* adapter's request), and what it makes of the answer (update_outputs).

Asks(c, a, kind) == a.kind = kind /\ a \in InFlight(c)

Fails(c, a) ==
  /\ fate' = [fate EXCEPT ![c][a] = "failed"]
  /\ UNCHANGED <<outputs, faults, calm>>

(* The request was carried out: its answer comes back, or is lost.         *)
Succeeds(c, a, out) ==
  \/ /\ fate' = [fate EXCEPT ![c][a] = "succeeded"]
     /\ outputs' = [outputs EXCEPT ![c] = IF Alive(c) THEN out ELSE @]
     /\ UNCHANGED <<faults, calm>>
  \/ /\ faults < MaxFaults
     /\ faults' = faults + 1
     /\ fate' = [fate EXCEPT ![c][a] = "failed"]
     /\ Disturb
     /\ UNCHANGED outputs

steadyVars == <<operation, phase, plan, seen, horizon, owned, meddling>>

(* The request fails before anything is done.                              *)
Fault(c, a) ==
  /\ a \in InFlight(c)
  /\ a.kind # "NoOp"
  /\ faults < MaxFaults
  /\ faults' = faults + 1
  /\ fate' = [fate EXCEPT ![c][a] = "failed"]
  /\ Disturb
  /\ UNCHANGED <<engineVars, steadyVars, outputs>>

NothingToAsk(c, a) ==
  /\ Asks(c, a, "NoOp")
  /\ fate' = [fate EXCEPT ![c][a] = "succeeded"]
  /\ UNCHANGED <<engineVars, steadyVars, outputs, faults, calm>>

PullImage(c, a) ==
  /\ Asks(c, a, "PullImage")
  /\ images' = images \cup {Name(a)}
  /\ Succeeds(c, a, outputs[c])
  /\ UNCHANGED <<steadyVars, containers, networks, volumes, made>>

CreateNetwork(c, a) ==
  LET n == Name(a) IN
  /\ Asks(c, a, "CreateNetwork")
  /\ \/ /\ networks[n].id = 0
        /\ networks' = [networks EXCEPT ![n] = [id |-> made[n] + 1, ours |-> TRUE]]
        /\ made' = [made EXCEPT ![n] = @ + 1]
        /\ Succeeds(c, a, [outputs[c] EXCEPT !.networks[n] = made[n] + 1])
     \/ networks[n].id # 0 /\ Fails(c, a) /\ UNCHANGED <<networks, made>>
  /\ UNCHANGED <<steadyVars, containers, volumes, images>>

CreateVolume(c, a) ==
  LET v == Name(a) IN
  /\ Asks(c, a, "CreateVolume")
  /\ volumes' = [volumes EXCEPT ![v] = IF @ = "absent" THEN "ours" ELSE @]
  /\ Succeeds(c, a, [outputs[c] EXCEPT !.volumes = @ \cup {v}])
  /\ UNCHANGED <<steadyVars, containers, networks, images, made>>

(* A volume the container mounts and that is gone is made without labels.  *)
CreateContainer(c, a) ==
  LET s == Name(a) IN
  /\ Asks(c, a, "CreateContainer")
  /\ \/ /\ ~Present(s)
        /\ TheProject.image[s] \in images
        /\ containers' = [containers EXCEPT ![s] = [id |-> made[s] + 1, ours |-> TRUE, state |-> "created"]]
        /\ made' = [made EXCEPT ![s] = @ + 1]
        /\ volumes' = [v \in Volumes |->
                         IF v \in TheProject.volumes[s] /\ volumes[v] = "absent" THEN "unlabelled" ELSE volumes[v]]
        /\ Succeeds(c, a, [outputs[c] EXCEPT !.containers[s] = made[s] + 1])
     \/ /\ Present(s) \/ TheProject.image[s] \notin images
        /\ Fails(c, a) /\ UNCHANGED <<containers, made, volumes>>
  /\ UNCHANGED <<steadyVars, networks, images>>

(* Variant: a container is referred to by its name.                        *)
FoundByName(c, a) == Present(Name(a))

(* The container a reference names is still there.                         *)
Found(c, a) == seen[c][a] # 0 /\ containers[Name(a)].id = seen[c][a]

StartContainer(c, a) ==
  LET s == Name(a)
      possible == Found(c, a) /\ \A n \in TheProject.networks[s] \cap Networks : networks[n].id # 0
  IN
  /\ Asks(c, a, "StartContainer")
  /\ \/ /\ possible
        /\ containers' = [containers EXCEPT ![s].state = IF @ \in Live THEN @ ELSE "running"]
        /\ Succeeds(c, a, outputs[c])
     \/ ~possible /\ Fails(c, a) /\ UNCHANGED containers
  /\ UNCHANGED <<steadyVars, networks, volumes, images, made>>

(* wait_for_dependency: a poll finds the condition met, or it is not when  *)
(* the time is up.                                                         *)
WaitForDependency(c, a) ==
  LET d == a.disc[1]
      met == /\ containers[d].ours
             /\ CASE TheProject.dependsOn[Name(a)][d] = "ServiceHealthy" -> containers[d].state = "healthy"
                  [] OTHER -> containers[d].state \in Exits
  IN
  /\ Asks(c, a, "WaitForDependency")
  /\ fate' = [fate EXCEPT ![c][a] = IF met THEN "succeeded" ELSE "failed"]
  /\ UNCHANGED <<engineVars, steadyVars, outputs, faults, calm>>

(* Stopping a container that is not running is no error.                   *)
StopContainer(c, a) ==
  LET s == Name(a) IN
  /\ Asks(c, a, "StopContainer")
  /\ \/ /\ Found(c, a)
        /\ \E exit \in Exits :
             containers' = [containers EXCEPT ![s].state = IF @ \in Live THEN exit ELSE @]
        /\ Succeeds(c, a, outputs[c])
     \/ ~Found(c, a) /\ Fails(c, a) /\ UNCHANGED containers
  /\ UNCHANGED <<steadyVars, networks, volumes, images, made>>

(* Removal is not forced: a running container stays.                       *)
RemoveContainer(c, a) ==
  LET s == Name(a)
      possible == Found(c, a) /\ containers[s].state \notin Live
  IN
  /\ Asks(c, a, "RemoveContainer")
  /\ \/ /\ possible
        /\ containers' = [containers EXCEPT ![s] = NoContainer]
        /\ Succeeds(c, a, outputs[c])
     \/ ~possible /\ Fails(c, a) /\ UNCHANGED containers
  /\ UNCHANGED <<steadyVars, networks, volumes, images, made>>

RemoveNetwork(c, a) ==
  LET n == Name(a)
      possible == seen[c][a] # 0 /\ networks[n].id = seen[c][a] /\ Attached(n) = {}
  IN
  /\ Asks(c, a, "RemoveNetwork")
  /\ \/ possible /\ networks' = [networks EXCEPT ![n] = NoNetwork] /\ Succeeds(c, a, outputs[c])
     \/ ~possible /\ Fails(c, a) /\ UNCHANGED networks
  /\ UNCHANGED <<steadyVars, containers, volumes, images, made>>

(* A volume is referred to by its name.                                    *)
RemoveVolume(c, a) ==
  LET v == Name(a)
      possible == seen[c][a] # 0 /\ volumes[v] # "absent" /\ Mounting(v) = {}
  IN
  /\ Asks(c, a, "RemoveVolume")
  /\ \/ possible /\ volumes' = [volumes EXCEPT ![v] = "absent"] /\ Succeeds(c, a, outputs[c])
     \/ ~possible /\ Fails(c, a) /\ UNCHANGED volumes
  /\ UNCHANGED <<steadyVars, containers, networks, images, made>>

-----------------------------------------------------------------------------
\* What goes on in the engine besides the commands.

quietVars == <<networks, volumes, images, made, commandVars, faults>>

(* The process of a container exits.                                       *)
ProcessExits(s) ==
  /\ containers[s].ours /\ containers[s].state \in Live
  /\ \E exit \in Exits : containers' = [containers EXCEPT ![s].state = exit]
  /\ UNCHANGED <<quietVars, meddling, calm>>

(* Its health check begins to pass.  (Of no consequence where none waits.) *)
BecomesHealthy(s) ==
  /\ \E d \in Services : TheProject.dependsOn[d][s] = "ServiceHealthy"
  /\ containers[s].ours /\ containers[s].state = "running"
  /\ containers' = [containers EXCEPT ![s].state = "healthy"]
  /\ UNCHANGED <<quietVars, meddling, calm>>

Meddling(name) ==
  /\ name \in Meddled
  /\ meddling < MaxMeddling
  /\ meddling' = meddling + 1
  /\ Disturb
  /\ UNCHANGED <<images, commandVars, faults>>

(* Somebody removes a container of the project by force, or makes one of   *)
(* his own under a name that is free.                                      *)
MeddleWithContainer(s) ==
  /\ Meddling(s)
  /\ \/ /\ containers[s].ours
        /\ containers' = [containers EXCEPT ![s] = NoContainer]
        /\ UNCHANGED made
     \/ /\ ~Present(s)
        /\ containers' = [containers EXCEPT ![s] = [id |-> made[s] + 1, ours |-> FALSE, state |-> "running"]]
        /\ made' = [made EXCEPT ![s] = @ + 1]
  /\ UNCHANGED <<networks, volumes>>

(* Somebody makes a network of his own under a name that is free.          *)
MeddleWithNetwork(n) ==
  /\ Meddling(n)
  /\ networks[n].id = 0
  /\ networks' = [networks EXCEPT ![n] = [id |-> made[n] + 1, ours |-> FALSE]]
  /\ made' = [made EXCEPT ![n] = @ + 1]
  /\ UNCHANGED <<containers, volumes>>

(* Somebody removes a volume of the project that is not in use, or makes   *)
(* one of his own under a name that is free.                               *)
MeddleWithVolume(v) ==
  /\ Meddling(v)
  /\ \/ volumes[v] \in {"ours", "unlabelled"} /\ Mounting(v) = {} /\ volumes' = [volumes EXCEPT ![v] = "absent"]
     \/ volumes[v] = "absent" /\ volumes' = [volumes EXCEPT ![v] = "other"]
  /\ UNCHANGED <<containers, networks, made>>

-----------------------------------------------------------------------------
Step(c) ==
  \/ Apply(c) \/ Close(c)
  \/ \E a \in DOMAIN plan[c] : Spawn(c, a) \/ Skip(c, a)

Request(c) ==
  \E a \in DOMAIN plan[c] :
    \/ NothingToAsk(c, a) \/ PullImage(c, a)
    \/ CreateNetwork(c, a) \/ CreateVolume(c, a) \/ CreateContainer(c, a)
    \/ StartContainer(c, a) \/ WaitForDependency(c, a) \/ StopContainer(c, a)
    \/ RemoveContainer(c, a) \/ RemoveNetwork(c, a) \/ RemoveVolume(c, a)

Environment ==
  \/ \E c \in Commands : Kill(c) \/ \E a \in DOMAIN plan[c] : Fault(c, a)
  \/ \E s \in Services : ProcessExits(s) \/ BecomesHealthy(s) \/ MeddleWithContainer(s)
  \/ \E n \in Networks : MeddleWithNetwork(n)
  \/ \E v \in Volumes : MeddleWithVolume(v)

(* All commands are over and nothing runs any more.                        *)
Rest ==
  /\ \A c \in Commands : phase[c] # "idle" /\ ~UnderWay(c)
  /\ UNCHANGED vars

Next ==
  \/ \E c \in Commands : Step(c) \/ Request(c) \/ \E o \in Operations : Begin(c, o)
  \/ Environment
  \/ Rest

Spec == Init /\ [][Next]_vars
=============================================================================

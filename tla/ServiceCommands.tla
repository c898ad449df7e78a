--------------------------- MODULE ServiceCommands -------------------------
(***************************************************************************)
(* The commands that act on the containers of a project's services: run,   *)
(* start, stop, restart, wait, logs, exec, cp, port, build, overview and   *)
(* prune, with up and down between them.  Several may be under way at a    *)
(* time, and each sees the engine through the snapshot it took when it     *)
(* began.  How up and down work off their plans is in Deployment; here     *)
(* they are a step each, and services have no dependencies.                *)
(*                                                                         *)
(* A container made by `run` carries the labels of its service and none of *)
(* a replica, so the snapshot takes it for the service's first replica.    *)
(*                                                                         *)
(* A process exits with 0 or 1, which stands for every code that is not 0. *)
(* The adapter hands on what bollard makes of a wait: an error, for a      *)
(* container that exited with a code above 0.  So the program never sees   *)
(* such a code, and neither the code that `run` would return for it nor    *)
(* the 1 of `wait` ever comes about.                                       *)
(***************************************************************************)
EXTENDS Planner, RuntimeStatus, ImageBuild

CONSTANTS
  NumCommands,    \* the commands are 1..NumCommands, begun in this order
  Operations,     \* what a command may be asked: records op, services, flag
  TheProject,     \* the project of all commands
  ProjectNames,   \* the names it may have; the status repeats them
  Builds,         \* the build definitions each service in TheProject.build may have
  ProjectDir,     \* the project's directory
  Starts,         \* the engines to begin with: sequences of containers
  MaxContainers,  \* bound: containers ever made
  MaxTrouble      \* bound: requests that fail for no reason of the engine's state,
                  \* and containers removed by others than the commands

Commands == 1..NumCommands
Ids == 1..MaxContainers

(* service: the value of the label io.susun.service, NoService without it. *)
Container ==
  [service : Services \cup {NoService, Blank}, oneOff : BOOLEAN, code : {0, 1},
   state : {"absent", "created", "running", "exited"}]

NoContainer == [service |-> NoService, oneOff |-> FALSE, state |-> "absent", code |-> 0]

(* Services have no dependencies here; the engine begins with at most one  *)
(* replica of each, and has room for all the commands may make.            *)
ASSUME CommandsAssumption ==
  /\ NumCommands \in Nat /\ MaxContainers \in Nat /\ MaxTrouble \in Nat
  /\ IsFiniteSet(Services) /\ NoService \notin Services \cup {0}
  /\ Blank \notin Services \cup {NoService} /\ Blank \notin {"reference", "hash"} /\ Blank \notin Ids
  /\ WellFormed(TheProject) /\ InGraphOrder(TheProject)
  /\ \A s \in Services : DependsOn(TheProject, s) = {}
  /\ TheProject.build \subseteq DOMAIN Builds
  /\ \A start \in Starts :
       /\ start \in Seq(Container) /\ \A i \in 1..Len(start) : start[i].state # "absent"
       /\ \A i, j \in 1..Len(start) :
            start[i].service = start[j].service /\ start[i].service \in Services => i = j
               \/ start[i].oneOff \/ start[j].oneOff
       /\ Len(start) + Cardinality(Services) * NumCommands <= MaxContainers
  /\ \A p \in DOMAIN Tree : Tree[p].real \in DOMAIN Tree /\ Tree[Tree[p].real] = Tree[p]

VARIABLES
  containers,  \* the engine's containers by id; of one that is gone, its exit code
  made,        \* the last id given out
  images,      \* the images present
  phase,       \* where each command is
  work,        \* what it knows: what it was asked, the containers or services to come
               \* (todo), the container at hand (own), whether a request failed
  code,        \* the exit code of the command that ended last
  trouble,     \* requests failed and containers removed by others
  calm         \* history: only its own steps and the containers' own since it began

engineVars == <<containers, made, images>>
vars == <<engineVars, phase, work, code, trouble, calm>>

Phases ==
  {"idle", "ended", "killed", "creating", "starting", "following", "waiting", "cleaning", "working",
   "stopped", "reaching", "pruning", "pruningImages", "building", "applying"}

Nothing == [op |-> "none", services |-> {}, flag |-> FALSE]

NoWork == [asked |-> Nothing, todo |-> {}, own |-> 0, failed |-> FALSE]

-----------------------------------------------------------------------------
\* The engine, seen through the adapter.

Present == {i \in Ids : containers[i].state # "absent"}

Running(i) == containers[i].state = "running"

(* The container `up` makes for a service has a name of its own.           *)
Serves(s) == {i \in Present : containers[i].service = s /\ ~containers[i].oneOff}

(* Variant: a label is taken as it is.                                     *)
RawLabel(value) == value

(* map_labels and label_value: a label with a blank value counts as none.  *)
label_value(value) == IF value = Blank THEN NoService ELSE value

ServiceOf(i) == label_value(containers[i].service)

(* BollardEngine::snapshot.  Ids and names that are blank are kept out of  *)
(* it (a name stands and falls with its id here); the engine has an image  *)
(* reference for every container.                                          *)
Snapshot ==
  [containers |-> {[id |-> i, name |-> i, image |-> "reference", service |-> ServiceOf(i), replica |-> 0,
                    ours |-> TRUE, complete |-> TRUE, state |-> containers[i].state] : i \in Present},
   networks |-> {}, volumes |-> {}, images |-> images]

Init ==
  /\ \E start \in Starts :
       /\ containers = [i \in Ids |-> IF i <= Len(start) THEN start[i] ELSE NoContainer]
       /\ made = Len(start)
  /\ images = IF made = 0 THEN {} ELSE {TheProject.image[s] : s \in Services} \ {NoImage}
  /\ phase = [c \in Commands |-> "idle"]
  /\ work = [c \in Commands |-> NoWork]
  /\ code = 0
  /\ trouble = 0
  /\ calm = [c \in Commands |-> FALSE]

-----------------------------------------------------------------------------
UnderWay(c) == phase[c] \notin {"idle", "ended", "killed"}

Disturb == calm' = [c \in Commands |-> FALSE]

Go(c, where, knowing) ==
  /\ phase' = [phase EXCEPT ![c] = where]
  /\ work' = [work EXCEPT ![c] = knowing]
  /\ UNCHANGED code

Return(c, result) ==
  /\ phase' = [phase EXCEPT ![c] = "ended"]
  /\ work' = [work EXCEPT ![c] = NoWork]
  /\ code' = result

(* selected_service_container: a running container with the service's      *)
(* label.                                                                  *)
selected_service_container(s) ==
  {k.id : k \in {k \in Snapshot.containers : k.service = s /\ k.state = "running"}}

(* matching_service_containers: none selected stands for all that have a   *)
(* service.                                                                *)
matching_service_containers(selected) ==
  {k.id : k \in {k \in Snapshot.containers :
     k.service # NoService /\ (selected = {} \/ k.service \in selected)}}

(* Variant: start, stop and restart pick what wait picks.                  *)
PickAssigned(selected) == matching_service_containers(selected)

(* What start, stop, restart and logs pick: none selected stands for all.  *)
Pick(selected) ==
  {k.id : k \in {k \in Snapshot.containers : selected = {} \/ k.service \in selected}}

(* analyze_for_runtime reports errors, or the engine cannot be reached:    *)
(* nothing is done.                                                        *)
Refused(c, o) == \E result \in {1, 2} : Return(c, result)

Asked(o) == [NoWork EXCEPT !.asked = o]

BeginRun(c, o) == o.op = "run" /\ Go(c, "creating", Asked(o))

BeginLifecycle(c, o) ==
  /\ o.op \in {"start", "stop", "restart", "logs"}
  /\ Go(c, "working", [Asked(o) EXCEPT !.todo = Pick(o.services)])

BeginWait(c, o) ==
  /\ o.op = "wait"
  /\ LET picked == matching_service_containers(o.services)
     IN  IF picked = {} THEN Return(c, 1) ELSE Go(c, "working", [Asked(o) EXCEPT !.todo = picked])

(* runtime_exec, runtime_cp and runtime_port.                              *)
BeginReach(c, o) ==
  /\ o.op \in {"exec", "cp", "port"}
  /\ \E s \in o.services :
       \/ \E i \in selected_service_container(s) : Go(c, "reaching", [Asked(o) EXCEPT !.own = i])
       \/ selected_service_container(s) = {} /\ Return(c, 1)

(* prune, which an embedding application asks for: the containers of every *)
(* project that do not run, and then the images.                           *)
BeginPrune(c, o) == o.op = "prune" /\ Go(c, "pruning", Asked(o))

BeginBuild(c, o) ==
  /\ o.op = "build" \/ (o.op = "up" /\ o.flag)
  /\ Go(c, "building", [Asked(o) EXCEPT !.todo = Active(TheProject) \cap TheProject.build])

BeginPlan(c, o) ==
  /\ o.op = "down" \/ (o.op = "up" /\ ~o.flag)
  /\ Go(c, "applying", Asked(o))

(* runtime_overview_command: an engine without a status is only degraded.  *)
Overview(c, o) ==
  /\ o.op = "overview"
  /\ \E doctor \in {"available", "misconfigured"}, had \in {"some", "none"} :
       Return(c, IF OverviewStatus(doctor, had) = "unavailable" THEN 2 ELSE 0)

(* The commands begin one after the other.                                 *)
Begin(c, o) ==
  /\ phase[c] = "idle"
  /\ \A d \in Commands : d < c => phase[d] # "idle"
  /\ calm' = [d \in Commands |-> d = c /\ ~ \E e \in Commands : UnderWay(e)]
  /\ UNCHANGED <<engineVars, trouble>>
  /\ \/ Refused(c, o) \/ BeginRun(c, o) \/ BeginLifecycle(c, o) \/ BeginWait(c, o)
     \/ BeginReach(c, o) \/ BeginPrune(c, o) \/ BeginBuild(c, o) \/ BeginPlan(c, o) \/ Overview(c, o)

-----------------------------------------------------------------------------
\* The steps of a command.

(* A request is answered as the state of the engine has it, ...            *)
Answered == UNCHANGED <<trouble, calm>>

(* ... or fails for reasons of its own.                                    *)
Fails ==
  /\ trouble < MaxTrouble
  /\ trouble' = trouble + 1
  /\ Disturb

asked(c) == work[c].asked
own(c) == work[c].own
todo(c) == work[c].todo
Failed(c) == [work[c] EXCEPT !.failed = TRUE]

At(c, where, op) == phase[c] = where /\ asked(c).op = op

(* runtime_run: the container is made, without ports and networks, ...     *)
CreateOneOff(c) ==
  /\ At(c, "creating", "run")
  /\ \E s \in asked(c).services :
       \/ /\ s \in Services /\ TheProject.image[s] \in images
          /\ made' = made + 1
          /\ containers' = [containers EXCEPT ![made + 1] =
                              [service |-> s, oneOff |-> TRUE, state |-> "created", code |-> 0]]
          /\ Go(c, "starting", [work[c] EXCEPT !.own = made + 1])
          /\ Answered
       \/ /\ \/ s \notin Services /\ Return(c, 1) /\ Answered
             \/ s \in Services /\ TheProject.image[s] \notin images /\ Return(c, 2) /\ Answered
             \/ Return(c, 2) /\ Fails
          /\ UNCHANGED <<containers, made>>
  /\ UNCHANGED <<images>>

StartWith(i) == [containers EXCEPT ![i].state = "running"]

(* The container at hand is gone, or the request fails.                    *)
OwnFails(c) == IF own(c) \in Present THEN Fails ELSE Answered

(* ... started, ...                                                        *)
StartOneOff(c) ==
  /\ At(c, "starting", "run")
  /\ \/ own(c) \in Present /\ containers' = StartWith(own(c)) /\ Go(c, "following", work[c]) /\ Answered
     \/ OwnFails(c) /\ Go(c, "cleaning", Failed(c)) /\ UNCHANGED containers
  /\ UNCHANGED <<made, images>>

(* ... its output followed until it exits or the stream breaks, ...        *)
FollowOneOff(c) ==
  /\ At(c, "following", "run")
  /\ \/ own(c) \in Present /\ ~Running(own(c)) /\ Go(c, "waiting", work[c]) /\ Answered
     \/ OwnFails(c) /\ Go(c, "waiting", Failed(c))
  /\ UNCHANGED engineVars

(* The engine answers a wait as soon as the container does not run, ...    *)
NotRunning(i) == i \in Present /\ ~Running(i)

(* ... which bollard turns into an error unless the code of the last exit  *)
(* is 0, as it is if there was none; the adapter makes it an EngineError.  *)
wait_container(i) == IF containers[i].code = 0 THEN "exited" ELSE "error"

(* ... the exit waited for, ...                                            *)
WaitOneOff(c) ==
  /\ At(c, "waiting", "run")
  /\ \/ /\ NotRunning(own(c))
        /\ Go(c, "cleaning", IF wait_container(own(c)) = "error" THEN Failed(c) ELSE work[c])
        /\ Answered
     \/ OwnFails(c) /\ Go(c, "cleaning", Failed(c))
  /\ UNCHANGED engineVars

(* Variant: what comes of the cleaning up is ignored, as it is after a     *)
(* start that failed.                                                      *)
RunCodeIgnoringCleanup(c, cleaned) == IF work[c].failed THEN 2 ELSE 0

RunCode(c, cleaned) == IF work[c].failed \/ ~cleaned THEN 2 ELSE 0

(* ... and it is removed, unless it runs again (cleanup_one_off).          *)
CleanOneOff(c) ==
  /\ At(c, "cleaning", "run")
  /\ \/ /\ ~asked(c).flag
        /\ Return(c, RunCode(c, TRUE)) /\ Answered /\ UNCHANGED containers
     \/ /\ asked(c).flag /\ NotRunning(own(c))
        /\ containers' = [containers EXCEPT ![own(c)].state = "absent"]
        /\ Return(c, RunCode(c, TRUE)) /\ Answered
     \/ /\ asked(c).flag
        /\ IF NotRunning(own(c)) THEN Fails ELSE Answered
        /\ Return(c, RunCode(c, FALSE)) /\ UNCHANGED containers
  /\ UNCHANGED <<made, images>>

-----------------------------------------------------------------------------
\* start, stop, restart, wait and logs work off what they picked, one
\* container after the other; the first error ends them.

Done(c, i) == [work[c] EXCEPT !.todo = @ \ {i}, !.own = 0]

(* Variant: a container that is gone is asked for again and again.         *)
LostForever(c) == FALSE

(* The container whose turn it is is not there any more.                   *)
Lost(c) ==
  \/ phase[c] = "working" /\ \E i \in todo(c) : i \notin Present
  \/ phase[c] = "stopped" /\ own(c) \notin Present

RequestFails(c) ==
  /\ phase[c] \in {"working", "stopped"}
  /\ (Lost(c) /\ Answered) \/ Fails
  /\ Return(c, 2)
  /\ UNCHANGED engineVars

StartNext(c) ==
  /\ At(c, "working", "start")
  /\ \E i \in todo(c) \cap Present : containers' = StartWith(i) /\ Go(c, "working", Done(c, i))
  /\ Answered
  /\ UNCHANGED <<made, images>>

(* A running container exits with whatever code the signal makes of it.    *)
Stopped(i) ==
  IF Running(i) THEN {[containers EXCEPT ![i].state = "exited", ![i].code = e] : e \in {0, 1}}
  ELSE {containers}

StopNext(c) ==
  /\ At(c, "working", "stop")
  /\ \E i \in todo(c) \cap Present : containers' \in Stopped(i) /\ Go(c, "working", Done(c, i))
  /\ Answered
  /\ UNCHANGED <<made, images>>

(* restart stops each container and starts it again.                       *)
StopToRestart(c) ==
  /\ At(c, "working", "restart")
  /\ \E i \in todo(c) \cap Present :
       containers' \in Stopped(i) /\ Go(c, "stopped", [work[c] EXCEPT !.own = i])
  /\ Answered
  /\ UNCHANGED <<made, images>>

StartAgain(c) ==
  /\ At(c, "stopped", "restart")
  /\ own(c) \in Present
  /\ containers' = StartWith(own(c))
  /\ Go(c, "working", Done(c, own(c)))
  /\ Answered
  /\ UNCHANGED <<made, images>>

(* The first container that exited with another code than 0 ends the wait. *)
WaitNext(c) ==
  /\ At(c, "working", "wait")
  /\ \E i \in todo(c) :
       /\ NotRunning(i)
       /\ IF wait_container(i) = "error" THEN Return(c, 2) ELSE Go(c, "working", Done(c, i))
  /\ Answered
  /\ UNCHANGED engineVars

(* The output of a container ends, with --follow when it exits.            *)
OutputEnds(i, follow) == i \in Present /\ (follow => ~Running(i))

ShowNext(c) ==
  /\ At(c, "working", "logs")
  /\ \E i \in todo(c) : OutputEnds(i, asked(c).flag) /\ Go(c, "working", Done(c, i))
  /\ Answered
  /\ UNCHANGED engineVars

Finish(c) ==
  /\ phase[c] = "working"
  /\ todo(c) = {}
  /\ Return(c, 0)
  /\ Answered
  /\ UNCHANGED engineVars

-----------------------------------------------------------------------------
\* exec, cp, port, build, up and down.

(* The answers of the engine: a stopped container has files, and no ports. *)
Execs(i)  == {IF Running(i) THEN "output" ELSE "error"}
Copies(i) == {IF i \in Present THEN "archive" ELSE "error"}
Ports(i)  == IF i \notin Present THEN {"error"} ELSE IF Running(i) THEN {"ports", "none"} ELSE {"none"}

(* exec returns 0 however the command it ran exited.                       *)
ExecCode(i) == {IF answer = "error" THEN 2 ELSE 0 : answer \in Execs(i)}

(* cp may find that an archive cannot be made or unpacked.                 *)
CopyCode(i) == UNION {IF answer = "error" THEN {2} ELSE {0, 2} : answer \in Copies(i)}

PortCode(i) == {CASE answer = "error" -> 2 [] answer = "none" -> 1 [] OTHER -> 0 : answer \in Ports(i)}

Reach(c) ==
  /\ phase[c] = "reaching"
  /\ \/ /\ \E result \in CASE asked(c).op = "exec" -> ExecCode(own(c))
                           [] asked(c).op = "cp"   -> CopyCode(own(c))
                           [] asked(c).op = "port" -> PortCode(own(c)) : Return(c, result)
        /\ Answered
     \/ Return(c, 2) /\ Fails
  /\ UNCHANGED engineVars

PruneContainers(c) ==
  /\ phase[c] = "pruning"
  /\ containers' = [i \in Ids |-> IF Running(i) THEN containers[i] ELSE [containers[i] EXCEPT !.state = "absent"]]
  /\ Go(c, "pruningImages", work[c])
  /\ Answered
  /\ UNCHANGED <<made, images>>

UsedImages == {TheProject.image[containers[i].service] : i \in {i \in Present : containers[i].service \in Services}}

(* Only with all_images are images pruned that have a name.                *)
PruneImages(c) ==
  /\ phase[c] = "pruningImages"
  /\ images' = IF asked(c).flag THEN images \cap UsedImages ELSE images
  /\ Return(c, 0)
  /\ Answered
  /\ UNCHANGED <<containers, made>>

(* The first error ends it; what was removed before is not reported.       *)
PruneFails(c) ==
  /\ phase[c] \in {"pruning", "pruningImages"}
  /\ Return(c, 2)
  /\ Fails
  /\ UNCHANGED engineVars

(* Whether buildx is run for a build definition, and what comes of it.     *)
Buildable(b) ==
  LET paths == resolve_build_inputs(ProjectDir, b)
  IN  paths.error = "none" /\ DockerfileValid(paths.dockerfile, b)

ResultOf(s, process) == BuildError(TheProject.image[s], NoImage, process, FALSE)

(* build_images_from_analysis, a service at a time.  An image without a    *)
(* name is built all the same.                                             *)
BuildNext(c) ==
  /\ phase[c] = "building"
  /\ \E s \in todo(c) : \E b \in Builds[s] :
       /\ Buildable(b) /\ ResultOf(s, "succeeded") = "none"
       /\ images' = images \cup {TheProject.image[s]}
       /\ Go(c, "building", Done(c, s))
  /\ Answered
  /\ UNCHANGED <<containers, made>>

BuildFails(c) ==
  /\ phase[c] = "building"
  /\ \E s \in todo(c) : \E b \in Builds[s] :
       \/ ~(Buildable(b) /\ ResultOf(s, "succeeded") = "none") /\ Answered
       \/ \E process \in {"unlaunched", "failed"} : ResultOf(s, process) # "none" /\ Fails
  /\ Return(c, 2)
  /\ UNCHANGED engineVars

BuildDone(c) ==
  /\ phase[c] = "building"
  /\ todo(c) = {}
  /\ IF asked(c).op = "build" THEN Return(c, 0) ELSE Go(c, "applying", work[c])
  /\ Answered
  /\ UNCHANGED engineVars

UpOptions == [images |-> "PullIfMissing", builds |-> "NeverBuild", waits |-> "EmitSupported"]
Capabilities == {"health"} \cup UNION {TheProject.needs[s] : s \in Services}

(* Variant: up makes a container for a service that has one, too.          *)
MissingOrNot == Active(TheProject)

(* The services whose container can be made: its name is free.             *)
Missing == {s \in Active(TheProject) : Serves(s) = {}}

(* up: the images are pulled and a container is made and started for each  *)
(* service, in whatever order; one whose name is taken fails, the others   *)
(* go on.                                                                  *)
Up(c) ==
  LET last == made + Cardinality(Missing)
  IN  /\ images' = images \cup RequiredImages(TheProject)
      /\ \E whose \in Bijection((made + 1)..last, Missing) :
           containers' = [i \in Ids |->
              IF i \in DOMAIN whose
              THEN [service |-> whose[i], oneOff |-> FALSE, state |-> "running", code |-> 0]
              ELSE containers[i]]
      /\ made' = last
      /\ Return(c, IF Missing = Active(TheProject) THEN 0 ELSE 1)

(* down: the only container of each service is removed, whatever made it.  *)
Down(c) ==
  /\ containers' = [i \in Ids |-> IF containers[i].service \in Active(TheProject)
                                   THEN [containers[i] EXCEPT !.state = "absent"] ELSE containers[i]]
  /\ Return(c, 0)
  /\ UNCHANGED <<made, images>>

Problems(o) ==
  IF o.op = "up" THEN UpProblems(TheProject, Capabilities, Snapshot, UpOptions)
  ELSE DownProblems(TheProject, Snapshot)

ApplyPlan(c) ==
  /\ phase[c] = "applying"
  /\ Problems(asked(c)) = {}
  /\ IF asked(c).op = "up" THEN Up(c) ELSE Down(c)
  /\ Answered

Blocked(c) ==
  /\ phase[c] = "applying"
  /\ (Problems(asked(c)) # {} /\ Answered) \/ Fails
  /\ Return(c, 2)
  /\ UNCHANGED engineVars

-----------------------------------------------------------------------------
(* The command is killed; what it made stays.                              *)
Kill(c) ==
  /\ UnderWay(c)
  /\ Go(c, "killed", NoWork)
  /\ Answered
  /\ UNCHANGED engineVars

ProcessExits(i) ==
  /\ Running(i)
  /\ \E e \in {0, 1} : containers' = [containers EXCEPT ![i].state = "exited", ![i].code = e]
  /\ UNCHANGED <<made, images, phase, work, code, trouble, calm>>

(* Others remove a container.                                              *)
Meddle(i) ==
  /\ i \in Present
  /\ Fails
  /\ containers' = [containers EXCEPT ![i].state = "absent"]
  /\ UNCHANGED <<made, images, phase, work, code>>

Continue(c) ==
  \/ CreateOneOff(c) \/ StartOneOff(c) \/ FollowOneOff(c) \/ WaitOneOff(c) \/ CleanOneOff(c)
  \/ StartNext(c) \/ StopNext(c) \/ StopToRestart(c) \/ StartAgain(c) \/ WaitNext(c) \/ ShowNext(c)
  \/ RequestFails(c) \/ Finish(c)
  \/ PruneContainers(c) \/ PruneImages(c) \/ PruneFails(c)
  \/ Reach(c) \/ BuildNext(c) \/ BuildFails(c) \/ BuildDone(c) \/ ApplyPlan(c) \/ Blocked(c)

Rest == (\A c \in Commands : phase[c] \in {"ended", "killed"}) /\ UNCHANGED vars

Next ==
  \/ \E c \in Commands : (\E o \in Operations : Begin(c, o)) \/ Continue(c) \/ Kill(c)
  \/ \E i \in Ids : ProcessExits(i) \/ Meddle(i)
  \/ Rest

(* A command goes on as long as it is not blocked.                         *)
Spec == Init /\ [][Next]_vars /\ \A c \in Commands : WF_vars(Continue(c))

-----------------------------------------------------------------------------
TypeOK ==
  /\ containers \in [Ids -> Container]
  /\ made \in 0..MaxContainers
  /\ phase \in [Commands -> Phases]
  /\ work \in [Commands -> [asked : Operations \cup {Nothing}, todo : SUBSET (Ids \cup Services),
                            own : 0..made, failed : BOOLEAN]]
  /\ code \in 0..2
  /\ trouble \in 0..MaxTrouble /\ calm \in [Commands -> BOOLEAN]

Ends(c) == phase[c] # "ended" /\ phase'[c] = "ended"

(* `run` returns 0 if its container exited with 0 and 2 if it did not,     *)
(* unless somebody meddled; and with --rm (the default) it has left no     *)
(* container behind if it returned 0, whatever happened meanwhile, or if   *)
(* nobody meddled, however the container exited (runtime_run,              *)
(* cleanup_one_off).                                                       *)
RunReturnsAndCleans ==
  [][\A c \in Commands :
       Ends(c) /\ asked(c).op = "run" /\ own(c) # 0 =>
         /\ asked(c).flag /\ (code' = 0 \/ calm'[c]) => containers'[own(c)].state = "absent"
         /\ calm'[c] => (code' = 0 <=> containers'[own(c)].code = 0) /\ code' \in {0, 2}]_vars

Selected(o) ==
  {i \in Ids : /\ containers[i].state # "absent"
               /\ o.services = {} \/ ServiceOf(i) \in o.services}

(* What a command that returned 0 leaves behind.                           *)
AsAsked(o) ==
  CASE o.op = "stop" \/ (o.op = "logs" /\ o.flag) -> \A i \in Selected(o) : ~Running(i)
    [] o.op \in {"start", "restart"} -> \A i \in Selected(o) : containers[i].state # "created"
    [] o.op = "wait" -> \A i \in Selected(o) :
         ServiceOf(i) # NoService => ~Running(i) /\ containers[i].code = 0
    [] o.op = "up" -> \A s \in Active(TheProject) : \E i \in Serves(s) : containers[i].state # "created"
    [] o.op = "down" -> \A i \in Present : containers[i].service \notin Active(TheProject)
    [] o.op = "build" -> {TheProject.image[s] : s \in Active(TheProject) \cap TheProject.build} \subseteq images
    [] o.op = "prune" -> /\ \A i \in Present : containers[i].state # "created"
                         /\ o.flag => images \subseteq UsedImages
    [] OTHER -> TRUE

(* A command that returns 0 has done what it was asked to every container  *)
(* it was asked about, unless others meddled: not one of the snapshot is   *)
(* passed over, whether it has a service or a run made it.                 *)
CommandsKeepTheirWord ==
  [][\A c \in Commands : \A o \in Operations :
       Ends(c) /\ asked(c) = o /\ code' = 0 /\ calm'[c] => AsAsked(o)']_vars

Imageless == \E s \in Active(TheProject) : TheProject.image[s] = NoImage

(* up and down are refused only where a container that a `run` left behind *)
(* claims a service together with another one (io.susun.oneoff is not read *)
(* by the snapshot): the other commands never bring such a state about.    *)
(* (An up of a project with a service that has no image is refused, too.)  *)
RefusedOnlyForOneOffs ==
  [][\A c \in Commands :
       phase[c] = "applying" /\ Ends(c) /\ code' = 2 /\ trouble' = trouble =>
         \/ asked(c).op = "up" /\ Imageless
         \/ \E s \in Services : Cardinality(Claims(Snapshot, s)) > 1 /\ \E i \in Present :
              containers[i].service = s /\ containers[i].oneOff]_vars

(* The container a command waits for runs.                                 *)
Awaits(c) ==
  \/ phase[c] \in {"following", "waiting"} /\ Running(own(c))
  \/ asked(c).op \in {"wait", "logs"} /\ \E i \in todo(c) : Running(i)

(* Every command ends, unless it is killed or the process it waits for     *)
(* goes on and on; one it waits for and that is removed does not keep it.  *)
CommandsEnd == \A c \in Commands : []<>(~UnderWay(c) \/ Awaits(c))

(* The status of the project (susun status) is one that its own parser     *)
(* accepts exactly if the project has a name that is not blank: what the   *)
(* labels of the containers say never spoils it, a blank one included, nor *)
(* do their counts, and one that runs is counted once.  A service with a   *)
(* container to run exec or cp in is a service with one that runs.         *)
StatusAgrees ==
  \A name \in ProjectNames :
    LET summary == runtime_status_from_snapshot(name, Snapshot)
    IN  /\ StatusAccepted(summary) <=> name # Blank
        /\ summary.counts.states["running"] = Cardinality({i \in Present : Running(i)})
        /\ \A s \in Services : \A i \in selected_service_container(s) :
             \E t \in summary.services : t.service = s /\ t.running_containers > 0
=============================================================================

------------------------ MODULE DeploymentProperties -----------------------
(***************************************************************************)
(* What up and down promise about the engine they leave behind.            *)
(***************************************************************************)
EXTENDS Deployment

Outputs == [containers : [Services -> Nat], networks : [Networks -> Nat], volumes : SUBSET Volumes]
Fate == Settled \cup {"waiting", "running"}

EngineTypes ==
  /\ containers \in [Services -> [id : Nat, ours : BOOLEAN,
                                  state : {"absent", "created", "completed", "crashed"} \cup Live]]
  /\ networks \in [Networks -> [id : Nat, ours : BOOLEAN]]
  /\ volumes \in [Volumes -> {"absent", "ours", "unlabelled", "other"}]
  /\ made \in [Services \cup Networks -> Nat]

CommandTypes ==
  /\ phase \in [Commands -> {"idle", "planned", "applying", "closed", "blocked", "dead"}]
  /\ outputs \in [Commands -> Outputs]
  /\ owned \in [Commands -> SUBSET Volumes]
  /\ DOMAIN plan = Commands /\ DOMAIN fate = Commands /\ DOMAIN seen = Commands
  /\ \A c \in Commands :
       /\ fate[c] \in [DOMAIN plan[c] -> Fate] /\ DOMAIN seen[c] = DOMAIN plan[c]
       /\ \A a \in DOMAIN plan[c] : a.kind = "CreateVolume" => Name(a) \in Volumes

TypeOK == EngineTypes /\ CommandTypes

(* Containers and networks of others are never touched, also when they     *)
(* take the name of one of the project's that a command has seen and that  *)
(* is gone by now: removal goes by the engine's ids.  A volume has no id   *)
(* and is removed by its name: one of others is lost only to a down that   *)
(* saw the project's own volume of that name in its second snapshot, not   *)
(* one that was there by then.                                             *)
ForeignUntouched ==
  [][/\ \A s \in Services : Present(s) /\ ~containers[s].ours => containers'[s] = containers[s]
     /\ \A n \in Networks : networks[n].id # 0 /\ ~networks[n].ours => networks'[n] = networks[n]
     /\ \A v \in Volumes :
          volumes[v] = "other" /\ volumes'[v] # "other" =>
            \E c \in Commands : /\ v \in owned[c]
                               /\ \E a \in InFlight(c) \ InFlight(c)' :
                                    a.kind = "RemoveVolume" /\ Name(a) = v]_vars

(* A volume of the project is lost only to a down that was asked for it,   *)
(* or to others.                                                           *)
VolumesSurvive ==
  [][\A v \in Volumes :
       volumes[v] = "ours" /\ volumes'[v] # "ours" /\ meddling' = meddling =>
         \E c \in Commands : operation[c].volumes /\ operation[c].op = "down"]_vars

(* A command never removes a container or a network made after its second  *)
(* snapshot, although its plan is older and other commands may have put    *)
(* new ones in the place of those it meant: removal goes by the engine's   *)
(* ids, not by the names that containers and networks are given again.     *)
NewcomersSurvive ==
  [][/\ \A s \in Services :
          Present(s) /\ containers'[s].id = 0 /\ meddling' = meddling =>
            \E c \in Commands : containers[s].id <= horizon[c][s]
                               /\ RemoveId(s) \in InFlight(c) /\ RemoveId(s) \notin InFlight(c)'
     /\ \A n \in Networks :
          networks[n].id # 0 /\ networks'[n].id = 0 =>
            \E c \in Commands : /\ networks[n].id <= horizon[c][n]
                               /\ \E a \in InFlight(c) \ InFlight(c)' :
                                    a.kind = "RemoveNetwork" /\ Name(a) = n]_vars

(* The states of a container that meet a condition, besides having exited. *)
Fit == [ServiceStarted |-> Live, ServiceHealthy |-> {"healthy"}, ServiceCompletedSuccessfully |-> {}]

(* No container is started by an up while a container it depends on is     *)
(* missing, was never started, runs but is not healthy yet where it is to  *)
(* be, or still runs where it is to complete, unless a down under way at   *)
(* the same time or somebody else interferes.                              *)
DependentsStartLater ==
  [][\A s \in Services :
       /\ containers[s].state \notin Live /\ containers'[s].state \in Live
       /\ meddling' = 0 /\ \A c \in Commands : operation[c].op = "down" => calm[c] /\ phase[c] = "closed"
       => \A d \in DependsOn(TheProject, s) \cap Active(TheProject) :
            containers[d].state \in Exits \cup Fit[TheProject.dependsOn[s][d]]]_vars

(* A down that nobody disturbs succeeds, after whatever was left by        *)
(* commands that failed or were killed before it, and leaves nothing of    *)
(* the project but volumes it was not asked to remove, orphans, and the    *)
(* networks and volumes those use.                                         *)
DownCleansUp ==
  [][\A c \in Commands :
       operation[c].op = "down" /\ phase[c] = "applying" /\ phase'[c] = "closed" /\ calm[c] =>
         /\ \A s \in Active(TheProject) : ~containers[s].ours
         /\ \A n \in Networks : networks[n].ours =>
              \E s \in Services \ Active(TheProject) : Present(s) /\ n \in TheProject.networks[s]
         /\ operation[c].volumes => \A v \in Volumes : volumes[v] = "ours" => Mounting(v) # {}
         /\ \A a \in DOMAIN plan[c] :
              fate[c][a] # "succeeded" => a.kind \in {"RemoveNetwork", "RemoveVolume"}]_vars

(* verify_execution_snapshot: the services of a plan of which a snapshot   *)
(* has no container.                                                       *)
verify_execution_snapshot(p, snap) ==
  {Name(a) : a \in {a \in DOMAIN p :
                a.kind \in {"CreateContainer", "VerifyBuildInputs", "BuildImage", "StartContainer"}}}
    \ {k.service : k \in snap.containers}

(* An up that nobody disturbs fails only where a name it needs is taken or *)
(* a condition it waits for does not come true: nothing it does gets in    *)
(* its own way, whatever the order of its steps.  If nothing failed, its   *)
(* verification against a new snapshot finds every service's container.    *)
UpFailsOnlyForCause ==
  [][\A c \in Commands :
       operation[c].op = "up" /\ phase[c] = "applying" /\ phase'[c] = "closed" /\ calm[c] =>
         /\ \A a \in DOMAIN plan[c] :
              fate[c][a] = "failed" =>
                \/ a.kind = "WaitForDependency"
                \/ a.kind = "CreateContainer" /\ Present(Name(a))
                \/ a.kind = "CreateNetwork" /\ ~networks[Name(a)].ours
         /\ (\A a \in DOMAIN plan[c] : fate[c][a] = "succeeded")
              => verify_execution_snapshot(plan[c], Snapshot) = {}]_vars

-----------------------------------------------------------------------------
(* "A foreign runtime resource conflicts with planned Susun resource       *)
(* creation" is SUS-PLAN-001: no up makes do with a volume of others.      *)
ForeignVolumeRefused ==
  [][\A c \in Commands :
       operation[c].op = "up" /\ phase[c] = "applying" /\ phase'[c] = "closed" /\ calm[c] =>
         \A a \in DOMAIN plan[c] :
           a.kind = "CreateVolume" /\ fate[c][a] = "succeeded" => volumes[Name(a)] # "other"]_vars

(* "Dependency must complete successfully": no container is started while  *)
(* one that is to complete for it has exited with another code than 0.     *)
CompletedSuccessfully ==
  [][\A s \in Services :
       containers[s].state \notin Live /\ containers'[s].state \in Live =>
         \A d \in DependsOn(TheProject, s) :
           TheProject.dependsOn[s][d] = "ServiceCompletedSuccessfully" =>
             containers[d].state # "crashed"]_vars
=============================================================================

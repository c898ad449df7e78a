------------------------------ MODULE Planner ------------------------------
(***************************************************************************)
(* The pure planners: plan_up and plan_down turn a project, a snapshot of  *)
(* the engine and options into a plan, a function from action ids to the   *)
(* ids each action depends on, or into the diagnostics that block it.      *)
(*                                                                         *)
(* A project is a record                                                   *)
(*   order      graph.order: the active services, dependencies first       *)
(*   dependsOn  [service -> [service -> a condition, or "none"]]           *)
(*   image      [service -> an image, or NoImage]                          *)
(*   build      the services with a build definition                       *)
(*   networks   [service -> the networks it is attached to]                *)
(*   volumes    [service -> the named volumes it mounts]                   *)
(*   declared   the volumes of the top-level volumes section               *)
(*   needs      [service -> the engine features it asks for]               *)
(* A snapshot is a record of four sets, with the containers, networks and  *)
(* volumes as records and "ours" for a matching project instance; an owned *)
(* resource carries the label that names its service, network or volume.   *)
(***************************************************************************)
EXTENDS Naturals, Sequences, FiniteSets

CONSTANTS
  Services,   \* the service names
  Networks,   \* project.networks
  Volumes,    \* the volume names
  NoImage     \* the image of a service that declares none

ASSUME NamesAssumption == IsFiniteSet(Networks) /\ IsFiniteSet(Volumes)

Conditions == {"ServiceStarted", "ServiceHealthy", "ServiceCompletedSuccessfully"}

Active(p) == {p.order[i] : i \in 1..Len(p.order)}

DependsOn(p, s) == {d \in Services : p.dependsOn[s][d] \in Conditions}

(* Services and volumes have the names they can have.  (A service may be   *)
(* attached to a network that is not declared: the analysis reports it and *)
(* hands the project on all the same.)                                     *)
WellFormed(p) ==
  /\ p.order \in Seq(Services)
  /\ p.declared \subseteq Volumes
  /\ \A s \in Active(p) : p.volumes[s] \subseteq Volumes

(* build_graph's promise: each active service once, after those of the     *)
(* active services it depends on.                                          *)
InGraphOrder(p) ==
  \A i, j \in 1..Len(p.order) :
    i <= j => (p.order[i] = p.order[j] => i = j) /\ p.order[j] \notin DependsOn(p, p.order[i])

-----------------------------------------------------------------------------
\* Action ids: ActionId::from_parts(resource key, kind, discriminator), where
\* <<>> stands for the discriminator "0".  The hash is taken to be injective.

Id(key, kind, disc) == [key |-> key, kind |-> kind, disc |-> disc]

Name(a) == a.key[2]

CreateId(s)   == Id(<<"service", s>>, "CreateContainer", <<>>)
StartId(s)    == Id(<<"service", s>>, "StartContainer", <<>>)
WaitId(s, d)  == Id(<<"dependency", s>>, "WaitForDependency", <<d>>)
VerifyId(s)   == Id(<<"build", s>>, "VerifyBuildInputs", <<>>)
BuildId(s)    == Id(<<"build", s>>, "BuildImage", <<>>)
PullId(i)     == Id(<<"image", i>>, "PullImage", <<>>)
StopId(s)     == Id(<<"service", s>>, "StopContainer", <<>>)
RemoveId(s)   == Id(<<"service", s>>, "RemoveContainer", <<>>)

(* Every dependency is an action of the plan, and every non-empty set of   *)
(* actions has one that depends on none of them.                           *)
IsDag(plan) ==
  /\ \A a \in DOMAIN plan : plan[a] \subseteq DOMAIN plan
  /\ \A S \in SUBSET DOMAIN plan : S # {} => \E a \in S : plan[a] \cap S = {}

-----------------------------------------------------------------------------
\* up

Ours(resources, name)    == \E r \in resources : r.name = name /\ r.ours
Foreign(resources, name) == ~Ours(resources, name) /\ \E r \in resources : r.name = name

(* An owned network or volume is accepted, a missing one created.          *)
NetworkId(snap, n) ==
  Id(<<"network", n>>, IF Ours(snap.networks, n) THEN "NoOp" ELSE "CreateNetwork", <<>>)
VolumeId(snap, v) ==
  Id(<<"volume", v>>, IF Ours(snap.volumes, v) THEN "NoOp" ELSE "CreateVolume", <<>>)

RequiredVolumes(p) == p.declared \cup UNION {p.volumes[s] : s \in Active(p)}

RequiredImages(p) == {p.image[s] : s \in Active(p)} \ {NoImage}

MissingImages(p, snap, opts) ==
  IF opts.images = "NeverPull" THEN {} ELSE RequiredImages(p) \ snap.images

Built(p, opts) == IF opts.builds = "BuildDeclared" THEN p.build \cap Active(p) ELSE {}

(* check_up_capabilities: what a service asks for and the engine lacks.    *)
(* DegradeToStartOrder only exempts the wait for a healthy dependency.     *)
CapabilityProblems(p, caps, opts) ==
  {<<"SUS-CAP-004", s>> : s \in {s \in Active(p) : p.image[s] = NoImage}}
    \cup {<<"SUS-CAP", s>> : s \in {s \in Active(p) : ~(p.needs[s] \subseteq caps)}}
    \cup {<<"SUS-CAP-002", s>> : s \in {s \in Active(p) :
            /\ opts.waits # "DegradeToStartOrder" /\ "health" \notin caps
            /\ \E d \in Services : p.dependsOn[s][d] = "ServiceHealthy"}}

ResourceProblems(p, snap, opts) ==
  {<<"SUS-PLAN-001", n>> : n \in {n \in Networks : Foreign(snap.networks, n)}}
    \cup {<<"SUS-PLAN-001", v>> : v \in {v \in RequiredVolumes(p) : Foreign(snap.volumes, v)}}
    \cup {<<"SUS-PLAN-003", i>> : i \in IF opts.images = "RequirePresent"
                                        THEN MissingImages(p, snap, opts) ELSE {}}

Claims(snap, s) == {c \in snap.containers : c.ours /\ c.service = s}

(* duplicate_container_claim: several containers are the first replica.    *)
ServiceProblems(p, snap) ==
  {<<"SUS-PLAN-002", s>> : s \in {s \in Active(p) :
     Cardinality({c \in Claims(snap, s) : c.replica = 0}) > 1}}

(* The diagnostics of the first stage that has any.                        *)
UpProblems(p, caps, snap, opts) ==
  IF CapabilityProblems(p, caps, opts) # {} THEN CapabilityProblems(p, caps, opts)
  ELSE IF ResourceProblems(p, snap, opts) # {} THEN ResourceProblems(p, snap, opts)
  ELSE ServiceProblems(p, snap)

(* start_ids: the services planned before `s`.                             *)
Earlier(p, s) ==
  {p.order[i] : i \in {i \in 1..Len(p.order) : \E j \in 1..Len(p.order) : i < j /\ p.order[j] = s}}

(* add_wait_actions: the dependencies whose condition is waited for.       *)
WaitedFor(p, s) == {d \in DependsOn(p, s) \cap Earlier(p, s) : p.dependsOn[s][d] # "ServiceStarted"}

UpActions(p, snap, opts) ==
  {NetworkId(snap, n) : n \in Networks}
    \cup {VolumeId(snap, v) : v \in RequiredVolumes(p)}
    \cup {VerifyId(s) : s \in Built(p, opts)} \cup {BuildId(s) : s \in Built(p, opts)}
    \cup {PullId(i) : i \in MissingImages(p, snap, opts)}
    \cup {CreateId(s) : s \in Active(p)} \cup {StartId(s) : s \in Active(p)}
    \cup UNION {{WaitId(s, d) : d \in WaitedFor(p, s)} : s \in Active(p)}

(* Variant: the pull of an image is not waited for.                        *)
PrerequisitesWithoutImages(p, snap, opts, s) ==
  {BuildId(b) : b \in Built(p, opts) \cap {s}}
    \cup {NetworkId(snap, n) : n \in p.networks[s] \cap Networks}
    \cup {VolumeId(snap, v) : v \in p.volumes[s]}

(* Variant: nor is the creation of a network.                              *)
PrerequisitesWithoutNetworks(p, snap, opts, s) ==
  {BuildId(b) : b \in Built(p, opts) \cap {s}}
    \cup {PullId(i) : i \in MissingImages(p, snap, opts) \cap {p.image[s]}}
    \cup {VolumeId(snap, v) : v \in p.volumes[s]}

(* What the creation of a container depends on                             *)
(* (add_service_resource_dependencies); undeclared networks are left out.  *)
Prerequisites(p, snap, opts, s) ==
  {BuildId(b) : b \in Built(p, opts) \cap {s}}
    \cup {PullId(i) : i \in MissingImages(p, snap, opts) \cap {p.image[s]}}
    \cup {NetworkId(snap, n) : n \in p.networks[s] \cap Networks}
    \cup {VolumeId(snap, v) : v \in p.volumes[s]}

(* Variant: the waits of a service are planned and not waited for.         *)
StartIgnoringWaits(p, s) ==
  {CreateId(s)} \cup {StartId(d) : d \in DependsOn(p, s) \cap Earlier(p, s)}

(* Variant: dependencies that are not active are depended on, too.         *)
StartAfterAnyDependency(p, s) ==
  {CreateId(s)} \cup {StartId(d) : d \in DependsOn(p, s)} \cup {WaitId(s, d) : d \in WaitedFor(p, s)}

(* What the start of a service depends on.                                 *)
StartAfter(p, s) ==
  {CreateId(s)} \cup {StartId(d) : d \in DependsOn(p, s) \cap Earlier(p, s)}
    \cup {WaitId(s, d) : d \in WaitedFor(p, s)}

UpPlan(p, snap, opts) ==
  [a \in UpActions(p, snap, opts) |->
     CASE a.kind = "BuildImage"        -> {VerifyId(Name(a))}
       [] a.kind = "CreateContainer"   -> Prerequisites(p, snap, opts, Name(a))
       [] a.kind = "StartContainer"    -> StartAfter(p, Name(a))
       [] a.kind = "WaitForDependency" -> {StartId(a.disc[1])}
       [] OTHER -> {}]

-----------------------------------------------------------------------------
\* down

(* index_owned_resources refuses any service with several containers;      *)
(* plan_down refuses an active one that was only partly observed.          *)
DownProblems(p, snap) ==
  LET duplicates == {s \in Services : Cardinality(Claims(snap, s)) > 1}
      incomplete == {s \in Active(p) : \E c \in Claims(snap, s) : ~c.complete}
  IN  IF duplicates # {} THEN {<<"SUS-PLAN-010", s>> : s \in duplicates}
      ELSE {<<"SUS-PLAN-020", s>> : s \in incomplete}

TornDown(p, snap) == {s \in Active(p) : Claims(snap, s) # {}}

(* Variant: a resource that is not the project's is removed with it.       *)
RemovedWhoever(kind, type, resources) ==
  {Id(<<type, r.name>>, kind, <<r.id>>) : r \in resources}

(* plan_network_removal, plan_volume_removal: what the project owns, told  *)
(* apart by the engine's id.                                               *)
Removed(kind, type, resources) ==
  {Id(<<type, r.name>>, kind, <<r.id>>) : r \in {r \in resources : r.ours}}

NothingToDo == Id(<<"project">>, "NoOp", <<>>)

(* Variant: volumes are removed whether asked for or not.                  *)
RemovedVolumesAlways(snap, opts) == Removed("RemoveVolume", "volume", snap.volumes)

RemovedVolumes(snap, opts) ==
  IF opts.volumes THEN Removed("RemoveVolume", "volume", snap.volumes) ELSE {}

DownActions(p, snap, opts) ==
  LET actions ==
        {StopId(s) : s \in TornDown(p, snap)} \cup {RemoveId(s) : s \in TornDown(p, snap)}
          \cup Removed("RemoveNetwork", "network", snap.networks)
          \cup RemovedVolumes(snap, opts)
  IN  IF actions = {} THEN {NothingToDo} ELSE actions

(* Variant: networks and volumes are removed without waiting for the       *)
(* containers.                                                             *)
DownDependenciesOfContainers(p, snap, a) ==
  IF a.kind = "RemoveContainer" THEN {StopId(Name(a))} ELSE {}

DownDependencies(p, snap, a) ==
  IF a.kind = "RemoveContainer" THEN {StopId(Name(a))}
  ELSE IF a.kind \in {"RemoveNetwork", "RemoveVolume"} THEN {RemoveId(s) : s \in TornDown(p, snap)}
  ELSE {}

DownPlan(p, snap, opts) ==
  [a \in DownActions(p, snap, opts) |-> DownDependencies(p, snap, a)]
=============================================================================

# Verification of susun in TLA+

susun reads Compose files, plans what has to be done on a container engine and
does it. This directory models it from the files to the engine: the loading,
merging and validation of a project, the order of its services, the planners
and convergence, the executor that runs a plan's actions concurrently, `up`,
`down` and the commands on services against a Docker engine, and the file
watcher. TLC checks each of them on small instances, and TLAPS proves the most
important properties for every value of the constants.

Paths below are relative to `src/crates/`. `PROJECT.json` lists the runs, the
theorems, the mutations that each property catches, the source lines behind
every definition, and the hazards.

## 1. The system

| component | state | operations | talks to |
|---|---|---|---|
| loader, source (`susun-loader`) | source map, environment snapshot | read and interpolate files, layer the environment, load includes depth first | parsed files to normalize |
| normalize, model (`susun-normalize`) | none (pure) | merge files, resolve `extends`, canonical form, select services by profile | project and selection to validation and graph |
| validation (`susun-validation`) | none (pure) | check references, ports, health conditions | project to diagnostics |
| graph (`susun-graph`) | none (pure) | `build_graph`: services in dependency order, or a cycle | order to the planners |
| facade (`susun`) | none | `Analyzer::analyze`, workspace and summaries, `up_with_engine`, `down_with_engine`, status | all of the above and the runtime |
| planner (`susun-planner`) | none (pure) | `plan_up`, `plan_down`, `topological_action_order`, rendering | reads a project and a snapshot, gives the runtime a plan |
| convergence (`susun-convergence`) | none (pure) | fingerprints, ownership index, differences, decisions, convergence and replacement plans | reads snapshots, gives plans |
| runtime (`susun-runtime`) | ready queue, running set, counters, outputs, report, cancellation token | `apply`, `cancel`, waits, retries, verification | asks the engine, emits events to a handler |
| engine contract, Docker adapter (`susun-engine`, `susun-engine-bollard`) | none of its own; the daemon's containers, networks, volumes, images | snapshot, create, start, stop, remove, pull, prune, exec, copy | HTTP requests to the daemon |
| watch (`susun-watch`) | channels, the worker's map of held events, token | start, recv, cancel, drop | native watcher, worker thread, owner |
| CLI (`susun-cli`) | none | commands on services and one-off containers; `watch` loops over events and copies files | facade, watch session, engine |
| build (`susun-build`) | the buildx process, event stream, token | resolve inputs, build, cancel | a child process |
| secret, compat, testkit | none | redaction, comparison with Compose, a fake engine | |

What is hard in it, and what makes each part correct:

* **Executor.** Completions arrive in any order, the token is cancelled from
  any thread, failures propagate while other branches run on. Correct if an
  action runs once and after what it depends on, failure reaches exactly the
  dependents, nothing is lost, the slots are respected, the report adds up and
  agrees with the events, and it ends.
* **Analysis.** Files include each other under several names and several times;
  what is named later prevails, services extend each other in any order, and a
  mistake anywhere must not go unnoticed. Correct if inclusion ends and reports
  exactly the cycles, precedence is the one documented, `extends` does not
  depend on the order it is resolved in, the graph's order is a topological one,
  and a report without errors means a project that can be planned.
* **Sort.** Plans may come from a file. Correct if exactly the DAGs are
  accepted and the order is topological.
* **Planners.** Correct if every plan is a DAG, orders everything that depends
  on something else, and contains nothing of other projects.
* **Convergence.** Replicas are missing, too many, claimed twice, changed or
  stopped. Correct if every replica is accounted for, no change is missed and
  none is seen where there is none.
* **up and down.** A plan is made from one snapshot, applied against a second
  one, and the engine moves on in between; commands overlap, fail, and are
  killed with requests in flight. Correct if nobody else's resources are
  touched, dependents start later, a down cleans up after anything, and an up
  does not get in its own way.
* **Commands.** Each acts on what its snapshot showed, container by container,
  while others do the same. Correct if an exit code of 0 means that it was done,
  a `run` cleans up whatever happens, commands end, and none brings about a
  state that `up` and `down` refuse.
* **Watch.** Events come faster than they are delivered, the session may be
  cancelled, dropped or lose its native watcher at any time. Correct if the
  latest event of every key is delivered, holding is bounded, and nobody stays
  blocked.
* **Watch sync.** Files are read long after their events. Correct if the
  container ends up with what the host has.

## 2. The modules and the code

### Analysis: `Environment`, `ComposeFile`, `ComposeProject`, `ServiceGraph`, `Workspace`, `Analysis`, `AnalysisProperties`, `AnalysisProofs`

`Analysis` is `Analyzer::analyze` (`susun/src/analyzer.rs`) with the
`IncludeLoader` of `susun-loader`. A step is a file that is begun or left, a
service whose `extends` is resolved, or a turn of the graph's loop. The rest of
the pipeline is functions, each in the module named for its part:

| module | code |
|---|---|
| `Environment` | layers of variables, `.env` files, interpolation (`susun-loader`, `environment/`, `interpolation/`) |
| `ComposeFile` | from YAML nodes to a parsed file (`parser/adapter.rs`) |
| `ComposeProject` | merging, canonical form, ports and mounts, selection (`susun-normalize`), validation (`susun-validation`) |
| `ServiceGraph` | `build_graph` (`susun-graph`) |
| `Workspace` | what an application names (`SusunWorkspace`) and gets (`ProjectSummary` with its validation) |

| variable | code |
|---|---|
| `todo`, `frames`, `loaded`, `parsed` | the loader: files named and not begun, its stack, `loaded_count`, the files in the order they were left |
| `merged`, `names`, `services`, `resolved` | the merged files and the loop of `resolve_extends` |
| `project`, `report` | the canonical project and the diagnostics, by code |
| `stage`, `active`, `indegree`, `ready`, `order` | `build_graph` |

A text is a sequence of symbols: those the code looks for and opaque ones for
all others. A path is the sequence of its names. What a service declares is a
function from slots to values, so that merging one is merging all. `Absent` is
`Option::None`; a project that is not there is the empty sequence, in `merged`
and `project` as in the file that was not parsed. `InterpolatedTexts` is the
texts of a document that the parser interpolates, field by field: what stands
where a mapping or a sequence is expected and is none is not read.

### Executor: `PlanGraph`, `Runtime`, `RuntimeProperties`, `PlanExecution`, `RuntimeProofs`

`Runtime` is `Runtime::apply_cancellable_inner` (`susun-runtime/src/runtime.rs`).
`pc` is the await point the loop is at. A step goes from one await to the next,
because between two of them nothing else of this task runs; the token may be
cancelled between any two steps (`Cancel`).

| variable | code |
|---|---|
| `ready`, `running`, `remaining`, `completed`, `failed` | the loop's `ready`, `running`, `remaining_dependencies`, `completed_actions`, `failed_actions` |
| `status`, `attempts`, `summary` | the `ExecutionReport` |
| `events` | what was emitted for each action, in order |
| `cancelled` | the `CancellationToken` |

`Pop` is the dispatch branch with its two outcomes (`Skip`, `Announce`),
`Start` the spawn, `Complete` a result from the `FuturesUnordered` with the
report's refresh and `release_dependents`, `Retry` a failed attempt that
`RetryPolicy::should_retry` repeats, `Finish` the closing of the report with
`mark_remaining_cancelled`. What an action asks of the engine is how it ends.

`PlanExecution` is the promise to a caller who sees fates and no queues. The
executor refines it (`ImplementsPlanExecution`), liveness included.

### Sort: `ActionDag`, `ActionDagProofs`

`topological_action_order` (`susun-planner/src/dag.rs`): the validating walk over
the plan one action at a time, then the sort one pop at a time. Plans may depend
on unknown ids, on themselves, or map a key to a node with another id.

### Planners and convergence: `Planner`, `Convergence`, `Planning`, `PlannerProofs`

`Planner` has the pure functions: `UpProblems`/`UpPlan` for `plan_up`
(`check_up_capabilities`, `plan_prerequisite_resources`, `plan_services` with
`add_service_resource_dependencies` and `add_wait_actions`) and
`DownProblems`/`DownPlan` for `plan_down` with `index_owned_resources`. A plan is
a function from action ids to dependencies; an id is what the code hashes.
`Convergence` has those of `susun-convergence`: the canonical input of a
fingerprint, `classify_deployment_differences` over the ownership index, the
decision for each difference, the scale delta, the convergence plan, and the
replacement plan of each strategy. Hashes are taken to be injective, so that a
fingerprint is its canonical input.

`Planning` is one call of a planner: `PlanUp`, `PlanDown`, `Converge`,
`Replace`. The first two assume what the analysis ensures (and
`GraphOrdersServices` shows): the services are in graph order, or the planner is
not reached. It does not assume a project without errors, because the
facade does not: a service may be attached to a network nobody declared.

### up and down: `Deployment`, `DeploymentProperties`, `DeploymentProofs`

`Deployment` runs commands (`up_with_engine`, `down_with_engine` of
`susun/src/runtime.rs`) against an engine. `Begin` is the first snapshot and the
plan of it (through `Planner`), `Apply` the second snapshot, from which
`RuntimeOutputs` is filled; `Spawn`, `Skip` and `Close` are the executor as
`PlanExecution` describes it; the actions named after plan actions are
`execute_action_inner` with the Docker adapter's request and `update_outputs`.

| variable | code or engine |
|---|---|
| `containers`, `networks`, `volumes`, `images`, `made` | the daemon's resources by name, and the ids it has given out |
| `phase`, `plan`, `fate` | where a command is, and its plan's actions |
| `outputs` | `RuntimeOutputs` |
| `seen` | the reference an action took from its clone of the outputs when it was spawned |
| `horizon`, `owned`, `calm` | history: the ids known at the second snapshot; the volumes that were the project's then; nobody else interfered since the command began |

Failure is everywhere in it: a request fails before it is carried out (`Fault`)
or its answer is lost (second half of `Succeeds`); a process is killed (`Kill`)
and its requests in flight are carried out later or not at all; processes exit;
and others, at any moment, remove a container, network or volume under one of
the names in `Meddled`, or take that name when it is free (`MeddleWithContainer`,
`MeddleWithNetwork`, `MeddleWithVolume`).

The engine is not in the repository. What is assumed of it is what the adapter
relies on: container and network names are taken once, removal goes by id for
containers and networks and by name for volumes, a running container keeps its
networks and any container its volumes, a removal that is not forced leaves a
running container alone, creating an existing volume answers with that volume,
and a missing volume that a container mounts is made with it.

### Commands: `ServiceCommands`, `RuntimeStatus`, `ImageBuild`, `ServiceCommandsProofs`

`ServiceCommands` runs the commands of `susun-cli/src/main.rs` that act on a
project's services: run, start, stop, restart, wait, logs, exec, cp, port,
build, overview and prune, with `up` and `down` between them. Several are under
way at a time. A command begins with a snapshot and then makes one request to
the engine at a step; a request may fail, the command may be killed between any
two, processes exit, and somebody may remove a container. The containers of
`run` have a name of their own and the labels of their service, but none of a
replica.

Waiting for a container goes through a conversion that is not in the repository:
the adapter forwards the stream of bollard's `wait_container` and makes an
`EngineError` of every `Err` in it (`susun-engine-bollard/src/lib.rs:812-819`).
bollard 0.21 yields such an `Err` for every status above 0, and that is how
`wait_container` is modelled (marked external in `map`): a `run` whose container
fails ends with 2, and a `wait` ends with 2 at the first container that failed.
The branches of `main.rs` for another exit code (`main.rs:754-759`, `895-896`)
are not reached with this engine.

| variable | code or engine |
|---|---|
| `containers`, `images`, `made` | the daemon's |
| `phase`, `work` | the await a command is at, the containers or services it has to work through, the one-off container it made, whether a request failed |
| `code` | the exit code of the command that ended last |
| `trouble`, `calm` | bound and history: what went wrong so far; nobody else interfered |

`up` and `down` are a step each here, planned by `Planner` from a snapshot and
applied whole, because `Deployment` has them in detail. `RuntimeStatus` is the
status summary with all that the parser of it refuses, blank texts included
(`susun/src/status.rs`; labels are blank only where `label_value` of the adapter
lets them be), and
`ImageBuild` the resolution of a build's context and Dockerfile and what comes
of the buildx process (`susun-build`).

### Watch: `Watch`, `WatchProofs`, `WatchSync`

`Watch` is a session: the native callback (`Notify`), the worker
(`run_debouncer`: `LoopHead`, `TakeEvent`, `TakeFailure`, `TimeOut`,
`Disconnected`, `FlushReady`, `FlushAll`), the owner (`CallRecv`, `RecvReturns`,
`RecvClosed`, `DropSession`, `Joined`) and the token. A held event is the number
of its reading, which tells a fresh event from a stale one. `WatchSync` composes
it with a host directory and the loop of `susun watch --sync`
(`susun-cli/src/main.rs`, `runtime_watch` and `sync_watch_event`).

## 3. What is checked

States are distinct states. Every property has a mutation of the modelled code
that breaks it (`PROJECT.json`, `mutants`); the mutated operators stand beside
the ones they change, marked *Variant*.

| run | instance | states | what it shows |
|---|---|---|---|
| `analysis` | 5,526 workspaces in four families: includes among three files and a link, `extends` and dependencies among three services, contents of one file with its environment, mistakes that are easily passed over | 61,653 | includes end and their cycles are reported, what is named prevails, `extends` is flat, services are ordered, a project with a clean report names only what is there, the summary tells which services are planned and can be parsed again |
| `planning` | 3 services (3, 2 or none active), every dependency their order allows; convergence over every set of 8 containers and every pair of 26 configurations; every replacement | 39,702 | every plan is a DAG, a start waits for all it needs (image and build, networks, volumes, dependencies), a down takes only its own and in order, replicas are accounted for, only what is equal is left alone |
| `planning_duplicates` | the same | violation | see findings |
| `action_dag` | every dependency function over 3 actions, unknown ids, mislabelled nodes | 75,031 | exactly the DAGs are accepted, topological order |
| `runtime` | every plan of 4 actions that is not refused and every plan of 3, 2 slots, one pull tried twice | 183,323 | start order, failure propagation, complete reports that agree with events, one late dispatch at most, refinement of `PlanExecution` with its liveness, so that it always ends |
| `deployment` | 3 services, one an orphan; 2 commands in sequence, 2 slots; one fault, one meddling with a service's or a volume's name, kills | 1,479,298 | dependents start later, a down cleans up, an up fails only for cause and what verification says of it |
| `deployment_overlap` | 2 services; 2 commands at the same time, kills, names held by others, and one more made or removed by them at any moment | 1,025,091 | containers and networks of others stay, a volume of others is lost only to a down that saw the project's own of that name, volumes survive, newcomers survive |
| `foreign_volume`, `completed_successfully` | one up | violation | see findings |
| `commands` | 2 services, any 2 commands, 4 engines to begin with, one trouble | 257,580 | the status agrees with the engine and its parser takes it, a run returns 0 exactly if its container did and cleans up, commands do what they say, only one-off containers make up and down refuse, commands end |
| `watch` | 2 keys, debounce 2, tick 1 at least, 3 messages | 696,089 | latest event delivered, bounded holding, debouncing, cancellation within a tick, nobody stays blocked |
| `watch_sync` | 2 files, 3 messages | 425,073 | the container has what the host has when all is at rest, and gets there |

### Bounds

* `MaxDepth` 2 and `MaxFiles` 4 stand for the code's limits
  (`INCLUDE_MAX_DEPTH`, `INCLUDE_MAX_FILES`). Three files, one of them reachable under a second name, give
  cycles of every length up to three, diamonds, and chains that reach either
  limit; both limits are met before the includes run out.
* Three services that extend or depend on each other give chains, cycles and
  tails into cycles in every order of resolution.
* Eight containers and 26 configurations: two claims for one replica, a surplus
  one, a foreign one, one without identity, and one difference in each field a
  fingerprint has.
* Four actions give every shape in which a dependent has several dependencies,
  a failure passes through a skipped action, and a branch goes on beside it.
  Two slots make actions overlap; a third adds no new pair of neighbours.
* Three nodes give cycles of every length up to three, with and without a tail.
* Three services: one that is waited for, one that waits, one that is not part
  of the project any more and keeps the shared network in use. `NumCommands` is
  two, because every hazard found needs one command that leaves something and
  one that meets it. `MaxFaults` and `MaxMeddling` are one; one more resource of others under a
  name the project uses is what a stale snapshot can be wrong about. The run with two
  commands at a time has one slot each and two services: its interleavings are
  between commands.
* A `Debounce` of two with a tick of one lets a key's window span several
  rounds of the worker. Three messages let a key be replaced and another kept.

* Two commands on two services with engines that hold nothing, the containers
  of an up, what a run left, and a container with no service. `MaxContainers` is
  six, as many as these can make, and `MaxTrouble` one.

`MaxMessages`, `MaxFaults`, `MaxMeddling`, `MaxAlive`, `MaxContainers`,
`MaxTrouble` and `NumCommands` are the bounds that appear in guards; `MaxDepth`
and `MaxFiles` are limits of the code. The theorems hold for all their values.

### Fairness and time

* `Runtime`: weak fairness of the executor with its engine, since the runtime
  polls a task that can go on. An action in flight ends, and an event handler
  returns: the loop awaits both without a timeout, so the code relies on it.
  `Cancel` has no fairness.
* `ActionDag`: weak fairness of the only thread there is.
* `Watch`, `WatchSync`: weak fairness of the worker, of time, and of a blocked
  owner that can wake up. Nobody has to call `recv`, cancel or drop; the host
  need not change. The worker's own steps take no time; time passes only while
  it waits. This is an idealisation: the bounds of `DelaysBounded`
  hold up to the time the worker's own steps take.
* `ServiceCommands`: weak fairness of each command's own steps, as long as it is
  not killed. No container has to exit, so `CommandsEnd` excepts a command that
  waits for a process that runs on and on.
* `Analysis`, `Planning`, `Deployment`: none. They state safety only. The
  executor's termination is shown in `runtime`.

`Planning` stops when the call has returned, so its runs do not check for
deadlock. In all other runs a stuck state is an error; where the system is done,
a named action (`Returned`, `Gone`, `Rest`) says so.

### Findings

Each is a run that checks one sentence of the repository and finds it broken.

1. `planning_duplicates`. The diagnostics catalog says of SUS-PLAN-002 that "a
   planned service container would duplicate an existing runtime container".
   The planner refuses a service only if *several* containers claim it: over one
   it plans to create another, which fails at run time because the name is taken.
2. `foreign_volume`. The catalog says of SUS-PLAN-001 that "a foreign runtime
   resource conflicts with planned Susun resource creation". The Docker
   adapter's snapshot lists only the project's own resources, so the check sees
   none of others'; creating a container or a network over them then fails, but
   creating a volume succeeds, and the project uses it.
3. `completed_successfully`. `ServiceCompletedSuccessfully` is documented as
   "dependency must complete successfully". The wait ends when the container
   has exited, whatever its exit code.

Seen while reading. These are stated by no run; where a model meets them, it
does what the code does.

Analysis:

* A port or a volume that cannot be parsed is dropped without a diagnostic
  (`susun-normalize/src/normalize.rs`), as are scalars of another type than
  text where text is expected, and `!reset` on what is not a mapping.
  `extends.file` is read and not used.
* A required variable that is missing in an include's path ends the analysis
  with an error instead of a diagnostic. Problems of the `.env` file beside the
  first file are reported twice. A file that is included on two ways is merged
  twice.
* Mounts of an included file are resolved against the directory of the first
  file. Overlapping ranges of host ports are not compared, only equal ones. A
  dependency on a service that is not selected gives no diagnostic. The catalog
  calls SEM-002 a warning; the code reports an error.
* A summary of a project with an empty image, profile or the like is refused by
  its own parser, although the report is clean (`ShowsNothing`).

Planning and convergence:

* `RefuseWaits`, `RefuseExisting`, `remove_orphans` and
  `DownPlanOptions::timeout` are read nowhere (the dependency wait policy only
  in the capability check, so `DegradeToStartOrder` still plans the wait). An
  `up` with nothing to do gives an empty plan, which `apply` refuses. Stops of
  different services have no edges between them.
* Nothing in the repository calls `plan_replacement`, and only examples and
  benches plan a convergence; the executor does nothing for the scale actions
  and `NoOp`. A changed configuration gets a decision but no action.
  SUS-OWN-002 is never emitted. A replica that nobody asked for and that two
  containers claim is passed over. `RestartOnly`, and `CreateThenSwitch` without
  another name, create a container while its name is taken.
* The fingerprint leaves out the owners and modes of configs and secrets, and
  the names of what the service does not use. It encodes a value that is not
  there as the text `<absent>` (`fingerprint/digest.rs`, `atom_opt`), so a
  configuration with that text has the fingerprint of one without it; the
  models' texts are other ones (`IsConfiguration`). The Docker adapter fills in
  no fingerprint.

Commands and engine:

* A container of `run` is taken for its service's first replica, since
  `io.susun.oneoff` is read nowhere. If it stays behind, a later `up` or `down`
  is refused beside a service's container (SUS-PLAN-002, SUS-PLAN-010), and
  where it is the only claim, `down` removes it.
* start, stop, restart and logs without services also take containers of the
  project that have no service; wait does not. `exec` ends with 0 whatever the
  command's exit code; `wait` on a container that never ran returns 0 at once.
  `run` of a container that fails returns 2, whatever the container's exit code.
  The help of `wait` says "Wait for selected project service containers to exit";
  it returns 2 at the first container that failed, because waiting for that one is
  an error (`susun-cli/src/main.rs:899`), and does not wait for the others.
* A project whose name is blank has a status that its own parser refuses. A
  service's label cannot be: the adapter drops blank labels.
  `up` reads its scale, orphan and renewal flags nowhere, and `watch --action
  restart` restarts what was stopped.
* A failure of the native watcher overtakes the events that are held and ends
  `susun watch`, which then handles none of them (`susun-watch/src/lib.rs:279`).
* `prune` is not filtered by project, and what it removed before an error is not
  told. A volume that was lost and made again with its container carries no
  label, so no `down` removes it. A `down -v` removes volumes by name
  (`susun-runtime/src/runtime.rs:464`, `susun-engine-bollard/src/lib.rs:733`): it
  may remove one that is newer than its snapshot, also one that others made
  after the project's own of that name was gone. `ForeignUntouched` says that
  there is no other way to lose one.

## 4. What is proved

TLAPS proves these for every value of the constants (any number of actions,
services, commands, keys, slots, faults; any debounce window).

| module | theorems | argument |
|---|---|---|
| `AnalysisProofs` | `GraphInvariant`, `ServicesOrdered`; `LoadingEnds`, `CyclesFound`; `NamedFilesPrevail`; `ExtendsIsFlattened`; `AnalysisOrdersServices`, `CleanReport`; `SummaryIsTrue` | from `GraphInv`; from the loader's `LoadInv`, `PathInv`; with `RootInv`, `PrevailInv`; with `ExtendsInv`; with `SoundInv`, `GraphMadeInv`; with `ToldInv` |
| `RuntimeProofs` | `ExecutorInvariant`, `TypeCorrect`, `DependencyOrder`, `FailureReachesDependents`, `NothingLeftOver`, `EveryActionHeldOnce`, `SlotsUsed`, `LateDispatchBound`, `ReportAgreesWithEvents`; `RuntimeImplementsPlanExecution` | all from `ExecutorInvariant`; one lemma per step of the executor |
| `ActionDagProofs` | `SortingInvariant`, `OrderCorrect`, `AcceptanceIsExact` | from `SortingInv` |
| `PlannerProofs` | `UpPlanIsDag`, `DownPlanIsDag`, `ReplacementPlanIsDag`, `PlannerCorrect`; `StartsInOrder`, `TearsDownInOrder`, `ReplicasCounted`; `FingerprintsTell`, `OnlyEqualKept` | no set of actions depends on itself; what is reached in a few steps; a fingerprint is read back |
| `DeploymentProofs` | `DeploymentTypes`, `ForeignSafe`; `VolumesSafe`, `NewcomersSafe`; `DependentsSafe`; `DownCleans`, `UpFailsForCause` | from `ForeignInv`; with `RemovalInv`; with `StartInv`; with `CleanInv` |
| `ServiceCommandsProofs` | `CommandsInvariant`, `StatusSound`, `RunSound`, `WordKept`, `RefusedSoundly` | from `CommandsInv` |
| `WatchProofs` | `SessionInvariant`, `NoEventLost`, `DelayBound`, `Debounces`; `SyncInvariant`, `SyncSafe` | from `SessionInv`; with `SyncInv` |

**Graph.** As in the sort below: a counter is the number of dependencies not yet
in the order, what is ready is what has none left, so every dependency of a
service is before it; and if services are left over at the end, they are a set
in which each depends on another. This is the assumption of the planners'
theorems.

**Loading.** The stack's files are different because a file is begun only if its
key is on no frame, the files named under the top frame are checked against the
depth before they are begun, and the count before it is raised. That no more
than `MaxFiles` are read, whatever they include, follows for any workspace.

`CyclesFound` compares the loader, which forgets a file when it leaves it, with
the ways down from the files named. The stack is such a way (`StackInv`), so a
file refused as a cycle ends one that meets a file twice (`CycleInv`). The other
direction is `ExploredInv`: while nothing was refused, every chain that leaves
the stack for a file which does not wait any more ends within the depth and
meets no file twice. It is kept when a frame is left, because all that the
frame's file includes is explored by then, and says at the end that there is no
cycle. Without the chains through the stack it is not inductive: whether a chain
meets a file twice depends on how one came there.

**Precedence.** `RootInv` tells which of the files named is loaded and that it is
the last of what `parsed` collects, behind all it includes; `PrevailInv`, that
what the files merged so far declare is in the project or was declared again by a
later file. One merge keeps what its overlay declares and, of the base, what the
overlay does not speak of (`Brings`, `Has`): the order of services, in which a
service moves to the end when it is merged again, changes nothing of it.

**Extends.** `Ancestry` and the code's path are both a `Line`, a chain of services
each of which extends the next, and from a service there is only one of each
length. The code stops at a service already resolved, a repeated
one or a missing one. That a chain which goes on over more services than there
are meets one twice is the pigeonhole; from there on it never ends well
(`WellExtended` is false for every service on it), so the code may leave all of
them as they were. `Flattened` is the induction along the path from its end:
what a service has is its own and what the next one has, unless its tag
replaces it, and that is what its nearest ancestor declares. `ExtendsInv` says
the resolved services are as they should be and the rest untouched; the order of
`names` does not appear in it.

**Clean reports.** `SoundInv` is like `ExploredInv`: without an error, all below a
file that does not wait is there and reads without one (`Readable`, `Sealed`).
The graph works on numbers, the project on names: `Listed` says that the order
of a project lists its services once each, through every merge, so that the
numbers stand for them (`GraphMadeInv`). A dependency that is not there is
reported by the validation, as is a network, volume, config or secret nobody
declares, and one of a service on itself by the graph. Of ports the theorem says
what the code compares: equal numbers and equal ranges, not overlapping ones. `ToldInv`
is for what has no project: of the files named that were begun something is
left, or an error.

**Executor.** `DependenciesSucceedFirst` is not inductive. Its strengthening says
that the counters count what is not completed, that the queue lists once each
the eligible actions that are neither running nor being started, that `failed`
is what the statuses say, and what was emitted for an action where it is. The
counters are what the code really relies on: `release_dependents` queues a
dependent at the count of zero, and only the counter invariant tells that this
is the moment its last dependency completed. `NothingLeftOver` is where acyclic
plans matter: of the actions left over one would be eligible, and an eligible
action is held somewhere.

**Report.** A report and the events are written at different moments: an event
when something happens, the report after a result. The events of an action are
determined by where the executor holds it (`ExecutorInv`), and at the end by its
status alone; `ReportInv` adds how often it was tried, and that the summary is
counted anew whenever a status has changed.

**Refinement.** Fates are read off the statuses and the location. Every step
changes one fate or none, and the guards of `PlanExecution` follow from the
executor's invariant. The liveness of the refinement is checked by TLC only.

**Sort.** While sorting, each counter is the number of dependencies not yet in
the order; so the order is topological, and if it is shorter than the plan then
the rest is a set in which everything depends on something of it: a cycle.

**Planner.** In any set of actions of an up plan there is one that depends on
none of the set: one that is no start and no wait, in the order of verifying,
building, and creating; or the start that comes first in graph order, or a wait
for it. This uses the assumption that the graph orders the services, and nothing
of the snapshot or the options. The actions of a convergence plan do not depend
on each other, and those of a replacement are ranked by the strategy's order.
What is over before a start is reached in at most two steps back, so
`StartsInOrder` needs no induction over `After`: a start depends on the container
and on the dependencies' starts and waits, and one step further back are the image,
what builds it, the networks and the volumes; a removal depends on the containers' removals itself. In `ReplicasCounted` an action of the plan
is traced back to the difference or the marker it stands for, and a plan that is
not blocked leaves no replica with two claims.

**Fingerprints.** `FingerprintsTell` reads the encoding back. The atoms have keys
that tell the parts apart; a part that is a list is compared as the set of its
elements, except configs and secrets: these may have several mounts with the same
source and target, which differ in their owners only, so the encoding has as many
equal elements, and what it tells is how many (`SameConfiguration` counts them,
the proof by a bijection). The names resolved are compared as far as the service
uses them. `OnlyEqualKept` then needs of `classify_container` that each of its
answers is given for one reason. The proof found that the model of it did not
have that: it was a `CASE` with guards that overlap, of which TLA+ takes any one,
where the code takes the first. It is a chain of `IF`s now, as `BuildError` is.

**Deployment.** No command has a reference to a container or a network of others
(`Unknown`): its outputs come from a filtered snapshot or from its own creations,
and although others may take a name the command knows at any moment, what they
make has a new id, above all that were given out (`Issued`). Without the bound by
`made` the invariant is not inductive. A volume has no id. What a command may
remove of them by name are those that were the project's at its second snapshot
(`owned`): removals take their name from the outputs, only an up adds to these by
creating, only a down removes, and a command is one or the other. Whether the
volume of that name is still the project's, no invariant can say; so
`ForeignSafe` excepts that case and no other; without the exception TLC refutes
it on the instance of `deployment_overlap`.

`VolumesSafe` and `NewcomersSafe` need `RemovalInv`: only a down removes, volumes
only if it was asked to, and its references are those of its second snapshot or
none at all, which are not above the ids given out by then (`horizon`). Ids are
given out in order, so what was made later has another one, under the same name
too. Volumes have no ids, and `NewcomersSurvive` does not speak of them.

`DependentsSafe` is about overlapping ups, and the plan's order is not enough for
it: a second up may start, at any moment, what the first one made, waited for and
saw complete. It does not, because a container is started by its maker only.
`StartInv` says so (`OwnedOnce`: no two commands own the same container, neither
in their outputs nor in a request in flight, killed or not), and so what was
started is `Steady`: it runs or has ended and nobody is about to start it again.
What was waited for is `Ready` until it is relied on, because a container only
goes from running to healthy and from there to its end. All of this is off while a
down interferes; the rest of the invariant (`CalmAlone`) shows that when the last
down that did is over, no command is under way whose plan was made before.

`DownCleans` and `UpFailsForCause` are about a command that nothing disturbs. It
is alone (`CalmAlone`), so every step of the engine is its own or a container that
changes its state (`OnlyItsOwn`); but the plan's actions still run side by side,
and each knows only the ids of the second snapshot and of the creations before
it. `CleanInv` relates the three, resource by resource. Of a down (`TearsDown`):
whatever of the project is there has its removal planned, not yet done, and known
by the id it has; a container does not run once it was stopped, so its removal
cannot be refused; networks and volumes are removed after all containers, so that
only a container of a service left out can hold them. Of an up (`BringsUp`): what
a container needs is there or supplied before it, an action that succeeded has
left there what it supplies, and a start takes the id of the creation before it.
That a down is not complete while something of the project is left needs both
directions: the resources there are among those planned, and what is planned and
not done is there. `OursHaveIds` is what makes an unknown id (zero) differ from
that of anything of the project's.

**Commands.** `CommandsInv` says what a command that nobody disturbed has seen to
so far (`Progress`: what it has worked off is as it was asked to be) and that
nobody else is under way beside it. `WordKept`, `RunSound` are its values at the
end; what `wait_container` makes of an exit code is in its actions, so that the
theorem speaks of the exit code the program returns. `RefusedSoundly` rests on `OneReplica`: no service has two containers that
`up` made, because the name of the first is taken.
`StatusSound` counts the containers of the summary through a bijection from
those of the engine, and shows that no text the parser refuses as blank can be in
it, the project's name excepted.

**Watch.** What is held is the latest reading of its key and its age is how long
the key has been quiet; the channel carries a key's events from older to newer;
what is neither held nor in the channel was received.

**Watch sync.** A file that differs between host and container has an event on its
way: in the native queue, held, in the channel, or with the loop. Of a file that is
being copied the content in the container does not matter, since it is about to be
overwritten, perhaps by an older one; what matters is what it will have
(`WillHave`). Without that the invariant is not inductive.

The assumptions are the named `ASSUME`s: sets of plans and inputs of the right
type, positive slots, a tick of at least one, limits that are numbers, finitely
many networks and volumes (and services, for the commands), changes of the host
that are messages of the watcher, and, for the planners, services in graph order.
Of the analysis' inputs they ask what a YAML parser and a command line ensure:
some file is named, a file holds lists of nodes, there is a number for each
service, and no key is `Option::None`. Of a convergence's: its containers and
configurations have the fields of the code's types, no text is `<absent>`, and a
container that carries a fingerprint of this version carries the one of what it
was made from.
Of an engine to begin with, they ask that no two projects hold a name and that a
service has one container of its own at most; of `MaxContainers`, that there is
room for what the commands make, so that the bound stops none of them.

Some of the invariants behind these are in no run, because their consequences
are: `TypeOK` of the executor and of the deployment, `HeldExactlyOnce`,
`SortingInv`, `GraphInv`, and those of the analysis, which speak of chains of any
length. A change of the code that breaks one of them breaks a
proof, or a property of a run.

### Only model-checked

* Liveness and fairness (`CatchesUp`, `NobodyStaysBlocked`, `CommandsEnd`, and
  the liveness half of `ImplementsPlanExecution`): the prover does not handle
  `ENABLED`.
* `SummaryCanBeParsed`: whether a text of the project is empty after its
  interpolation and splitting decides what the parser of a summary says. The
  direction that the parser refuses it would need all texts of the project to be
  told apart from `Absent` and from each other's records, which an untyped
  constant is not.

Recursive functions are proved about, with a lemma that each satisfies its
equation (`ItemsAtDefined` and its like) and induction over positions (`UpTo`).
The project declares no `RECURSIVE` operator.

## 5. What is not modelled

* Text and its layout: the syntax of YAML, source spans, rendering of plans and
  diagnostics, redaction, runtime names (taken to be injective), the
  compatibility harness, the fake engine.
* Of the analysis: provenance, and the fields of a healthcheck, a build or a
  mount that no rule reads, which are carried along as they are. Its liveness:
  what ends it is in `IncludesEnd` and in the graph's shrinking rest.
* What a container is created with (ports, mounts, environment): no property
  of the engine's models tells two of them apart.
* In `Deployment`: the four lists of a snapshot are taken at one moment; pulls
  are tried once, since pulling again changes nothing; a wait finds its
  condition met or gives up at any moment; builds are not planned (the default)
  and cancellation is covered in `Runtime`.
* In `ServiceCommands`: services have no dependencies, networks or volumes, and
  the CLI's commands that only print are left out.
* Of convergence: the classification of impact, orphans, images and volumes, and
  the parsing of fingerprints; nothing calls them.
* Of the adapter and the facade: inventories, the engine's event stream, engine
  profiles, connection, artifacts. Of the build: log events, `.dockerignore`.
* In `Watch` and `WatchSync`: confinement of paths to the root, event kinds
  other than the four, mappings that match a file several times, and the rebuild
  and restart actions. A change of the host and its report are one step.
* The executor's event handler is assumed to return.

## 6. Plan

Done: the executor with its promise and refinement; the sort; the watch session
and `watch --sync`; the planners, up and down against an engine; the graph as the
source of the planners' orders; convergence and replacement plans; the loader
and the analysis; the commands on services. Left, in this order:

1. `Deployment` with snapshots as four lists, and with waits against a clock.
2. Replicas: convergence plans run by `Deployment`'s engine, once the executor
   acts on them.
3. `watch` with rebuild and restart, and with several mappings.
4. Proofs: `SummaryCanBeParsed`, with texts told apart from what is not there.
5. Impact and orphan classification, when something plans with them.

----------------------------- MODULE Convergence ---------------------------
(***************************************************************************)
(* Convergence planning: an observed deployment is compared with the       *)
(* desired one, replica by replica, into decisions, diagnostics and a      *)
(* plan.  A container carries the fingerprint of the configuration it was  *)
(* made with in a label.                                                   *)
(*                                                                         *)
(* A desired deployment is a record: services, the active ones; given, the *)
(* replica counts asked for; input, what a service's fingerprint is made   *)
(* of.  A container claims an instance (a service's replica, of this       *)
(* project or of another) unless it has no service identity.               *)
(***************************************************************************)
EXTENDS Planner

None == "none"  \* Option::None, of a text

-----------------------------------------------------------------------------
\* What the fingerprint is made of (CanonicalFingerprintInput::from_input):
\* sorted lists are sets, environment values are digests, taken to be
\* injective, and "inherited" stands for a variable without a value.

NameIn(names, key) == IF key \in DOMAIN names THEN names[key] ELSE None

CanonicalVolumeMount(v, names) ==
  [kind |-> v.kind, source |-> v.source, target |-> v.target, read_only |-> v.read_only,
   runtime_name |-> IF v.kind = "Volume" THEN NameIn(names, v.source) ELSE None]

CanonicalResourceMount(m, names) ==
  [source |-> m.source, runtime_name |-> NameIn(names, m.source), target |-> m.target, owner |-> m.owner]

CanonicalNetworkAttachment(n, attachments, names) ==
  [name |-> n, runtime_name |-> NameIn(names, n), aliases |-> attachments[n]]

CanonicalFingerprintInput(in) ==
  LET s == in.service
      names == in.names
  IN  [image |-> in.image, command |-> s.command, entrypoint |-> s.entrypoint,
       environment |-> s.environment, labels |-> s.labels, ports |-> s.ports,
       volumes |-> {CanonicalVolumeMount(v, names.volumes) : v \in s.volumes},
       networks |-> {CanonicalNetworkAttachment(n, s.networks, names.networks) : n \in DOMAIN s.networks},
       configs |-> {CanonicalResourceMount(m, names.configs) : m \in s.configs},
       secrets |-> {CanonicalResourceMount(m, names.secrets) : m \in s.secrets},
       healthcheck |-> s.healthcheck,
       restart_policy |-> IF s.restart # None THEN s.restart ELSE in.defaults.restart_policy,
       defaults |-> in.defaults]

(* What it may be made of.  No text is "<absent>", which the encoding has  *)
(* for one that is not there.                                              *)
IsCommand(c) ==
  \/ c.kind = "shell" /\ c = [kind |-> "shell", value |-> c.value]
  \/ c.kind = "exec" /\ c = [kind |-> "exec", values |-> c.values]
  \/ c = [kind |-> "absent"]

IsPublished(p) ==
  \/ p.kind = "single" /\ p = [kind |-> "single", start |-> p.start, end |-> p.start]
  \/ p.kind = "range" /\ p = [kind |-> "range", start |-> p.start, end |-> p.end]
  \/ p = [kind |-> "absent", start |-> 0, end |-> 0]

IsHealthcheck(h) ==
  \/ h = [present |-> FALSE]
  \/ /\ h = [present |-> TRUE, test |-> h.test, interval |-> h.interval, timeout |-> h.timeout,
             start_period |-> h.start_period, retries |-> h.retries, disable |-> h.disable]
     /\ IsCommand(h.test)
     /\ "<absent>" \notin {h.interval, h.timeout, h.start_period, h.retries}

AreMounts(mounts) ==
  /\ IsFiniteSet(mounts)
  /\ \A m \in mounts : m = [source |-> m.source, target |-> m.target, owner |-> m.owner] /\ m.target # "<absent>"

IsServiceConfiguration(s) ==
  /\ s = [command |-> s.command, entrypoint |-> s.entrypoint, environment |-> s.environment,
          labels |-> s.labels, ports |-> s.ports, volumes |-> s.volumes, networks |-> s.networks,
          configs |-> s.configs, secrets |-> s.secrets, healthcheck |-> s.healthcheck, restart |-> s.restart]
  /\ IsCommand(s.command) /\ IsCommand(s.entrypoint) /\ IsHealthcheck(s.healthcheck)
  /\ s.environment = [key \in DOMAIN s.environment |-> s.environment[key]]
  /\ s.labels = [key \in DOMAIN s.labels |-> s.labels[key]]
  /\ s.networks = [n \in DOMAIN s.networks |-> s.networks[n]]
  /\ \A p \in s.ports :
       /\ p = [host_ip |-> p.host_ip, published |-> p.published, target |-> p.target, protocol |-> p.protocol]
       /\ IsPublished(p.published) /\ p.host_ip # "<absent>"
  /\ \A v \in s.volumes :
       /\ v = [kind |-> v.kind, source |-> v.source, target |-> v.target, read_only |-> v.read_only]
       /\ v.source # "<absent>"
  /\ AreMounts(s.configs) /\ AreMounts(s.secrets)
  /\ s.restart # "<absent>"

IsConfiguration(in) ==
  /\ IsServiceConfiguration(in.service)
  /\ in.image = [reference |-> in.image.reference, digest |-> in.image.digest, image_id |-> in.image.image_id]
  /\ "<absent>" \notin {in.image.reference, in.image.digest, in.image.image_id}
  /\ in.defaults = [restart_policy |-> in.defaults.restart_policy, network_driver |-> in.defaults.network_driver,
                    pull_policy |-> in.defaults.pull_policy]
  /\ "<absent>" \notin {in.defaults.restart_policy, in.defaults.network_driver, in.defaults.pull_policy}
  /\ \A names \in {in.names.networks, in.names.volumes, in.names.configs, in.names.secrets} :
       \A key \in DOMAIN names : names[key] # "<absent>"

-----------------------------------------------------------------------------
\* The digest: a sequence of atoms, a key and a value.  The encoding has the
\* length of both, and SHA-256 is taken to be injective.  A sorted list is
\* encoded as its length and the atoms of its elements.

atom(key, value) == <<key, value>>
atom_opt(key, value) == atom(key, IF value = None THEN "<absent>" ELSE value)

encode_image(image) ==
  <<atom_opt("reference", image.reference), atom_opt("digest", image.digest), atom_opt("id", image.image_id)>>

encode_command(command) ==
  CASE command.kind = "shell" -> <<atom("kind", "shell"), atom("value", command.value)>>
    [] command.kind = "exec"  -> <<atom("kind", "exec"), atom("argc", Len(command.values)),
                                   atom("args", command.values)>>
    [] OTHER -> <<atom("kind", "<absent>")>>

encode_environment(environment) ==
  <<Cardinality(DOMAIN environment),
    {<<key, atom("inherited", environment[key] = "inherited"),
       atom("value_digest", IF environment[key] = "inherited" THEN "<absent>" ELSE environment[key])>> :
       key \in DOMAIN environment}>>

encode_pairs(pairs) == <<Cardinality(DOMAIN pairs), {atom(key, pairs[key]) : key \in DOMAIN pairs}>>

encode_published(published) ==
  CASE published.kind = "single" -> <<atom("kind", "single"), atom("value", published.start)>>
    [] published.kind = "range"  -> <<atom("kind", "range"), atom("start", published.start),
                                      atom("end", published.end)>>
    [] OTHER -> <<atom("kind", "<absent>")>>

encode_ports(ports) ==
  <<Cardinality(ports),
    {<<atom_opt("host_ip", p.host_ip), encode_published(p.published), atom("target", p.target),
       atom("protocol", p.protocol)>> : p \in ports}>>

encode_volumes(volumes) ==
  <<Cardinality(volumes),
    {<<atom("kind", v.kind), atom_opt("source", v.source), atom_opt("runtime_name", v.runtime_name),
       atom("target", v.target), atom("read_only", v.read_only)>> : v \in volumes}>>

encode_networks(networks) ==
  <<Cardinality(networks),
    {<<n.name, atom_opt("runtime_name", n.runtime_name), atom("aliases.count", Cardinality(n.aliases)),
       atom("aliases", n.aliases)>> : n \in networks}>>

(* The owner and mode of the file are left out: mounts that differ in them *)
(* only are counted apart and encoded alike.                               *)
encode_mounts(mounts) ==
  LET encoded(m) == <<m.source, atom_opt("runtime_name", m.runtime_name), atom_opt("target", m.target)>>
  IN  <<Cardinality(mounts),
        {<<encoded(m), Cardinality({n \in mounts : encoded(n) = encoded(m)})>> : m \in mounts}>>

encode_healthcheck(h) ==
  IF ~h.present THEN <<atom("present", "false")>>
  ELSE <<atom("present", "true"), encode_command(h.test), atom_opt("interval", h.interval),
         atom_opt("timeout", h.timeout), atom_opt("start_period", h.start_period),
         atom_opt("retries", h.retries), atom("disable", h.disable)>>

digest_canonical_input(c) ==
  <<encode_image(c.image), encode_command(c.command), encode_command(c.entrypoint),
    encode_environment(c.environment), encode_pairs(c.labels), encode_ports(c.ports),
    encode_volumes(c.volumes), encode_networks(c.networks), encode_mounts(c.configs),
    encode_mounts(c.secrets), encode_healthcheck(c.healthcheck),
    atom_opt("restart.policy", c.restart_policy),
    atom_opt("default.restart_policy", c.defaults.restart_policy),
    atom_opt("default.network_driver", c.defaults.network_driver),
    atom_opt("default.pull_policy", c.defaults.pull_policy)>>

Fingerprint(version, digest) == [version |-> version, algorithm |-> "sha256", digest |-> digest]

NoFingerprint == Fingerprint(0, <<>>)

compute_configuration_fingerprint(in) ==
  Fingerprint(1, digest_canonical_input(CanonicalFingerprintInput(in)))

-----------------------------------------------------------------------------
\* Ownership.

(* A container's state, and the label it got of the configuration it was   *)
(* made from, or one of another version, or none.                          *)
IsContainer(c) ==
  /\ c.state \in {"created", "running", "exited", "paused", "restarting", "unknown"}
  /\ IsConfiguration(c.made)
  /\ c.fingerprint.version = 1 => c.fingerprint = compute_configuration_fingerprint(c.made)

Instance(c) == [ours |-> c.ours, service |-> c.service, replica |-> c.replica]

Claiming(containers, i) == {c \in containers : c.claims /\ Instance(c) = i}

(* Variant: of several containers that claim an instance one is the owner. *)
OwnerOfSeveral(containers, i) == Claiming(containers, i) # {}

(* An instance that several containers claim is nobody's.                  *)
OwnedByOne(containers, i) == Cardinality(Claiming(containers, i)) = 1

(* OwnershipIndex::from_snapshot_with_names, with the services it is asked *)
(* about; container names are not looked at by ObservedDeployment::new.    *)
OwnershipIndex(services, names, containers) ==
  LET claimed == {Instance(c) : c \in {c \in containers : c.claims /\ c.service \in services}}
      owned == {i \in claimed : OwnedByOne(containers, i)}
  IN  [containers |-> [i \in owned |-> CHOOSE c \in Claiming(containers, i) : TRUE],
       duplicate_claims |-> {i \in claimed : Cardinality(Claiming(containers, i)) > 1},
       orphan_containers |-> {c \in containers : c.claims /\ c.service \notin services},
       foreign_name_conflicts |-> {c.name : c \in {c \in containers : ~c.claims /\ c.name \in names}}]

ObservedDeployment(desired, containers) == OwnershipIndex(desired.services, {}, containers)

(* DesiredDeployment::new: one replica of an active service, if not told.  *)
Replicas(desired) ==
  [s \in desired.services \cup DOMAIN desired.given |->
     IF s \in DOMAIN desired.given THEN desired.given[s] ELSE 1]

(* expand_desired_replicas.                                                *)
DesiredInstances(desired) ==
  UNION {{[ours |-> TRUE, service |-> s, replica |-> r] : r \in 0..(Replicas(desired)[s] - 1)} :
           s \in DOMAIN Replicas(desired)}

-----------------------------------------------------------------------------
\* Differences and decisions.

(* Variant: a stopped container is compatible whatever it was made from.   *)
ClassifyStoppedFirst(c, desired) ==
  IF c.state = "unknown" \/ ~c.imageKnown THEN "UnsupportedObservedState"
  ELSE IF c.state \in {"created", "exited"} THEN "StoppedButCompatible"
  ELSE IF desired = NoFingerprint \/ c.fingerprint # desired THEN "ConfigurationChanged"
  ELSE IF c.state = "running" THEN "Unchanged"
  ELSE "RuntimeStateDrift"

(* A container without a fingerprint, or with one of another version, is   *)
(* changed, as is one of a service whose fingerprint was not given.        *)
classify_container(c, desired) ==
  IF c.state = "unknown" \/ ~c.imageKnown THEN "UnsupportedObservedState"
  ELSE IF desired = NoFingerprint \/ c.fingerprint # desired THEN "ConfigurationChanged"
  ELSE IF c.state = "running" THEN "Unchanged"
  ELSE IF c.state \in {"created", "exited"} THEN "StoppedButCompatible"
  ELSE "RuntimeStateDrift"

(* The fingerprints the caller gives, for the services it gives them for.  *)
DesiredFingerprint(desired, s) ==
  IF s \in DOMAIN desired.input THEN compute_configuration_fingerprint(desired.input[s])
  ELSE NoFingerprint

classify_instance(i, index, fingerprint) ==
  IF i \in index.duplicate_claims THEN "OwnershipAmbiguous"
  ELSE IF i \notin DOMAIN index.containers THEN "Missing"
  ELSE classify_container(index.containers[i], fingerprint)

classify_deployment_differences(desired, containers) ==
  LET index == ObservedDeployment(desired, containers)
  IN  [i \in DesiredInstances(desired) |->
         classify_instance(i, index, DesiredFingerprint(desired, i.service))]

decision_kind(difference) ==
  CASE difference = "Missing"              -> "Create"
    [] difference = "Unchanged"            -> "NoOp"
    [] difference = "StoppedButCompatible" -> "Start"
    [] difference \in {"ImageChanged", "ConfigurationChanged"} -> "Recreate"
    [] difference = "RuntimeStateDrift"    -> "Restart"
    [] OTHER                               -> "Block"

ConvergenceDecision(difference) ==
  LET kind == decision_kind(difference)
  IN  [kind |-> kind, mutates |-> kind \notin {"NoOp", "Block"},
       downtime_expected |-> kind \in {"Restart", "Recreate", "Stop", "Remove"},
       destructive |-> kind \in {"Remove", "Recreate"}]

(* convergence_diagnostic_for_difference: its severity, if there is one.   *)
DiagnosticSeverity(difference) ==
  CASE difference = "Missing" -> "Note"
    [] difference = "ConfigurationChanged" -> "Warning"
    [] difference \in {"OwnershipAmbiguous", "UnsupportedObservedState"} -> "Error"
    [] OTHER -> None

-----------------------------------------------------------------------------
\* Plans.

ConvergeId(i, kind) == Id(<<"converge", i>>, kind, <<>>)

(* plan_noop_or_start: a container to be recreated, restarted or created   *)
(* gets no action.                                                         *)
NoopOrStart(differences) ==
  {ConvergeId(i, "NoOp") : i \in {i \in DOMAIN differences : differences[i] = "Unchanged"}}
    \cup {ConvergeId(i, "StartContainer") :
            i \in {i \in DOMAIN differences : differences[i] = "StoppedButCompatible"}}

(* classify_scale_delta: markers for the replicas that are missing or too  *)
(* many, counting those only that have one owner.                          *)
ScaleDelta(desired, containers) ==
  LET owned == DOMAIN ObservedDeployment(desired, containers).containers
  IN  [scale_up |-> DesiredInstances(desired) \ owned,
       scale_down |-> {i \in owned : i.ours} \ DesiredInstances(desired)]

plan_scale(delta) ==
  {ConvergeId(i, "ScaleUpReplica") : i \in delta.scale_up}
    \cup {ConvergeId(i, "ScaleDownReplica") : i \in delta.scale_down}

(* plan_convergence: the errors that keep the plan back, ...               *)
ConvergenceErrors(desired, containers) ==
  LET differences == classify_deployment_differences(desired, containers)
  IN  {<<differences[i], i>> :
         i \in {i \in DOMAIN differences : DiagnosticSeverity(differences[i]) = "Error"}}

(* ... and the plan, whose actions are independent.                        *)
ConvergencePlan(desired, containers) ==
  [a \in NoopOrStart(classify_deployment_differences(desired, containers))
          \cup plan_scale(ScaleDelta(desired, containers)) |-> {}]

(* plan_replacement: the old container is stopped, its name freed, by      *)
(* removing or renaming it, if the strategy does so, and the new one made, *)
(* started and verified.                                                   *)
ClearName(strategy, renamed) ==
  CASE strategy = "StopRemoveCreateStart"         -> {"RemoveContainer"}
    [] strategy = "CreateThenSwitch" /\ renamed   -> {"RenameContainer"}
    [] OTHER -> {}

ReplacementKinds(strategy, renamed) ==
  {"RecreateContainer", "StopContainer", "CreateContainer", "StartContainer", "VerifyReplacement"}
    \cup ClearName(strategy, renamed)

(* Variant: the new container is made once the old one is stopped.         *)
CreateAfterStop(strategy, renamed) == {"StopContainer"}

CreateAfter(strategy, renamed) ==
  IF ClearName(strategy, renamed) = {} THEN {"StopContainer"} ELSE ClearName(strategy, renamed)

ReplacedAfter(kind, strategy, renamed) ==
  CASE kind = "RecreateContainer" -> {}
    [] kind = "StopContainer"     -> {"RecreateContainer"}
    [] kind \in {"RemoveContainer", "RenameContainer"} -> {"StopContainer"}
    [] kind = "CreateContainer"   -> CreateAfter(strategy, renamed)
    [] kind = "StartContainer"    -> {"CreateContainer"}
    [] kind = "VerifyReplacement" -> {"StartContainer"}

ReplacementPlan(i, strategy, renamed) ==
  [a \in {ConvergeId(i, kind) : kind \in ReplacementKinds(strategy, renamed)} |->
     {ConvergeId(i, kind) : kind \in ReplacedAfter(a.kind, strategy, renamed)}]
=============================================================================

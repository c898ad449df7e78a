------------------------------ MODULE Workspace ------------------------------
(***************************************************************************)
(* SusunWorkspace and ProjectSummary of crates/susun, workspace.rs: how an *)
(* embedding application names what is to be analyzed, and the summary of  *)
(* the analysis it can keep as JSON and parse again.                       *)
(***************************************************************************)
EXTENDS ComposeProject

(* Everything left as it is, which means compose.yaml here, the process's  *)
(* own environment and no profile.                                         *)
NewWorkspace ==
  [files |-> <<>>, env_file |-> Absent, env |-> Absent, project_name |-> Absent, profiles |-> <<>>]

primary_file(w) == IF w.files = <<>> THEN <<"compose.yaml">> ELSE Head(w.files)

(* What Analyzer::analyze is given, on a host: its files, their real paths *)
(* where another name leads there, its .env files, the contents of the     *)
(* files that may be named as --env-file, the process's environment.       *)
analyzer(w, host) ==
  [roots |-> IF w.files = <<>> THEN <<primary_file(w)>> ELSE w.files,
   name |-> w.project_name,
   process |-> IF w.env = Absent THEN host.environment ELSE w.env,
   profiles |-> Range(w.profiles),
   envFile |-> IF w.env_file = Absent THEN Absent
               ELSE [lines |-> IF w.env_file \in DOMAIN host.envFiles THEN host.envFiles[w.env_file] ELSE Absent],
   files |-> host.files, real |-> host.real, dotenv |-> host.dotenv, hostFiles |-> host.hostFiles]

(* An identity is derived from the name and the directory, and is never    *)
(* empty.                                                                  *)
project_identity(name, dir) == <<"instance", name, dir>>

-----------------------------------------------------------------------------
\* The summary.

Digits(n) == <<CHOOSE t \in DOMAIN Numerals : Numerals[t] = n>>

published_port_summary(p) ==
  IF Len(p) = 1 THEN Digits(p[1]) ELSE Digits(p[1]) \o <<"-">> \o Digits(p[2])

ServicePortSummary(p) ==
  [p EXCEPT !.published = IF p.published = <<>> THEN Absent ELSE published_port_summary(p.published)]

ServiceSummary(name, s, active) ==
  [name |-> name, active |-> active,
   image |-> s.values["image"], has_build |-> s.values["build"] # Absent,
   profiles |-> s.profiles, profile_count |-> Len(s.profiles),
   ports |-> [i \in DOMAIN s.ports |-> ServicePortSummary(s.ports[i])], port_count |-> Len(s.ports),
   volumes |-> s.volumes, volume_count |-> Len(s.volumes),
   networks |-> DOMAIN s.networks, network_count |-> Cardinality(DOMAIN s.networks),
   configs |-> [i \in DOMAIN s.configs |-> s.configs[i].source], config_count |-> Len(s.configs),
   secrets |-> [i \in DOMAIN s.secrets |-> s.secrets[i].source], secret_count |-> Len(s.secrets),
   dependencies |-> DOMAIN s.depends_on, dependency_count |-> Cardinality(DOMAIN s.depends_on)]

(* Declared resources of each kind by name: are they external?             *)
ProjectResourceSummaries(resources) ==
  [r \in Resources |-> [n \in DOMAIN resources[r] |-> resources[r][n].external]]

ResourceCounts(resources) == [r \in Resources |-> Cardinality(DOMAIN resources[r])]

NoProjectSummary(errors) ==
  [project_name |-> Absent, project_instance |-> Absent, service_count |-> 0, active_service_count |-> 0,
   counts |-> [r \in Resources |-> 0], resources |-> [r \in Resources |-> <<>>],
   has_errors |-> errors, services |-> <<>>]

(* Variant: every declared service is counted as active.                   *)
AllActive(canonical, selection) == Len(canonical.order)

ActiveCount(canonical, selection) == Len(selection)

(* The summary of a canonical project, its selected services and whether   *)
(* the report has errors, for a project in a directory.                    *)
from_sdk_project(canonical, selection, errors, dir) ==
  IF canonical = <<>> THEN NoProjectSummary(errors)
  ELSE [project_name |-> canonical.name,
        project_instance |-> project_identity(canonical.name, dir),
        service_count |-> Len(canonical.order),
        active_service_count |-> ActiveCount(canonical, selection),
        counts |-> ResourceCounts(canonical.resources),
        resources |-> ProjectResourceSummaries(canonical.resources),
        has_errors |-> errors,
        services |-> [i \in DOMAIN canonical.order |->
                        ServiceSummary(canonical.order[i], canonical.services[canonical.order[i]],
                                       canonical.order[i] \in Range(selection))]]

-----------------------------------------------------------------------------
\* What parsing a summary accepts.

blank(t) == t \in {<<>>, <<"">>}

validate_non_empty_strings(values) == \A t \in values : ~blank(t)

validate_service_summary(s) ==
  /\ s.profile_count = Len(s.profiles)
  /\ s.port_count = Len(s.ports)
  /\ s.volume_count = Len(s.volumes)
  /\ s.network_count = Cardinality(s.networks)
  /\ s.config_count = Len(s.configs)
  /\ s.secret_count = Len(s.secrets)
  /\ s.dependency_count = Cardinality(s.dependencies)
  /\ s.image = Absent \/ ~blank(s.image)
  /\ validate_non_empty_strings(Range(s.profiles) \cup s.networks \cup s.dependencies)
  /\ validate_non_empty_strings(Range(s.configs) \cup Range(s.secrets))
  /\ \A p \in Range(s.ports) : p.protocol \in {<<"tcp">>, <<"udp">>, <<"sctp">>}
  /\ \A v \in Range(s.volumes) : v.kind \in {"volume", "bind", "anonymous"} /\ ~blank(v.target)

validate_project_resource_summaries(s) ==
  \A r \in Resources : validate_non_empty_strings(DOMAIN s.resources[r])

validate_project_summary(s) ==
  /\ (s.project_name = Absent) = (s.project_instance = Absent)
  /\ s.project_name = Absent \/ ~blank(s.project_name)
  /\ s.service_count = Len(s.services)
  /\ s.active_service_count = Cardinality({i \in DOMAIN s.services : s.services[i].active})
  /\ \A r \in Resources : s.counts[r] = Cardinality(DOMAIN s.resources[r])
  /\ validate_project_resource_summaries(s)
  /\ \A i, j \in DOMAIN s.services : s.services[i].name = s.services[j].name => i = j
  /\ \A i \in DOMAIN s.services : ~blank(s.services[i].name) /\ validate_service_summary(s.services[i])
=============================================================================

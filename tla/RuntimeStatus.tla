---------------------------- MODULE RuntimeStatus --------------------------
(***************************************************************************)
(* The status summary that `susun status` and desktop tools read: built    *)
(* from a snapshot, rendered, and checked again when it is parsed.  Texts  *)
(* are left out but for being blank; sorted lists are sets.                *)
(***************************************************************************)
EXTENDS Naturals, FiniteSets

CONSTANTS
  NoService,  \* the service of a container without a service label
  Blank       \* a text that is empty, or nothing but white space

States == {"created", "running", "exited", "paused", "restarting", "unknown"}

(* RuntimeContainerStatusSummary::from_container.                          *)
from_container(c) ==
  [id |-> c.id, name |-> c.name, image |-> c.image, service |-> c.service,
   replica |-> IF c.service = NoService THEN NoService ELSE c.replica + 1, state |-> c.state]

container_belongs_to_project(c) == c.ours

Counted == {"running", "exited", "paused", "restarting"}

(* The containers counted by their state; created and unknown are not.     *)
StateCounts(summaries) == [s \in Counted |-> Cardinality({c \in summaries : c.state = s})]

(* RuntimeServiceStatusSummary of the containers of one service.           *)
ServiceSummary(service, summaries) ==
  [service |-> service, container_count |-> Cardinality(summaries),
   running_containers |-> Cardinality({c \in summaries : c.state = "running"}),
   containers |-> summaries]

(* The project's instance is a hash, which is never blank.                 *)
runtime_status_from_snapshot(name, snap) ==
  LET summaries == {from_container(c) : c \in {c \in snap.containers : container_belongs_to_project(c)}}
      of(s) == {c \in summaries : c.service = s}
  IN  [project_name |-> name, project_instance |-> "hash",
       counts |-> [containers |-> Cardinality(summaries),
                   states |-> StateCounts(summaries),
                   networks |-> Cardinality({n \in snap.networks : n.ours}),
                   volumes |-> Cardinality({v \in snap.volumes : v.ours})],
       services |-> {ServiceSummary(s, of(s)) : s \in {c.service : c \in summaries} \ {NoService}},
       unassigned |-> of(NoService)]

-----------------------------------------------------------------------------
\* What parse_runtime_status_summary_json accepts.

(* validate_runtime_container_summary.                                     *)
ContainerAccepted(c) == Blank \notin {c.id, c.name, c.image, c.service} /\ c.replica # 0

count_container_state(containers, state) == Cardinality({c \in containers : c.state = state})

(* validate_runtime_status_summary_schema.                                 *)
StatusAccepted(summary) ==
  LET listed == summary.unassigned \cup UNION {s.containers : s \in summary.services}
  IN  /\ Blank \notin {summary.project_name, summary.project_instance}
      /\ \A c \in listed : ContainerAccepted(c)
      /\ \A c \in summary.unassigned : c.service = NoService
      /\ \A s, t \in summary.services : s.service = t.service => s = t
      /\ \A s \in summary.services :
           /\ s.service \notin {NoService, Blank}
           /\ s.container_count = Cardinality(s.containers)
           /\ s.running_containers = Cardinality({c \in s.containers : c.state = "running"})
           /\ \A c \in s.containers : c.service = s.service
      /\ summary.counts.containers = Cardinality(listed)
      /\ \A s \in Counted : summary.counts.states[s] = count_container_state(listed, s)

(* runtime_overview; "none" is a status that could not be had.             *)
OverviewStatus(doctor, status) ==
  CASE doctor = "available" /\ status # "none" -> "ready"
    [] doctor = "available" /\ status = "none" -> "degraded"
    [] OTHER -> "unavailable"
=============================================================================

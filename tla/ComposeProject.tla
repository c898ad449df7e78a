--------------------------- MODULE ComposeProject ---------------------------
(***************************************************************************)
(* From parsed files to the project that is planned: merging               *)
(* (crates/susun-normalize, expand.rs and merge/), the canonical form      *)
(* (normalize.rs, port.rs, volume.rs), the active services (selection.rs)  *)
(* and their validation (crates/susun-validation).                         *)
(***************************************************************************)
EXTENDS ComposeFile

CONSTANT Numerals  \* the symbols that are numbers, with their values

ASSUME NumeralsAssumption == \A n \in DOMAIN Numerals : Numerals[n] \in Nat

-----------------------------------------------------------------------------
\* Ports and volumes.  What cannot be parsed is Absent.

parse_port_num(t) ==
  IF Len(t) = 1 /\ t[1] \in DOMAIN Numerals /\ Numerals[t[1]] \in 1..65535 THEN Numerals[t[1]] ELSE Absent

parse_published(t) ==
  LET start == parse_port_num(Before(t, "-"))
      end == IF After(t, "-") = Absent THEN start ELSE parse_port_num(After(t, "-"))
  IN  IF start = Absent \/ end = Absent THEN Absent
      ELSE IF After(t, "-") = Absent THEN <<start>>
      ELSE IF start > end THEN Absent
      ELSE <<start, end>>

parse_protocol(t) == IF t \in {<<"tcp">>, <<"udp">>, <<"sctp">>} THEN t ELSE Absent

\* None when a port is not published; a part that is there must be right.
Optional(value, Parse(_)) == ValueOr(value, Parse, <<>>)

Port(host_ip, published, target, protocol) ==
  IF Absent \in {published, target, protocol} THEN Absent
  ELSE [host_ip |-> host_ip, published |-> published, target |-> target, protocol |-> protocol]

(* [[host:]published:]target[/protocol]                                    *)
parse_short_port(t) ==
  LET slashes == {i \in DOMAIN t : t[i] = "/"}
      body == IF slashes = {} THEN t ELSE SubSeq(t, 1, Max(slashes) - 1)
      protocol == IF slashes = {} THEN <<"tcp">> ELSE parse_protocol(SubSeq(t, Max(slashes) + 1, Len(t)))
      rest == After(body, ":")
  IN  IF rest = Absent THEN Port(Absent, <<>>, parse_port_num(body), protocol)
      ELSE IF After(rest, ":") = Absent
      THEN Port(Absent, parse_published(Before(body, ":")), parse_port_num(rest), protocol)
      ELSE Port(Before(body, ":"), parse_published(Before(rest, ":")), parse_port_num(After(rest, ":")), protocol)

parse_long_port(f) ==
  IF f["target"] = Absent THEN Absent
  ELSE Port(f["host_ip"], Optional(f["published"], parse_published), parse_port_num(f["target"]),
            IF f["protocol"] = Absent THEN <<"tcp">> ELSE parse_protocol(f["protocol"]))

parse_port_entry(e) == IF e.form = "short" THEN parse_short_port(e.text) ELSE parse_long_port(e.fields)

\* A path is absolute, or relative to the directory of the file.
infer_kind(source) ==
  IF source # <<>> /\ source[1] \in {"/", "./", "../"} THEN "bind" ELSE "volume"

(* Options are separated by commas; the last of ro and rw counts.          *)
parse_options(t) ==
  IF \A i \in DOMAIN t : t[i] \in {"ro", "readonly", "rw", ","}
  THEN LET modes == SelectSeq(t, LAMBDA o : o # ",")
       IN  modes # <<>> /\ modes[Len(modes)] # "rw"
  ELSE Absent

Volume(kind, source, target, read_only) ==
  IF kind = Absent \/ read_only = Absent \/ target = <<>> THEN Absent
  ELSE [kind |-> kind, source |-> source, target |-> target, read_only |-> read_only]

(* target, source:target or source:target:options                          *)
parse_short_volume(t) ==
  LET rest == After(t, ":")
      source == Before(t, ":")
      options == IF rest = Absent THEN Absent ELSE After(rest, ":")
  IN  IF rest = Absent THEN Volume("anonymous", Absent, t, FALSE)
      ELSE Volume(infer_kind(source), source, Before(rest, ":"),
                  IF options = Absent THEN FALSE ELSE parse_options(options))

VolumeTypes == <<"volume">> :> "volume" @@ <<"bind">> :> "bind" @@ <<"tmpfs">> :> "anonymous"

parse_long_volume(f) ==
  IF f["target"] = Absent THEN Absent
  ELSE Volume(IF f["type"] = Absent THEN "volume"
              ELSE IF f["type"] \in DOMAIN VolumeTypes THEN VolumeTypes[f["type"]] ELSE Absent,
              f["source"], f["target"], f["read_only"] \in {<<"true">>, <<"1">>, <<"yes">>})

parse_volume_entry(e) == IF e.form = "short" THEN parse_short_volume(e.text) ELSE parse_long_volume(e.fields)

-----------------------------------------------------------------------------
\* Merging.

canonical_port_key(p) == <<p.host_ip, p.target, p.published, p.protocol>>

(* What entries of a list replace each other by.  An entry that cannot be  *)
(* parsed keeps a place of its own.                                        *)
EntryKey(field, entry, i) ==
  CASE field \in {"configs", "secrets"} -> ValueOr(entry.target, LAMBDA t : t, entry.source)
    [] field = "ports" -> ValueOr(parse_port_entry(entry), canonical_port_key, <<"fallback", i>>)
    [] OTHER -> ValueOr(parse_volume_entry(entry), LAMBDA v : v.target, <<"fallback", i>>)

(* The last entry of each key, in the place of the first.                  *)
LastOfEach(keys, entries) ==
  LET same(i) == {j \in DOMAIN entries : keys[j] = keys[i]}
  IN  KeepItems([i \in DOMAIN entries |-> IF i = Min(same(i)) THEN entries[Max(same(i))] ELSE Absent])

UniqueEntries(field, entries) ==
  LastOfEach([i \in DOMAIN entries |-> EntryKey(field, entries[i], i)], entries)

(* Overlay on base: slot by slot, or alone if it is tagged so.             *)
merge_services(base, overlay) ==
  IF overlay.tag # "merge" THEN [overlay EXCEPT !.tag = "merge"]
  ELSE [tag |-> "merge", decl |-> Over(overlay.decl, base.decl),
        lists |-> [f \in ListFields |-> UniqueEntries(f, base.lists[f] \o overlay.lists[f])]]

\* IndexMap::swap_remove of the i-th: the last takes its place.
SwapRemove(s, i) ==
  IF i = Len(s) THEN SubSeq(s, 1, Len(s) - 1) ELSE [SubSeq(s, 1, Len(s) - 1) EXCEPT ![i] = s[Len(s)]]

\* A project as it is merged: its services by name, and their order.
MergeProject(parsed) ==
  [name |-> parsed.name, order |-> [i \in DOMAIN parsed.services |-> parsed.services[i][1]],
   services |-> [n \in {parsed.services[i][1] : i \in DOMAIN parsed.services} |->
                   parsed.services[CHOOSE i \in DOMAIN parsed.services : parsed.services[i][1] = n][2]],
   resources |-> parsed.resources]

\* A service that is in the order already moves to its end.
AddedLast(order, n) ==
  LET at == {i \in DOMAIN order : order[i] = n}
  IN  Append(IF at = {} THEN order ELSE SwapRemove(order, Min(at)), n)

(* Overlay on base: a service of both moves to the end.                    *)
merge_projects(base, overlay) ==
  LET order[k \in 0..Len(overlay.order)] ==
        IF k = 0 THEN base.order ELSE AddedLast(order[k - 1], overlay.order[k])
  IN  [name |-> IF overlay.name = Absent THEN base.name ELSE overlay.name,
       order |-> order[Len(overlay.order)],
       services |-> Over([n \in DOMAIN overlay.services |->
                            IF n \in DOMAIN base.services
                            THEN merge_services(base.services[n], overlay.services[n])
                            ELSE overlay.services[n]], base.services),
       resources |-> [r \in Resources |-> Over(overlay.resources[r], base.resources[r])]]

-----------------------------------------------------------------------------
\* The canonical project.

parse_bool(t) == t \in {<<"true">>, <<"True">>, <<"TRUE">>, <<"yes">>, <<"1">>}

normalize_condition(t) ==
  IF t \in {<<"service_healthy">>, <<"service_completed_successfully">>} THEN t[1] ELSE "service_started"

normalize_dependency(d) ==
  [condition |-> normalize_condition(d["condition"]),
   restart |-> parse_bool(d["restart"]),
   required |-> d["required"] = Absent \/ parse_bool(d["required"])]

normalize_volume(entry, dir) ==
  LET v == parse_volume_entry(entry)
  IN  IF v = Absent THEN Absent
      ELSE IF v.kind = "bind" /\ v.source # Absent /\ (v.source = <<>> \/ v.source[1] # "/")
      THEN [v EXCEPT !.source = dir \o v.source] ELSE v

\* Slots of one field of a service.
Slots(s, field) == {slot \in DOMAIN s.decl : slot[1] = field}
Named(s, field) == [n \in {slot[2] : slot \in Slots(s, field)} |-> s.decl[<<field, n>>]]
Value(s, field) == IF <<field>> \in DOMAIN s.decl THEN s.decl[<<field>>] ELSE Absent

normalize_healthcheck(h) ==
  IF h = Absent THEN Absent
  ELSE [test |-> h.test, disable |-> parse_bool(h.settings["disable"]),
        retries |-> LET t == h.settings["retries"]
                    IN  IF t = Absent THEN Absent
                        ELSE IF Len(t) = 1 /\ t[1] \in DOMAIN Numerals THEN Numerals[t[1]] ELSE Absent]

(* Ports and volumes that cannot be parsed are left out.                   *)
normalize_service(s, dir) ==
  [depends_on |-> [n \in DOMAIN Named(s, "depends_on") |-> normalize_dependency(Named(s, "depends_on")[n])],
   networks |-> Named(s, "networks"),
   environment |-> Named(s, "environment"),
   labels |-> [k \in DOMAIN Named(s, "labels") |-> Optional(Named(s, "labels")[k], LAMBDA v : v)],
   values |-> [f \in {"image", "build", "command", "entrypoint", "restart"} |-> Value(s, f)],
   ports |-> KeepItems([i \in DOMAIN s.lists["ports"] |-> parse_port_entry(s.lists["ports"][i])]),
   volumes |-> KeepItems([i \in DOMAIN s.lists["volumes"] |-> normalize_volume(s.lists["volumes"][i], dir)]),
   configs |-> s.lists["configs"],
   secrets |-> s.lists["secrets"],
   healthcheck |-> normalize_healthcheck(Value(s, "healthcheck")),
   profiles |-> Optional(Value(s, "profiles"), LAMBDA v : v)]

normalize_resource_definition(d, dir) ==
  [external |-> parse_bool(d["external"]), name |-> d["name"],
   file |-> IF d["file"] = Absent \/ (d["file"] # <<>> /\ d["file"][1] = "/") THEN d["file"] ELSE dir \o d["file"]]

normalize(merged, project_name, dir) ==
  [name |-> project_name, order |-> merged.order,
   services |-> [n \in DOMAIN merged.services |-> normalize_service(merged.services[n], dir)],
   resources |-> [r \in Resources |-> [n \in DOMAIN merged.resources[r] |->
                    normalize_resource_definition(merged.resources[r][n], dir)]]]

-----------------------------------------------------------------------------
\* The active services, in project order, and what is wrong with them.

select_services(project, profiles) ==
  LET activated(s) == s.profiles = <<>> \/ Range(s.profiles) \cap profiles # {}
  IN  ItemsAt(project.order, {i \in DOMAIN project.order : activated(project.services[project.order[i]])})

validate_references(project, active) ==
  LET known == project.resources
  IN  UNION {LET s == project.services[n] IN
        {<<"SUS-SEM-001", n, d>> : d \in DOMAIN s.depends_on \ DOMAIN project.services}
          \cup {<<"SUS-SEM-004", n, w>> : w \in DOMAIN s.networks \ DOMAIN known["networks"]}
          \cup {<<"SUS-SEM-003", n, v.source>> : v \in {w \in Range(s.volumes) :
                  w.kind = "volume" /\ w.source # Absent /\ w.source \notin DOMAIN known["volumes"]}}
          \cup {<<"SUS-SEM-005", n, m.source>> : m \in {c \in Range(s.configs) : c.source \notin DOMAIN known["configs"]}}
          \cup {<<"SUS-SEM-005", n, m.source>> : m \in {c \in Range(s.secrets) : c.source \notin DOMAIN known["secrets"]}}
        : n \in active}

(* A definition that is both external and a file, or a file that is not    *)
(* there.                                                                  *)
validate_config_secret_definitions(project, hostFiles) ==
  UNION {LET known == project.resources[r] IN
    {<<"SUS-SEM-007", n>> : n \in {n \in DOMAIN known :
       known[n].file # Absent /\ (known[n].external \/ known[n].file \notin hostFiles)}}
    : r \in {"configs", "secrets"}}

(* A host port is named by its address, its ports as written and the       *)
(* protocol; ranges that overlap are not compared.                         *)
port_key(p) == <<IF p.host_ip = Absent THEN <<>> ELSE p.host_ip, p.published, p.protocol>>

Published(project, n) == {i \in DOMAIN project.services[n].ports : project.services[n].ports[i].published # <<>>}

validate_ports(project, active) ==
  LET key(n, i) == port_key(project.services[n].ports[i])
  IN  {<<"SUS-SEM-002", k>> : k \in
        {key(x[1], x[2]) : x \in {y \in UNION {{n} \X Published(project, n) : n \in active} :
           \E n \in active : \E i \in Published(project, n) :
             <<n, i>> # y /\ key(n, i) = key(y[1], y[2])}}}

validate_health_dependencies(project, active) ==
  UNION {{<<"SUS-SEM-006", n, d>> : d \in {d \in DOMAIN project.services[n].depends_on \cap DOMAIN project.services :
             /\ project.services[n].depends_on[d].condition = "service_healthy"
             /\ project.services[d].healthcheck = Absent}} : n \in active}

(* Variant: a service may be attached to a network nobody declares.        *)
ValidateButNetworks(project, active, hostFiles) ==
  {d \in validate_references(project, active) : d[1] # "SUS-SEM-004"}
    \cup validate_config_secret_definitions(project, hostFiles)
    \cup validate_ports(project, active)
    \cup validate_health_dependencies(project, active)

validate(project, active, hostFiles) ==
  validate_references(project, active)
    \cup validate_config_secret_definitions(project, hostFiles)
    \cup validate_ports(project, active)
    \cup validate_health_dependencies(project, active)
=============================================================================

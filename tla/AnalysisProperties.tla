------------------------- MODULE AnalysisProperties -------------------------
(***************************************************************************)
(* What the analysis of a project promises whoever plans and runs it.      *)
(***************************************************************************)
EXTENDS Analysis, Workspace

(* The codes of diagnostics that are warnings.                             *)
Mild == {"SUS-ENV-003", "SUS-PARSE-011"}
Errors == {d \in report : d[1] \notin Mild}
Limited == {<<"SUS-INC-002">>, <<"SUS-INC-003">>} \cap report # {}

-----------------------------------------------------------------------------
(* The files as the tree that includes make of them.                       *)
ParsedFiles == [path \in DOMAIN input.files |-> ParsedFile(input.files[path], Layers(path))]

FileAt(files, path) == IF path \in DOMAIN files THEN files[path] ELSE <<>>

IncludedBy(files, path) ==
  IF FileAt(files, path) = <<>> THEN {}
  ELSE {resolve_related_path(path, text) : text \in Range(files[path].includes)}

(* Every way down from a file by includes, up to the first file met twice. *)
Twice(way) == \E i, j \in DOMAIN way : i < j /\ Canonical(way[i]) = Canonical(way[j])

Ways(files, root) ==
  LET down[k \in 0..(MaxDepth + 1)] ==
        IF k = 0 THEN {<<root>>}
        ELSE UNION {{Append(way, path) : path \in IncludedBy(files, way[k])} :
                      way \in {w \in down[k - 1] : ~Twice(w)}}
  IN  UNION Range(down)

Below(files, root) == UNION {Range(way) : way \in Ways(files, root)}

(* Includes end, whatever files include each other by whatever names: the  *)
(* files being loaded at a time are different files, at most MaxDepth      *)
(* below the first, and no more than MaxFiles are read.                    *)
IncludesEnd ==
  /\ loaded <= MaxFiles
  /\ Len(frames) <= MaxDepth + 1
  /\ \A i, j \in DOMAIN frames : frames[i].key = frames[j].key => i = j

(* Where no limit was met, a cycle is reported exactly if some file of     *)
(* those named includes itself over others, by whatever path.              *)
CyclesReported ==
  pc \in {"extends", "graph", "done"} /\ ~Limited =>
    (<<"SUS-INC-001">> \in report
       <=> \E i \in DOMAIN input.roots : \E way \in Ways(ParsedFiles, input.roots[i]) : Twice(way))

-----------------------------------------------------------------------------
(* What a file declares of a service: the value of a slot, or all of it.   *)
Declares(files, path, n, slot) ==
  /\ FileAt(files, path) # <<>>
  /\ \E i \in DOMAIN files[path].services :
       LET s == files[path].services[i]
       IN  s[1] = n /\ (slot \in DOMAIN s[2].decl \/ s[2].tag # "merge")

Prevails(files, i, n, slot, value) ==
  \/ \E k \in (i + 1)..Len(input.roots) :
       \E path \in Below(files, input.roots[k]) : Declares(files, path, n, slot)
  \/ slot \in DOMAIN merged.services[n].decl /\ merged.services[n].decl[slot] = value

RootsPrevailIn(files) ==
  \A i \in DOMAIN input.roots :
    FileAt(files, input.roots[i]) # <<>> =>
      \A s \in Range(files[input.roots[i]].services) :
        \A slot \in DOMAIN s[2].decl : Prevails(files, i, s[1], slot, s[2].decl[slot])

(* A file that was named prevails over everything it includes and over the *)
(* files named before it: what it declares of a service is in the project  *)
(* unless a file named later, or one that is included below it, declares   *)
(* the same or replaces the service.                                       *)
RootsPrevail == pc = "extends" /\ resolved = {} /\ ~Limited => RootsPrevailIn(ParsedFiles)

-----------------------------------------------------------------------------
(* The services from n along extends in the merged files.                  *)
Ancestry(n) ==
  LET known == merged.services
      upto[k \in 0..Cardinality(DOMAIN known)] ==
        IF k = 0 THEN <<n>>
        ELSE LET base == Extended(known, upto[k - 1][Len(upto[k - 1])])
             IN  IF base \in DOMAIN known THEN Append(upto[k - 1], base) ELSE upto[k - 1]
  IN  upto[Cardinality(DOMAIN known)]

(* No service is its own ancestor and none of them is missing.             *)
WellExtended(n) ==
  Extended(merged.services, Ancestry(n)[Len(Ancestry(n))]) = Absent

(* The first of its ancestors that declares a slot, none of those before   *)
(* it being tagged to replace what it extends.                             *)
Declarers(n, slot) ==
  {i \in DOMAIN Ancestry(n) :
     /\ slot \in DOMAIN merged.services[Ancestry(n)[i]].decl
     /\ \A j \in 1..(i - 1) : merged.services[Ancestry(n)[j]].tag = "merge"}

(* Once extends is resolved a service has every value its nearest ancestor *)
(* declares and no other, in whatever order the services were resolved.    *)
(* One that extends itself or something missing over however many services *)
(* is left as it was, and the report says so.                              *)
ExtendsFlat ==
  pc \in {"extends", "graph", "done"} /\ merged # <<>> /\ names = <<>> =>
    \A n \in DOMAIN services :
      IF WellExtended(n)
      THEN /\ DOMAIN services[n].decl =
                {slot \in UNION {DOMAIN merged.services[m].decl : m \in Range(Ancestry(n))} :
                   slot # <<"extends">> /\ Declarers(n, slot) # {}}
           /\ \A slot \in DOMAIN services[n].decl :
                services[n].decl[slot] = merged.services[Ancestry(n)[Min(Declarers(n, slot))]].decl[slot]
      ELSE services[n] = merged.services[n] /\ \E d \in report : d[1] \in {"SUS-EXT-001", "SUS-EXT-002"}

-----------------------------------------------------------------------------
(* A file is there and can be read, with every variable that is required by*)
(* a text the parser reads.                                                *)
Readable(path) ==
  /\ path \in DOMAIN input.files
  /\ LET yaml == input.files[path]
     IN  /\ yaml # Absent /\ Len(yaml) <= 1
         /\ \A i \in DOMAIN yaml :
              /\ untagged(yaml[i]).kind = "mapping"
              /\ \A t \in InterpolatedTexts(yaml[i]) :
                   \A token \in {x \in Range(parse(t)) : x.kind = "variable" /\ x.op \in Required} :
                     get(Layers(path), token.name) \notin {Absent} \cup (IF token.op = ":?" THEN {<<>>} ELSE {})

NothingMissing(root) == \A path \in Below(ParsedFiles, root) : Readable(path)

(* All that a service names is there: services it depends on, with a check *)
(* where it waits for their health, networks, volumes, configs, secrets.   *)
NamesWhatIsThere(s) ==
  /\ \A d \in DOMAIN s.depends_on :
       /\ d \in DOMAIN project.services
       /\ s.depends_on[d].condition = "service_healthy" => project.services[d].healthcheck # Absent
  /\ \A v \in Range(s.volumes) :
       v.kind = "volume" /\ v.source # Absent => v.source \in DOMAIN project.resources["volumes"]
  /\ DOMAIN s.networks \subseteq DOMAIN project.resources["networks"]
  /\ \A c \in Range(s.configs) : c.source \in DOMAIN project.resources["configs"]
  /\ \A c \in Range(s.secrets) : c.source \in DOMAIN project.resources["secrets"]

(* A report without errors is a project that can be planned.  Every file   *)
(* reached from those named could be read, and a variable required by a    *)
(* text that is read is set; nothing that extends is left; the selected    *)
(* services are all in the order, none depends on itself, and what they    *)
(* name is there; configs and secrets kept in a file are not external and  *)
(* the file exists.  No two of their ports are published on one address and*)
(* protocol with the same number or the same range: a range is compared as *)
(* a whole, so two that overlap may both be there.                         *)
CleanReportIsSound ==
  pc = "done" /\ Errors = {} /\ project # <<>> =>
    LET selected == Range(select_services(project, input.profiles))
        ports == UNION {{<<n, i>> : i \in DOMAIN project.services[n].ports} : n \in selected}
        port(x) == project.services[x[1]].ports[x[2]]
    IN  /\ stage = "Order" /\ Len(order) = Cardinality(selected)
        /\ \A i \in DOMAIN input.roots : NothingMissing(input.roots[i])
        /\ \A n \in DOMAIN project.services : <<"extends">> \notin DOMAIN services[n].decl
        /\ \A n \in selected :
             n \notin DOMAIN project.services[n].depends_on /\ NamesWhatIsThere(project.services[n])
        /\ \A r \in {"configs", "secrets"} : \A name \in DOMAIN project.resources[r] :
             LET d == project.resources[r][name]
             IN  d.file # Absent => d.file \in input.hostFiles /\ ~d.external
        /\ \A x, y \in ports :
             x # y /\ port(x).published # <<>> /\ port(x).published = port(y).published
               => port(x).host_ip # port(y).host_ip \/ port(x).protocol # port(y).protocol

-----------------------------------------------------------------------------
(* Some text of the project that its summary shows is empty.               *)
ShowsNothing ==
  \/ blank(project.name)
  \/ \E t \in DOMAIN project.services \cup UNION {DOMAIN project.resources[r] : r \in Resources} : blank(t)
  \/ \E n \in DOMAIN project.services :
       LET s == project.services[n]
       IN  \/ s.values["image"] # Absent /\ blank(s.values["image"])
           \/ \E t \in Range(s.profiles) \cup DOMAIN s.depends_on \cup DOMAIN s.networks : blank(t)
           \/ \E m \in Range(s.configs) \cup Range(s.secrets) : blank(m.source)

Summary ==
  from_sdk_project(project, IF project = <<>> THEN <<>> ELSE select_services(project, input.profiles),
                   Errors # {}, Parent(Head(input.roots)))

(* A consumer of the summary is told of an error whenever there is no      *)
(* order of the services, also where there is no project at all; the       *)
(* services it calls active are the ones that were put in order, and their *)
(* number is the count it gives.  It says nothing of the rest it lists.    *)
SummaryTellsWhatIsPlanned ==
  pc = "done" =>
    LET summary == Summary
    IN  /\ stage = "Order" \/ summary.has_errors
        /\ stage = "Order" =>
             /\ {summary.services[i].name : i \in {j \in DOMAIN summary.services : summary.services[j].active}}
                  = {project.order[order[i]] : i \in DOMAIN order}
             /\ summary.active_service_count = Len(order)

(* The summary can be parsed again unless some text of the project is      *)
(* empty, which a clean report does not exclude.                           *)
SummaryCanBeParsed ==
  pc = "done" => (validate_project_summary(Summary) <=> project = <<>> \/ ~ShowsNothing)
=============================================================================

------------------------------ MODULE Analysis ------------------------------
(***************************************************************************)
(* Analyzer::analyze of crates/susun: the Compose files that were named    *)
(* and what they include are loaded depth first and merged, extends is     *)
(* resolved, and the project is normalized, validated and put in order.    *)
(*                                                                         *)
(* A step is a file, a service or a turn of the graph's loop.  A path is a *)
(* text: the names of its directories and of the file.                     *)
(***************************************************************************)
EXTENDS ComposeProject, ServiceGraph

CONSTANTS
  Inputs,    \* the command lines with all they read
  MaxDepth,  \* INCLUDE_MAX_DEPTH
  MaxFiles   \* INCLUDE_MAX_FILES

ASSUME LimitsAssumption == MaxDepth \in Nat /\ MaxFiles \in Nat

\* The keys of the services a command line can come to.
ServiceKeys(in) ==
  LET documents == UNION {Range(yaml) : yaml \in Range(in.files) \ {Absent}}
      declared == {Field(doc, "services") : doc \in documents} \ {Absent}
  IN  UNION {Keys(n) : n \in declared}

(* Some file is named, files hold what a YAML parser makes of a text, there*)
(* is a number for each service, and no text is Option::None.              *)
ASSUME InputsAssumption ==
  \A in \in Inputs :
    /\ IsList(in.roots) /\ in.roots # <<>>
    /\ \A path \in DOMAIN in.files : IsYaml(in.files[path])
    /\ IsFiniteSet(ServiceKeys(in)) /\ Cardinality(ServiceKeys(in)) <= NumActions
    /\ \A k \in ServiceKeys(in) : <<k>> # Absent

VARIABLES
  input,     \* roots, files, real paths, environment layers, profiles, name
  pc,        \* "begin", "load", "extends", "graph", or the end: "done", "error"
  todo,      \* the named files not begun
  frames,    \* the files being loaded, each included by the one before it
  loaded,    \* IncludeLoader::loaded_count
  parsed,    \* the files of the current root in the order they were left
  merged,    \* the project so far, <<>> without one
  names,     \* the services whose extends is not looked at yet
  services,  \* the services with extends resolved
  resolved,  \* the services known to have none left
  project,   \* the canonical project, <<>> without one
  report     \* the diagnostics

loadVars == <<todo, frames, loaded, parsed, merged>>
extendsVars == <<names, services, resolved>>
vars == <<input, pc, loadVars, extendsVars, project, report, graphVars>>

Init ==
  /\ input \in Inputs
  /\ pc = "begin"
  /\ todo = input.roots
  /\ frames = <<>>
  /\ loaded = 0
  /\ parsed = <<>>
  /\ merged = <<>>
  /\ names = <<>>
  /\ services = <<>>
  /\ resolved = {}
  /\ project = <<>>
  /\ report = {}
  /\ GraphInit

-----------------------------------------------------------------------------
Parent(path) == SubSeq(path, 1, Len(path) - 1)

\* Path::canonicalize, which fails and keeps the path where there is no file.
Canonical(path) == IF path \in DOMAIN input.real THEN input.real[path] ELSE path

resolve_related_path(base, related) ==
  IF related # <<>> /\ related[1] = "/" THEN Tail(related) ELSE Parent(base) \o related

\* The entries of a directory's .env file; none if it cannot be read.
DotenvLines(dir) == IF dir \in DOMAIN input.dotenv THEN input.dotenv[dir] ELSE <<>>

EnvFileLines == IF input.envFile = Absent THEN <<>> ELSE input.envFile.lines

Layers(path) ==
  <<input.process, parse_dotenv(EnvFileLines), parse_dotenv(DotenvLines(Parent(path)))>>

(* The .env file beside the first file and the file named as --env-file    *)
(* are read first; only the second has to be there.                        *)
Begin ==
  /\ pc = "begin"
  /\ IF input.envFile # Absent /\ input.envFile.lines = Absent
     THEN pc' = "error" /\ UNCHANGED report
     ELSE /\ pc' = "load"
          /\ report' = DotenvProblems(DotenvLines(Parent(Head(input.roots)))) \cup DotenvProblems(EnvFileLines)
  /\ UNCHANGED <<input, loadVars, extendsVars, project, graphVars>>

-----------------------------------------------------------------------------
\* Loading.

(* The file to load next: what the innermost file includes, or else the    *)
(* next one named, once the one before it is merged.                       *)
Pending ==
  IF frames # <<>> THEN frames[Len(frames)].left # <<>> ELSE parsed = <<>> /\ todo # <<>>

Next_path ==
  IF frames = <<>> THEN Head(todo)
  ELSE resolve_related_path(frames[Len(frames)].path, Head(frames[Len(frames)].left))

\* The frames and the named files without the one being begun.
Begun(fs, ts) ==
  /\ todo' = IF frames = <<>> THEN Tail(todo) ELSE todo
  /\ frames' = (IF frames = <<>> THEN <<>>
                ELSE [frames EXCEPT ![Len(frames)].left = Tail(@)]) \o fs
  /\ UNCHANGED ts

Stacked == {frames[i].key : i \in DOMAIN frames}

(* Variant: paths are compared as they are written.                        *)
ByWrittenPath(depth, path) ==
  IF depth > MaxDepth THEN "SUS-INC-002"
  ELSE IF loaded >= MaxFiles THEN "SUS-INC-003"
  ELSE IF path \in {frames[i].path : i \in DOMAIN frames} THEN "SUS-INC-001"
  ELSE "none"

\* Why a file is not loaded, if it is not; the first reason counts.
Refusal(depth, path) ==
  IF depth > MaxDepth THEN "SUS-INC-002"
  ELSE IF loaded >= MaxFiles THEN "SUS-INC-003"
  ELSE IF Canonical(path) \in Stacked THEN "SUS-INC-001"
  ELSE "none"

(* Variant: a file that is being loaded already is passed over silently.   *)
PassOverCycles ==
  /\ pc = "load"
  /\ Pending
  /\ Refusal(Len(frames), Next_path) # "none"
  /\ report' = report \cup ({<<Refusal(Len(frames), Next_path)>>} \ {<<"SUS-INC-001">>})
  /\ Begun(<<>>, <<loaded, parsed, merged>>)
  /\ UNCHANGED <<input, pc, extendsVars, project, graphVars>>

(* A file that is too deep, one too many, or already being loaded is       *)
(* reported and passed over.                                               *)
Refuse ==
  /\ pc = "load"
  /\ Pending
  /\ Refusal(Len(frames), Next_path) # "none"
  /\ report' = report \cup {<<Refusal(Len(frames), Next_path)>>}
  /\ Begun(<<>>, <<loaded, parsed, merged>>)
  /\ UNCHANGED <<input, pc, extendsVars, project, graphVars>>

(* A file that cannot be read ends the analysis.                           *)
LoadFails ==
  /\ pc = "load"
  /\ Pending
  /\ Refusal(Len(frames), Next_path) = "none"
  /\ Next_path \notin DOMAIN input.files
  /\ pc' = "error"
  /\ UNCHANGED <<input, loadVars, extendsVars, project, report, graphVars>>

(* A file is read with the environment of its own directory.  If it can be *)
(* parsed, what it includes is loaded before it is done.                   *)
LoadFile ==
  /\ pc = "load"
  /\ Pending
  /\ Refusal(Len(frames), Next_path) = "none"
  /\ Next_path \in DOMAIN input.files
  /\ LET path == Next_path
         file == ParsedFile(input.files[path], Layers(path))
         frame == [path |-> path, key |-> Canonical(path), left |-> file.includes, project |-> file]
     IN  /\ report' = report \cup DotenvProblems(DotenvLines(Parent(path)))
                             \cup ParseProblems(input.files[path], Layers(path))
         /\ Begun(IF file = <<>> THEN <<>> ELSE <<frame>>, <<parsed, merged>>)
  /\ loaded' = loaded + 1
  /\ UNCHANGED <<input, pc, extendsVars, project, graphVars>>

(* Variant: a file comes before what it includes.                          *)
LeaveFirst ==
  /\ pc = "load"
  /\ frames # <<>>
  /\ frames[Len(frames)].left = <<>>
  /\ parsed' = <<frames[Len(frames)].project>> \o parsed
  /\ frames' = SubSeq(frames, 1, Len(frames) - 1)
  /\ UNCHANGED <<input, pc, todo, loaded, merged, extendsVars, project, report, graphVars>>

(* All that the innermost file includes is loaded: it comes after it.      *)
LeaveFile ==
  /\ pc = "load"
  /\ frames # <<>>
  /\ frames[Len(frames)].left = <<>>
  /\ parsed' = Append(parsed, frames[Len(frames)].project)
  /\ frames' = SubSeq(frames, 1, Len(frames) - 1)
  /\ UNCHANGED <<input, pc, todo, loaded, merged, extendsVars, project, report, graphVars>>

(* The files of a root are merged one on top of the other.                 *)
Merge ==
  /\ pc = "load"
  /\ frames = <<>>
  /\ parsed # <<>>
  /\ merged' = IF merged = <<>> THEN MergeProject(Head(parsed))
               ELSE merge_projects(merged, MergeProject(Head(parsed)))
  /\ parsed' = Tail(parsed)
  /\ UNCHANGED <<input, pc, todo, frames, loaded, extendsVars, project, report, graphVars>>

(* Everything is loaded.  Without a single project there is nothing more.  *)
Loaded ==
  /\ pc = "load"
  /\ frames = <<>> /\ parsed = <<>> /\ todo = <<>>
  /\ IF merged = <<>>
     THEN pc' = "done" /\ UNCHANGED extendsVars
     ELSE /\ pc' = "extends"
          /\ names' = merged.order
          /\ services' = merged.services
          /\ UNCHANGED resolved
  /\ UNCHANGED <<input, loadVars, project, report, graphVars>>

-----------------------------------------------------------------------------
\* Extends.

Extended(known, n) == Value(known[n], "extends")

(* The services from n along extends, up to one that is resolved, extends  *)
(* nothing or something unknown, or extends one of those before it.        *)
ExtendsPath(n) ==
  LET ends(path) == LET last == path[Len(path)]
                    IN  \/ last \in resolved
                        \/ Extended(services, last) \notin DOMAIN services
                        \/ Extended(services, last) \in Range(path)
      upto[k \in 0..Cardinality(DOMAIN services)] ==
        IF k = 0 THEN <<n>>
        ELSE IF ends(upto[k - 1]) THEN upto[k - 1]
        ELSE Append(upto[k - 1], Extended(services, upto[k - 1][Len(upto[k - 1])]))
  IN  upto[Cardinality(DOMAIN services)]

WithoutExtends(s) == [s EXCEPT !.decl = [slot \in DOMAIN s.decl \ {<<"extends">>} |-> s.decl[slot]]]

(* Variant: only the service itself and the one it extends are merged.     *)
OneLevelOnly(path) ==
  [k \in 1..Len(path) |->
     IF k = Len(path) THEN services[path[k]]
     ELSE merge_services(WithoutExtends(services[path[k + 1]]), WithoutExtends(services[path[k]]))]

(* Each service of the path on top of the one it extends.                  *)
FlattenedPath(path) ==
  LET flat[k \in 1..Len(path)] ==
        IF k = Len(path) THEN services[path[k]]
        ELSE merge_services(flat[k + 1], WithoutExtends(services[path[k]]))
  IN  flat

(* resolve_extends_for of the next service.  If the path ends well all of  *)
(* it is resolved; if not, all of it stays as it is.                       *)
ResolveExtends ==
  /\ pc = "extends"
  /\ names # <<>>
  /\ names' = Tail(names)
  /\ LET path == ExtendsPath(Head(names))
         last == path[Len(path)]
         flat == FlattenedPath(path)
         base == Extended(services, last)
     IN  IF last \in resolved \/ base = Absent
         THEN /\ services' = Over([n \in Range(path) |-> flat[Min({i \in DOMAIN path : path[i] = n})]], services)
              /\ resolved' = resolved \cup Range(path)
              /\ UNCHANGED report
         ELSE /\ report' = report \cup {<<IF base \in DOMAIN services THEN "SUS-EXT-002" ELSE "SUS-EXT-001", base>>}
              /\ UNCHANGED <<services, resolved>>
  /\ UNCHANGED <<input, pc, loadVars, project, graphVars>>

-----------------------------------------------------------------------------
\* The project and its graph.

resolve_project_name(name_from_file) ==
  LET dir == Parent(Head(input.roots))
      from == IF "COMPOSE_PROJECT_NAME" \in DOMAIN input.process THEN input.process["COMPOSE_PROJECT_NAME"] ELSE <<>>
  IN  IF input.name # Absent THEN input.name
      ELSE IF from # <<>> THEN from
      ELSE IF name_from_file # Absent THEN name_from_file
      ELSE IF dir = <<>> THEN <<"project">> ELSE <<dir[Len(dir)]>>

(* normalize, select_services, validate and the first half of build_graph, *)
(* whose numbers are the positions of the services in the project.         *)
Normalize ==
  /\ pc = "extends"
  /\ names = <<>>
  /\ pc' = "graph"
  /\ project' = normalize([merged EXCEPT !.services = services], resolve_project_name(merged.name),
                          Parent(Head(input.roots)))
  /\ LET selected == Range(select_services(project', input.profiles))
         number(n) == CHOOSE i \in DOMAIN project'.order : project'.order[i] = n
         dependencies(n) == DOMAIN project'.services[n].depends_on \cap DOMAIN project'.services
     IN  /\ report' = report \cup validate(project', selected, input.hostFiles)
         /\ BuildEdges({number(n) : n \in selected},
                       [i \in Actions |-> IF i \in DOMAIN project'.order
                                          THEN {number(d) : d \in dependencies(project'.order[i])} ELSE {}])
  /\ UNCHANGED <<input, loadVars, extendsVars>>

PlaceService ==
  /\ pc = "graph"
  /\ Place
  /\ UNCHANGED <<input, pc, loadVars, extendsVars, project, report>>

Conclude ==
  /\ pc = "graph"
  /\ Settle
  /\ pc' = "done"
  /\ report' = report \cup (IF stage' = "Cycle" THEN {<<"SUS-GRAPH-001">>} ELSE {})
  /\ UNCHANGED <<input, loadVars, extendsVars, project>>

Returned == pc \in {"done", "error"} /\ UNCHANGED vars

Load == Refuse \/ LoadFails \/ LoadFile \/ LeaveFile \/ Merge \/ Loaded

Analyze == Begin \/ Load \/ ResolveExtends \/ Normalize \/ PlaceService \/ Conclude

Next == Analyze \/ Returned

Spec == Init /\ [][Next]_vars
=============================================================================

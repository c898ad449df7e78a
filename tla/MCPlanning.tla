----------------------------- MODULE MCPlanning -----------------------------
(***************************************************************************)
(* Planning with three services, of which three, two or none are active,   *)
(* with every dependency their order allows, one network and one that is   *)
(* not declared, two volumes, and snapshots with resources that are        *)
(* missing, owned, foreign, claimed twice or only partly observed;         *)
(* convergence with every set of eight containers, every pair of 26        *)
(* configurations and every state; every replacement.                      *)
(***************************************************************************)
EXTENDS Planning, TLC

CONSTANTS web, db, job, net, undeclared, data, cache, small

MCServices == {web, db, job}
MCNetworks == {net}
MCVolumes == {data, cache}

Dependencies ==
  [MCServices -> [MCServices -> {"none", "ServiceStarted", "ServiceHealthy"}]]

Project(order, dependsOn) ==
  [order |-> order, dependsOn |-> dependsOn, image |-> [s \in MCServices |-> small],
   build |-> {db}, networks |-> [s \in MCServices |-> IF s = job THEN {undeclared} ELSE {net}],
   volumes |-> [s \in MCServices |-> IF s = db THEN {data} ELSE {}],
   declared |-> {cache}, needs |-> [s \in MCServices |-> IF s = job THEN {"aliases"} ELSE {}]]

Orders == {<<db, web, job>>, <<web, db>>, << >>}

(* The dependencies of a service that is not active are never read.        *)
MCProjects ==
  LET Fits(o, dep) ==
        /\ \A i, j \in 1..Len(o) : i <= j => dep[o[i]][o[j]] = "none"
        /\ \A s \in MCServices \ {o[i] : i \in 1..Len(o)} : \A d \in MCServices : dep[s][d] = "none"
  IN  {Project(c[1], c[2]) : c \in {c \in Orders \X Dependencies : Fits(c[1], c[2])}}

Container(id, service, replica, ours, complete) ==
  [id |-> id, service |-> service, replica |-> replica, ours |-> ours, complete |-> complete]

Containers ==
  {{}, {Container(1, db, 0, TRUE, TRUE)}, {Container(1, db, 0, FALSE, TRUE)},
   {Container(1, db, 0, TRUE, TRUE), Container(2, db, 0, TRUE, TRUE)},
   {Container(1, db, 0, TRUE, TRUE), Container(2, db, 1, TRUE, TRUE)},
   {Container(1, db, 0, TRUE, TRUE), Container(2, web, 0, TRUE, FALSE)},
   {Container(1, db, 0, TRUE, TRUE), Container(2, web, 0, TRUE, TRUE), Container(3, job, 0, TRUE, TRUE)}}

Resources(name) == {{}, {[id |-> name, name |-> name, ours |-> TRUE]},
                    {[id |-> name, name |-> name, ours |-> FALSE]}}

Snapshots ==
  [containers : Containers, networks : Resources(net), volumes : {{}}, images : {{}}]
    \cup [containers : {{}}, networks : {{}}, volumes : Resources(data),
          images : {{}, {small}}]

UpOptions ==
  [images : {"PullIfMissing", "NeverPull", "RequirePresent"}, builds : {"BuildDeclared"},
   waits : {"EmitSupported"}]
    \cup [images : {"PullIfMissing"}, builds : {"NeverBuild"},
          waits : {"RefuseWaits", "DegradeToStartOrder"}]

DownOptions == [volumes : BOOLEAN]

-----------------------------------------------------------------------------
\* Convergence.

Shell(v) == [kind |-> "shell", value |-> v]
Exec(vs) == [kind |-> "exec", values |-> vs]
NoCommand == [kind |-> "absent"]

Port(published, protocol) ==
  [host_ip |-> None, published |-> published, target |-> 80, protocol |-> protocol]
Published(kind, start, end) == [kind |-> kind, start |-> start, end |-> end]

Mount(target, owner) == [source |-> "conf", target |-> target, owner |-> owner]

Check(test, disable) ==
  [present |-> TRUE, test |-> test, interval |-> None, timeout |-> None, start_period |-> None,
   retries |-> None, disable |-> disable]

Plain ==
  [service |-> [command |-> Exec(<<"a">>), entrypoint |-> NoCommand, environment |-> [x |-> "1"],
                labels |-> [x |-> "1"], ports |-> {Port(Published("single", 8080, 8080), "Tcp")},
                volumes |-> {[kind |-> "Volume", source |-> "data", target |-> "/d", read_only |-> FALSE]},
                networks |-> [front |-> {"alias"}], configs |-> {Mount("/c", "root")}, secrets |-> {},
                healthcheck |-> [present |-> FALSE], restart |-> None],
   image |-> [reference |-> "small", digest |-> None, image_id |-> None],
   names |-> [networks |-> [front |-> "p_front"], volumes |-> [data |-> "p_data"],
              configs |-> [conf |-> "p_conf"], secrets |-> [conf |-> "p_conf"]],
   defaults |-> [restart_policy |-> None, network_driver |-> None, pull_policy |-> None]]

(* Configurations that differ in one place, or in the order of a list.     *)
Configurations ==
  {Plain,
   [Plain EXCEPT !.image.digest = "d"], [Plain EXCEPT !.image.image_id = "d"],
   [Plain EXCEPT !.service.command = Shell("a")], [Plain EXCEPT !.service.command = NoCommand],
   [Plain EXCEPT !.service.command = NoCommand, !.service.entrypoint = Exec(<<"a">>)],
   [Plain EXCEPT !.service.environment = [x |-> "inherited"]],
   [Plain EXCEPT !.service.environment = [x |-> "1", y |-> "1"]],
   [Plain EXCEPT !.service.labels = [x |-> "2"]],
   [Plain EXCEPT !.service.ports = {Port(Published("single", 8080, 8080), "Udp")}],
   [Plain EXCEPT !.service.ports = {Port(Published("range", 8080, 8080), "Tcp")}],
   [Plain EXCEPT !.service.ports = {Port(Published("absent", 0, 0), "Tcp")}],
   [Plain EXCEPT !.service.volumes = {[kind |-> "Bind", source |-> "data", target |-> "/d", read_only |-> FALSE]}],
   [Plain EXCEPT !.names.volumes = [data |-> "q_data"]],
   [Plain EXCEPT !.names.volumes = [data |-> "p_data", cache |-> "p_cache"]],
   [Plain EXCEPT !.service.networks = [front |-> {"alias", "other"}]],
   [Plain EXCEPT !.service.configs = {Mount("/c", "user")}],
   [Plain EXCEPT !.service.configs = {Mount("/c", "user"), Mount("/c", "root")}],
   [Plain EXCEPT !.service.configs = {Mount("/c", "user"), Mount("/c", "root"), Mount("/d", "root")}],
   [Plain EXCEPT !.service.configs = {Mount("/c", "root"), Mount("/d", "user"), Mount("/d", "root")}],
   [Plain EXCEPT !.service.configs = {}, !.service.secrets = {Mount("/c", "root")}],
   [Plain EXCEPT !.service.healthcheck = Check(Exec(<<"a">>), FALSE)],
   [Plain EXCEPT !.service.healthcheck = Check(NoCommand, TRUE)],
   [Plain EXCEPT !.service.restart = "always"],
   [Plain EXCEPT !.defaults.restart_policy = "always"],
   [Plain EXCEPT !.service.restart = "always", !.defaults.restart_policy = "always"]}

Observed(id, service, replica, ours, state, made) ==
  [id |-> id, name |-> id, claims |-> TRUE, service |-> service, replica |-> replica, ours |-> ours,
   state |-> state, imageKnown |-> TRUE, made |-> made,
   fingerprint |-> compute_configuration_fingerprint(made)]

PlainContainer(id, service, replica, ours) == Observed(id, service, replica, ours, "running", Plain)

Anonymous == [PlainContainer(9, web, 0, TRUE) EXCEPT !.claims = FALSE]

(* Two replicas of web, each claimed once or twice, one of db, one of a    *)
(* service that is not active, one of another project, one unclaimed.      *)
Pool ==
  {PlainContainer(1, web, 0, TRUE), PlainContainer(2, web, 0, TRUE), PlainContainer(3, web, 1, TRUE),
   PlainContainer(4, web, 1, TRUE), PlainContainer(5, db, 0, TRUE), PlainContainer(6, job, 0, TRUE),
   PlainContainer(7, web, 1, FALSE), Anonymous}

Desired(given, input) == [services |-> {web, db}, given |-> given, input |-> input]

BothPlain == web :> Plain @@ db :> Plain

Counts == {<< >>, web :> 0, web :> 1, web :> 2, web :> 2 @@ db :> 0}

States == {"created", "running", "exited", "paused", "restarting", "unknown"}

Convergences ==
  [op : {"converge"}, desired : {Desired(given, BothPlain) : given \in Counts}, containers : SUBSET Pool]
    \cup {[op |-> "converge", desired |-> Desired(<< >>, web :> now),
           containers |-> {Observed(1, web, 0, TRUE, state, made)}] :
             now \in Configurations, made \in Configurations, state \in {"running", "exited"}}
    \cup {[op |-> "converge", desired |-> Desired(<< >>, input),
           containers |-> {[Observed(1, web, 0, TRUE, state, Plain) EXCEPT
                              !.imageKnown = known, !.fingerprint.version = version]}] :
             input \in {BothPlain, << >>}, state \in States, known \in BOOLEAN, version \in {1, 2}}
    \cup {[op |-> "converge", desired |-> Desired(<< >>, BothPlain),
           containers |-> {[Observed(1, web, 0, TRUE, state, Plain) EXCEPT !.fingerprint = NoFingerprint]}] :
             state \in States}

Replacements ==
  [op : {"replace"}, instance : {[ours |-> TRUE, service |-> web, replica |-> 0]},
   strategy : {"StopRemoveCreateStart", "CreateThenSwitch", "RestartOnly"}, renamed : BOOLEAN]

MCRequests ==
  [op : {"up"}, project : MCProjects, caps : {{"health", "aliases"}, {"aliases"}},
   snapshot : Snapshots, options : UpOptions]
    \cup [op : {"down"}, project : MCProjects, caps : {{"health"}},
          snapshot : Snapshots, options : DownOptions]
    \cup Convergences \cup Replacements
=============================================================================

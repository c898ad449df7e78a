------------------------- MODULE MCServiceCommands -------------------------
(***************************************************************************)
(* Two commands on a project of two services, one of which is built, with  *)
(* engines that hold nothing, what an up left, a container a run left, and *)
(* ones that have the project's label and no service, or a blank one.      *)
(***************************************************************************)
EXTENDS ServiceCommands

CONSTANTS web, job, webImage, jobImage, shop

MCServices == {web, job}

MCProject ==
  [order |-> <<web, job>>, dependsOn |-> [s \in MCServices |-> [d \in MCServices |-> "none"]],
   image |-> web :> webImage @@ job :> jobImage, build |-> {web},
   networks |-> [s \in MCServices |-> {}], volumes |-> [s \in MCServices |-> {}],
   declared |-> {}, needs |-> [s \in MCServices |-> {}]]

Holds(s, oneOff, state) == [service |-> s, oneOff |-> oneOff, state |-> state, code |-> 0]

MCStarts ==
  {<<>>, <<Holds(web, TRUE, "exited")>>,
   <<Holds(NoService, FALSE, "running")>>, <<Holds(Blank, FALSE, "running")>>,
   <<Holds(web, FALSE, "exited"), Holds(job, TRUE, "created")>>}

MCProjectNames == {shop, Blank}

\* "link" in the project leads out of it; the Dockerfile of "app" is linked to from "out".
Place(path, file) == [real |-> path, file |-> file]
MCTree ==
  <<"p">> :> Place(<<"p">>, FALSE) @@ <<"p", "app">> :> Place(<<"p", "app">>, FALSE)
    @@ <<"p", "app", "Dockerfile">> :> Place(<<"p", "app", "Dockerfile">>, TRUE)
    @@ <<"p", "link">> :> Place(<<"x">>, FALSE) @@ <<"x">> :> Place(<<"x">>, FALSE)
    @@ <<"x", "Dockerfile">> :> Place(<<"x", "Dockerfile">>, TRUE)
    @@ <<"p", "app", "out">> :> Place(<<"x", "Dockerfile">>, TRUE)

MCProjectDir == <<"p">>

Related(names) == [absolute |-> FALSE, names |-> names]

MCBuilds ==
  web :> [context : {Related(<<"app">>), Related(<<"link">>)},
          dockerfile : {Related(<<"Dockerfile">>), Related(<<"out">>)}, targetValid : {TRUE}]

Operation(op, services, flag) == [op |-> op, services |-> services, flag |-> flag]

MCOperations ==
  {Operation("run", {web}, TRUE), Operation("run", {web}, FALSE), Operation("stop", {}, FALSE),
   Operation("start", {web}, FALSE), Operation("restart", {web}, FALSE), Operation("wait", {}, FALSE),
   Operation("logs", {web}, TRUE), Operation("exec", {web}, FALSE), Operation("cp", {web}, FALSE),
   Operation("port", {web}, FALSE), Operation("build", {}, FALSE), Operation("up", {}, TRUE),
   Operation("up", {}, FALSE), Operation("down", {}, FALSE), Operation("overview", {}, FALSE), Operation("prune", {}, TRUE)}
=============================================================================

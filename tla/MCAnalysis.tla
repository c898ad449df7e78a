----------------------------- MODULE MCAnalysis -----------------------------
(***************************************************************************)
(* Compose files in four families: what three files (one of them under a   *)
(* second name) may include, what three services may extend and depend on, *)
(* and the contents of one file with the environment it is read in.        *)
(***************************************************************************)
EXTENDS AnalysisProperties

MCIdentifiers == {"V", "W"}
MCNumerals == "80" :> 80 @@ "90" :> 90 @@ "0" :> 0

MCServices == {"web", "db", "job"}

\* Nodes and command lines.

Text(symbol) == Scalar(<<symbol>>)
List(texts) == Items([i \in DOMAIN texts |-> Scalar(texts[i])])
\* A mapping of the fields that are there.
Map(fields) == Mapping(SelectSeq(fields, LAMBDA f : f[2] # Absent))
TagWith(tag, n) == IF tag = "none" THEN n ELSE Tagged(tag, n)

\* A host with nothing but these files.
HostOf(files) ==
  [files |-> files, real |-> <<>>, dotenv |-> <<>>, envFiles |-> <<>>, environment |-> <<>>, hostFiles |-> {}]

Command(files, roots) == analyzer([NewWorkspace EXCEPT !.files = roots], HostOf(files))

OneFile(doc) == Command(<<"dir", "a">> :> <<doc>>, <<<<"dir", "a">>>>)

-----------------------------------------------------------------------------
(* Includes: "link" is another name of the first file.                     *)
FileOf(image, tag, includes) ==
  <<Map(<<<<"include", List(includes)>>,
          <<"services", Map(<<<<"web", TagWith(tag, Map(<<<<"image", Text(image)>>,
                                 <<"environment", Map(<<<<image, Scalar(<<"$", "{", "V", "}">>)>>>>)>>>>))>>>>)>>>>)>>

Includes(ofA, ofB, ofC, roots, tagA, tagC) ==
  [Command(<<"a">> :> FileOf("A", tagA, ofA) @@ <<"sub", "b">> :> FileOf("B", "none", ofB)
             @@ <<"sub", "c">> :> FileOf("C", tagC, ofC) @@ <<"link">> :> FileOf("A", tagA, ofA), roots)
   EXCEPT !.real = <<"link">> :> <<"a">>,
          !.dotenv = <<"sub">> :> <<[key |-> <<"V">>, value |-> <<"s">>]>>]

IncludeFamily ==
  {Includes(c[1], c[2], c[3], c[4], c[5], c[6]) : c \in
     {<<>>, <<<<"sub", "b">>>>, <<<<"sub", "b">>, <<"sub", "c">>>>}
       \X {<<>>, <<<<"c">>>>, <<<<"/", "a">>>>, <<<<"/", "link">>>>}
       \X {<<>>, <<<<"b">>>>, <<<<"c">>>>, <<<<"d">>>>}
       \X {<<<<"a">>>>, <<<<"a">>, <<"sub", "c">>>>, <<<<"sub", "c">>, <<"a">>>>}
       \X {"none", "override"} \X {"none", "reset"}}

-----------------------------------------------------------------------------
(* Extends, over services of which only two have an image and one a        *)
(* restart policy, with and without tags.                                  *)
ExtendsOf(to, tag) ==
  OneFile(Map(<<<<"services", Map([i \in 1..3 |->
    LET n == <<"web", "db", "job">>[i] IN
    <<n, TagWith(tag[n], Map(<<<<"extends", IF to[n] = "none" THEN Absent ELSE Map(<<<<"service", Text(to[n])>>>>)>>,
           <<"image", IF n = "job" THEN Absent ELSE Text(n)>>, <<"restart", IF n = "job" THEN Text("always") ELSE Absent>>,
           <<"environment", Map(<<<<"V", Text(n)>>, <<n, Text(n)>>>>)>>>>))>>])>>>>))

ExtendsFamily ==
  {ExtendsOf(to, tag) : to \in [MCServices -> MCServices \cup {"none", "ghost"}],
                        tag \in [MCServices -> {"none", "reset"}]}

-----------------------------------------------------------------------------
(* Dependencies, with one service that is active in a profile only.        *)
DependsOf(needed, profile, profiles) ==
  [OneFile(Map(<<<<"services", Map([i \in 1..3 |->
     LET n == <<"web", "db", "job">>[i] IN
     <<n, Map(<<<<"depends_on", List(SelectSeq(<<<<"web">>, <<"db">>, <<"job">>>>, LAMBDA d : d[1] \in needed[n]))>>,
                <<"profiles", IF n = "db" THEN profile ELSE Absent>>>>)>>])>>>>))
   EXCEPT !.profiles = profiles]

DependsFamily ==
  {DependsOf(needed, List(<<<<"dev">>>>), profiles) :
     needed \in [MCServices -> SUBSET MCServices], profiles \in {{}, {<<"dev">>}}}

-----------------------------------------------------------------------------
(* Contents: variables and where they are set, ports and volumes, configs, *)
(* conditions, and files that are not a project.                           *)
Variable(op) == Scalar(<<"$", "{", "V">> \o op \o <<"}">>)
Setting(value) == [key |-> <<"V">>, value |-> value]

Images ==
  {Variable(<<>>), Variable(<<":?">>), Variable(<<"?", "V">>), Variable(<<":-", "d">>), Variable(<<"-", "d">>),
   Variable(<<"+">>), Scalar(<<"$", "$", "x", "$">>), Scalar(<<"x", "$", "{", "V">>), Scalar(<<"$", "x">>), TypedScalar}

EnvFiles == <<"f">> :> <<Setting(<<"f">>)>> @@ <<"g">> :> <<Setting(Absent)>>

Dotenv == <<"dir">> :> <<Setting(<<"e">>), Setting(<<"d">>), [key |-> <<"9">>, value |-> <<>>]>>

VariableFamily ==
  {analyzer([NewWorkspace EXCEPT !.files = <<<<"dir", "a">>>>, !.env = c[2], !.env_file = c[3], !.project_name = c[5]],
            [HostOf(<<"dir", "a">> :> <<Map(<<<<"name", Variable(<<>>)>>,
                                              <<"services", Map(<<<<"web", Map(<<<<"image", c[1]>>>>)>>>>)>>>>)>>)
             EXCEPT !.envFiles = EnvFiles, !.dotenv = c[4], !.environment = "V" :> <<"h">>]) : c \in
     Images
       \X {Absent, <<>>, "V" :> <<>>, "V" :> <<"p">>, "COMPOSE_PROJECT_NAME" :> <<"n">>}
       \X {Absent, <<"none">>, <<"f">>, <<"g">>} \X {<<>>, Dotenv} \X {Absent, <<"given">>, <<>>}}

Listed ==
  {<<"80">>, <<"80", ":", "80">>, <<"90", ":", "80">>, <<"80", "-", "90", ":", "80">>, <<"90", "-", "80", ":", "80">>,
   <<"h", ":", "90", ":", "80", "/", "udp">>, <<"0", ":", "80">>, <<"80", ":", "80", "/", "x">>}

Longs == {Map(<<<<"target", Text("80")>>, <<"published", Text("90")>>>>), Map(<<<<"published", Text("90")>>>>),
          Map(<<<<"target", Text("80")>>, <<"protocol", Text("udp")>>>>), TypedScalar}

PortFamily ==
  {OneFile(Map(<<<<"services", Map(<<<<"web", Map(<<<<"ports", Items(<<p, q>>)>>>>)>>,
                                     <<"db", Map(<<<<"ports", Items(<<r>>)>>>>)>>>>)>>>>)) :
     p, r \in {Scalar(t) : t \in Listed} \cup Longs, q \in {Scalar(<<"90", ":", "80">>), Scalar(<<"x">>)}}

Mounts ==
  {Scalar(<<"/", "d">>), Scalar(<<"v", ":", "/", "d">>), Scalar(<<"u", ":", "/", "d">>), Scalar(<<"./", "s", ":", "/", "d", ":", "ro">>),
   Scalar(<<"v", ":", "/", "e", ":", "ro", ",", "x">>), Map(<<<<"type", Text("bind")>>, <<"source", Text("s")>>, <<"target", Text("d")>>>>),
   Map(<<<<"type", Text("disk")>>, <<"target", Text("d")>>>>), Map(<<<<"source", Text("v")>>>>)}

Definitions == {Absent, Map(<<<<"f", Map(<<<<"file", Text("s")>>>>)>>>>),
                Map(<<<<"f", Map(<<<<"external", Text("true")>>, <<"file", Text("s")>>>>)>>>>), Map(<<<<"f", Text("x")>>>>)}

MountFamily ==
  {[OneFile(Map(<<<<"volumes", Map(<<<<"v", Map(<<>>)>>>>)>>, <<"configs", c[3]>>,
      <<"services", Map(<<<<"web", Map(<<<<"volumes", Items(<<c[1], c[2]>>)>>, <<"configs", c[4]>>>>)>>>>)>>>>))
    EXCEPT !.hostFiles = c[5]] : c \in
     Mounts \X Mounts \X Definitions
       \X {Absent, Items(<<Text("f"), Map(<<<<"source", Text("f")>>, <<"target", Text("g")>>>>), Map(<<>>)>>)}
       \X {{}, {<<"dir", "s">>}}}

Conditions ==
  {Map(<<<<"condition", Text("service_healthy")>>>>), Map(<<<<"condition", Text("service_started")>>, <<"required", Text("false")>>>>),
   Map(<<>>)}

Checks == {Absent, Variable(<<":?">>), Map(<<<<"test", Text("t")>>, <<"disable", Text("true")>>>>), Map(<<<<"retries", TypedScalar>>>>)}

OtherContents ==
  {OneFile(Map(<<<<"services", Map(<<
      <<"web", Map(<<<<"depends_on", Map(<<<<c[3], c[1]>>>>)>>, <<"networks", List(<<<<"n">>>>)>>, <<"labels", List(<<<<"l">>, <<"V", "=", "x">>>>)>>,
                     <<"build", c[4]>>, <<"command", List(<<<<"c">>>>)>>>>)>>,
      <<"db", Map(<<<<"healthcheck", c[2]>>, <<"develop", c[5]>>>>)>>>>)>>,
      <<"networks", Map(<<<<"n", Map(<<>>)>>>>)>>, <<c[6], Text("x")>>>>)) : c \in
     Conditions \X Checks \X {"db", "ghost"}
       \X {Text("."), Map(<<<<"context", Text(".")>>, <<"args", List(<<<<"V", "=", "1">>>>)>>,
                            <<"secrets", Items(<<Map(<<<<"id", Text("f")>>>>), Text("g")>>)>>>>)}
       \X {Absent, Map(<<>>)} \X {"name", "other"}}

NoProject ==
  {Command(<<"dir", "a">> :> yaml, <<<<"dir", "a">>>>) :
     yaml \in {Absent, <<>>, <<Text("x")>>, <<Map(<<>>), Map(<<>>)>>,
               <<Map(<<<<"services", Items(<<Map(<<<<"deploy", Variable(<<":?">>)>>>>)>>)>>>>)>>,
               <<Map(<<<<"services", Tagged("reset", Map(<<<<"web", Tagged("reset", TypedScalar)>>>>))>>>>)>>}}

(* A workspace nothing was said to, beside a file with empty texts.        *)
SilentFamily ==
  {analyzer([NewWorkspace EXCEPT !.profiles = c[3]],
            HostOf(c[4] :> <<Map(<<<<"services", Map(<<
              <<"web", Map(<<<<"image", c[1]>>, <<"profiles", c[2]>>, <<"secrets", Items(<<c[5]>>)>>>>)>>,
              <<"db", Map(<<<<"depends_on", List(<<c[6]>>)>>, <<"networks", List(<<c[6]>>)>>>>)>>>>)>>>>)>>)) : c \in
     {Absent, Scalar(<<>>), Text("x")} \X {Absent, List(<<<<>>>>), List(<<<<"dev">>, <<"test">>>>)}
       \X {<<>>, <<<<"dev">>>>, <<<<>>, <<"test">>>>} \X {<<"compose.yaml">>, <<"a">>}
       \X {Scalar(<<>>), Map(<<>>)} \X {<<>>, <<"web">>}}

MCInputs ==
  SilentFamily \cup IncludeFamily \cup ExtendsFamily \cup DependsFamily
    \cup VariableFamily \cup PortFamily \cup MountFamily \cup OtherContents \cup NoProject
=============================================================================

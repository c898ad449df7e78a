---------------------------- MODULE MCDeployment ---------------------------
(***************************************************************************)
(* Two active services, one waiting for the other, and one the project no  *)
(* longer has; a network and a volume they share.                          *)
(***************************************************************************)
EXTENDS DeploymentProperties

CONSTANTS web, db, old, net, data, image

ThreeServices == {web, db, old}
TwoServices == {web, db}
MCNetworks == {net}
MCVolumes == {data}

Project(condition) ==
  [order |-> <<db, web>>,
   dependsOn |-> [s \in Services |->
                    [d \in Services |-> IF s = web /\ d = db THEN condition ELSE "none"]],
   image |-> [s \in Services |-> image], build |-> {},
   networks |-> [s \in Services |-> {net}],
   volumes |-> [s \in Services |-> IF s = db THEN {data} ELSE {}],
   declared |-> {data}, needs |-> [s \in Services |-> {}]]

HealthyProject == Project("ServiceHealthy")
CompletedProject == Project("ServiceCompletedSuccessfully")

Start(taken, left) == [taken |-> taken, left |-> left]

(* Others hold a name the project needs; or nothing is there at all; or a  *)
(* part of the project is up.                                              *)
MCStarts == {Start({}, {}), Start({}, {db, old}), Start({net}, {})}
OverlapStarts == {Start({}, {db}), Start({data}, {}), Start({web, net}, {})}
CleanStart == {Start({}, {})}
VolumeTaken == {Start({data}, {})}

AllNames == Services \cup Networks \cup Volumes
SomeNames == {db, data}

AnExit == {"completed"}
AllExits == {"completed", "crashed"}

AllOperations == {[op |-> "up", volumes |-> FALSE], [op |-> "down", volumes |-> FALSE],
                  [op |-> "down", volumes |-> TRUE]}
UpOnly == {[op |-> "up", volumes |-> FALSE]}
=============================================================================

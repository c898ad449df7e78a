------------------------ MODULE ServiceCommandsProofs -----------------------
(***************************************************************************)
(* Proofs about the commands on containers, for every project, engine and  *)
(* number of commands.  They rest on CommandsInv: what a command that      *)
(* nobody disturbed has seen to so far, and that the other commands leave  *)
(* an engine on which a service has at most one replica.                   *)
(***************************************************************************)
EXTENDS ServiceCommands, FiniteSetTheorems, TLAPS

-----------------------------------------------------------------------------
\* The inductive invariant.

(* The commands that may yet make containers.                              *)
Unspent == {c \in Commands : phase[c] \in {"idle", "creating", "building", "applying"}}

OneReplica == \A s \in Services : \A i, j \in Serves(s) : i = j

RoomInv ==
  /\ \A i \in Ids : i > made => i \notin Present
  /\ made + Cardinality(Services) * Cardinality(Unspent) <= MaxContainers

Quiescent == {"idle", "ended", "killed"}
OfRun     == {"starting", "following", "waiting", "cleaning"}

(* What is done in a phase, and on what.                                   *)
PhaseFits(c) ==
  /\ phase[c] \in Quiescent => work[c] = NoWork
  /\ phase[c] = "creating" => asked(c).op = "run" /\ own(c) = 0
  /\ phase[c] \in OfRun => asked(c).op = "run" /\ own(c) # 0
  /\ phase[c] = "working" => /\ asked(c).op \in {"start", "stop", "restart", "wait", "logs"}
                             /\ todo(c) \subseteq 1..made
  /\ phase[c] = "stopped" => /\ asked(c).op = "restart" /\ own(c) # 0
                             /\ todo(c) \subseteq 1..made
  /\ phase[c] = "reaching" => asked(c).op \in {"exec", "cp", "port"}
  /\ phase[c] \in {"pruning", "pruningImages"} => asked(c).op = "prune"
  /\ phase[c] = "building" => asked(c).op \in {"build", "up"}
  /\ phase[c] = "applying" => asked(c).op \in {"up", "down"}

Alone(c) == \A d \in Commands \ {c} : ~UnderWay(d)

(* What a command that works off containers has done to one of them.       *)
Treated(c, i) ==
  LET o == asked(c)
  IN  /\ o.op = "stop" \/ (o.op = "logs" /\ o.flag) => ~Running(i)
      /\ o.op \in {"start", "restart"} => containers[i].state # "created"
      /\ o.op = "wait" /\ ServiceOf(i) # NoService => ~Running(i) /\ containers[i].code = 0

(* How far a command has come that nobody disturbed.                       *)
Progress(c) ==
  /\ phase[c] = "creating" => ~work[c].failed
  /\ phase[c] \in OfRun => own(c) \in Present
  /\ phase[c] \in {"starting", "following", "waiting"} => ~work[c].failed
  /\ phase[c] \in {"waiting", "cleaning"} => ~Running(own(c))
  /\ phase[c] = "cleaning" => (work[c].failed <=> containers[own(c)].code # 0)
  /\ phase[c] \in {"working", "stopped"} => \A i \in Selected(asked(c)) \ todo(c) : Treated(c, i)
  /\ phase[c] = "building" =>
       {TheProject.image[s] : s \in (Active(TheProject) \cap TheProject.build) \ todo(c)} \subseteq images
  /\ phase[c] = "pruningImages" => \A i \in Present : containers[i].state # "created"

CalmInv == \A c \in Commands : calm[c] /\ UnderWay(c) => Alone(c) /\ Progress(c)

CommandsInv ==
  /\ TypeOK
  /\ OneReplica /\ RoomInv
  /\ \A c \in Commands : PhaseFits(c)
  /\ CalmInv

-----------------------------------------------------------------------------
\* The engine as commands see it.

(* What the snapshot says of a container.                                  *)
Seen(i) ==
  [id |-> i, name |-> i, image |-> "reference", service |-> ServiceOf(i), replica |-> 0,
   ours |-> TRUE, complete |-> TRUE, state |-> containers[i].state]

LEMMA SnapshotSees == Snapshot.containers = {Seen(i) : i \in Present}
BY DEF Snapshot, Seen

(* Only a blank label is not taken as it is.                               *)
LEMMA LabelsTaken ==
  ASSUME TypeOK
  PROVE  /\ \A i \in Ids : ServiceOf(i) \in Services \cup {NoService}
         /\ \A i, s : s \in Services => (ServiceOf(i) = s <=> containers[i].service = s)
BY CommandsAssumption DEF ServiceOf, label_value, TypeOK, Container

LEMMA SeenFields ==
  ASSUME NEW i
  PROVE  /\ Seen(i).id = i /\ Seen(i).service = ServiceOf(i)
         /\ Seen(i).state = containers[i].state
         /\ Seen(i).replica = 0 /\ Seen(i).ours /\ Seen(i).complete
BY DEF Seen

(* The selections of commands are sets of containers that are there.       *)
LEMMA PicksArePresent ==
  ASSUME NEW S
  PROVE  /\ Pick(S) = {i \in Present : S = {} \/ ServiceOf(i) \in S}
         /\ matching_service_containers(S) =
              {i \in Present : /\ ServiceOf(i) # NoService
                               /\ S = {} \/ ServiceOf(i) \in S}
         /\ selected_service_container(S) = {i \in Present : ServiceOf(i) = S /\ Running(i)}
<1> DEFINE seen == {Seen(i) : i \in Present}
<1>1. Pick(S) = {i \in Present : S = {} \/ ServiceOf(i) \in S}
  <2>1. Pick(S) = {k.id : k \in {k \in seen : S = {} \/ k.service \in S}}
    BY SnapshotSees DEF Pick
  <2>2. QED
    BY <2>1, SeenFields
<1>2. matching_service_containers(S) =
        {i \in Present : /\ ServiceOf(i) # NoService
                         /\ S = {} \/ ServiceOf(i) \in S}
  <2>1. matching_service_containers(S) =
          {k.id : k \in {k \in seen : k.service # NoService /\ (S = {} \/ k.service \in S)}}
    BY SnapshotSees DEF matching_service_containers
  <2>2. QED
    BY <2>1, SeenFields
<1>3. selected_service_container(S) = {i \in Present : ServiceOf(i) = S /\ Running(i)}
  <2>1. selected_service_container(S) =
          {k.id : k \in {k \in seen : k.service = S /\ k.state = "running"}}
    BY SnapshotSees DEF selected_service_container
  <2>2. QED
    BY <2>1, SeenFields DEF Running
<1>4. QED
  BY <1>1, <1>2, <1>3

-----------------------------------------------------------------------------
\* Types.

LEMMA InitTypes ==
  ASSUME Init
  PROVE  TypeOK
<1>1. PICK start \in Starts :
        /\ containers = [i \in Ids |-> IF i <= Len(start) THEN start[i] ELSE NoContainer]
        /\ made = Len(start)
  BY DEF Init
<1>2. /\ start \in Seq(Container)
      /\ Len(start) + Cardinality(Services) * NumCommands <= MaxContainers
      /\ NumCommands \in Nat /\ MaxContainers \in Nat /\ MaxTrouble \in Nat
      /\ Cardinality(Services) \in Nat
  BY <1>1, CommandsAssumption, FS_CardinalityType
<1>3. Len(start) \in Nat /\ \A i \in 1..Len(start) : start[i] \in Container
  BY <1>2
<1>4. Cardinality(Services) * NumCommands \in Nat
  BY <1>2
<1>5. made \in 0..MaxContainers
  BY <1>1, <1>2, <1>3, <1>4
<1>6. containers \in [Ids -> Container]
  <2>1. NoContainer \in Container
    BY DEF NoContainer, Container
  <2>2. QED
    BY <1>1, <1>3, <2>1 DEF Ids
<1>7. phase \in [Commands -> Phases]
  BY DEF Init, Phases
<1>8. work \in [Commands -> [asked : Operations \cup {Nothing}, todo : SUBSET (Ids \cup Services),
                            own : 0..made, failed : BOOLEAN]]
  BY <1>5 DEF Init, NoWork
<1>9. trouble = 0 /\ code = 0 /\ calm \in [Commands -> BOOLEAN]
  BY DEF Init
<1>10. QED
  BY <1>2, <1>5, <1>6, <1>7, <1>8, <1>9 DEF TypeOK

(* What a command knows.                                                   *)
Work ==
  [asked : Operations \cup {Nothing}, todo : SUBSET (Ids \cup Services),
   own : 0..made, failed : BOOLEAN]

LEMMA NoWorkIsWork == TypeOK => NoWork \in Work
BY DEF TypeOK, NoWork, Nothing, Work

LEMMA GoTypes ==
  ASSUME TypeOK, made' \in made..MaxContainers,
         NEW c \in Commands, NEW where \in Phases, NEW knowing \in Work', Go(c, where, knowing)
  PROVE  phase' \in [Commands -> Phases] /\ work' \in [Commands -> Work'] /\ code' \in 0..2
<1>1. \A w \in Work : w \in Work'
  <2>1. 0..made \subseteq 0..made'
    BY DEF TypeOK
  <2>2. QED
    BY <2>1 DEF Work, Ids
<1>2. work \in [Commands -> Work']
  BY <1>1 DEF TypeOK, Work
<1>3. QED
  BY <1>2 DEF TypeOK, Go

LEMMA ReturnTypes ==
  ASSUME TypeOK, made' \in made..MaxContainers,
         NEW c \in Commands, NEW result \in 0..2, Return(c, result)
  PROVE  phase' \in [Commands -> Phases] /\ work' \in [Commands -> Work'] /\ code' \in 0..2
<1>1. \A w \in Work : w \in Work'
  <2>1. 0..made \subseteq 0..made'
    BY DEF TypeOK
  <2>2. QED
    BY <2>1 DEF Work, Ids
<1>2. NoWork \in Work'
  BY <1>1, NoWorkIsWork
<1>3. work \in [Commands -> Work']
  BY <1>1 DEF TypeOK, Work
<1>4. QED
  BY <1>2, <1>3 DEF TypeOK, Return, Phases

-----------------------------------------------------------------------------
\* Room for containers.

LEMMA UnspentFinite == IsFiniteSet(Unspent) /\ Cardinality(Unspent) \in Nat
<1>1. IsFiniteSet(Commands)
  BY CommandsAssumption, FS_Interval DEF Commands
<1>2. Unspent \subseteq Commands
  BY DEF Unspent
<1>3. QED
  BY <1>1, <1>2, FS_Subset, FS_CardinalityType

(* A command that has not made its containers can make one of each.        *)
LEMMA RoomForEach ==
  ASSUME TypeOK, RoomInv, NEW c \in Unspent
  PROVE  /\ made + Cardinality(Services) <= MaxContainers
         /\ Cardinality(Services) \in Nat
         /\ made + Cardinality(Services) + Cardinality(Services) * Cardinality(Unspent \ {c})
              <= MaxContainers
<1> DEFINE n == Cardinality(Services)
           k == Cardinality(Unspent)
<1>1. n \in Nat /\ k \in Nat /\ made \in Nat /\ MaxContainers \in Nat
  BY CommandsAssumption, FS_CardinalityType, UnspentFinite DEF TypeOK
<1>2. Cardinality(Unspent \ {c}) = k - 1
  BY UnspentFinite, FS_RemoveElement
<1>3. k # 0
  BY UnspentFinite, FS_EmptySet
<1>4. made + n * k <= MaxContainers
  BY DEF RoomInv
<1> HIDE DEF n, k
<1>5. n * k = n + n * (k - 1) /\ n * (k - 1) \in Nat
  BY <1>1, <1>3
<1>6. made + n <= MaxContainers /\ made + n + n * (k - 1) <= MaxContainers
  BY <1>1, <1>4, <1>5
<1>7. QED
  BY <1>1, <1>2, <1>6 DEF n

(* As many containers are made as a command may make, and none is there    *)
(* that was not made.                                                      *)
LEMMA RoomKept ==
  ASSUME TypeOK, RoomInv, made' \in Nat,
         \A i \in Ids : i > made' => i \notin Present',
         \/ made' = made /\ Unspent' \subseteq Unspent
         \/ \E c \in Unspent : /\ made' <= made + Cardinality(Services)
                               /\ Unspent' \subseteq Unspent \ {c}
  PROVE  RoomInv'
<1> DEFINE n == Cardinality(Services)
<1>1. n \in Nat /\ made \in Nat /\ MaxContainers \in Nat
  BY CommandsAssumption, FS_CardinalityType DEF TypeOK
<1>2. made' + n * Cardinality(Unspent') <= MaxContainers
  <2>1. CASE made' = made /\ Unspent' \subseteq Unspent
    <3>1. Cardinality(Unspent') \in Nat /\ Cardinality(Unspent') <= Cardinality(Unspent)
      BY <2>1, UnspentFinite, FS_Subset, FS_CardinalityType
    <3>2. \A j, k \in Nat : j <= k => n * j <= n * k
      BY <1>1
    <3>3. n * Cardinality(Unspent') <= n * Cardinality(Unspent)
      BY <3>1, <3>2, UnspentFinite
    <3>4. \A j \in Nat : n * j \in Nat
      BY <1>1
    <3>5. QED
      BY <1>1, <2>1, <3>1, <3>3, <3>4, UnspentFinite DEF RoomInv
  <2>2. ASSUME NEW c \in Unspent, made' <= made + n, Unspent' \subseteq Unspent \ {c}
        PROVE  made' + n * Cardinality(Unspent') <= MaxContainers
    <3>0. IsFiniteSet(Unspent \ {c})
      BY UnspentFinite, FS_Subset
    <3>1. /\ Cardinality(Unspent') \in Nat /\ Cardinality(Unspent \ {c}) \in Nat
          /\ Cardinality(Unspent') <= Cardinality(Unspent \ {c})
      BY <2>2, <3>0, FS_Subset, FS_CardinalityType
    <3>2. \A j, k \in Nat : j <= k => n * j <= n * k
      BY <1>1
    <3>3. n * Cardinality(Unspent') <= n * Cardinality(Unspent \ {c})
      BY <3>1, <3>2
    <3>4. \A j \in Nat : n * j \in Nat
      BY <1>1
    <3>5. made + n + n * Cardinality(Unspent \ {c}) <= MaxContainers
      BY RoomForEach
    <3>6. QED
      BY <1>1, <2>2, <3>1, <3>3, <3>4, <3>5
  <2>3. QED
    BY <2>1, <2>2
<1>3. QED
  BY <1>2 DEF RoomInv

LEMMA AskedWork ==
  ASSUME TypeOK, NEW o \in Operations
  PROVE  /\ Asked(o) \in Work
         /\ \A i \in 0..made : [Asked(o) EXCEPT !.own = i] \in Work
         /\ \A S \in SUBSET (Ids \cup Services) : [Asked(o) EXCEPT !.todo = S] \in Work
<1>1. NoWork \in Work
  BY NoWorkIsWork
<1>2. Asked(o) \in Work
  BY <1>1 DEF Asked, Work
<1>3. \A i \in 0..made : [Asked(o) EXCEPT !.own = i] \in Work
  BY <1>2 DEF Work
<1>4. \A S \in SUBSET (Ids \cup Services) : [Asked(o) EXCEPT !.todo = S] \in Work
  BY <1>2 DEF Work
<1>5. QED
  BY <1>2, <1>3, <1>4

LEMMA BeginTypes ==
  ASSUME TypeOK, RoomInv, NEW c \in Commands, NEW o \in Operations, Begin(c, o)
  PROVE  TypeOK'
<1>1. /\ UNCHANGED <<engineVars, trouble>>
      /\ calm' \in [Commands -> BOOLEAN]
  BY DEF Begin
<1>2. made' \in made..MaxContainers
  BY <1>1 DEF TypeOK, engineVars
<1>3. /\ Asked(o) \in Work'
      /\ \A i \in 0..made : [Asked(o) EXCEPT !.own = i] \in Work'
      /\ \A S \in SUBSET (Ids \cup Services) : [Asked(o) EXCEPT !.todo = S] \in Work'
  <2>1. Work' = Work
    BY <1>1 DEF Work, engineVars
  <2>2. QED
    BY <2>1, AskedWork
<1>4. /\ Pick(o.services) \subseteq Ids /\ matching_service_containers(o.services) \subseteq Ids
      /\ Active(TheProject) \cap TheProject.build \subseteq Services
  <2>1. Active(TheProject) \subseteq Services
    BY CommandsAssumption DEF WellFormed, Active
  <2>2. QED
    BY <2>1, PicksArePresent DEF Present
<1>5. \/ \E result \in 0..2 : Return(c, result)
      \/ \E where \in Phases : \E knowing \in Work' : Go(c, where, knowing)
  <2>1. CASE Refused(c, o)
    BY <2>1 DEF Refused
  <2>2. CASE BeginRun(c, o)
    BY <2>2, <1>3 DEF BeginRun, Phases
  <2>3. CASE BeginLifecycle(c, o)
    BY <2>3, <1>3, <1>4 DEF BeginLifecycle, Phases
  <2>4. CASE BeginWait(c, o)
    BY <2>4, <1>3, <1>4 DEF BeginWait, Phases
  <2>5. CASE BeginReach(c, o)
    <3>1. PICK s \in o.services :
            \/ \E i \in selected_service_container(s) : Go(c, "reaching", [Asked(o) EXCEPT !.own = i])
            \/ Return(c, 1)
      BY <2>5 DEF BeginReach
    <3>2. CASE Return(c, 1)
      BY <3>2
    <3>3. ASSUME NEW i \in selected_service_container(s),
                 Go(c, "reaching", [Asked(o) EXCEPT !.own = i])
          PROVE  \E where \in Phases : \E knowing \in Work' : Go(c, where, knowing)
      <4>1. i \in Present
        BY PicksArePresent
      <4>2. i \in 0..made
        BY <4>1 DEF RoomInv, Present, Ids, TypeOK
      <4>3. QED
        BY <1>3, <3>3, <4>2 DEF Phases
    <3>4. QED
      BY <3>1, <3>2, <3>3
  <2>6. CASE BeginPrune(c, o)
    BY <2>6, <1>3 DEF BeginPrune, Phases
  <2>7. CASE BeginBuild(c, o)
    BY <2>7, <1>3, <1>4 DEF BeginBuild, Phases
  <2>8. CASE BeginPlan(c, o)
    BY <2>8, <1>3 DEF BeginPlan, Phases
  <2>9. CASE Overview(c, o)
    BY <2>9 DEF Overview
  <2>10. QED
    BY <2>1, <2>2, <2>3, <2>4, <2>5, <2>6, <2>7, <2>8, <2>9 DEF Begin
<1>6. phase' \in [Commands -> Phases] /\ work' \in [Commands -> Work'] /\ code' \in 0..2
  BY <1>2, <1>5, GoTypes, ReturnTypes
<1>7. QED
  BY <1>1, <1>6 DEF TypeOK, engineVars, Work

LEMMA WorkTypes ==
  ASSUME TypeOK, NEW c \in Commands
  PROVE  /\ work[c] \in Work /\ Failed(c) \in Work
         /\ own(c) \in 0..made /\ todo(c) \subseteq Ids \cup Services
         /\ work[c].failed \in BOOLEAN
         /\ \A i : Done(c, i) \in Work
         /\ \A i \in 0..made : [work[c] EXCEPT !.own = i] \in Work
<1>1. work[c] \in Work
  BY DEF TypeOK, Work
<1>2. 0 \in 0..made
  BY DEF TypeOK
<1>3. QED
  BY <1>1, <1>2 DEF Work, Failed, Done, own, todo

LEMMA ContainerTypes ==
  ASSUME TypeOK
  PROVE  /\ \A i : StartWith(i) \in [Ids -> Container]
         /\ \A i : Stopped(i) \subseteq [Ids -> Container]
         /\ \A i : [containers EXCEPT ![i].state = "absent"] \in [Ids -> Container]
         /\ \A i \in Ids : /\ containers[i] \in Container
                           /\ [containers[i] EXCEPT !.state = "absent"] \in Container
<1>1. \A i : [containers EXCEPT ![i].state = "running"] \in [Ids -> Container]
  BY DEF TypeOK, Container
<1>2. \A i : [containers EXCEPT ![i].state = "absent"] \in [Ids -> Container]
  BY DEF TypeOK, Container
<1>3. ASSUME NEW i, NEW e \in {0, 1}
      PROVE  [containers EXCEPT ![i].state = "exited", ![i].code = e] \in [Ids -> Container]
  <2> DEFINE one == [containers EXCEPT ![i].state = "exited"]
  <2>1. one \in [Ids -> Container]
    BY DEF TypeOK, Container
  <2> HIDE DEF one
  <2>2. [one EXCEPT ![i].code = e] \in [Ids -> Container]
    BY <2>1 DEF Container
  <2>3. QED
    BY <2>2 DEF one
<1>4. \A i \in Ids : /\ containers[i] \in Container
                     /\ [containers[i] EXCEPT !.state = "absent"] \in Container
  BY DEF TypeOK, Container
<1>5. \A i : Stopped(i) \subseteq [Ids -> Container]
  <2> SUFFICES ASSUME NEW i, NEW after \in Stopped(i) PROVE after \in [Ids -> Container]
    OBVIOUS
  <2>1. CASE after = containers
    BY <2>1 DEF TypeOK
  <2>2. CASE \E e \in {0, 1} : after = [containers EXCEPT ![i].state = "exited", ![i].code = e]
    <3>1. PICK e \in {0, 1} : after = [containers EXCEPT ![i].state = "exited", ![i].code = e]
      BY <2>2, Zenon
    <3>2. [containers EXCEPT ![i].state = "exited", ![i].code = e] \in [Ids -> Container]
      BY <1>3
    <3>3. QED
      BY <3>1, <3>2
  <2>3. CASE Running(i)
    <3>1. Stopped(i) = {[containers EXCEPT ![i].state = "exited", ![i].code = e] : e \in {0, 1}}
      BY <2>3 DEF Stopped
    <3>2. QED
      BY <2>2, <3>1, Zenon
  <2>4. CASE ~Running(i)
    BY <2>1, <2>4 DEF Stopped
  <2>5. QED
    BY <2>3, <2>4
<1>6. QED
  BY <1>1, <1>2, <1>4, <1>5 DEF StartWith

LEMMA ServicesActive == Active(TheProject) \subseteq Services
BY CommandsAssumption DEF WellFormed, Active

LEMMA MissingFinite == Cardinality(Missing) \in Nat
<1>1. Missing \subseteq Services
  BY ServicesActive DEF Missing
<1>2. QED
  BY <1>1, CommandsAssumption, FS_Subset, FS_CardinalityType

(* A command that goes on makes at most what there is room for, and no     *)
(* container forgets which number it has.                                  *)
LEMMA MadeGrows ==
  ASSUME TypeOK, RoomInv, NEW c \in Commands, Continue(c)
  PROVE  /\ made' \in made..MaxContainers
         /\ containers' \in [Ids -> Container]
         /\ \/ made' = made
            \/ c \in Unspent /\ made' <= made + Cardinality(Services)
<1>0. made \in 0..MaxContainers /\ containers \in [Ids -> Container] /\ MaxContainers \in Nat
  BY CommandsAssumption DEF TypeOK
<1>1. CASE CreateOneOff(c)
  <2>1. CASE UNCHANGED <<containers, made>>
    BY <1>0, <2>1
  <2>2. CASE ~UNCHANGED <<containers, made>>
    <3>1. PICK s \in Services :
            /\ made' = made + 1
            /\ containers' = [containers EXCEPT ![made + 1] =
                                [service |-> s, oneOff |-> TRUE, state |-> "created", code |-> 0]]
      BY <1>1, <2>2 DEF CreateOneOff
    <3>2. c \in Unspent
      BY <1>1 DEF CreateOneOff, At, Unspent
    <3>3. Cardinality(Services) \in Nat /\ Cardinality(Services) # 0
      BY CommandsAssumption, FS_CardinalityType, FS_EmptySet
    <3>4. made + Cardinality(Services) <= MaxContainers
      BY <3>2, RoomForEach
    <3>5. containers' \in [Ids -> Container]
      BY <1>0, <3>1 DEF Container
    <3>6. QED
      BY <1>0, <3>1, <3>2, <3>3, <3>4, <3>5
  <2>3. QED
    BY <2>1, <2>2
<1>2. CASE ApplyPlan(c)
  <2>1. c \in Unspent
    BY <1>2 DEF ApplyPlan, Unspent
  <2>2. CASE Up(c)
    <3>1. Cardinality(Missing) \in Nat /\ Cardinality(Missing) <= Cardinality(Services)
      <4>1. Missing \subseteq Services
        BY ServicesActive DEF Missing
      <4>2. QED
        BY <4>1, CommandsAssumption, FS_Subset, FS_CardinalityType
    <3>2. made + Cardinality(Services) <= MaxContainers /\ Cardinality(Services) \in Nat
      BY <2>1, RoomForEach
    <3>3. made' = made + Cardinality(Missing)
      BY <2>2 DEF Up
    <3>4. containers' \in [Ids -> Container]
      <4>1. PICK whose \in Bijection((made + 1)..(made + Cardinality(Missing)), Missing) :
              containers' = [i \in Ids |->
                IF i \in DOMAIN whose
                THEN [service |-> whose[i], oneOff |-> FALSE, state |-> "running", code |-> 0]
                ELSE containers[i]]
        BY <2>2 DEF Up
      <4>2. \A i \in DOMAIN whose : whose[i] \in Services
        BY ServicesActive DEF Missing, Bijection, Injection
      <4>3. QED
        BY <1>0, <4>1, <4>2 DEF Container
    <3>5. QED
      BY <1>0, <2>1, <3>1, <3>2, <3>3, <3>4
  <2>3. CASE Down(c)
    BY <1>0, <2>3, ContainerTypes DEF Down
  <2>4. QED
    BY <1>2, <2>2, <2>3 DEF ApplyPlan
<1>3. CASE /\ UNCHANGED made
           /\ \/ UNCHANGED containers
              \/ \E i : containers' = StartWith(i)
              \/ \E i : containers' \in Stopped(i)
              \/ \E i : containers' = [containers EXCEPT ![i].state = "absent"]
              \/ containers' = [i \in Ids |-> IF Running(i) THEN containers[i]
                                              ELSE [containers[i] EXCEPT !.state = "absent"]]
  BY <1>0, <1>3, ContainerTypes
<1>4. QED
  BY <1>1, <1>2, <1>3
  DEF Continue, StartOneOff, FollowOneOff, WaitOneOff, CleanOneOff, StartNext, StopNext,
      StopToRestart, StartAgain, WaitNext, ShowNext, RequestFails, Finish, PruneContainers,
      PruneImages, PruneFails, Reach, BuildNext, BuildFails, BuildDone, Blocked, engineVars

(* Only the command that goes on is affected, and either nothing fails for *)
(* a reason of its own or nobody is undisturbed any more.                  *)
LEMMA ContinueShape ==
  ASSUME TypeOK, RoomInv, NEW c \in Commands, PhaseFits(c), Continue(c)
  PROVE  /\ \/ \E result \in 0..2 : Return(c, result)
            \/ \E where \in Phases \ Quiescent : \E knowing \in Work' : Go(c, where, knowing)
         /\ \/ UNCHANGED <<trouble, calm>>
            \/ /\ trouble' = trouble + 1 /\ trouble' \in 0..MaxTrouble
               /\ calm' = [d \in Commands |-> FALSE]
         /\ UnderWay(c)
<1> DEFINE Returns == \E result \in 0..2 : Return(c, result)
           Goes == \E where \in Phases \ Quiescent : \E knowing \in Work' : Go(c, where, knowing)
<1>0. \A w \in Work : w \in Work'
  <2>1. 0..made \subseteq 0..made'
    BY MadeGrows DEF TypeOK
  <2>2. QED
    BY <2>1 DEF Work, Ids
<1>1. \A where \in Phases \ Quiescent : \A knowing \in Work : Go(c, where, knowing) => Goes
  BY <1>0
<1>r. \A result \in {0, 1, 2} : Return(c, result) => Returns
  OBVIOUS
<1> HIDE DEF Returns, Goes
<1>2. {"creating", "starting", "following", "waiting", "cleaning", "working", "stopped", "reaching",
       "pruning", "pruningImages", "building", "applying"} = Phases \ Quiescent
  BY DEF Phases, Quiescent
<1>3. UnderWay(c)
  BY DEF Continue, UnderWay, At, CreateOneOff, StartOneOff, FollowOneOff, WaitOneOff, CleanOneOff,
      StartNext, StopNext, StopToRestart, StartAgain, WaitNext, ShowNext, RequestFails, Finish,
      PruneContainers, PruneImages, PruneFails, Reach, BuildNext, BuildFails, BuildDone, ApplyPlan, Blocked
<1>4. Returns \/ Goes
  <2>1. CASE CreateOneOff(c)
    <3>1. CASE \E result \in {1, 2} : Return(c, result)
      BY <1>r, <3>1
    <3>2. CASE /\ made' = made + 1
               /\ Go(c, "starting", [work[c] EXCEPT !.own = made + 1])
      <4>1. [work[c] EXCEPT !.own = made + 1] \in Work'
        <5>1. work[c] \in Work' /\ made + 1 \in 0..made'
          <6>1. made \in Nat /\ made' = made + 1
            BY <3>2 DEF TypeOK
          <6>2. work[c] \in Work'
            BY <1>0, WorkTypes, Zenon
          <6>3. made + 1 \in 0..made'
            BY <6>1
          <6>4. QED
            BY <6>2, <6>3
        <5>2. QED
          BY <5>1 DEF Work
      <4>2. QED
        BY <1>2, <3>2, <4>1 DEF Goes
    <3>3. QED
      BY <2>1, <3>1, <3>2 DEF CreateOneOff
  <2>2. CASE StartOneOff(c) \/ FollowOneOff(c)
    BY <1>1, <1>2, <2>2, WorkTypes DEF StartOneOff, FollowOneOff
  <2>3. CASE WaitOneOff(c)
    <3>1. Go(c, "cleaning", Failed(c)) \/ Go(c, "cleaning", work[c])
      BY <2>3 DEF WaitOneOff
    <3>2. QED
      BY <1>1, <1>2, <3>1, WorkTypes
  <2>4. CASE CleanOneOff(c)
    <3>1. RunCode(c, TRUE) \in {0, 1, 2} /\ RunCode(c, FALSE) \in {0, 1, 2}
      BY WorkTypes DEF RunCode
    <3>2. Return(c, RunCode(c, TRUE)) \/ Return(c, RunCode(c, FALSE))
      BY <2>4 DEF CleanOneOff
    <3>3. QED
      BY <1>r, <3>1, <3>2
  <2>5. CASE StartNext(c) \/ StopNext(c) \/ StartAgain(c) \/ ShowNext(c)
    BY <1>1, <1>2, <2>5, WorkTypes DEF StartNext, StopNext, StartAgain, ShowNext
  <2>6. CASE StopToRestart(c)
    <3>1. PICK i \in todo(c) \cap Present : Go(c, "stopped", [work[c] EXCEPT !.own = i])
      BY <2>6 DEF StopToRestart
    <3>2. i \in 0..made
      BY <3>1 DEF RoomInv, Present, Ids, TypeOK
    <3>3. QED
      BY <1>1, <1>2, <3>1, <3>2, WorkTypes
  <2>7. CASE WaitNext(c)
    <3>1. Return(c, 2) \/ \E i : Go(c, "working", Done(c, i))
      BY <2>7 DEF WaitNext
    <3>2. QED
      BY <1>r, <1>1, <1>2, <3>1, WorkTypes
  <2>8. CASE RequestFails(c) \/ Finish(c) \/ PruneImages(c) \/ PruneFails(c) \/ BuildFails(c) \/ Blocked(c)
    <3>1. Return(c, 0) \/ Return(c, 2)
      BY <2>8 DEF RequestFails, Finish, PruneImages, PruneFails, BuildFails, Blocked
    <3>2. QED
      BY <1>r, <3>1, WorkTypes
  <2>9. CASE PruneContainers(c) \/ BuildNext(c) \/ BuildDone(c)
    <3>1. \/ Go(c, "pruningImages", work[c]) \/ \E s : Go(c, "building", Done(c, s))
          \/ Return(c, 0) \/ Go(c, "applying", work[c])
      BY <2>9 DEF PruneContainers, BuildNext, BuildDone
    <3>2. QED
      BY <1>1, <1>2, <1>r, <3>1, WorkTypes
  <2>10. CASE Reach(c)
    <3>1. /\ ExecCode(own(c)) \subseteq {0, 1, 2}
          /\ CopyCode(own(c)) \subseteq {0, 1, 2}
          /\ PortCode(own(c)) \subseteq {0, 1, 2}
      BY DEF ExecCode, CopyCode, PortCode
    <3>2. asked(c).op \in {"exec", "cp", "port"}
      BY <2>10 DEF Reach, PhaseFits
    <3>3. \E result \in {0, 1, 2} : Return(c, result)
      BY <2>10, <3>1, <3>2 DEF Reach
    <3>4. QED
      BY <1>r, <3>3
  <2>11. CASE ApplyPlan(c)
    <3>1. Return(c, 0) \/ Return(c, 1)
      BY <2>11 DEF ApplyPlan, Up, Down
    <3>2. QED
      BY <1>r, <3>1
  <2>12. QED
    BY <2>1, <2>2, <2>3, <2>4, <2>5, <2>6, <2>7, <2>8, <2>9, <2>10, <2>11 DEF Continue
<1>5. Answered \/ Fails
  BY DEF Continue, At, CreateOneOff, StartOneOff, FollowOneOff, WaitOneOff, CleanOneOff, OwnFails,
      StartNext, StopNext, StopToRestart, StartAgain, WaitNext, ShowNext, RequestFails, Finish,
      PruneContainers, PruneImages, PruneFails, Reach, BuildNext, BuildFails, BuildDone, ApplyPlan, Blocked
<1>6. \/ UNCHANGED <<trouble, calm>>
      \/ /\ trouble' = trouble + 1 /\ trouble' \in 0..MaxTrouble
         /\ calm' = [d \in Commands |-> FALSE]
  BY <1>5, CommandsAssumption DEF Answered, Fails, Disturb, TypeOK
<1>7. QED
  BY <1>3, <1>4, <1>6 DEF Returns, Goes

LEMMA ContinueTypes ==
  ASSUME TypeOK, RoomInv, NEW c \in Commands, PhaseFits(c), Continue(c)
  PROVE  TypeOK'
<1>1. /\ made' \in made..MaxContainers
      /\ containers' \in [Ids -> Container]
  BY MadeGrows
<1>2. phase' \in [Commands -> Phases] /\ work' \in [Commands -> Work'] /\ code' \in 0..2
  BY <1>1, ContinueShape, GoTypes, ReturnTypes
<1>3. trouble' \in 0..MaxTrouble /\ calm' \in [Commands -> BOOLEAN]
  BY ContinueShape DEF TypeOK
<1>4. made' \in 0..MaxContainers
  BY <1>1 DEF TypeOK
<1>5. QED
  BY <1>1, <1>2, <1>3, <1>4 DEF TypeOK, Work

(* The steps of nobody's command.                                          *)
LEMMA OtherTypes ==
  ASSUME TypeOK,
         \/ \E c \in Commands : Kill(c)
         \/ \E i \in Ids : ProcessExits(i) \/ Meddle(i)
         \/ UNCHANGED vars
  PROVE  TypeOK'
<1>1. ASSUME NEW c \in Commands, Kill(c) PROVE TypeOK'
  <2>1. /\ phase' \in [Commands -> Phases] /\ work' \in [Commands -> Work]
        /\ UNCHANGED <<code, engineVars, trouble, calm>>
    BY <1>1, NoWorkIsWork DEF Kill, Go, Answered, TypeOK, Work, Phases
  <2>2. QED
    BY <2>1 DEF TypeOK, Work, engineVars
<1>2. ASSUME NEW i \in Ids, ProcessExits(i) PROVE TypeOK'
  <2>1. containers' \in Stopped(i)
    BY <1>2 DEF ProcessExits, Stopped
  <2>2. containers' \in [Ids -> Container]
    BY <2>1, ContainerTypes
  <2>3. QED
    BY <1>2, <2>2 DEF ProcessExits, TypeOK
<1>3. ASSUME NEW i \in Ids, Meddle(i) PROVE TypeOK'
  <2>1. containers' \in [Ids -> Container]
    BY <1>3, ContainerTypes DEF Meddle
  <2>2. QED
    BY <1>3, <2>1, CommandsAssumption DEF Meddle, Fails, Disturb, TypeOK
<1>4. CASE UNCHANGED vars
  BY <1>4 DEF vars, engineVars, TypeOK
<1>5. QED
  BY <1>1, <1>2, <1>3, <1>4

-----------------------------------------------------------------------------
\* Who claims a service.

(* No container changes what it is; none comes into being.                 *)
NoneMade ==
  /\ made' = made
  /\ \A i \in Ids : /\ containers'[i].service = containers[i].service
                    /\ containers'[i].oneOff = containers[i].oneOff
                    /\ i \in Present' => i \in Present

OneMade(s) ==
  /\ made' = made + 1
  /\ containers' = [containers EXCEPT ![made + 1] =
                      [service |-> s, oneOff |-> TRUE, state |-> "created", code |-> 0]]

MissingMade ==
  /\ made' = made + Cardinality(Missing)
  /\ \E whose \in Bijection((made + 1)..(made + Cardinality(Missing)), Missing) :
       containers' = [i \in Ids |->
         IF i \in (made + 1)..(made + Cardinality(Missing))
         THEN [service |-> whose[i], oneOff |-> FALSE, state |-> "running", code |-> 0]
         ELSE containers[i]]

(* Starting, stopping and removing makes nothing.                          *)
LEMMA ChangesMakeNothing ==
  ASSUME TypeOK, made' = made,
         \/ containers' = containers
         \/ \E i \in Present : containers' = StartWith(i)
         \/ \E i \in Present : containers' \in Stopped(i)
         \/ \E i : containers' = [containers EXCEPT ![i].state = "absent"]
         \/ \E S \in SUBSET Ids :
              containers' = [i \in Ids |-> IF i \in S THEN containers[i]
                                           ELSE [containers[i] EXCEPT !.state = "absent"]]
  PROVE  NoneMade
<1>0. containers \in [Ids -> Container]
  BY DEF TypeOK
<1>1. CASE containers' = containers
  BY <1>1 DEF NoneMade, Present
<1>2. ASSUME NEW i \in Present, containers' = StartWith(i)
      PROVE  NoneMade
  BY <1>0, <1>2 DEF NoneMade, Present, StartWith, Container
<1>3. ASSUME NEW i \in Present, containers' \in Stopped(i)
      PROVE  NoneMade
  <2>1. CASE containers' = containers
    BY <2>1, <1>1
  <2>2. CASE Running(i)
    <3>1. PICK e \in {0, 1} : containers' = [containers EXCEPT ![i].state = "exited", ![i].code = e]
      BY <1>3, <2>2, Zenon DEF Stopped
    <3> DEFINE one == [containers EXCEPT ![i].state = "exited"]
    <3>2. /\ one \in [Ids -> Container]
          /\ \A j \in Ids : /\ one[j].service = containers[j].service
                            /\ one[j].oneOff = containers[j].oneOff
                            /\ one[j].state # "absent" => j = i \/ containers[j].state # "absent"
      <4>1. one \in [Ids -> Container]
        BY <1>0 DEF Container
      <4>2. \A j \in Ids : one[j] = IF j = i THEN [containers[i] EXCEPT !.state = "exited"] ELSE containers[j]
        BY <1>0
      <4>3. /\ [containers[i] EXCEPT !.state = "exited"].service = containers[i].service
            /\ [containers[i] EXCEPT !.state = "exited"].oneOff = containers[i].oneOff
        BY <1>0, <1>3 DEF Present, Container
      <4> HIDE DEF one
      <4>4. QED
        BY <4>1, <4>2, <4>3
    <3>3. containers' = [one EXCEPT ![i].code = e]
      BY <3>1, Zenon
    <3> HIDE DEF one
    <3>4. \A j \in Ids : /\ containers'[j].service = one[j].service
                         /\ containers'[j].oneOff = one[j].oneOff
                         /\ containers'[j].state = one[j].state
      BY <3>2, <3>3 DEF Container
    <3>5. QED
      BY <3>2, <3>4 DEF NoneMade, Present
  <2>3. QED
    BY <1>3, <2>1, <2>2 DEF Stopped
<1>4. ASSUME NEW i, containers' = [containers EXCEPT ![i].state = "absent"]
      PROVE  NoneMade
  BY <1>0, <1>4 DEF NoneMade, Present, Container
<1>5. ASSUME NEW S \in SUBSET Ids,
             containers' = [i \in Ids |-> IF i \in S THEN containers[i]
                                          ELSE [containers[i] EXCEPT !.state = "absent"]]
      PROVE  NoneMade
  <2>1. \A i \in Ids : /\ containers'[i].service = containers[i].service
                       /\ containers'[i].oneOff = containers[i].oneOff
                       /\ containers'[i].state # "absent" => containers'[i] = containers[i]
    BY <1>0, <1>5 DEF Container
  <2>2. QED
    BY <2>1 DEF NoneMade, Present
<1>6. QED
  BY <1>1, <1>2, <1>3, <1>4, <1>5

LEMMA ContinueMakes ==
  ASSUME TypeOK, RoomInv, NEW c \in Commands, Continue(c)
  PROVE  \/ NoneMade
         \/ CreateOneOff(c) /\ \E s \in Services : OneMade(s)
         \/ ApplyPlan(c) /\ MissingMade
<1>1. CASE CreateOneOff(c)
  <2>1. CASE UNCHANGED <<containers, made>>
    BY <2>1, ChangesMakeNothing
  <2>2. QED
    BY <1>1, <2>1 DEF CreateOneOff, OneMade
<1>2. CASE ApplyPlan(c)
  <2>1. CASE Up(c)
    <3>1. PICK whose \in Bijection((made + 1)..(made + Cardinality(Missing)), Missing) :
            containers' = [i \in Ids |->
              IF i \in DOMAIN whose
              THEN [service |-> whose[i], oneOff |-> FALSE, state |-> "running", code |-> 0]
              ELSE containers[i]]
      BY <2>1 DEF Up
    <3>2. DOMAIN whose = (made + 1)..(made + Cardinality(Missing))
      BY DEF Bijection, Injection
    <3>3. made' = made + Cardinality(Missing)
      BY <2>1 DEF Up
    <3>4. QED
      BY <1>2, <3>1, <3>2, <3>3 DEF MissingMade
  <2>2. CASE Down(c)
    <3> DEFINE others == {i \in Ids : containers[i].service \notin Active(TheProject)}
    <3>1. containers' = [i \in Ids |-> IF i \in others THEN containers[i]
                                       ELSE [containers[i] EXCEPT !.state = "absent"]]
      BY <2>2 DEF Down
    <3>2. made' = made
      BY <2>2 DEF Down
    <3>3. QED
      BY <3>1, <3>2, ChangesMakeNothing
  <2>3. QED
    BY <1>2, <2>1, <2>2 DEF ApplyPlan
<1>3. CASE PruneContainers(c)
  <2> DEFINE run == {i \in Ids : Running(i)}
  <2>1. containers' = [i \in Ids |-> IF i \in run THEN containers[i]
                                     ELSE [containers[i] EXCEPT !.state = "absent"]]
    BY <1>3 DEF PruneContainers
  <2>2. made' = made
    BY <1>3 DEF PruneContainers
  <2>3. QED
    BY <2>1, <2>2, ChangesMakeNothing
<1>4. CASE /\ UNCHANGED made
           /\ \/ UNCHANGED containers
              \/ \E i \in Present : containers' = StartWith(i)
              \/ \E i \in Present : containers' \in Stopped(i)
              \/ \E i : containers' = [containers EXCEPT ![i].state = "absent"]
  BY <1>4, ChangesMakeNothing
<1>5. QED
  BY <1>1, <1>2, <1>3, <1>4
  DEF Continue, StartOneOff, FollowOneOff, WaitOneOff, CleanOneOff, StartNext, StopNext,
      StopToRestart, StartAgain, WaitNext, ShowNext, RequestFails, Finish,
      PruneImages, PruneFails, Reach, BuildNext, BuildFails, BuildDone, Blocked, engineVars

(* Who has made its containers will not make any again.                    *)
LEMMA UnspentShrinks ==
  ASSUME TypeOK, RoomInv, NEW c \in Commands, PhaseFits(c), Continue(c)
  PROVE  /\ Unspent' \subseteq Unspent
         /\ (CreateOneOff(c) /\ made' # made) \/ ApplyPlan(c) => c \in Unspent /\ Unspent' \subseteq Unspent \ {c}
<1>1. \A d \in Commands \ {c} : phase'[d] = phase[d]
  BY ContinueShape DEF Go, Return, TypeOK
<1>2. c \in Unspent' => c \in Unspent /\ ~ApplyPlan(c) /\ ~(CreateOneOff(c) /\ made' # made)
  <2>1. phase[c] \in Phases \ Quiescent
    BY ContinueShape DEF UnderWay, TypeOK, Quiescent
  <2>2. CASE phase'[c] = "ended"
    BY <2>2 DEF Unspent
  <2>3. CASE CreateOneOff(c)
    BY <2>3 DEF CreateOneOff, Go, Return, TypeOK, Unspent
  <2>4. CASE BuildNext(c)
    BY <2>4 DEF BuildNext, Unspent, ApplyPlan, CreateOneOff, At
  <2>5. CASE BuildDone(c)
    BY <2>5 DEF BuildDone, Unspent, ApplyPlan, CreateOneOff, At
  <2>6. CASE \/ StartOneOff(c) \/ FollowOneOff(c) \/ WaitOneOff(c)
             \/ StartNext(c) \/ StopNext(c) \/ StopToRestart(c) \/ StartAgain(c) \/ WaitNext(c)
             \/ ShowNext(c) \/ PruneContainers(c)
    <3>1. phase'[c] \in {"ended", "following", "waiting", "cleaning", "working", "stopped", "pruningImages"}
      BY <2>6 DEF StartOneOff, FollowOneOff, WaitOneOff, StartNext, StopNext, StopToRestart,
                  StartAgain, WaitNext, ShowNext, PruneContainers, Go, Return, TypeOK
    <3>2. QED
      BY <3>1 DEF Unspent
  <2>7. CASE \/ CleanOneOff(c) \/ RequestFails(c) \/ Finish(c) \/ PruneImages(c) \/ PruneFails(c)
             \/ Reach(c) \/ BuildFails(c) \/ ApplyPlan(c) \/ Blocked(c)
    <3>1. \E result : Return(c, result)
      BY <2>7 DEF CleanOneOff, RequestFails, Finish, PruneImages, PruneFails, Reach, BuildFails,
                  ApplyPlan, Blocked, Up, Down
    <3>2. QED
      BY <2>2, <3>1 DEF Return, TypeOK
  <2>8. QED
    BY <2>3, <2>4, <2>5, <2>6, <2>7 DEF Continue
<1>3. CreateOneOff(c) \/ ApplyPlan(c) => c \in Unspent
  BY DEF CreateOneOff, ApplyPlan, At, Unspent
<1>4. QED
  BY <1>1, <1>2, <1>3 DEF Unspent

LEMMA ContinueRoom ==
  ASSUME TypeOK, RoomInv, NEW c \in Commands, PhaseFits(c), Continue(c)
  PROVE  RoomInv'
<1>0. containers \in [Ids -> Container] /\ made \in Nat
  BY DEF TypeOK
<1>1. \A i \in Ids : i > made' => i \notin Present'
  <2>1. CASE NoneMade
    BY <2>1 DEF NoneMade, RoomInv
  <2>2. ASSUME NEW s \in Services, OneMade(s)
        PROVE  \A i \in Ids : i > made' => i \notin Present'
    <3>1. \A i \in Ids : i # made + 1 => containers'[i] = containers[i]
      BY <1>0, <2>2 DEF OneMade
    <3>2. QED
      BY <1>0, <2>2, <3>1 DEF OneMade, RoomInv, Present, Ids
  <2>3. CASE MissingMade
    <3>1. Cardinality(Missing) \in Nat
      BY MissingFinite
    <3>2. \A i \in Ids : i \notin (made + 1)..(made + Cardinality(Missing)) => containers'[i] = containers[i]
      BY <2>3 DEF MissingMade
    <3>3. QED
      BY <1>0, <2>3, <3>1, <3>2 DEF MissingMade, RoomInv, Present, Ids
  <2>4. QED
    BY <2>1, <2>2, <2>3, ContinueMakes
<1>2. made' \in Nat
  BY <1>0, MadeGrows
<1>3. \/ made' = made /\ Unspent' \subseteq Unspent
      \/ \E d \in Unspent : /\ made' <= made + Cardinality(Services)
                            /\ Unspent' \subseteq Unspent \ {d}
  <2>1. CASE NoneMade
    BY <2>1, UnspentShrinks DEF NoneMade
  <2>2. CASE made' # made /\ (CreateOneOff(c) \/ ApplyPlan(c))
    BY <2>2, UnspentShrinks, MadeGrows
  <2>3. CASE made' = made
    BY <2>3, UnspentShrinks
  <2>4. QED
    BY <2>1, <2>2, <2>3, ContinueMakes
<1>4. QED
  BY <1>1, <1>2, <1>3, RoomKept

LEMMA NoneMadeOneReplica == OneReplica /\ NoneMade => OneReplica'
BY DEF OneReplica, NoneMade, Serves, Present

LEMMA ContinueOneReplica ==
  ASSUME TypeOK, RoomInv, OneReplica, NEW c \in Commands, Continue(c)
  PROVE  OneReplica'
<1>0. containers \in [Ids -> Container] /\ made \in Nat
  BY DEF TypeOK
<1>1. CASE NoneMade
  BY <1>1, NoneMadeOneReplica
<1>2. ASSUME NEW s \in Services, OneMade(s) PROVE OneReplica'
  <2>1. \A t \in Services : Serves(t)' \subseteq Serves(t)
    <3>1. \A i \in Ids : i # made + 1 => containers'[i] = containers[i]
      BY <1>0, <1>2 DEF OneMade
    <3>2. made + 1 \in Ids => containers'[made + 1].oneOff
      BY <1>0, <1>2 DEF OneMade
    <3>3. QED
      BY <3>1, <3>2 DEF Serves, Present
  <2>2. QED
    BY <2>1 DEF OneReplica
<1>3. CASE MissingMade
  <2> DEFINE new == (made + 1)..(made + Cardinality(Missing))
  <2>1. PICK whose \in Bijection(new, Missing) :
          containers' = [i \in Ids |->
            IF i \in new
            THEN [service |-> whose[i], oneOff |-> FALSE, state |-> "running", code |-> 0]
            ELSE containers[i]]
    BY <1>3 DEF MissingMade
  <2>2. \A i, j \in new : whose[i] = whose[j] => i = j
    BY DEF Bijection, Injection, IsInjective
  <2>3. \A i \in new : whose[i] \in Missing
    BY DEF Bijection, Injection
  <2> HIDE DEF new
  <2>4. SUFFICES ASSUME NEW t \in Services, NEW i \in Serves(t)', NEW j \in Serves(t)'
                 PROVE  i = j
    BY DEF OneReplica
  <2>5. /\ i \in Ids /\ j \in Ids
        /\ containers'[i].service = t /\ containers'[j].service = t
        /\ ~containers'[i].oneOff /\ ~containers'[j].oneOff
        /\ containers'[i].state # "absent" /\ containers'[j].state # "absent"
    BY DEF Serves, Present
  <2>6. \A k \in Ids \ new : k \in Serves(t)' => k \in Serves(t)
    BY <2>1 DEF Serves, Present
  <2>7. \A k \in Ids \cap new : containers'[k].service = whose[k]
    BY <2>1
  <2>8. CASE i \in new /\ j \in new
    BY <2>2, <2>5, <2>7, <2>8
  <2>9. CASE i \notin new /\ j \notin new
    BY <2>5, <2>6, <2>9 DEF OneReplica
  <2>10. ASSUME t \in Missing PROVE Serves(t) = {}
    BY <2>10 DEF Missing
  <2>11. QED
    BY <2>3, <2>5, <2>6, <2>7, <2>8, <2>9, <2>10
<1>4. QED
  BY <1>1, <1>2, <1>3, ContinueMakes

-----------------------------------------------------------------------------
\* What is done in a phase.

LEMMA WorkFields ==
  ASSUME TypeOK, NEW c \in Commands
  PROVE  /\ \A i : /\ Done(c, i).asked = asked(c) /\ Done(c, i).todo = todo(c) \ {i}
         /\ Failed(c).asked = asked(c) /\ Failed(c).own = own(c) /\ Failed(c).failed
         /\ \A i : LET w == [work[c] EXCEPT !.own = i]
                   IN  /\ w.asked = asked(c) /\ w.todo = todo(c) /\ w.own = i
                       /\ w.failed = work[c].failed
<1>1. work[c] \in Work
  BY WorkTypes
<1>2. QED
  BY <1>1 DEF Work, Done, Failed, asked, own, todo

LEMMA OthersFit ==
  ASSUME TypeOK, RoomInv, NEW c \in Commands, PhaseFits(c), Continue(c),
         NEW d \in Commands \ {c}, PhaseFits(d)
  PROVE  /\ phase'[d] = phase[d] /\ work'[d] = work[d]
         /\ PhaseFits(d)'
<1>1. phase'[d] = phase[d] /\ work'[d] = work[d]
  BY ContinueShape DEF Go, Return, TypeOK
<1>2. 1..made \subseteq 1..made'
  BY MadeGrows DEF TypeOK
<1>3. QED
  BY <1>1, <1>2 DEF PhaseFits, asked, own, todo

LEMMA ReturnFits ==
  ASSUME TypeOK, NEW c \in Commands, NEW result, Return(c, result)
  PROVE  PhaseFits(c)' /\ phase'[c] = "ended" /\ code' = result
BY DEF TypeOK, Return, PhaseFits, Quiescent, OfRun

(* What a command is about to do and knows next.                           *)
LEMMA GoReaches ==
  ASSUME TypeOK, NEW c \in Commands, NEW where, NEW knowing, Go(c, where, knowing)
  PROVE  /\ phase'[c] = where /\ work'[c] = knowing /\ code' = code
         /\ asked(c)' = knowing.asked /\ own(c)' = knowing.own /\ todo(c)' = knowing.todo
BY DEF TypeOK, Go, asked, own, todo

LEMMA ContinueFits ==
  ASSUME TypeOK, RoomInv, NEW c \in Commands, PhaseFits(c), Continue(c)
  PROVE  PhaseFits(c)'
<1>0. made \in Nat /\ made' \in Nat /\ 1..made \subseteq 1..made'
  BY MadeGrows DEF TypeOK
<1>1. CASE \E result : Return(c, result)
  BY <1>1, ReturnFits
<1>2. ASSUME NEW where \in {"starting", "following", "waiting", "cleaning"}, NEW knowing,
             Go(c, where, knowing), knowing.asked.op = "run", knowing.own # 0
      PROVE  PhaseFits(c)'
  BY <1>2, GoReaches DEF PhaseFits, Quiescent, OfRun
<1>3. ASSUME NEW knowing, Go(c, "working", knowing), knowing.todo \subseteq 1..made,
             knowing.asked.op \in {"start", "stop", "restart", "wait", "logs"}
      PROVE  PhaseFits(c)'
  BY <1>0, <1>3, GoReaches DEF PhaseFits, Quiescent, OfRun
<1>4. CASE CreateOneOff(c)
  <2>1. CASE Go(c, "starting", [work[c] EXCEPT !.own = made + 1])
    <3>1. [work[c] EXCEPT !.own = made + 1].asked.op = "run"
      BY <1>4, WorkFields DEF CreateOneOff, At
    <3>2. [work[c] EXCEPT !.own = made + 1].own # 0
      BY <1>0, WorkFields
    <3>3. QED
      BY <1>2, <2>1, <3>1, <3>2
  <2>2. QED
    BY <1>1, <1>4, <2>1 DEF CreateOneOff
<1>5. CASE StartOneOff(c) \/ FollowOneOff(c) \/ WaitOneOff(c)
  <2>1. asked(c).op = "run" /\ own(c) # 0
    BY <1>5 DEF StartOneOff, FollowOneOff, WaitOneOff, At, PhaseFits, OfRun
  <2>2. work[c].asked = asked(c) /\ work[c].own = own(c)
    BY DEF asked, own
  <2>3. \E where \in {"starting", "following", "waiting", "cleaning"} :
          Go(c, where, work[c]) \/ Go(c, where, Failed(c))
    BY <1>5 DEF StartOneOff, FollowOneOff, WaitOneOff
  <2>4. Failed(c).asked.op = "run" /\ Failed(c).own # 0
    BY <2>1, WorkFields
  <2>5. QED
    BY <1>2, <2>1, <2>2, <2>3, <2>4
<1>6. CASE StartNext(c) \/ StopNext(c) \/ ShowNext(c) \/ StartAgain(c)
  <2>1. \E i : Go(c, "working", Done(c, i))
    BY <1>6 DEF StartNext, StopNext, ShowNext, StartAgain
  <2>2. /\ asked(c).op \in {"start", "stop", "restart", "wait", "logs"}
        /\ todo(c) \subseteq 1..made
    BY <1>6 DEF StartNext, StopNext, ShowNext, StartAgain, At, PhaseFits
  <2>3. QED
    BY <1>3, <2>1, <2>2, WorkFields
<1>7. CASE WaitNext(c)
  <2>1. Return(c, 2) \/ \E i : Go(c, "working", Done(c, i))
    BY <1>7 DEF WaitNext
  <2>2. /\ asked(c).op \in {"start", "stop", "restart", "wait", "logs"}
        /\ todo(c) \subseteq 1..made
    BY <1>7 DEF WaitNext, At, PhaseFits
  <2>3. QED
    BY <1>3, <2>1, <2>2, WorkFields, ReturnFits
<1>8. CASE StopToRestart(c)
  <2>1. PICK i \in todo(c) \cap Present : Go(c, "stopped", [work[c] EXCEPT !.own = i])
    BY <1>8 DEF StopToRestart
  <2>2. i # 0
    BY <2>1 DEF Present, Ids
  <2>3. asked(c).op = "restart" /\ todo(c) \subseteq 1..made
    BY <1>8 DEF StopToRestart, At, PhaseFits
  <2> DEFINE next == [work[c] EXCEPT !.own = i]
  <2>4. next.asked.op = "restart" /\ next.own # 0 /\ next.todo \subseteq 1..made
    BY <2>2, <2>3, WorkFields
  <2> HIDE DEF next
  <2>5. Go(c, "stopped", next)
    BY <2>1 DEF next
  <2>6. QED
    BY <1>0, <2>4, <2>5, GoReaches DEF PhaseFits, Quiescent, OfRun
<1>9. CASE PruneContainers(c) \/ BuildNext(c) \/ BuildDone(c)
  <2>1. CASE PruneContainers(c)
    <3>1. Go(c, "pruningImages", work[c]) /\ work[c].asked.op = "prune"
      BY <2>1 DEF PruneContainers, PhaseFits, asked
    <3>2. QED
      BY <3>1, GoReaches DEF PhaseFits, Quiescent, OfRun
  <2>2. CASE BuildNext(c)
    <3>1. PICK s : Go(c, "building", Done(c, s))
      BY <2>2 DEF BuildNext
    <3>2. Done(c, s).asked.op \in {"build", "up"}
      BY <2>2, WorkFields DEF BuildNext, PhaseFits
    <3>3. QED
      BY <3>1, <3>2, GoReaches DEF PhaseFits, Quiescent, OfRun
  <2>3. CASE BuildDone(c) /\ asked(c).op # "build"
    <3>1. Go(c, "applying", work[c]) /\ work[c].asked.op = "up"
      BY <2>3 DEF BuildDone, PhaseFits, asked
    <3>2. QED
      BY <3>1, GoReaches DEF PhaseFits, Quiescent, OfRun
  <2>4. QED
    BY <1>1, <1>9, <2>1, <2>2, <2>3 DEF BuildDone
<1>10. QED
  BY <1>1, <1>4, <1>5, <1>6, <1>7, <1>8, <1>9
  DEF Continue, CleanOneOff, RequestFails, Finish, PruneImages, PruneFails, Reach, BuildFails,
      ApplyPlan, Blocked, Up, Down

-----------------------------------------------------------------------------
\* The beginning of a command.

(* A command begins with the containers it is asked about still to do.     *)
LEMMA BeginFits ==
  ASSUME TypeOK, RoomInv, NEW c \in Commands, NEW o \in Operations, Begin(c, o)
  PROVE  /\ PhaseFits(c)'
         /\ UnderWay(c)' => asked(c)' = o
         /\ UnderWay(c)' => Progress(c)'
<1>0. /\ \A k : k \in Present => k \in 1..made
      /\ containers' = containers /\ made' = made /\ images' = images
      /\ Present' = Present
  BY DEF RoomInv, Present, Ids, TypeOK, Begin, engineVars
<1>1. \A w : w = Asked(o) =>
        w.asked = o /\ w.todo = {} /\ w.own = 0 /\ ~w.failed
  BY NoWorkIsWork DEF Asked, Work, NoWork
<1>2. CASE \E result : Return(c, result)
  BY <1>2, ReturnFits DEF UnderWay
<1>3. CASE BeginRun(c, o)
  <2>1. Go(c, "creating", Asked(o)) /\ o.op = "run"
    BY <1>3 DEF BeginRun
  <2>2. phase'[c] = "creating" /\ asked(c)' = o /\ own(c)' = 0 /\ ~work'[c].failed
    BY <1>1, <2>1, GoReaches
  <2>3. QED
    BY <2>1, <2>2 DEF PhaseFits, Quiescent, OfRun, Progress
<1>4. ASSUME NEW S, Go(c, "working", [Asked(o) EXCEPT !.todo = S]),
             o.op \in {"start", "stop", "restart", "wait", "logs"},
             S = Pick(o.services) \/ (o.op = "wait" /\ S = matching_service_containers(o.services))
      PROVE  PhaseFits(c)' /\ asked(c)' = o /\ Progress(c)'
  <2>1. Asked(o) \in Work
    BY AskedWork
  <2> DEFINE next == [Asked(o) EXCEPT !.todo = S]
  <2>2. next.asked = o /\ next.todo = S /\ Go(c, "working", next)
    BY <1>1, <1>4, <2>1 DEF Work
  <2> HIDE DEF next
  <2>3. phase'[c] = "working" /\ asked(c)' = o /\ todo(c)' = S
    BY <2>2, GoReaches
  <2>4. S \subseteq 1..made
    BY <1>0, <1>4, PicksArePresent
  <2>5. PhaseFits(c)'
    BY <1>0, <1>4, <2>3, <2>4 DEF PhaseFits, Quiescent, OfRun
  <2>6. \A i \in Selected(o)' \ S : o.op = "wait" /\ ServiceOf(i) = NoService
    BY <1>0, <1>4, PicksArePresent DEF Selected, Present, ServiceOf
  <2>7. \A i \in Selected(o)' \ S : Treated(c, i)'
    <3>1. ASSUME NEW i \in Selected(o)' \ S PROVE Treated(c, i)'
      <4>1. asked(c)'.op = "wait" /\ ServiceOf(i)' = NoService
        BY <1>0, <2>3, <2>6 DEF ServiceOf
      <4>2. QED
        BY <4>1 DEF Treated
    <3>2. QED
      BY <3>1
  <2>8. Progress(c)'
    BY <2>3, <2>7 DEF Progress, OfRun
  <2>9. QED
    BY <2>3, <2>5, <2>8
<1>5. CASE BeginLifecycle(c, o)
  <2>1. PhaseFits(c)' /\ asked(c)' = o /\ Progress(c)'
    BY <1>4, <1>5 DEF BeginLifecycle
  <2>2. QED
    BY <2>1
<1>6. CASE BeginWait(c, o)
  <2>1. CASE Go(c, "working", [Asked(o) EXCEPT !.todo = matching_service_containers(o.services)])
    <3>1. PhaseFits(c)' /\ asked(c)' = o /\ Progress(c)'
      BY <1>4, <1>6, <2>1 DEF BeginWait
    <3>2. QED
      BY <3>1
  <2>2. QED
    BY <1>2, <1>6, <2>1 DEF BeginWait
<1>7. CASE BeginReach(c, o)
  <2>1. CASE \E i : Go(c, "reaching", [Asked(o) EXCEPT !.own = i])
    <3>1. PICK i : Go(c, "reaching", [Asked(o) EXCEPT !.own = i])
      BY <2>1
    <3>2. Asked(o) \in Work
      BY AskedWork
    <3> DEFINE next == [Asked(o) EXCEPT !.own = i]
    <3>3. next.asked = o /\ Go(c, "reaching", next)
      BY <1>1, <3>1, <3>2 DEF Work
    <3> HIDE DEF next
    <3>4. phase'[c] = "reaching" /\ asked(c)' = o
      BY <3>3, GoReaches
    <3>5. asked(c)'.op \in {"exec", "cp", "port"}
      BY <1>7, <3>4 DEF BeginReach
    <3>6. PhaseFits(c)'
      BY <3>4, <3>5 DEF PhaseFits, Quiescent, OfRun
    <3>7. Progress(c)'
      BY <3>4 DEF Progress, OfRun
    <3>8. QED
      BY <3>4, <3>6, <3>7
  <2>2. QED
    BY <1>2, <1>7, <2>1 DEF BeginReach
<1>8. CASE BeginPrune(c, o) \/ BeginPlan(c, o)
  <2>1. \/ Go(c, "pruning", Asked(o)) /\ o.op = "prune"
        \/ Go(c, "applying", Asked(o)) /\ o.op \in {"up", "down"}
    BY <1>8 DEF BeginPrune, BeginPlan
  <2>2. asked(c)' = o /\ \/ phase'[c] = "pruning" /\ o.op = "prune"
                         \/ phase'[c] = "applying" /\ o.op \in {"up", "down"}
    BY <1>1, <2>1, GoReaches
  <2>3. QED
    BY <2>2 DEF PhaseFits, Quiescent, OfRun, Progress
<1>9. CASE BeginBuild(c, o)
  <2> DEFINE S == Active(TheProject) \cap TheProject.build
  <2>1. Go(c, "building", [Asked(o) EXCEPT !.todo = S]) /\ o.op \in {"build", "up"}
    BY <1>9 DEF BeginBuild
  <2>2. Asked(o) \in Work
    BY AskedWork
  <2> HIDE DEF S
  <2> DEFINE next == [Asked(o) EXCEPT !.todo = S]
  <2>3. next.asked = o /\ next.todo = S /\ Go(c, "building", next)
    BY <1>1, <2>1, <2>2 DEF Work
  <2> HIDE DEF next
  <2>4. phase'[c] = "building" /\ asked(c)' = o /\ todo(c)' = S
    BY <2>3, GoReaches
  <2>5. QED
    BY <2>1, <2>4 DEF S, PhaseFits, Quiescent, OfRun, Progress
<1>10. QED
  BY <1>2, <1>3, <1>5, <1>6, <1>7, <1>8, <1>9 DEF Begin, Refused, Overview

LEMMA BeginKeeps ==
  ASSUME CommandsInv, NEW c \in Commands, NEW o \in Operations, Begin(c, o)
  PROVE  CommandsInv'
<1>0. TypeOK /\ RoomInv /\ OneReplica /\ CalmInv
  BY DEF CommandsInv
<1>1. \A d \in Commands \ {c} : phase'[d] = phase[d] /\ work'[d] = work[d]
  <2>1. \/ \E result : Return(c, result)
        \/ \E where, knowing : Go(c, where, knowing)
    BY DEF Begin, Refused, BeginRun, BeginLifecycle, BeginWait, BeginReach, BeginPrune,
           BeginBuild, BeginPlan, Overview
  <2>2. QED
    BY <1>0, <2>1 DEF Go, Return, TypeOK
<1>2. containers' = containers /\ made' = made /\ images' = images
  BY DEF Begin, engineVars
<1>3. RoomInv'
  <2>1. Unspent' \subseteq Unspent
    BY <1>1 DEF Begin, Unspent
  <2>2. QED
    BY <1>0, <1>2, <2>1, RoomKept DEF RoomInv, Present, TypeOK
<1>4. OneReplica'
  BY <1>0, <1>2 DEF OneReplica, Serves, Present
<1>5. \A d \in Commands : PhaseFits(d)'
  <2>1. ASSUME NEW d \in Commands \ {c} PROVE PhaseFits(d)'
    BY <1>1, <1>2 DEF CommandsInv, PhaseFits, asked, own, todo
  <2>2. QED
    BY <1>0, <2>1, BeginFits
<1>6. CalmInv'
  <2>1. ASSUME NEW d \in Commands, calm'[d], UnderWay(d)'
        PROVE  Alone(d)' /\ Progress(d)'
    <3>1. d = c /\ \A e \in Commands : ~UnderWay(e)
      BY <2>1 DEF Begin
    <3>2. Alone(d)'
      BY <1>1, <3>1 DEF Alone, UnderWay
    <3>3. QED
      BY <1>0, <2>1, <3>1, <3>2, BeginFits
  <2>2. QED
    BY <2>1 DEF CalmInv
<1>7. QED
  BY <1>0, <1>3, <1>4, <1>5, <1>6, BeginTypes DEF CommandsInv

-----------------------------------------------------------------------------
\* How far a command comes.

(* What has been seen to stays so when the container at hand changes.      *)
LEMMA TreatedStays ==
  ASSUME TypeOK, NEW c \in Commands, NEW i, NEW S,
         NoneMade, asked(c)' = asked(c), todo(c)' = S, todo(c) \subseteq S \cup {i},
         \A j \in Ids : j # i => containers'[j] = containers[j],
         \A j \in Selected(asked(c)) \ todo(c) : Treated(c, j),
         i \in Ids /\ i \notin S => Treated(c, i)'
  PROVE  \A j \in (Selected(asked(c)) \ todo(c))' : Treated(c, j)'
<1> SUFFICES ASSUME NEW j \in (Selected(asked(c)) \ todo(c))'
             PROVE  Treated(c, j)'
  OBVIOUS
<1>1. j \in Ids /\ j \notin S /\ containers'[j].state # "absent"
  BY DEF Selected
<1>2. CASE j = i
  BY <1>1, <1>2
<1>3. CASE j # i
  <2>1. containers'[j] = containers[j] /\ j \notin todo(c)
    BY <1>1, <1>3
  <2>2. j \in Selected(asked(c))
    BY <1>1, <2>1 DEF Selected, ServiceOf
  <2>3. Treated(c, j)
    BY <2>1, <2>2
  <2>4. QED
    BY <2>1, <2>3 DEF Treated, Running, ServiceOf
<1>4. QED
  BY <1>2, <1>3

(* Changing one container leaves the others as they are.                   *)
LEMMA OneChanges ==
  ASSUME TypeOK, NEW i \in Ids
  PROVE  /\ StartWith(i)[i].state = "running"
         /\ \A j \in Ids \ {i} : StartWith(i)[j] = containers[j]
         /\ \A after \in Stopped(i) : /\ after[i].state # "running"
                                      /\ \A j \in Ids \ {i} : after[j] = containers[j]
<1>1. containers \in [Ids -> Container]
  BY DEF TypeOK
<1>2. /\ StartWith(i)[i].state = "running"
      /\ \A j \in Ids \ {i} : StartWith(i)[j] = containers[j]
  BY <1>1 DEF StartWith, Container
<1>3. ASSUME NEW after \in Stopped(i)
      PROVE  after[i].state # "running" /\ \A j \in Ids \ {i} : after[j] = containers[j]
  <2>1. CASE Running(i)
    <3>1. PICK e \in {0, 1} : after = [containers EXCEPT ![i].state = "exited", ![i].code = e]
      BY <2>1, Zenon DEF Stopped
    <3> DEFINE one == [containers EXCEPT ![i].state = "exited"]
    <3>2. /\ one \in [Ids -> Container] /\ one[i].state = "exited"
          /\ \A j \in Ids \ {i} : one[j] = containers[j]
      BY <1>1 DEF Container
    <3>3. after = [one EXCEPT ![i].code = e]
      BY <3>1, Zenon
    <3> HIDE DEF one
    <3>4. after[i].state = "exited" /\ \A j \in Ids \ {i} : after[j] = one[j]
      BY <3>2, <3>3 DEF Container
    <3>5. QED
      BY <3>2, <3>4
  <2>2. CASE ~Running(i)
    BY <2>2 DEF Stopped, Running
  <2>3. QED
    BY <2>1, <2>2
<1>4. QED
  BY <1>2, <1>3

(* One step of a command that is not disturbed.                            *)
LEMMA ContinueProgress ==
  ASSUME CommandsInv, NEW c \in Commands, Continue(c), calm[c], ~Fails, UnderWay(c)'
  PROVE  Progress(c)'
<1>0. /\ TypeOK /\ RoomInv /\ PhaseFits(c) /\ Progress(c)
      /\ containers \in [Ids -> Container] /\ made \in Nat
      /\ Present \subseteq Ids
  <2>1. UnderWay(c) /\ TypeOK /\ RoomInv
    BY ContinueShape DEF CommandsInv
  <2>2. QED
    BY <2>1 DEF CommandsInv, CalmInv, TypeOK, Present
<1>1. \A result : ~Return(c, result)
  BY <1>0, ReturnFits DEF UnderWay
<1>2. CASE CreateOneOff(c)
  <2>1. Go(c, "starting", [work[c] EXCEPT !.own = made + 1]) /\ \E s \in Services : OneMade(s)
    BY <1>1, <1>2 DEF CreateOneOff, OneMade
  <2>2. ~work[c].failed
    BY <1>0, <1>2 DEF CreateOneOff, At, Progress
  <2> DEFINE next == [work[c] EXCEPT !.own = made + 1]
  <2>3. next.own = made + 1 /\ next.failed = work[c].failed /\ Go(c, "starting", next)
    BY <1>0, <2>1, WorkFields
  <2> HIDE DEF next
  <2>4. own(c)' = made + 1 /\ phase'[c] = "starting" /\ work'[c] = next
    BY <1>0, <2>3, GoReaches
  <2>5. made + 1 \in Ids
    BY <1>0, <2>1, MadeGrows DEF OneMade, Ids
  <2>6. made + 1 \in Present'
    BY <1>0, <2>1, <2>5 DEF OneMade, Present
  <2>7. QED
    BY <2>2, <2>3, <2>4, <2>6 DEF Progress, OfRun
<1>3. CASE StartOneOff(c)
  <2>1. own(c) \in Present /\ ~work[c].failed
    BY <1>0, <1>3 DEF StartOneOff, At, Progress, OfRun
  <2>2. containers' = StartWith(own(c)) /\ Go(c, "following", work[c])
    BY <1>3, <2>1 DEF StartOneOff, OwnFails
  <2>3. own(c)' = own(c) /\ phase'[c] = "following" /\ work'[c] = work[c]
    BY <1>0, <2>2, GoReaches DEF own
  <2>4. own(c) \in Present'
    BY <1>0, <2>1, <2>2, OneChanges DEF Present
  <2>5. QED
    BY <2>1, <2>3, <2>4 DEF Progress, OfRun
<1>4. CASE FollowOneOff(c)
  <2>1. own(c) \in Present /\ ~work[c].failed
    BY <1>0, <1>4 DEF FollowOneOff, At, Progress, OfRun
  <2>2. containers' = containers /\ ~Running(own(c)) /\ Go(c, "waiting", work[c])
    BY <1>4, <2>1 DEF FollowOneOff, OwnFails, engineVars
  <2>3. own(c)' = own(c) /\ phase'[c] = "waiting" /\ work'[c] = work[c]
    BY <1>0, <2>2, GoReaches DEF own
  <2>4. own(c) \in Present' /\ ~Running(own(c))'
    BY <2>1, <2>2, <2>3 DEF Present, Running
  <2>5. QED
    BY <2>1, <2>3, <2>4 DEF Progress, OfRun
<1>5. CASE WaitOneOff(c)
  <2>1. own(c) \in Present /\ ~work[c].failed
    BY <1>0, <1>5 DEF WaitOneOff, At, Progress, OfRun
  <2>2. /\ containers' = containers /\ ~Running(own(c))
        /\ \/ containers[own(c)].code = 0 /\ Go(c, "cleaning", work[c])
           \/ containers[own(c)].code # 0 /\ Go(c, "cleaning", Failed(c))
    BY <1>5, <2>1 DEF WaitOneOff, OwnFails, engineVars, NotRunning, wait_container
  <2>3. /\ own(c)' = own(c) /\ phase'[c] = "cleaning"
        /\ work'[c].failed <=> containers[own(c)].code # 0
    BY <1>0, <2>1, <2>2, WorkFields, GoReaches DEF own
  <2>4. own(c) \in Present' /\ ~Running(own(c))'
    BY <2>1, <2>2, <2>3 DEF Present, Running
  <2>5. QED
    BY <2>2, <2>3, <2>4 DEF Progress, OfRun
<1>6. ASSUME NEW i \in Ids, Go(c, "working", Done(c, i)), phase[c] \in {"working", "stopped"}, NoneMade,
             \A j \in Ids : j # i => containers'[j] = containers[j],
             asked(c)' = asked(c) => Treated(c, i)'
      PROVE  Progress(c)'
  <2>1. /\ phase'[c] = "working"
        /\ asked(c)' = asked(c) /\ todo(c)' = todo(c) \ {i}
    BY <1>0, <1>6, GoReaches, WorkFields
  <2>2. \A j \in Selected(asked(c)) \ todo(c) : Treated(c, j)
    BY <1>0, <1>6 DEF Progress
  <2>3. \A j \in (Selected(asked(c)) \ todo(c))' : Treated(c, j)'
    BY <1>0, <1>6, <2>1, <2>2, TreatedStays
  <2>4. QED
    BY <2>1, <2>3 DEF Progress, OfRun
<1>7. CASE StartNext(c)
  <2>1. PICK i \in todo(c) \cap Present : containers' = StartWith(i) /\ Go(c, "working", Done(c, i))
    BY <1>7 DEF StartNext
  <2>2. i \in Ids /\ NoneMade
    BY <1>0, <1>7, <2>1, ChangesMakeNothing DEF StartNext
  <2>3. /\ containers'[i].state = "running"
        /\ \A j \in Ids : j # i => containers'[j] = containers[j]
    BY <1>0, <2>1, <2>2, OneChanges
  <2>4. asked(c).op = "start" /\ phase[c] = "working"
    BY <1>7 DEF StartNext, At
  <2>5. asked(c)' = asked(c) => Treated(c, i)'
    BY <2>3, <2>4 DEF Treated
  <2>6. QED
    BY <1>6, <2>1, <2>2, <2>3, <2>4, <2>5
<1>8. CASE StopNext(c)
  <2>1. PICK i \in todo(c) \cap Present : containers' \in Stopped(i) /\ Go(c, "working", Done(c, i))
    BY <1>8 DEF StopNext
  <2>2. i \in Ids /\ NoneMade
    BY <1>0, <1>8, <2>1, ChangesMakeNothing DEF StopNext
  <2>3. /\ containers'[i].state # "running"
        /\ \A j \in Ids : j # i => containers'[j] = containers[j]
    BY <1>0, <2>1, <2>2, OneChanges
  <2>4. asked(c).op = "stop" /\ phase[c] = "working"
    BY <1>8 DEF StopNext, At
  <2>5. asked(c)' = asked(c) => Treated(c, i)'
    BY <2>3, <2>4 DEF Treated, Running
  <2>6. QED
    BY <1>6, <2>1, <2>2, <2>3, <2>4, <2>5
<1>9. CASE StopToRestart(c)
  <2>1. PICK i \in todo(c) \cap Present :
          containers' \in Stopped(i) /\ Go(c, "stopped", [work[c] EXCEPT !.own = i])
    BY <1>9 DEF StopToRestart
  <2>2. i \in Ids /\ NoneMade
    BY <1>0, <1>9, <2>1, ChangesMakeNothing DEF StopToRestart
  <2>3. \A j \in Ids : j # i => containers'[j] = containers[j]
    BY <1>0, <2>1, <2>2, OneChanges
  <2> DEFINE next == [work[c] EXCEPT !.own = i]
  <2>4. next.asked = asked(c) /\ next.todo = todo(c) /\ Go(c, "stopped", next)
    BY <1>0, <2>1, WorkFields
  <2> HIDE DEF next
  <2>5. /\ phase'[c] = "stopped"
        /\ asked(c)' = asked(c) /\ todo(c)' = todo(c)
    BY <1>0, <2>4, GoReaches
  <2>6. \A j \in Selected(asked(c)) \ todo(c) : Treated(c, j)
    BY <1>0, <1>9 DEF Progress, StopToRestart, At
  <2>7. \A j \in (Selected(asked(c)) \ todo(c))' : Treated(c, j)'
    BY <1>0, <2>1, <2>2, <2>3, <2>5, <2>6, TreatedStays
  <2>8. QED
    BY <2>5, <2>7 DEF Progress, OfRun
<1>10. CASE StartAgain(c)
  <2>1. own(c) \in Present /\ containers' = StartWith(own(c)) /\ Go(c, "working", Done(c, own(c)))
    BY <1>10 DEF StartAgain
  <2>2. own(c) \in Ids /\ NoneMade
    BY <1>0, <1>10, <2>1, ChangesMakeNothing DEF StartAgain
  <2>3. /\ containers'[own(c)].state = "running"
        /\ \A j \in Ids : j # own(c) => containers'[j] = containers[j]
    BY <1>0, <2>1, <2>2, OneChanges
  <2>4. asked(c).op = "restart" /\ phase[c] = "stopped"
    BY <1>10 DEF StartAgain, At
  <2>5. PICK i \in Ids : i = own(c)
    BY <2>2
  <2>6. asked(c)' = asked(c) => Treated(c, i)'
    BY <2>3, <2>4, <2>5 DEF Treated
  <2>7. Go(c, "working", Done(c, i))
    BY <2>1, <2>5
  <2>8. \A j \in Ids : j # i => containers'[j] = containers[j]
    BY <2>3, <2>5
  <2>9. QED
    BY <1>6, <2>2, <2>4, <2>6, <2>7, <2>8
<1>11. CASE ShowNext(c)
  <2>1. PICK i \in todo(c) : OutputEnds(i, asked(c).flag) /\ Go(c, "working", Done(c, i))
    BY <1>11 DEF ShowNext
  <2>2. i \in Ids /\ NoneMade /\ containers' = containers
    BY <1>0, <1>11, <2>1, ChangesMakeNothing DEF ShowNext, engineVars, OutputEnds
  <2>3. asked(c).op = "logs" /\ phase[c] = "working" /\ (asked(c).flag => ~Running(i))
    BY <1>11, <2>1 DEF ShowNext, At, OutputEnds
  <2>4. asked(c)' = asked(c) => Treated(c, i)'
    BY <2>2, <2>3 DEF Treated, Running
  <2>5. QED
    BY <1>6, <2>1, <2>2, <2>3, <2>4
<1>12. CASE WaitNext(c)
  <2>1. ~Return(c, 2)
    BY <1>0, ReturnFits DEF Quiescent, UnderWay
  <2>2. PICK i \in todo(c) :
          NotRunning(i) /\ containers[i].code = 0 /\ Go(c, "working", Done(c, i))
    BY <1>12, <2>1 DEF WaitNext, wait_container
  <2>3. /\ i \in Ids /\ NoneMade /\ containers' = containers
        /\ phase[c] = "working" /\ asked(c).op = "wait"
    BY <1>0, <1>12, <2>2, ChangesMakeNothing DEF WaitNext, engineVars, At, NotRunning, Present
  <2>4. asked(c)' = asked(c) => Treated(c, i)'
    BY <2>2, <2>3 DEF Treated, Running, NotRunning
  <2>5. QED
    BY <1>6, <2>2, <2>3, <2>4
<1>13. CASE PruneContainers(c)
  <2>1. phase'[c] = "pruningImages"
    BY <1>0, <1>13, GoReaches DEF PruneContainers
  <2>2. \A i \in Ids : containers'[i].state # "absent" => containers'[i].state = "running"
    BY <1>0, <1>13 DEF PruneContainers, Running, Container
  <2>3. QED
    BY <2>1, <2>2 DEF Progress, OfRun, Present
<1>14. CASE BuildNext(c)
  <2>1. PICK s \in todo(c) :
          images' = images \cup {TheProject.image[s]} /\ Go(c, "building", Done(c, s))
    BY <1>14 DEF BuildNext
  <2>2. phase'[c] = "building" /\ todo(c)' = todo(c) \ {s}
    BY <1>0, <2>1, GoReaches, WorkFields
  <2>3. {TheProject.image[t] : t \in (Active(TheProject) \cap TheProject.build) \ todo(c)} \subseteq images
    BY <1>0, <1>14 DEF Progress, BuildNext
  <2>4. QED
    BY <2>1, <2>2, <2>3 DEF Progress, OfRun
<1>15. CASE BuildDone(c)
  <2>1. Go(c, "applying", work[c])
    BY <1>1, <1>15 DEF BuildDone
  <2>2. phase'[c] = "applying"
    BY <1>0, <2>1, GoReaches
  <2>3. QED
    BY <2>2 DEF Progress, OfRun
<1>16. QED
  BY <1>1, <1>2, <1>3, <1>4, <1>5, <1>7, <1>8, <1>9, <1>10, <1>11, <1>12, <1>13, <1>14, <1>15
  DEF Continue, CleanOneOff, RequestFails, Finish, PruneImages, PruneFails, Reach, BuildFails,
      ApplyPlan, Blocked, Up, Down

-----------------------------------------------------------------------------
\* The invariant holds.

LEMMA ContinueKeeps ==
  ASSUME CommandsInv, NEW c \in Commands, Continue(c)
  PROVE  CommandsInv'
<1>0. TypeOK /\ RoomInv /\ OneReplica /\ PhaseFits(c) /\ CalmInv
  BY DEF CommandsInv
<1>1. TypeOK' /\ RoomInv' /\ OneReplica' /\ PhaseFits(c)'
  BY <1>0, ContinueTypes, ContinueRoom, ContinueOneReplica, ContinueFits
<1>2. ASSUME NEW d \in Commands \ {c}
      PROVE  /\ PhaseFits(d)' /\ UnderWay(d)' = UnderWay(d)
  <2>1. PhaseFits(d)
    BY DEF CommandsInv
  <2>2. QED
    BY <1>0, <2>1, OthersFit DEF UnderWay
<1>3. ASSUME NEW d \in Commands, calm'[d], UnderWay(d)'
      PROVE  Alone(d)' /\ Progress(d)'
  <2>1. UnderWay(c) /\ calm' = calm
    BY <1>0, <1>3, ContinueShape
  <2>2. d = c
    BY <1>0, <1>2, <1>3, <2>1 DEF CalmInv, Alone
  <2>3. Alone(d)'
    BY <1>0, <1>2, <1>3, <2>1, <2>2 DEF CalmInv, Alone
  <2>4. ~Fails
    BY <1>3 DEF Fails, Disturb
  <2>5. QED
    BY <1>3, <2>1, <2>2, <2>3, <2>4, ContinueProgress
<1>4. QED
  BY <1>1, <1>2, <1>3 DEF CommandsInv, CalmInv

LEMMA KillKeeps ==
  ASSUME CommandsInv, NEW c \in Commands, Kill(c)
  PROVE  CommandsInv'
<1>0. TypeOK /\ RoomInv /\ OneReplica /\ CalmInv /\ \A d \in Commands : PhaseFits(d)
  BY DEF CommandsInv
<1>1. /\ UNCHANGED engineVars /\ calm' = calm
      /\ \A d \in Commands \ {c} : phase'[d] = phase[d] /\ work'[d] = work[d]
      /\ phase'[c] = "killed" /\ work'[c] = NoWork
  BY <1>0 DEF Kill, Go, Answered, TypeOK
<1>2. TypeOK'
  BY <1>0, OtherTypes
<1>3. RoomInv'
  <2>1. Unspent' \subseteq Unspent
    BY <1>1 DEF Unspent
  <2>2. QED
    BY <1>0, <1>1, <2>1, RoomKept DEF RoomInv, Present, TypeOK, engineVars
<1>4. OneReplica'
  BY <1>0, <1>1 DEF OneReplica, Serves, Present, engineVars
<1>5. \A d \in Commands : PhaseFits(d)'
  BY <1>0, <1>1 DEF PhaseFits, asked, own, todo, Quiescent, OfRun, engineVars
<1>6. CalmInv'
  <2>1. ASSUME NEW d \in Commands, calm'[d], UnderWay(d)'
        PROVE  Alone(d)' /\ Progress(d)'
    <3>1. d # c /\ phase'[d] = phase[d] /\ work'[d] = work[d]
      BY <1>1, <2>1 DEF UnderWay
    <3>2. Alone(d) /\ Progress(d)
      BY <1>0, <1>1, <2>1, <3>1 DEF CalmInv, UnderWay
    <3>3. Alone(d)'
      BY <1>1, <3>2 DEF Alone, UnderWay
    <3>4. Progress(d)'
      BY <1>1, <3>1, <3>2
      DEF Progress, Present, Running, Treated, Selected, ServiceOf, asked, own, todo, engineVars
    <3>5. QED
      BY <3>3, <3>4
  <2>2. QED
    BY <2>1 DEF CalmInv
<1>7. QED
  BY <1>2, <1>3, <1>4, <1>5, <1>6 DEF CommandsInv

(* A container exits, or is removed by others.                             *)
LEMMA OutsideKeeps ==
  ASSUME CommandsInv, NEW i \in Ids, ProcessExits(i) \/ Meddle(i)
  PROVE  CommandsInv'
<1>0. /\ TypeOK /\ RoomInv /\ OneReplica /\ CalmInv /\ \A d \in Commands : PhaseFits(d)
      /\ containers \in [Ids -> Container]
  BY DEF CommandsInv, TypeOK
<1>1. UNCHANGED <<made, images, phase, work>>
  BY DEF ProcessExits, Meddle
<1>2. TypeOK'
  BY <1>0, OtherTypes
<1>3. NoneMade
  <2>1. CASE ProcessExits(i)
    <3>1. i \in Present /\ containers' \in Stopped(i)
      BY <1>0, <2>1 DEF ProcessExits, Stopped, Running, Present
    <3>2. QED
      BY <1>0, <1>1, <3>1, ChangesMakeNothing
  <2>2. CASE Meddle(i)
    BY <1>0, <1>1, <2>2, ChangesMakeNothing DEF Meddle
  <2>3. QED
    BY <2>1, <2>2
<1>4. OneReplica'
  BY <1>0, <1>3, NoneMadeOneReplica
<1>5. RoomInv'
  <2>1. Unspent' = Unspent
    BY <1>1 DEF Unspent
  <2>2. QED
    BY <1>0, <1>1, <1>3, <2>1, RoomKept DEF NoneMade, RoomInv, TypeOK
<1>6. \A d \in Commands : PhaseFits(d)'
  BY <1>0, <1>1 DEF PhaseFits, asked, own, todo
<1>7. CalmInv'
  <2>1. ASSUME NEW d \in Commands, calm'[d], UnderWay(d)'
        PROVE  Alone(d)' /\ Progress(d)'
    <3>0. ProcessExits(i) /\ calm' = calm
      BY <2>1 DEF ProcessExits, Meddle, Fails, Disturb
    <3>1. Alone(d) /\ Progress(d)
      BY <1>0, <1>1, <2>1, <3>0 DEF CalmInv, UnderWay
    <3>2. Alone(d)'
      BY <1>1, <3>1 DEF Alone, UnderWay
    <3>3. PICK e \in {0, 1} : containers' = [containers EXCEPT ![i].state = "exited", ![i].code = e]
      BY <3>0, Zenon DEF ProcessExits
    <3>4. /\ Running(i)
          /\ containers'[i].state = "exited"
          /\ \A j \in Ids \ {i} : containers'[j] = containers[j]
      <4>1. containers' \in Stopped(i) /\ Running(i)
        BY <3>0 DEF ProcessExits, Stopped
      <4>2. \A j \in Ids \ {i} : containers'[j] = containers[j]
        BY <1>0, <4>1, OneChanges
      <4>3. containers'[i].state = "exited"
        <5> DEFINE one == [containers EXCEPT ![i].state = "exited"]
        <5>1. one \in [Ids -> Container] /\ one[i].state = "exited"
          BY <1>0 DEF Container
        <5>2. containers' = [one EXCEPT ![i].code = e]
          BY <3>3, Zenon
        <5> HIDE DEF one
        <5>3. QED
          BY <5>1, <5>2 DEF Container
      <4>4. QED
        BY <4>1, <4>2, <4>3
    <3>5. asked(d)' = asked(d) /\ own(d)' = own(d) /\ todo(d)' = todo(d) /\ phase'[d] = phase[d]
          /\ work'[d] = work[d] /\ images' = images
      BY <1>1 DEF asked, own, todo
    <3>6. \A j \in Present : j \in Present' /\ (~Running(j) => containers'[j] = containers[j])
      BY <3>4 DEF Present, Running
    <3>7. \A j \in Present' : j \in Present /\ (containers'[j].state = containers[j].state \/ j = i)
      BY <3>4 DEF Present, Running
    <3>8. \A j \in Selected(asked(d)) : Treated(d, j) => Treated(d, j)'
      BY <1>0, <1>3, <3>4, <3>5 DEF Treated, Running, NoneMade, Selected, ServiceOf
    <3>9. Selected(asked(d))' = Selected(asked(d))
      BY <1>3, <3>5, <3>6, <3>7 DEF Selected, NoneMade, Present, ServiceOf
    <3>10. phase[d] \in OfRun => own(d) \in Present'
      BY <3>1, <3>6 DEF Progress
    <3>11. phase[d] \in {"waiting", "cleaning"} => containers'[own(d)] = containers[own(d)]
      BY <3>1, <3>6 DEF Progress, OfRun
    <3>12. phase[d] \in {"waiting", "cleaning"} => ~Running(own(d))'
      BY <3>1, <3>5, <3>11 DEF Progress, Running
    <3>13. phase[d] \in {"working", "stopped"} =>
             \A j \in (Selected(asked(d)) \ todo(d))' : Treated(d, j)'
      BY <3>1, <3>5, <3>8, <3>9 DEF Progress
    <3>14. phase[d] = "pruningImages" => \A j \in Present' : containers'[j].state # "created"
      BY <3>1, <3>4, <3>7 DEF Progress
    <3>15. Progress(d)'
      BY <3>1, <3>5, <3>10, <3>11, <3>12, <3>13, <3>14 DEF Progress
    <3>16. QED
      BY <3>2, <3>15
  <2>2. QED
    BY <2>1 DEF CalmInv
<1>8. QED
  BY <1>2, <1>4, <1>5, <1>6, <1>7 DEF CommandsInv

LEMMA InitCommands ==
  ASSUME Init
  PROVE  CommandsInv
<1>0. TypeOK
  BY InitTypes
<1>1. PICK start \in Starts :
        /\ containers = [i \in Ids |-> IF i <= Len(start) THEN start[i] ELSE NoContainer]
        /\ made = Len(start)
  BY DEF Init
<1>2. /\ start \in Seq(Container)
      /\ \A i, j \in 1..Len(start) :
            start[i].service = start[j].service /\ start[i].service \in Services => i = j
               \/ start[i].oneOff \/ start[j].oneOff
      /\ Len(start) + Cardinality(Services) * NumCommands <= MaxContainers
      /\ NumCommands \in Nat /\ Len(start) \in Nat
  BY <1>1, CommandsAssumption
<1>3. OneReplica
  <2>1. \A i \in Present : i \in 1..Len(start) /\ containers[i] = start[i]
    BY <1>1, <1>2 DEF Present, NoContainer, Ids
  <2>2. QED
    BY <1>2, <2>1 DEF OneReplica, Serves
<1>4. RoomInv
  <2>1. Unspent = 1..NumCommands
    BY DEF Init, Unspent, Commands
  <2>2. Cardinality(Unspent) = NumCommands
    BY <1>2, <2>1, FS_Interval
  <2>3. \A i \in Ids : i > made => i \notin Present
    BY <1>1, <1>2 DEF Present, NoContainer, Ids
  <2>4. QED
    BY <1>1, <1>2, <2>2, <2>3 DEF RoomInv
<1>5. \A c \in Commands : PhaseFits(c) /\ ~calm[c]
  BY DEF Init, PhaseFits, Quiescent, OfRun
<1>6. QED
  BY <1>0, <1>3, <1>4, <1>5 DEF CommandsInv, CalmInv

LEMMA NextCommands == CommandsInv /\ [Next]_vars => CommandsInv'
<1> SUFFICES ASSUME CommandsInv, [Next]_vars
             PROVE  CommandsInv'
  OBVIOUS
<1>1. ASSUME UNCHANGED vars PROVE CommandsInv'
  <2>1. TypeOK'
    BY <1>1, OtherTypes DEF CommandsInv
  <2>2. QED
    BY <1>1, <2>1
    DEF vars, engineVars, CommandsInv, OneReplica, RoomInv, Unspent, Serves, Present, PhaseFits,
        CalmInv, Alone, UnderWay, Progress, Treated, Selected, ServiceOf, Running, asked, own, todo
<1>2. QED
  BY <1>1, BeginKeeps, ContinueKeeps, KillKeeps, OutsideKeeps DEF Next, Rest

(* CommandsInv holds throughout: what a command that nobody disturbs knows *)
(* and has done agrees with the engine, and every service has at most one  *)
(* replica.                                                                *)
THEOREM CommandsInvariant == Spec => []CommandsInv
<1>1. Init => CommandsInv
  BY InitCommands
<1>2. CommandsInv /\ [Next]_vars => CommandsInv'
  BY NextCommands
<1>3. QED
  BY <1>1, <1>2, PTL DEF Spec

-----------------------------------------------------------------------------
\* The status.

(* What from_container makes of what the snapshot says of a container.     *)
Told(i) == from_container(Seen(i))

LEMMA ToldFields ==
  ASSUME TypeOK, NEW i \in Present
  PROVE  /\ Told(i).id = i /\ Told(i).service = ServiceOf(i)
         /\ Told(i).state = containers[i].state /\ ContainerAccepted(Told(i))
<1>1. i \in Ids /\ ServiceOf(i) \in Services \cup {NoService}
  BY LabelsTaken DEF Present
<1>2. NoService # 0 /\ Blank \notin {i, "reference", ServiceOf(i)}
  BY <1>1, CommandsAssumption
<1>3. Told(i) = [id |-> i, name |-> i, image |-> "reference", service |-> ServiceOf(i),
                 replica |-> IF ServiceOf(i) = NoService THEN NoService ELSE 1,
                 state |-> containers[i].state]
  BY DEF Told, Seen, from_container
<1>4. QED
  BY <1>2, <1>3 DEF ContainerAccepted

LEMMA PresentFinite == IsFiniteSet(Present)
<1>1. IsFiniteSet(Ids)
  BY CommandsAssumption, FS_Interval DEF Ids
<1>2. QED
  BY <1>1, FS_Subset DEF Present

(* As many containers are told of as there are.                            *)
LEMMA ToldCounted ==
  ASSUME TypeOK, NEW S \in SUBSET Present
  PROVE  /\ IsFiniteSet({Told(i) : i \in S})
         /\ Cardinality({Told(i) : i \in S}) = Cardinality(S)
<1> DEFINE T == {Told(i) : i \in S}
           f == [i \in S |-> Told(i)]
<1>1. f \in Injection(S, T)
  <2>1. \A i, j \in S : Told(i) = Told(j) => i = j
    BY ToldFields
  <2>2. QED
    BY <2>1 DEF Injection, IsInjective
<1>2. \A t \in T : \E i \in S : f[i] = t
  OBVIOUS
<1>3. f \in Surjection(S, T)
  BY <1>1, <1>2 DEF Injection, Surjection
<1>4. QED
  BY <1>1, <1>3, FS_Bijection, PresentFinite, FS_Subset DEF Bijection, ExistsBijection

LEMMA SummaryFields ==
  ASSUME NEW s, NEW T
  PROVE  /\ ServiceSummary(s, T).service = s
         /\ ServiceSummary(s, T).container_count = Cardinality(T)
         /\ ServiceSummary(s, T).containers = T
         /\ ServiceSummary(s, T).running_containers = Cardinality({c \in T : c.state = "running"})
BY DEF ServiceSummary

(* The summary of the engine's containers.                                 *)
LEMMA StatusHolds ==
  ASSUME TypeOK
  PROVE  StatusAgrees
<1> SUFFICES ASSUME NEW name \in ProjectNames
             PROVE  LET summary == runtime_status_from_snapshot(name, Snapshot)
                    IN  /\ StatusAccepted(summary) <=> name # Blank
                        /\ summary.counts.states["running"] = Cardinality({i \in Present : Running(i)})
                        /\ \A s \in Services : \A i \in selected_service_container(s) :
                             \E t \in summary.services : t.service = s /\ t.running_containers > 0
  BY DEF StatusAgrees
<1> DEFINE summary == runtime_status_from_snapshot(name, Snapshot)
           told == {Told(i) : i \in Present}
           of(s) == {c \in told : c.service = s}
<1>1. {from_container(c) : c \in {c \in Snapshot.containers : container_belongs_to_project(c)}} = told
  BY SnapshotSees, SeenFields DEF container_belongs_to_project, Told
<1>2. /\ summary.counts.containers = Cardinality(told)
      /\ summary.counts.states = StateCounts(told)
      /\ summary.services = {ServiceSummary(s, of(s)) : s \in {c.service : c \in told} \ {NoService}}
      /\ summary.unassigned = of(NoService)
      /\ summary.project_name = name /\ summary.project_instance = "hash"
  BY <1>1 DEF runtime_status_from_snapshot
<1>3. \A c \in told : ContainerAccepted(c) /\ c.service # Blank
  BY ToldFields DEF ContainerAccepted
<1>a. \A s \in {c.service : c \in told} \ {NoService} : ServiceSummary(s, of(s)) \in summary.services
  BY <1>2
<1> HIDE DEF summary, told
<1>4. \A t \in summary.services : \E s \in {c.service : c \in told} \ {NoService} :
         /\ t = ServiceSummary(s, of(s))
         /\ t.service = s /\ t.container_count = Cardinality(of(s)) /\ t.containers = of(s)
         /\ t.running_containers = Cardinality({c \in of(s) : c.state = "running"})
  <2> SUFFICES ASSUME NEW t \in summary.services
               PROVE  \E s \in {c.service : c \in told} \ {NoService} :
                        /\ t = ServiceSummary(s, of(s))
                        /\ t.service = s /\ t.container_count = Cardinality(of(s)) /\ t.containers = of(s)
                        /\ t.running_containers = Cardinality({c \in of(s) : c.state = "running"})
    OBVIOUS
  <2>1. PICK s \in {c.service : c \in told} \ {NoService} : t = ServiceSummary(s, of(s))
    BY <1>2
  <2> DEFINE T == of(s)
  <2>2. t = ServiceSummary(s, T)
    BY <2>1
  <2> HIDE DEF T
  <2>3. /\ t.service = s /\ t.container_count = Cardinality(T) /\ t.containers = T
        /\ t.running_containers = Cardinality({c \in T : c.state = "running"})
    BY <2>2, SummaryFields
  <2>4. QED
    BY <2>1, <2>3 DEF T
<1>5. summary.unassigned \cup UNION {t.containers : t \in summary.services} = told
  <2>1. \A t \in summary.services : t.containers \subseteq told
    BY <1>4
  <2>2. ASSUME NEW c \in told, c.service # NoService
        PROVE  \E t \in summary.services : c \in t.containers
    <3>1. ServiceSummary(c.service, of(c.service)) \in summary.services
      BY <1>a, <2>2
    <3>2. c \in ServiceSummary(c.service, of(c.service)).containers
      BY DEF ServiceSummary
    <3>3. QED
      BY <3>1, <3>2
  <2>3. QED
    BY <1>2, <2>1, <2>2
<1>6. StatusAccepted(summary) <=> name # Blank
  <2>1. \A c \in told : ContainerAccepted(c)
    BY <1>3
  <2>2. \A c \in summary.unassigned : c.service = NoService
    BY <1>2
  <2>3. ASSUME NEW s \in summary.services, NEW t \in summary.services, s.service = t.service
        PROVE  s = t
    <3>1. PICK u : s = ServiceSummary(u, of(u)) /\ s.service = u
      BY <1>4, Zenon
    <3>2. PICK v : t = ServiceSummary(v, of(v)) /\ t.service = v
      BY <1>4, Zenon
    <3>3. u = v
      BY <2>3, <3>1, <3>2
    <3>4. QED
      BY <3>1, <3>2, <3>3
  <2>4. \A t \in summary.services :
          /\ t.service \notin {NoService, Blank}
          /\ t.container_count = Cardinality(t.containers)
          /\ t.running_containers = Cardinality({c \in t.containers : c.state = "running"})
          /\ \A c \in t.containers : c.service = t.service
    <3> SUFFICES ASSUME NEW t \in summary.services
                 PROVE  /\ t.service \notin {NoService, Blank}
                        /\ t.container_count = Cardinality(t.containers)
                        /\ t.running_containers = Cardinality({c \in t.containers : c.state = "running"})
                        /\ \A c \in t.containers : c.service = t.service
      OBVIOUS
    <3>1. PICK s \in {c.service : c \in told} \ {NoService} :
            /\ t.service = s /\ t.container_count = Cardinality(of(s)) /\ t.containers = of(s)
            /\ t.running_containers = Cardinality({c \in of(s) : c.state = "running"})
      BY <1>4
    <3>2. s # Blank
      BY <1>3
    <3>3. QED
      BY <3>1, <3>2
  <2>5. \A s \in Counted : summary.counts.states[s] = count_container_state(told, s)
    BY <1>2 DEF StateCounts, count_container_state
  <2>6. Blank \notin {summary.project_name, summary.project_instance} <=> name # Blank
    BY <1>2, CommandsAssumption
  <2>7. QED
    BY <1>2, <1>5, <2>1, <2>2, <2>3, <2>4, <2>5, <2>6 DEF StatusAccepted
<1>7. summary.counts.states["running"] = Cardinality({i \in Present : Running(i)})
  <2>1. {c \in told : c.state = "running"} = {Told(i) : i \in {i \in Present : Running(i)}}
    BY ToldFields DEF told, Running
  <2>2. Cardinality({c \in told : c.state = "running"}) = Cardinality({i \in Present : Running(i)})
    BY <2>1, ToldCounted
  <2>3. QED
    BY <1>2, <2>2 DEF StateCounts, Counted
<1>8. ASSUME NEW s \in Services, NEW i \in selected_service_container(s)
      PROVE  \E t \in summary.services : t.service = s /\ t.running_containers > 0
  <2>1. i \in Present /\ ServiceOf(i) = s /\ Running(i)
    BY PicksArePresent
  <2>2. Told(i) \in {c \in of(s) : c.state = "running"} /\ Told(i).service = s
    BY <2>1, ToldFields DEF told, Running
  <2>3. ServiceSummary(s, of(s)) \in summary.services
    <3>1. s \in {c.service : c \in told} \ {NoService}
      BY <2>2, CommandsAssumption
    <3>2. QED
      BY <1>a, <3>1
  <2>4. IsFiniteSet({c \in of(s) : c.state = "running"})
    <3>1. IsFiniteSet(told)
      BY ToldCounted DEF told
    <3>2. QED
      BY <3>1, FS_Subset
  <2>5. Cardinality({c \in of(s) : c.state = "running"}) > 0
    BY <2>2, <2>4, FS_EmptySet, FS_CardinalityType
  <2>6. QED
    BY <2>3, <2>5 DEF ServiceSummary
<1>9. QED
  BY <1>6, <1>7, <1>8 DEF summary

(* The status that susun reports is accepted by its own parser, with all   *)
(* of the parser's checks, exactly if the project's name is not blank, and *)
(* counts every running container once (runtime_status_from_snapshot).     *)
THEOREM StatusSound == Spec => []StatusAgrees
<1>1. CommandsInv => StatusAgrees
  BY StatusHolds DEF CommandsInv
<1>2. QED
  BY <1>1, CommandsInvariant, PTL

-----------------------------------------------------------------------------
\* What a command returns.

(* A command that ends has begun in vain or gone on.                       *)
LEMMA Endings ==
  ASSUME CommandsInv, [Next]_vars, NEW c \in Commands, Ends(c)
  PROVE  /\ \/ (\E o \in Operations : Begin(c, o)) /\ work[c] = NoWork
            \/ Continue(c) /\ UnderWay(c)
         /\ \E result \in 0..2 : Return(c, result) /\ code' = result
<1>0. TypeOK /\ RoomInv /\ \A d \in Commands : PhaseFits(d)
  BY DEF CommandsInv
<1>1. ASSUME NEW d \in Commands, (\E o \in Operations : Begin(d, o)) \/ Continue(d) \/ Kill(d)
      PROVE  d = c /\ ~Kill(d)
  <2>1. \/ \E result : Return(d, result)
        \/ \E where, knowing : Go(d, where, knowing)
    <3>1. ASSUME NEW o \in Operations, Begin(d, o)
          PROVE  \/ \E result : Return(d, result)
                 \/ \E where, knowing : Go(d, where, knowing)
      BY <3>1 DEF Begin, Refused, BeginRun, BeginLifecycle, BeginWait, BeginReach, BeginPrune,
                  BeginBuild, BeginPlan, Overview
    <3>2. CASE Continue(d)
      BY <1>0, <3>2, ContinueShape
    <3>3. QED
      BY <1>1, <3>1, <3>2 DEF Kill
  <2>2. \A e \in Commands \ {d} : phase'[e] = phase[e]
    BY <1>0, <2>1 DEF Return, Go, TypeOK
  <2>3. Kill(d) => phase'[d] = "killed"
    BY <1>0 DEF Kill, Go, TypeOK
  <2>4. QED
    BY <2>2, <2>3 DEF Ends
<1>2. (\E o \in Operations : Begin(c, o)) \/ Continue(c)
  BY <1>1 DEF Next, Rest, ProcessExits, Meddle, vars, Ends
<1>3. CASE Continue(c)
  <2>1. UnderWay(c)
    BY <1>0, <1>3, ContinueShape
  <2>2. ASSUME NEW where \in Phases \ Quiescent, NEW knowing, Go(c, where, knowing)
        PROVE  FALSE
    BY <1>0, <2>2, GoReaches DEF Ends, Quiescent
  <2>3. \E result \in 0..2 : Return(c, result) /\ code' = result
    BY <1>0, <1>3, <2>2, ContinueShape DEF Return
  <2>4. QED
    BY <1>3, <2>1, <2>3
<1>4. CASE \E o \in Operations : Begin(c, o)
  <2>1. PICK o \in Operations : Begin(c, o)
    BY <1>4
  <2>2. work[c] = NoWork
    BY <1>0, <2>1 DEF Begin, PhaseFits, Quiescent
  <2>3. ASSUME NEW where, NEW knowing, Go(c, where, knowing)
        PROVE  where = "ended"
    BY <1>0, <2>3, GoReaches DEF Ends
  <2>4. \E result \in {0, 1, 2} : Return(c, result)
    BY <2>1, <2>3 DEF Begin, Refused, BeginRun, BeginLifecycle, BeginWait, BeginReach, BeginPrune,
                  BeginBuild, BeginPlan, Overview
  <2>5. QED
    BY <1>4, <2>2, <2>4 DEF Return
<1>5. QED
  BY <1>2, <1>3, <1>4

(* Nobody disturbs a command that ends undisturbed.                        *)
LEMMA EndsCalmly ==
  ASSUME CommandsInv, NEW c \in Commands, Continue(c), calm'[c]
  PROVE  calm[c] /\ ~Fails /\ Progress(c) /\ UnderWay(c)
<1>1. ~Fails
  BY DEF Fails, Disturb
<1>2. UnderWay(c) /\ calm[c]
  BY ContinueShape DEF CommandsInv
<1>3. QED
  BY <1>1, <1>2 DEF CommandsInv, CalmInv

LEMMA RunStep ==
  ASSUME CommandsInv, [Next]_vars, NEW c \in Commands,
         Ends(c), asked(c).op = "run", own(c) # 0
  PROVE  /\ asked(c).flag /\ (code' = 0 \/ calm'[c]) => containers'[own(c)].state = "absent"
         /\ calm'[c] => (code' = 0 <=> containers'[own(c)].code = 0) /\ code' \in {0, 2}
<1>0. TypeOK /\ PhaseFits(c) /\ containers \in [Ids -> Container]
  BY DEF CommandsInv, TypeOK
<1>1. Continue(c) /\ UnderWay(c)
  <2>1. NoWork.own = 0
    BY DEF NoWork
  <2>2. QED
    BY <2>1, Endings DEF own
<1>2. own(c) \in Ids
  <2>1. made \in 0..MaxContainers /\ MaxContainers \in Nat
    BY <1>0, CommandsAssumption DEF TypeOK
  <2>2. own(c) \in 0..made
    BY <1>0, WorkTypes
  <2>3. QED
    BY <2>1, <2>2 DEF Ids
<1>3. phase[c] \in OfRun
  BY <1>0, <1>1 DEF PhaseFits, UnderWay, TypeOK, Phases, OfRun
<1>4. \A where : where # "ended" => \A knowing : ~Go(c, where, knowing)
  BY <1>0, GoReaches DEF Ends
<1>5. CleanOneOff(c)
  BY <1>1, <1>3, <1>4
  DEF Continue, At, OfRun, CreateOneOff, StartOneOff, FollowOneOff, WaitOneOff,
      StartNext, StopNext, StopToRestart, StartAgain, WaitNext, ShowNext, RequestFails, Finish,
      PruneContainers, PruneImages, PruneFails, Reach, BuildNext, BuildFails, BuildDone, ApplyPlan, Blocked
<1>6. RunCode(c, FALSE) = 2
  BY DEF RunCode
<1>7. \A result : Return(c, result) => code' = result
  BY DEF Return
<1>8. code' = 0 /\ asked(c).flag => containers'[own(c)].state = "absent"
  <2>0. Return(c, RunCode(c, FALSE)) => code' # 0
    BY DEF Return, RunCode
  <2> DEFINE gone == containers' = [containers EXCEPT ![own(c)].state = "absent"]
  <2>a. ~asked(c).flag \/ gone \/ Return(c, RunCode(c, FALSE))
    BY <1>5 DEF CleanOneOff
  <2>1. code' = 0 /\ asked(c).flag => gone
    BY <2>0, <2>a
  <2>2. [containers EXCEPT ![own(c)].state = "absent"][own(c)].state = "absent"
    BY <1>0, <1>2 DEF Container
  <2>3. QED
    BY <2>1, <2>2
<1>9. ASSUME calm'[c]
      PROVE  /\ asked(c).flag => containers'[own(c)].state = "absent"
             /\ (code' = 0 <=> containers'[own(c)].code = 0) /\ code' \in {0, 2}
  <2>1. ~Fails /\ Progress(c)
    BY <1>1, <1>9, EndsCalmly
  <2>2. /\ own(c) \in Present /\ ~Running(own(c))
        /\ work[c].failed <=> containers[own(c)].code # 0
    BY <1>5, <2>1 DEF Progress, OfRun, CleanOneOff, At
  <2>3. RunCode(c, TRUE) = IF containers[own(c)].code = 0 THEN 0 ELSE 2
    BY <2>2 DEF RunCode
  <2>4. /\ Return(c, RunCode(c, TRUE))
        /\ \/ ~asked(c).flag /\ containers' = containers
           \/ containers' = [containers EXCEPT ![own(c)].state = "absent"]
    BY <1>5, <2>1, <2>2 DEF CleanOneOff, NotRunning
  <2> DEFINE without == [containers EXCEPT ![own(c)].state = "absent"]
  <2>5. without[own(c)].code = containers[own(c)].code /\ without[own(c)].state = "absent"
    BY <1>0, <1>2 DEF Container
  <2> HIDE DEF without
  <2>6. /\ \/ ~asked(c).flag /\ containers' = containers
           \/ containers' = without
    BY <2>4 DEF without
  <2>7. /\ containers'[own(c)].code = containers[own(c)].code
        /\ asked(c).flag => containers'[own(c)].state = "absent"
    BY <2>5, <2>6
  <2>8. code' = IF containers[own(c)].code = 0 THEN 0 ELSE 2
    BY <1>7, <2>3, <2>4
  <2>9. QED
    BY <2>7, <2>8
<1>10. QED
  BY <1>8, <1>9

(* An undisturbed `run` returns 0 or 2, as its container exited with 0 or  *)
(* not, and with --rm leaves no container behind; nor does one that is     *)
(* disturbed and returns 0 (runtime_run, cleanup_one_off).                 *)
THEOREM RunSound == Spec => RunReturnsAndCleans
<1>1. CommandsInv /\ [Next]_vars =>
        \A c \in Commands :
          Ends(c) /\ asked(c).op = "run" /\ own(c) # 0 =>
            /\ asked(c).flag /\ (code' = 0 \/ calm'[c]) => containers'[own(c)].state = "absent"
            /\ calm'[c] => (code' = 0 <=> containers'[own(c)].code = 0) /\ code' \in {0, 2}
  BY RunStep
<1>2. QED
  BY <1>1, CommandsInvariant, PTL DEF Spec, RunReturnsAndCleans

-----------------------------------------------------------------------------
\* What a command that returned 0 has done.

LEMMA WordStep ==
  ASSUME CommandsInv, [Next]_vars, NEW c \in Commands, NEW o \in Operations,
         Ends(c), asked(c) = o, code' = 0, calm'[c]
  PROVE  AsAsked(o)'
<1>0. TypeOK /\ RoomInv /\ PhaseFits(c) /\ containers \in [Ids -> Container] /\ made \in Nat
  BY DEF CommandsInv, TypeOK
<1>1. CASE work[c] = NoWork
  <2>1. o.op = "none"
    BY <1>1 DEF asked, NoWork, Nothing
  <2>2. QED
    BY <2>1 DEF AsAsked
<1>2. CASE Continue(c) /\ UnderWay(c)
  <2>0. ~Fails /\ Progress(c) /\ calm[c]
    BY <1>2, EndsCalmly
  <2>1. \A where, knowing : where # "ended" => ~Go(c, where, knowing)
    BY <1>0, GoReaches DEF Ends
  <2>2. \A result : Return(c, result) => result = 0
    BY DEF Return
  <2>3. CASE o.op \notin {"stop", "logs", "start", "restart", "wait", "up", "down", "build", "prune"}
    BY <2>3 DEF AsAsked
  <2>4. CASE o.op \in {"stop", "logs", "start", "restart", "wait"}
    <3>0. phase[c] \in {"working", "stopped"}
      BY <1>0, <1>2, <2>4 DEF PhaseFits, UnderWay, TypeOK, Phases, OfRun
    <3>a. ~Return(c, 2)
      BY <2>2
    <3>1. Finish(c)
      <4>1. ~(StartNext(c) \/ StopNext(c) \/ StopToRestart(c) \/ StartAgain(c) \/ WaitNext(c) \/ ShowNext(c))
        BY <2>1, <3>a DEF StartNext, StopNext, StopToRestart, StartAgain, WaitNext, ShowNext
      <4>2. ~RequestFails(c)
        BY <3>a DEF RequestFails
      <4>3. ~(CreateOneOff(c) \/ StartOneOff(c) \/ FollowOneOff(c) \/ WaitOneOff(c) \/ CleanOneOff(c)
              \/ PruneContainers(c) \/ PruneImages(c) \/ PruneFails(c) \/ Reach(c) \/ BuildNext(c)
              \/ BuildFails(c) \/ BuildDone(c) \/ ApplyPlan(c) \/ Blocked(c))
        BY <3>0 DEF At, CreateOneOff, StartOneOff, FollowOneOff, WaitOneOff, CleanOneOff, PruneContainers,
                    PruneImages, PruneFails, Reach, BuildNext, BuildFails, BuildDone, ApplyPlan, Blocked
      <4>4. QED
        BY <1>2, <4>1, <4>2, <4>3 DEF Continue
    <3>2. /\ containers' = containers
          /\ \A i \in Selected(o) : Treated(c, i)
      BY <2>0, <2>2, <3>1 DEF Finish, Progress, engineVars
    <3>3. \A i \in Ids : (i \in Selected(o))' <=> i \in Selected(o)
      BY <3>2 DEF Selected, ServiceOf
    <3>4. CASE o.op \in {"stop", "logs"}
      <4>1. o.op = "stop" \/ o.flag => \A i \in Selected(o) : ~Running(i)
        BY <3>2, <3>4 DEF Treated
      <4>2. QED
        BY <3>2, <3>4, <4>1 DEF AsAsked, Selected, ServiceOf, Running
    <3>5. CASE o.op \in {"start", "restart"}
      <4>1. \A i \in Selected(o) : containers[i].state # "created"
        BY <3>2, <3>5 DEF Treated
      <4>2. QED
        BY <3>2, <3>5, <4>1 DEF AsAsked, Selected, ServiceOf
    <3>6. CASE o.op = "wait"
      <4>1. \A i \in Selected(o) : ServiceOf(i) # NoService => ~Running(i) /\ containers[i].code = 0
        BY <3>2, <3>6 DEF Treated
      <4>2. QED
        BY <3>2, <3>6, <4>1 DEF AsAsked, Selected, Running, ServiceOf
    <3>7. QED
      BY <2>4, <3>4, <3>5, <3>6
  <2>5. CASE o.op = "prune"
    <3>1. PruneImages(c)
      BY <1>0, <1>2, <2>1, <2>2, <2>5
      DEF Continue, At, PhaseFits, UnderWay, OfRun, CreateOneOff, StartOneOff, FollowOneOff, WaitOneOff,
          CleanOneOff, StartNext, StopNext, StopToRestart, StartAgain, WaitNext, ShowNext, RequestFails,
          Finish, PruneContainers, PruneFails, Reach, BuildNext, BuildFails, BuildDone, ApplyPlan, Blocked
    <3>2. /\ containers' = containers
          /\ \A i \in Present : containers[i].state # "created"
          /\ o.flag => images' = images \cap UsedImages
      BY <2>0, <3>1 DEF PruneImages, Progress
    <3>3. UsedImages' = UsedImages
      BY <3>2 DEF UsedImages, Present
    <3>4. QED
      BY <2>5, <3>2, <3>3 DEF AsAsked, Present
  <2>6. CASE o.op = "build"
    <3>1. BuildDone(c)
      BY <1>0, <1>2, <2>1, <2>2, <2>6
      DEF Continue, At, PhaseFits, UnderWay, OfRun, CreateOneOff, StartOneOff, FollowOneOff, WaitOneOff,
          CleanOneOff, StartNext, StopNext, StopToRestart, StartAgain, WaitNext, ShowNext, RequestFails,
          Finish, PruneContainers, PruneImages, PruneFails, Reach, BuildNext, BuildFails, ApplyPlan, Blocked
    <3>2. images' = images /\ todo(c) = {} /\ phase[c] = "building"
      BY <3>1 DEF BuildDone, engineVars
    <3>3. {TheProject.image[s] : s \in Active(TheProject) \cap TheProject.build} \subseteq images
      BY <2>0, <3>2 DEF Progress
    <3>4. QED
      BY <2>6, <3>2, <3>3 DEF AsAsked
  <2>7. CASE o.op \in {"up", "down"}
    <3>0. phase[c] \in {"building", "applying"} /\ o.op # "build"
      BY <1>0, <1>2, <2>7 DEF PhaseFits, UnderWay, TypeOK, Phases, OfRun
    <3>a. ~Return(c, 2)
      BY <2>2
    <3>1. ApplyPlan(c)
      <4>1. ~(BuildNext(c) \/ BuildDone(c))
        BY <2>1, <3>0 DEF BuildNext, BuildDone
      <4>2. ~(BuildFails(c) \/ Blocked(c))
        BY <3>a DEF BuildFails, Blocked
      <4>3. ~(CreateOneOff(c) \/ StartOneOff(c) \/ FollowOneOff(c) \/ WaitOneOff(c) \/ CleanOneOff(c)
              \/ StartNext(c) \/ StopNext(c) \/ StopToRestart(c) \/ StartAgain(c) \/ WaitNext(c)
              \/ ShowNext(c) \/ RequestFails(c) \/ Finish(c)
              \/ PruneContainers(c) \/ PruneImages(c) \/ PruneFails(c) \/ Reach(c))
        BY <3>0 DEF At, CreateOneOff, StartOneOff, FollowOneOff, WaitOneOff, CleanOneOff, StartNext,
                    StopNext, StopToRestart, StartAgain, WaitNext, ShowNext, RequestFails, Finish,
                    PruneContainers, PruneImages, PruneFails, Reach
      <4>4. QED
        BY <1>2, <4>1, <4>2, <4>3 DEF Continue
    <3>2. CASE o.op = "down"
      <4>1. containers' = [i \in Ids |-> IF containers[i].service \in Active(TheProject)
                                         THEN [containers[i] EXCEPT !.state = "absent"] ELSE containers[i]]
        BY <3>1, <3>2 DEF ApplyPlan, Down
      <4>2. \A i \in Ids : containers[i].service \in Active(TheProject) => containers'[i].state = "absent"
        BY <1>0, <4>1 DEF Container
      <4>3. \A i \in Present' : containers'[i].service \notin Active(TheProject)
        BY <1>0, <4>1, <4>2 DEF Present
      <4>4. QED
        BY <3>2, <4>3 DEF AsAsked
    <3>3. CASE o.op = "up"
      <4>1. Up(c)
        BY <3>1, <3>3 DEF ApplyPlan
      <4>2. Missing = Active(TheProject)
        BY <2>2, <4>1 DEF Up
      <4> DEFINE new == (made + 1)..(made + Cardinality(Missing))
      <4>3. PICK whose \in Bijection(new, Missing) :
              containers' = [i \in Ids |->
                IF i \in DOMAIN whose
                THEN [service |-> whose[i], oneOff |-> FALSE, state |-> "running", code |-> 0]
                ELSE containers[i]]
        BY <4>1 DEF Up
      <4>4. DOMAIN whose = new /\ \A s \in Missing : \E i \in new : whose[i] = s
        BY DEF Bijection, Injection, Surjection
      <4>5. new \subseteq Ids
        <5>1. made' = made + Cardinality(Missing)
          BY <4>1 DEF Up
        <5>2. Cardinality(Missing) \in Nat /\ made' \in made..MaxContainers
          BY <1>0, <1>2, MissingFinite, MadeGrows
        <5>3. MaxContainers \in Nat
          BY CommandsAssumption
        <5>4. QED
          BY <1>0, <5>1, <5>2, <5>3 DEF Ids
      <4> HIDE DEF new
      <4>6. ASSUME NEW s \in Active(TheProject)
            PROVE  \E i \in Serves(s)' : containers'[i].state # "created"
        <5>1. PICK i \in new : whose[i] = s
          BY <4>2, <4>4
        <5>2. containers'[i] = [service |-> s, oneOff |-> FALSE, state |-> "running", code |-> 0]
          BY <4>3, <4>4, <4>5, <5>1
        <5>3. QED
          BY <4>5, <5>2 DEF Serves, Present
      <4>7. QED
        BY <3>3, <4>6 DEF AsAsked
    <3>4. QED
      BY <2>7, <3>2, <3>3
  <2>8. QED
    BY <2>3, <2>4, <2>5, <2>6, <2>7
<1>3. QED
  BY <1>1, <1>2, Endings

(* A command that returns 0 has done what it was asked, unless others      *)
(* meddled (runtime_start .. runtime_prune, build_images_from_analysis).   *)
THEOREM WordKept == Spec => CommandsKeepTheirWord
<1>1. CommandsInv /\ [Next]_vars =>
        \A c \in Commands : \A o \in Operations :
          Ends(c) /\ asked(c) = o /\ code' = 0 /\ calm'[c] => AsAsked(o)'
  BY WordStep
<1>2. QED
  BY <1>1, CommandsInvariant, PTL DEF Spec, CommandsKeepTheirWord

-----------------------------------------------------------------------------
\* What up and down are refused for.

LEMMA ClaimsSeen ==
  ASSUME TypeOK, NEW s \in Services
  PROVE  /\ Claims(Snapshot, s) = {Seen(i) : i \in {i \in Present : containers[i].service = s}}
         /\ {c \in Claims(Snapshot, s) : c.replica = 0} = Claims(Snapshot, s)
<1>1. Claims(Snapshot, s) = {Seen(i) : i \in {i \in Present : containers[i].service = s}}
  BY SnapshotSees, SeenFields, LabelsTaken DEF Claims
<1>2. \A c \in Claims(Snapshot, s) : c.replica = 0
  BY <1>1, SeenFields
<1>3. QED
  BY <1>1, <1>2

(* Two containers claim a service only if one of them is a one-off's.      *)
LEMMA TwoClaims ==
  ASSUME TypeOK, OneReplica, NEW s \in Services, Cardinality(Claims(Snapshot, s)) > 1
  PROVE  \E i \in Present : containers[i].service = s /\ containers[i].oneOff
<1> SUFFICES ASSUME \A i \in Present : containers[i].service = s => ~containers[i].oneOff
             PROVE  FALSE
  OBVIOUS
<1>1. {i \in Present : containers[i].service = s} \subseteq Serves(s)
  BY DEF Serves
<1>2. \A a, b \in Claims(Snapshot, s) : a = b
  BY <1>1, ClaimsSeen DEF OneReplica
<1>3. CASE Claims(Snapshot, s) = {}
  <2>1. Cardinality({}) = 0
    BY FS_EmptySet
  <2>2. QED
    BY <1>3, <2>1
<1>4. ASSUME NEW a \in Claims(Snapshot, s) PROVE FALSE
  <2>1. Claims(Snapshot, s) = {a}
    BY <1>2
  <2>2. Cardinality({a}) = 1
    BY FS_Singleton
  <2>3. QED
    BY <2>1, <2>2
<1>5. QED
  BY <1>3, <1>4

LEMMA ProblemsAreClaims ==
  ASSUME TypeOK, NEW o, o.op \in {"up", "down"}, Problems(o) # {}, ~(o.op = "up" /\ Imageless)
  PROVE  \E s \in Services : Cardinality(Claims(Snapshot, s)) > 1
<1>0. Active(TheProject) \subseteq Services
  BY ServicesActive
<1>1. CASE o.op = "up"
  <2>1. CapabilityProblems(TheProject, Capabilities, UpOptions) = {}
    <3>1. {s \in Active(TheProject) : TheProject.image[s] = NoImage} = {}
      BY <1>1 DEF Imageless
    <3>2. {s \in Active(TheProject) : ~(TheProject.needs[s] \subseteq Capabilities)} = {}
      BY <1>0 DEF Capabilities
    <3>3. "health" \in Capabilities
      BY DEF Capabilities
    <3>4. QED
      BY <3>1, <3>2, <3>3 DEF CapabilityProblems
  <2>2. ResourceProblems(TheProject, Snapshot, UpOptions) = {}
    <3>1. /\ Snapshot.networks = {} /\ Snapshot.volumes = {}
          /\ UpOptions.images # "RequirePresent"
      BY DEF Snapshot, UpOptions
    <3>2. QED
      BY <3>1 DEF ResourceProblems, Foreign, Ours
  <2>3. ServiceProblems(TheProject, Snapshot) # {}
    BY <1>1, <2>1, <2>2 DEF Problems, UpProblems
  <2>4. PICK s \in Active(TheProject) :
          Cardinality({c \in Claims(Snapshot, s) : c.replica = 0}) > 1
    BY <2>3 DEF ServiceProblems
  <2>5. QED
    BY <1>0, <2>4, ClaimsSeen
<1>2. CASE o.op = "down"
  <2>1. \A s : \A c \in Claims(Snapshot, s) : c.complete
    BY SnapshotSees, SeenFields DEF Claims
  <2>2. DownProblems(TheProject, Snapshot) # {}
    BY <1>2 DEF Problems
  <2>3. QED
    BY <2>1, <2>2 DEF DownProblems
<1>3. QED
  BY <1>1, <1>2

LEMMA RefusedStep ==
  ASSUME CommandsInv, [Next]_vars, NEW c \in Commands,
         phase[c] = "applying", Ends(c), code' = 2, trouble' = trouble
  PROVE  \/ asked(c).op = "up" /\ Imageless
         \/ \E s \in Services : Cardinality(Claims(Snapshot, s)) > 1 /\ \E i \in Present :
              containers[i].service = s /\ containers[i].oneOff
<1>0. TypeOK /\ OneReplica /\ PhaseFits(c)
  BY DEF CommandsInv
<1>1. ~Fails
  BY <1>0 DEF Fails, TypeOK
<1>2. Continue(c)
  BY Endings DEF Begin
<1>3. Blocked(c)
  <2>1. ~ApplyPlan(c)
    BY DEF ApplyPlan, Up, Down, Return
  <2>2. QED
    BY <1>2, <2>1
    DEF Continue, At, CreateOneOff, StartOneOff, FollowOneOff, WaitOneOff, CleanOneOff, StartNext,
        StopNext, StopToRestart, StartAgain, WaitNext, ShowNext, RequestFails, Finish,
        PruneContainers, PruneImages, PruneFails, Reach, BuildNext, BuildFails, BuildDone
<1>4. Problems(asked(c)) # {} /\ asked(c).op \in {"up", "down"}
  BY <1>0, <1>1, <1>3 DEF Blocked, PhaseFits
<1>5. CASE ~(asked(c).op = "up" /\ Imageless)
  BY <1>0, <1>4, <1>5, ProblemsAreClaims, TwoClaims
<1>6. QED
  BY <1>5

(* up and down are refused only for a container that a `run` left behind   *)
(* (duplicate_container_claim, index_owned_resources), or an up for a      *)
(* service without an image.                                               *)
THEOREM RefusedSoundly == Spec => RefusedOnlyForOneOffs
<1>1. CommandsInv /\ [Next]_vars =>
        \A c \in Commands :
          phase[c] = "applying" /\ Ends(c) /\ code' = 2 /\ trouble' = trouble =>
            \/ asked(c).op = "up" /\ Imageless
            \/ \E s \in Services : Cardinality(Claims(Snapshot, s)) > 1 /\ \E i \in Present :
                 containers[i].service = s /\ containers[i].oneOff
  BY RefusedStep
<1>2. QED
  BY <1>1, CommandsInvariant, PTL DEF Spec, RefusedOnlyForOneOffs
=============================================================================

-------------------------- MODULE DeploymentProofs -------------------------
(***************************************************************************)
(* Proofs that whatever commands overlap, fail or are killed, nothing of   *)
(* another project is touched, volumes and newcomers survive, what depends *)
(* on something is started later; and that a down nobody disturbs leaves   *)
(* nothing behind, and an up nobody disturbs fails only for a cause.       *)
(***************************************************************************)
EXTENDS DeploymentProperties, TLAPS

ForeignContainer(s) == containers[s].id # 0 /\ ~containers[s].ours
ForeignNetwork(n)   == networks[n].id # 0 /\ ~networks[n].ours
ForeignVolume(v)    == volumes[v] = "other"

(* A reference a command may hold: one that was given out, and not that of *)
(* a container or a network of others.                                     *)
KnownContainer(ref, s) == ref \in Nat /\ ref <= made[s] /\ (ForeignContainer(s) => ref # containers[s].id)
KnownNetwork(ref, n)   == ref \in Nat /\ ref <= made[n] /\ (ForeignNetwork(n) => ref # networks[n].id)

(* What is not the project's never becomes known to a command, although    *)
(* others may take the names of what it knows.  What it may remove by name *)
(* are the volumes that were the project's at its second snapshot: a plan  *)
(* that removes volumes makes none.                                        *)
UnknownTo(c) ==
  /\ \A s \in Services : KnownContainer(outputs[c].containers[s], s)
  /\ \A n \in Networks : KnownNetwork(outputs[c].networks[n], n)
  /\ \A a \in DOMAIN plan[c] :
       /\ a.kind \in {"StartContainer", "StopContainer", "RemoveContainer"} =>
            \A s \in Services : Name(a) = s => KnownContainer(seen[c][a], s)
       /\ a.kind = "RemoveNetwork" =>
            \A n \in Networks : Name(a) = n => KnownNetwork(seen[c][a], n)
       /\ a.kind = "RemoveVolume" =>
            /\ seen[c][a] # 0 => Name(a) \in owned[c]
            /\ outputs[c].volumes \subseteq owned[c]
            /\ \A b \in DOMAIN plan[c] : b.kind # "CreateVolume"
       /\ phase[c] = "planned" => seen[c][a] = 0
  /\ phase[c] = "idle" => outputs[c].volumes = {}

Unknown == \A c \in Commands : UnknownTo(c)

(* Ids are given out in order.                                             *)
Issued ==
  /\ \A s \in Services : containers[s].id <= made[s]
  /\ \A n \in Networks : networks[n].id <= made[n]

ForeignInv == TypeOK /\ Issued /\ Unknown

(* A down removes the volume by its name.                                  *)
RemovedByName(v) ==
  \E c \in Commands : \E a \in DOMAIN plan[c] : RemoveVolume(c, a) /\ Name(a) = v /\ seen[c][a] # 0

(* What a step may do to the engine: it leaves alone what is not the       *)
(* project's, volumes that are removed by name excepted, and what others   *)
(* make is new.                                                            *)
Kept ==
  /\ \A s \in Services : /\ ForeignContainer(s) => containers'[s] = containers[s]
                         /\ ForeignContainer(s)' => ForeignContainer(s) \/ containers'[s].id > made[s]
                         /\ made[s] <= made'[s]
  /\ \A n \in Networks : /\ ForeignNetwork(n) => networks'[n] = networks[n]
                         /\ ForeignNetwork(n)' => ForeignNetwork(n) \/ networks'[n].id > made[n]
                         /\ made[n] <= made'[n]
  /\ \A v \in Volumes : ForeignVolume(v) => ForeignVolume(v)' \/ RemovedByName(v)

EngineKept == EngineTypes' /\ Issued' /\ Kept

-----------------------------------------------------------------------------
\* What the steps do to the engine.

LEMMA EngineAtRest ==
  ASSUME EngineTypes, Issued, UNCHANGED engineVars
  PROVE  EngineKept
  BY DEF EngineTypes, Issued, EngineKept, Kept, engineVars, ForeignContainer, ForeignNetwork, ForeignVolume

(* Setting the state of a container of the project, or removing it.        *)
LEMMA ContainerChanges ==
  ASSUME EngineTypes, Issued, UNCHANGED <<networks, volumes, made>>, NEW s,
         ~ ForeignContainer(s) \/ s \notin Services,
         \/ containers' = [containers EXCEPT ![s] = NoContainer]
         \/ \E st \in {"created", "completed", "crashed"} \cup Live :
              containers' = [containers EXCEPT ![s].state = st]
         \/ containers' = containers
  PROVE  EngineKept
<1>1. CASE containers' = [containers EXCEPT ![s] = NoContainer]
  <2>1. EngineTypes'
    BY <1>1 DEF EngineTypes, NoContainer
  <2>2. \A t \in Services : /\ t # s => containers'[t] = containers[t]
                            /\ t = s => containers'[t].id = 0
    BY <1>1 DEF EngineTypes, NoContainer
  <2>3. Issued'
    BY <2>2 DEF EngineTypes, Issued
  <2>4. Kept
    BY <2>2 DEF EngineTypes, Kept, ForeignContainer, ForeignNetwork, ForeignVolume
  <2>5. QED
    BY <2>1, <2>3, <2>4 DEF EngineKept
<1>2. CASE \E st \in {"created", "completed", "crashed"} \cup Live :
             containers' = [containers EXCEPT ![s].state = st]
  <2>1. PICK st \in {"created", "completed", "crashed"} \cup Live :
          containers' = [containers EXCEPT ![s].state = st]
    BY <1>2
  <2>2. EngineTypes'
    BY <2>1 DEF EngineTypes
  <2>3. \A t \in Services : /\ containers'[t].id = containers[t].id
                            /\ containers'[t].ours = containers[t].ours
                            /\ t # s => containers'[t] = containers[t]
    BY <2>1 DEF EngineTypes
  <2>4. QED
    BY <2>2, <2>3 DEF EngineTypes, Issued, EngineKept, Kept, ForeignContainer, ForeignNetwork, ForeignVolume
<1>3. CASE containers' = containers
  BY <1>3 DEF EngineTypes, Issued, EngineKept, Kept, ForeignContainer, ForeignNetwork, ForeignVolume
<1>4. QED
  BY <1>1, <1>2, <1>3

(* A reference that is still good is never one to a foreign container.     *)
LEMMA FoundOurs ==
  ASSUME ForeignInv, NEW c \in Commands, NEW a \in DOMAIN plan[c], Found(c, a),
         a.kind \in {"StartContainer", "StopContainer", "RemoveContainer"}
  PROVE  ~ ForeignContainer(Name(a)) \/ Name(a) \notin Services
  BY DEF ForeignInv, Unknown, UnknownTo, KnownContainer, Found

(* Counting up, or setting an entry, keeps a function's type.              *)
LEMMA Increments ==
  ASSUME NEW D, NEW f \in [D -> Nat], NEW x
  PROVE  [f EXCEPT ![x] = f[x] + 1] \in [D -> Nat]
<1>1. CASE x \in D
  <2>1. f[x] + 1 \in Nat
    BY <1>1
  <2>2. QED
    BY <2>1
<1>2. CASE x \notin D
  BY <1>2
<1>3. QED
  BY <1>1, <1>2

(* No request touches what is not the project's.                           *)
LEMMA RequestsKeep ==
  ASSUME ForeignInv, NEW c \in Commands, NEW a \in DOMAIN plan[c],
         \/ NothingToAsk(c, a) \/ PullImage(c, a)
         \/ CreateNetwork(c, a) \/ CreateVolume(c, a) \/ CreateContainer(c, a)
         \/ StartContainer(c, a) \/ WaitForDependency(c, a) \/ StopContainer(c, a)
         \/ RemoveContainer(c, a) \/ RemoveNetwork(c, a) \/ RemoveVolume(c, a)
  PROVE  EngineKept
<1> USE DEF ForeignInv, TypeOK
<1>1. CASE NothingToAsk(c, a) \/ WaitForDependency(c, a)
  BY <1>1, EngineAtRest DEF NothingToAsk, WaitForDependency
<1>2. CASE PullImage(c, a)
  BY <1>2 DEF PullImage, EngineTypes, Issued, EngineKept, Kept, ForeignContainer, ForeignNetwork, ForeignVolume
<1>3. CASE CreateNetwork(c, a)
  <2> DEFINE n == Name(a)
  <2>1. UNCHANGED <<containers, volumes>>
    BY <1>3 DEF CreateNetwork
  <2>2. CASE /\ networks[n].id = 0
             /\ networks' = [networks EXCEPT ![n] = [id |-> made[n] + 1, ours |-> TRUE]]
             /\ made' = [made EXCEPT ![n] = @ + 1]
    <3>1. made' \in [Services \cup Networks -> Nat]
      BY <2>2, Increments DEF EngineTypes
    <3>a. n \in Networks => [id |-> made[n] + 1, ours |-> TRUE] \in [id : Nat, ours : BOOLEAN]
      BY DEF EngineTypes
    <3>2. networks' \in [Networks -> [id : Nat, ours : BOOLEAN]]
      BY <2>2, <3>a DEF EngineTypes
    <3>3. \A m \in Networks : m # n => networks'[m] = networks[m]
      BY <2>2 DEF EngineTypes
    <3>4. n \in Networks => networks'[n].ours /\ networks'[n].id = made'[n]
      BY <2>2 DEF EngineTypes
    <3>5. \A r \in Services \cup Networks : made[r] <= made'[r] /\ made[r] \in Nat /\ made'[r] \in Nat
      BY <2>2 DEF EngineTypes
    <3>6. EngineTypes'
      BY <2>1, <3>1, <3>2 DEF EngineTypes
    <3>7. Issued'
      <4>1. \A s \in Services : containers'[s].id <= made'[s]
        BY <2>1, <3>5 DEF Issued, EngineTypes
      <4>2. \A m \in Networks : networks'[m].id <= made'[m]
        BY <3>3, <3>4, <3>5 DEF Issued, EngineTypes
      <4>3. QED
        BY <4>1, <4>2 DEF Issued
    <3>8. Kept
      BY <2>1, <2>2, <3>3, <3>4, <3>5 DEF Kept, ForeignContainer, ForeignNetwork, ForeignVolume
    <3>9. QED
      BY <3>6, <3>7, <3>8 DEF EngineKept
  <2>3. CASE UNCHANGED <<networks, made>>
    BY <2>1, <2>3 DEF EngineTypes, Issued, EngineKept, Kept, ForeignContainer, ForeignNetwork, ForeignVolume
  <2>4. QED
    BY <1>3, <2>2, <2>3 DEF CreateNetwork
<1>4. CASE CreateVolume(c, a)
  <2>1. /\ volumes' = [volumes EXCEPT ![Name(a)] = IF @ = "absent" THEN "ours" ELSE @]
        /\ UNCHANGED <<containers, networks, made>>
    BY <1>4 DEF CreateVolume
  <2>2. volumes' \in [Volumes -> {"absent", "ours", "unlabelled", "other"}]
    BY <2>1 DEF EngineTypes
  <2>3. \A v \in Volumes : volumes[v] = "other" => volumes'[v] = "other"
    BY <2>1 DEF EngineTypes
  <2>4. QED
    BY <2>1, <2>2, <2>3
       DEF EngineTypes, Issued, EngineKept, Kept, ForeignContainer, ForeignNetwork, ForeignVolume
<1>5. CASE CreateContainer(c, a)
  <2> DEFINE s == Name(a)
  <2>1. UNCHANGED networks
    BY <1>5 DEF CreateContainer
  <2>2. CASE /\ ~Present(s)
             /\ containers' = [containers EXCEPT ![s] = [id |-> made[s] + 1, ours |-> TRUE, state |-> "created"]]
             /\ made' = [made EXCEPT ![s] = @ + 1]
             /\ volumes' = [v \in Volumes |->
                              IF v \in TheProject.volumes[s] /\ volumes[v] = "absent" THEN "unlabelled"
                              ELSE volumes[v]]
    <3> DEFINE new == [id |-> made[s] + 1, ours |-> TRUE, state |-> "created"]
               Container == [id : Nat, ours : BOOLEAN,
                             state : {"absent", "created", "completed", "crashed"} \cup Live]
    <3>1. made' \in [Services \cup Networks -> Nat]
      BY <2>2, Increments DEF EngineTypes
    <3>a. s \in Services => new \in Container
      BY DEF EngineTypes
    <3>2. containers' \in [Services -> Container]
      BY <2>2, <3>a DEF EngineTypes
    <3>3. \A t \in Services : t # s => containers'[t] = containers[t]
      BY <2>2 DEF EngineTypes
    <3>4. s \in Services => containers'[s].ours /\ containers'[s].id = made'[s]
      BY <2>2 DEF EngineTypes
    <3>b. \A r \in Services \cup Networks : made[r] <= made'[r] /\ made[r] \in Nat /\ made'[r] \in Nat
      BY <2>2 DEF EngineTypes
    <3>5. volumes' \in [Volumes -> {"absent", "ours", "unlabelled", "other"}]
      BY <2>2 DEF EngineTypes
    <3>6. \A v \in Volumes : ForeignVolume(v) => ForeignVolume(v)'
      BY <2>2 DEF ForeignVolume
    <3>7. EngineTypes'
      BY <2>1, <3>1, <3>2, <3>5 DEF EngineTypes
    <3>8. Issued'
      <4>1. \A n \in Networks : networks'[n].id <= made'[n]
        BY <2>1, <3>b DEF Issued, EngineTypes
      <4>2. \A t \in Services : containers'[t].id <= made'[t]
        BY <3>3, <3>4, <3>b DEF Issued, EngineTypes
      <4>3. QED
        BY <4>1, <4>2 DEF Issued
    <3>9. Kept
      BY <2>1, <2>2, <3>3, <3>4, <3>b, <3>6 DEF Kept, Present, ForeignContainer, ForeignNetwork
    <3>10. QED
      BY <3>7, <3>8, <3>9 DEF EngineKept
  <2>3. CASE UNCHANGED <<containers, made, volumes>>
    BY <2>1, <2>3 DEF EngineTypes, Issued, EngineKept, Kept, ForeignContainer, ForeignNetwork, ForeignVolume
  <2>4. QED
    BY <1>5, <2>2, <2>3 DEF CreateContainer
<1>6. CASE StartContainer(c, a)
  <2> DEFINE s == Name(a)
  <2>1. a.kind = "StartContainer" /\ UNCHANGED <<networks, volumes, made>>
    BY <1>6 DEF StartContainer, Asks
  <2>2. CASE /\ Found(c, a)
             /\ containers' = [containers EXCEPT ![s].state = IF @ \in Live THEN @ ELSE "running"]
    <3>1. ~ ForeignContainer(s) \/ s \notin Services
      BY <2>1, <2>2, FoundOurs
    <3>2. CASE containers[s].state \in Live
      BY <2>1, <2>2, <3>1, <3>2, ContainerChanges
    <3>3. CASE containers[s].state \notin Live
      <4>1. containers' = [containers EXCEPT ![s].state = "running"]
        BY <2>2, <3>3
      <4>2. "running" \in Live
        BY DEF Live
      <4>3. QED
        BY <2>1, <3>1, <4>1, <4>2, ContainerChanges
    <3>4. QED
      BY <3>2, <3>3
  <2>3. CASE UNCHANGED containers
    BY <2>1, <2>3 DEF EngineTypes, Issued, EngineKept, Kept, ForeignContainer, ForeignNetwork, ForeignVolume
  <2>4. QED
    BY <1>6, <2>2, <2>3 DEF StartContainer
<1>7. CASE StopContainer(c, a)
  <2> DEFINE s == Name(a)
  <2>1. a.kind = "StopContainer" /\ UNCHANGED <<networks, volumes, made>>
    BY <1>7 DEF StopContainer, Asks
  <2>2. ASSUME NEW exit \in Exits, Found(c, a),
               containers' = [containers EXCEPT ![s].state = IF @ \in Live THEN exit ELSE @]
        PROVE  EngineKept
    <3>1. ~ ForeignContainer(s) \/ s \notin Services
      BY <2>1, <2>2, FoundOurs
    <3>2. CASE containers[s].state \in Live
      <4>1. containers' = [containers EXCEPT ![s].state = exit]
        BY <2>2, <3>2
      <4>2. exit \in {"created", "completed", "crashed"} \cup Live
        BY <2>2, ProjectAssumption
      <4>3. QED
        BY <2>1, <3>1, <4>1, <4>2, ContainerChanges
    <3>3. CASE containers[s].state \notin Live
      <4>1. containers' = [containers EXCEPT ![s].state = containers[s].state]
        BY <2>2, <3>3
      <4>2. containers' = containers
        BY <4>1 DEF EngineTypes
      <4>3. QED
        BY <2>1, <3>1, <4>2, ContainerChanges
    <3>4. QED
      BY <3>2, <3>3
  <2>3. CASE UNCHANGED containers
    BY <2>1, <2>3 DEF EngineTypes, Issued, EngineKept, Kept, ForeignContainer, ForeignNetwork, ForeignVolume
  <2>4. QED
    BY <1>7, <2>2, <2>3 DEF StopContainer
<1>8. CASE RemoveContainer(c, a)
  <2>1. a.kind = "RemoveContainer" /\ UNCHANGED <<networks, volumes, made>>
    BY <1>8 DEF RemoveContainer, Asks
  <2>2. CASE Found(c, a) /\ containers' = [containers EXCEPT ![Name(a)] = NoContainer]
    BY <2>1, <2>2, FoundOurs, ContainerChanges
  <2>3. CASE UNCHANGED containers
    BY <2>1, <2>3 DEF EngineTypes, Issued, EngineKept, Kept, ForeignContainer, ForeignNetwork, ForeignVolume
  <2>4. QED
    BY <1>8, <2>2, <2>3 DEF RemoveContainer
<1>9. CASE RemoveNetwork(c, a)
  <2> DEFINE n == Name(a)
  <2>1. a.kind = "RemoveNetwork" /\ UNCHANGED <<containers, volumes, made>>
    BY <1>9 DEF RemoveNetwork, Asks
  <2>2. CASE networks[n].id = seen[c][a] /\ networks' = [networks EXCEPT ![n] = NoNetwork]
    <3>1. ~ ForeignNetwork(n) \/ n \notin Networks
      BY <2>1, <2>2 DEF Unknown, UnknownTo, KnownNetwork
    <3>2. EngineTypes'
      BY <2>1, <2>2 DEF EngineTypes, NoNetwork
    <3>3. \A m \in Networks : /\ m # n => networks'[m] = networks[m]
                              /\ m = n => networks'[m].id = 0
      BY <2>2 DEF EngineTypes, NoNetwork
    <3>4. Issued'
      BY <2>1, <3>3 DEF EngineTypes, Issued
    <3>5. Kept
      BY <2>1, <3>1, <3>3 DEF EngineTypes, Kept, ForeignContainer, ForeignNetwork, ForeignVolume
    <3>6. QED
      BY <3>2, <3>4, <3>5 DEF EngineKept
  <2>3. CASE UNCHANGED networks
    BY <2>1, <2>3 DEF EngineTypes, Issued, EngineKept, Kept, ForeignContainer, ForeignNetwork, ForeignVolume
  <2>4. QED
    BY <1>9, <2>2, <2>3 DEF RemoveNetwork
<1>10. CASE RemoveVolume(c, a)
  <2> DEFINE v == Name(a)
  <2>1. a.kind = "RemoveVolume" /\ UNCHANGED <<containers, networks, made>>
    BY <1>10 DEF RemoveVolume, Asks
  <2>2. CASE seen[c][a] # 0 /\ volumes' = [volumes EXCEPT ![v] = "absent"]
    <3>1. RemovedByName(v)
      BY <1>10, <2>2 DEF RemovedByName
    <3>2. volumes' \in [Volumes -> {"absent", "ours", "unlabelled", "other"}]
      BY <2>2 DEF EngineTypes
    <3>3. \A w \in Volumes : w # v => volumes'[w] = volumes[w]
      BY <2>2 DEF EngineTypes
    <3>4. EngineTypes' /\ Issued'
      BY <2>1, <3>2 DEF EngineTypes, Issued
    <3>5. Kept
      BY <2>1, <3>1, <3>3 DEF EngineTypes, Kept, ForeignContainer, ForeignNetwork, ForeignVolume
    <3>6. QED
      BY <3>4, <3>5 DEF EngineKept
  <2>3. CASE UNCHANGED volumes
    BY <2>1, <2>3 DEF EngineTypes, Issued, EngineKept, Kept, ForeignContainer, ForeignNetwork, ForeignVolume
  <2>4. QED
    BY <1>10, <2>2, <2>3 DEF RemoveVolume
<1>11. QED
  BY <1>1, <1>2, <1>3, <1>4, <1>5, <1>6, <1>7, <1>8, <1>9, <1>10

-----------------------------------------------------------------------------
\* What the steps do to the commands' knowledge.

(* A reference a command may hold once the step is done.                   *)
ContainerKnownThen(ref, s) == ref \in Nat /\ ref <= made'[s] /\ (ForeignContainer(s)' => ref # containers'[s].id)
NetworkKnownThen(ref, n)   == ref \in Nat /\ ref <= made'[n] /\ (ForeignNetwork(n)' => ref # networks'[n].id)

(* What a command knew before a step it may know after it.                 *)
LEMMA StaysKnown ==
  ASSUME EngineTypes, EngineKept, NEW ref
  PROVE  /\ \A s \in Services : KnownContainer(ref, s) => ContainerKnownThen(ref, s)
         /\ \A n \in Networks : KnownNetwork(ref, n) => NetworkKnownThen(ref, n)
<1>1. \A s \in Services : KnownContainer(ref, s) => ContainerKnownThen(ref, s)
  BY DEF EngineTypes, EngineKept, Kept, KnownContainer, ContainerKnownThen
<1>2. \A n \in Networks : KnownNetwork(ref, n) => NetworkKnownThen(ref, n)
  BY DEF EngineTypes, EngineKept, Kept, KnownNetwork, NetworkKnownThen
<1>3. QED
  BY <1>1, <1>2

(* A command whose knowledge and plan stay as they were.                   *)
LEMMA CommandAtRest ==
  ASSUME EngineTypes, EngineKept, NEW d, UnknownTo(d),
         phase'[d] = phase[d], plan'[d] = plan[d], outputs'[d] = outputs[d],
         seen'[d] = seen[d], owned'[d] = owned[d]
  PROVE  UnknownTo(d)'
<1>1. /\ \A s \in Services : KnownContainer(outputs[d].containers[s], s)'
      /\ \A n \in Networks : KnownNetwork(outputs[d].networks[n], n)'
  BY StaysKnown DEF UnknownTo, KnownContainer, KnownNetwork, ContainerKnownThen, NetworkKnownThen
<1>2. \A a \in DOMAIN plan[d] :
        /\ a.kind \in {"StartContainer", "StopContainer", "RemoveContainer"} =>
             \A s \in Services : Name(a) = s => ContainerKnownThen(seen[d][a], s)
        /\ a.kind = "RemoveNetwork" =>
             \A n \in Networks : Name(a) = n => NetworkKnownThen(seen[d][a], n)
  BY StaysKnown DEF UnknownTo
<1>3. QED
  BY <1>1, <1>2 DEF UnknownTo, KnownContainer, KnownNetwork, ContainerKnownThen, NetworkKnownThen

LEMMA CommandsAtRest ==
  ASSUME ForeignInv, EngineKept, UNCHANGED <<phase, plan, fate, outputs, seen, owned>>
  PROVE  CommandTypes' /\ Unknown'
<1>1. CommandTypes'
  BY DEF ForeignInv, TypeOK, CommandTypes
<1>2. Unknown'
  BY CommandAtRest DEF ForeignInv, TypeOK, Unknown
<1>3. QED
  BY <1>1, <1>2

(* A failed action, as far as the command learns, changes its fate only.   *)
LEMMA FateChanges ==
  ASSUME ForeignInv, EngineKept, UNCHANGED <<phase, plan, outputs, seen, owned>>,
         NEW c \in Commands, NEW a \in DOMAIN plan[c], NEW f \in Fate,
         fate' = [fate EXCEPT ![c][a] = f]
  PROVE  CommandTypes' /\ Unknown'
<1>1. CommandTypes'
  BY DEF ForeignInv, TypeOK, CommandTypes
<1>2. Unknown'
  BY CommandAtRest DEF ForeignInv, TypeOK, Unknown
<1>3. QED
  BY <1>1, <1>2

(* An answer, good or bad, whose outputs hold nothing foreign.             *)
LEMMA Answered ==
  ASSUME ForeignInv, EngineKept, UNCHANGED <<phase, plan, seen, owned>>,
         NEW c \in Commands, NEW a \in DOMAIN plan[c], NEW out \in Outputs,
         Succeeds(c, a, out) \/ Fails(c, a),
         \A s \in Services : ContainerKnownThen(out.containers[s], s),
         \A n \in Networks : NetworkKnownThen(out.networks[n], n),
         (\E r \in DOMAIN plan[c] : r.kind = "RemoveVolume") => out.volumes \subseteq owned[c]
  PROVE  CommandTypes' /\ Unknown'
<1> USE DEF ForeignInv, TypeOK
<1>1. CASE UNCHANGED outputs
  <2>1. PICK f \in Fate : fate' = [fate EXCEPT ![c][a] = f]
    BY DEF Succeeds, Fails, Fate, Settled
  <2>2. QED
    BY <1>1, <2>1, FateChanges
<1>2. CASE /\ fate' = [fate EXCEPT ![c][a] = "succeeded"]
           /\ outputs' = [outputs EXCEPT ![c] = IF Alive(c) THEN out ELSE @]
  <2>1. CASE ~Alive(c)
    <3>1. outputs' = outputs
      BY <1>2, <2>1 DEF CommandTypes
    <3>2. "succeeded" \in Fate
      BY DEF Fate, Settled
    <3>3. QED
      BY <1>2, <3>1, <3>2, FateChanges
  <2>2. CASE Alive(c)
    <3>1. outputs' = [outputs EXCEPT ![c] = out]
      BY <1>2, <2>2
    <3>2. outputs'[c] = out /\ \A d \in Commands : d # c => outputs'[d] = outputs[d]
      BY <3>1 DEF CommandTypes
    <3>3. phase[c] # "idle"
      BY <2>2 DEF Alive
    <3>4. CommandTypes'
      BY <1>2, <3>1 DEF CommandTypes, Fate, Settled
    <3>5. Unknown'
      <4> SUFFICES ASSUME NEW d \in Commands
                   PROVE  UnknownTo(d)'
        BY DEF Unknown
      <4>1. CASE d = c
        <5>1. UnknownTo(c)
          BY DEF Unknown
        <5>2. \A r \in DOMAIN plan[c] :
                /\ r.kind \in {"StartContainer", "StopContainer", "RemoveContainer"} =>
                     \A s \in Services : Name(r) = s => ContainerKnownThen(seen[c][r], s)
                /\ r.kind = "RemoveNetwork" =>
                     \A n \in Networks : Name(r) = n => NetworkKnownThen(seen[c][r], n)
          BY <5>1, StaysKnown DEF UnknownTo
        <5>3. QED
          BY <3>2, <3>3, <4>1, <5>1, <5>2
             DEF UnknownTo, KnownContainer, KnownNetwork, ContainerKnownThen, NetworkKnownThen
      <4>2. CASE d # c
        BY <3>2, <4>2, CommandAtRest DEF Unknown
      <4>3. QED
        BY <4>1, <4>2
    <3>6. QED
      BY <3>4, <3>5
  <2>3. QED
    BY <2>1, <2>2
<1>3. QED
  BY <1>1, <1>2 DEF Succeeds, Fails

LEMMA RequestsTell ==
  ASSUME ForeignInv, EngineKept, NEW c \in Commands, NEW a \in DOMAIN plan[c],
         \/ NothingToAsk(c, a) \/ PullImage(c, a)
         \/ CreateNetwork(c, a) \/ CreateVolume(c, a) \/ CreateContainer(c, a)
         \/ StartContainer(c, a) \/ WaitForDependency(c, a) \/ StopContainer(c, a)
         \/ RemoveContainer(c, a) \/ RemoveNetwork(c, a) \/ RemoveVolume(c, a)
  PROVE  CommandTypes' /\ Unknown'
<1> USE DEF ForeignInv, TypeOK
<1>1. CASE NothingToAsk(c, a) \/ WaitForDependency(c, a)
  <2>1. UNCHANGED <<phase, plan, outputs, seen, owned>>
    BY <1>1 DEF NothingToAsk, WaitForDependency, steadyVars
  <2>2. PICK f \in Fate : fate' = [fate EXCEPT ![c][a] = f]
    BY <1>1 DEF NothingToAsk, WaitForDependency, Fate, Settled
  <2>3. QED
    BY <2>1, <2>2, FateChanges
<1>2. ASSUME NEW out \in Outputs, Succeeds(c, a, out) \/ Fails(c, a),
             UNCHANGED steadyVars, out = outputs[c]
      PROVE  CommandTypes' /\ Unknown'
  <2>1. UNCHANGED <<phase, plan, seen, owned>>
    BY <1>2 DEF steadyVars
  <2>2. /\ \A s \in Services : ContainerKnownThen(out.containers[s], s)
        /\ \A n \in Networks : NetworkKnownThen(out.networks[n], n)
    BY <1>2, StaysKnown DEF Unknown, UnknownTo
  <2>3. (\E r \in DOMAIN plan[c] : r.kind = "RemoveVolume") => out.volumes \subseteq owned[c]
    BY <1>2 DEF Unknown, UnknownTo
  <2>4. QED
    BY <1>2, <2>1, <2>2, <2>3, Answered
<1>3. CASE \/ PullImage(c, a) \/ StartContainer(c, a) \/ StopContainer(c, a)
           \/ RemoveContainer(c, a) \/ RemoveNetwork(c, a) \/ RemoveVolume(c, a)
  <2>1. outputs[c] \in Outputs
    BY DEF CommandTypes
  <2>2. (Succeeds(c, a, outputs[c]) \/ Fails(c, a)) /\ UNCHANGED steadyVars
    BY <1>3 DEF PullImage, StartContainer, StopContainer, RemoveContainer, RemoveNetwork,
                RemoveVolume, steadyVars
  <2>3. QED
    BY <1>2, <2>1, <2>2
<1>4. CASE CreateNetwork(c, a)
  <2> DEFINE n == Name(a)
             out == [outputs[c] EXCEPT !.networks[n] = made[n] + 1]
  <2>1. CASE Fails(c, a)
    BY <1>2, <1>4, <2>1 DEF CreateNetwork, steadyVars, CommandTypes
  <2>2. CASE /\ networks' = [networks EXCEPT ![n] = [id |-> made[n] + 1, ours |-> TRUE]]
             /\ made' = [made EXCEPT ![n] = @ + 1]
             /\ Succeeds(c, a, out)
    <3>1. UNCHANGED <<phase, plan, seen, owned>>
      BY <1>4 DEF CreateNetwork, steadyVars
    <3>2. n \in Networks => made[n] + 1 \in Nat
      BY DEF EngineTypes
    <3>3. outputs[c] \in Outputs
      BY DEF CommandTypes
    <3>4. out \in Outputs
      BY <3>2, <3>3 DEF Outputs
    <3>5. out.containers = outputs[c].containers /\ out.volumes = outputs[c].volumes
      BY <3>3 DEF Outputs
    <3>6. \A m \in Networks : m # n => out.networks[m] = outputs[c].networks[m]
      BY <3>3 DEF Outputs
    <3>7. n \in Networks =>
            networks'[n].ours /\ made'[n] = made[n] + 1 /\ out.networks[n] = made[n] + 1
      BY <2>2, <3>3 DEF EngineTypes, Outputs
    <3>8. \A s \in Services : ContainerKnownThen(out.containers[s], s)
      BY <3>5, StaysKnown DEF Unknown, UnknownTo
    <3>9. \A m \in Networks : NetworkKnownThen(out.networks[m], m)
      <4>1. \A m \in Networks : m # n => NetworkKnownThen(out.networks[m], m)
        BY <3>6, StaysKnown DEF Unknown, UnknownTo
      <4>2. n \in Networks => NetworkKnownThen(out.networks[n], n)
        BY <3>2, <3>7 DEF NetworkKnownThen, ForeignNetwork
      <4>3. QED
        BY <4>1, <4>2
    <3>10. (\E r \in DOMAIN plan[c] : r.kind = "RemoveVolume") =>
             out.volumes \subseteq owned[c]
      BY <3>5 DEF Unknown, UnknownTo
    <3>11. QED
      BY <2>2, <3>1, <3>4, <3>8, <3>9, <3>10, Answered
  <2>3. QED
    BY <1>4, <2>1, <2>2 DEF CreateNetwork
<1>5. CASE CreateVolume(c, a)
  <2> DEFINE out == [outputs[c] EXCEPT !.volumes = @ \cup {Name(a)}]
  <2>1. UNCHANGED <<phase, plan, seen, owned>> /\ a.kind = "CreateVolume" /\ Succeeds(c, a, out)
    BY <1>5 DEF CreateVolume, steadyVars, Asks
  <2>2. outputs[c] \in Outputs /\ Name(a) \in Volumes
    BY <2>1 DEF CommandTypes
  <2>3. out \in Outputs
    BY <2>2 DEF Outputs
  <2>4. out.containers = outputs[c].containers /\ out.networks = outputs[c].networks
    BY <2>2 DEF Outputs
  <2>5. \A s \in Services : ContainerKnownThen(out.containers[s], s)
    BY <2>4, StaysKnown DEF Unknown, UnknownTo
  <2>6. \A n \in Networks : NetworkKnownThen(out.networks[n], n)
    BY <2>4, StaysKnown DEF Unknown, UnknownTo
  <2>7. ~ \E r \in DOMAIN plan[c] : r.kind = "RemoveVolume"
    BY <2>1 DEF Unknown, UnknownTo
  <2>8. QED
    BY <2>1, <2>3, <2>5, <2>6, <2>7, Answered
<1>6. CASE CreateContainer(c, a)
  <2> DEFINE s == Name(a)
             out == [outputs[c] EXCEPT !.containers[s] = made[s] + 1]
  <2>1. CASE Fails(c, a)
    BY <1>2, <1>6, <2>1 DEF CreateContainer, steadyVars, CommandTypes
  <2>2. CASE /\ containers' = [containers EXCEPT ![s] = [id |-> made[s] + 1, ours |-> TRUE, state |-> "created"]]
             /\ made' = [made EXCEPT ![s] = @ + 1]
             /\ Succeeds(c, a, out)
    <3>1. UNCHANGED <<phase, plan, seen, owned>>
      BY <1>6 DEF CreateContainer, steadyVars
    <3>2. s \in Services => made[s] + 1 \in Nat
      BY DEF EngineTypes
    <3>3. outputs[c] \in Outputs
      BY DEF CommandTypes
    <3>4. out \in Outputs
      BY <3>2, <3>3 DEF Outputs
    <3>5. out.networks = outputs[c].networks /\ out.volumes = outputs[c].volumes
      BY <3>3 DEF Outputs
    <3>6. \A t \in Services : t # s => out.containers[t] = outputs[c].containers[t]
      BY <3>3 DEF Outputs
    <3>7. s \in Services =>
            containers'[s].ours /\ made'[s] = made[s] + 1 /\ out.containers[s] = made[s] + 1
      BY <2>2, <3>3 DEF EngineTypes, Outputs
    <3>8. \A t \in Services : ContainerKnownThen(out.containers[t], t)
      <4>1. \A t \in Services : t # s => ContainerKnownThen(out.containers[t], t)
        BY <3>6, StaysKnown DEF Unknown, UnknownTo
      <4>2. s \in Services => ContainerKnownThen(out.containers[s], s)
        BY <3>2, <3>7 DEF ContainerKnownThen, ForeignContainer
      <4>3. QED
        BY <4>1, <4>2
    <3>9. \A n \in Networks : NetworkKnownThen(out.networks[n], n)
      BY <3>5, StaysKnown DEF Unknown, UnknownTo
    <3>10. (\E r \in DOMAIN plan[c] : r.kind = "RemoveVolume") =>
             out.volumes \subseteq owned[c]
      BY <3>5 DEF Unknown, UnknownTo
    <3>11. QED
      BY <2>2, <3>1, <3>4, <3>8, <3>9, <3>10, Answered
  <2>3. QED
    BY <1>6, <2>1, <2>2 DEF CreateContainer
<1>7. QED
  BY <1>1, <1>3, <1>4, <1>5, <1>6

(* An up never removes a volume; it makes volumes of the project only.     *)
LEMMA UpPlanVolumes ==
  ASSUME NEW snap, NEW opts, NEW a \in DOMAIN UpPlan(TheProject, snap, opts)
  PROVE  a.kind # "RemoveVolume" /\ (a.kind = "CreateVolume" => Name(a) \in Volumes)
<1>1. a \in UpActions(TheProject, snap, opts)
  BY DEF UpPlan
<1>2. RequiredVolumes(TheProject) \subseteq Volumes
  BY ProjectAssumption DEF WellFormed, RequiredVolumes
<1>3. CASE a \in {VolumeId(snap, v) : v \in RequiredVolumes(TheProject)}
  BY <1>2, <1>3 DEF VolumeId, Id, Name
<1>4. CASE a \notin {VolumeId(snap, v) : v \in RequiredVolumes(TheProject)}
  BY <1>1, <1>4 DEF UpActions, NetworkId, VerifyId, BuildId, PullId, CreateId, StartId, WaitId, Id
<1>5. QED
  BY <1>3, <1>4

(* A down makes no volume.                                                 *)
LEMMA DownPlanVolumes ==
  ASSUME NEW snap, NEW opts, NEW a \in DOMAIN DownPlan(TheProject, snap, opts)
  PROVE  a.kind # "CreateVolume"
<1>1. a \in DownActions(TheProject, snap, opts)
  BY DEF DownPlan
<1>2. QED
  BY <1>1 DEF DownActions, Removed, RemovedVolumes, NothingToDo, StopId, RemoveId, Id

(* A snapshot yields references to the project's resources only.           *)
LEMMA SnapshotOurs ==
  ASSUME EngineTypes, Issued
  PROVE  LET out == FromSnapshot(Snapshot)
         IN  /\ out \in Outputs
             /\ \A s \in Services : KnownContainer(out.containers[s], s)
             /\ \A n \in Networks : KnownNetwork(out.networks[n], n)
             /\ out.volumes = {v \in Volumes : volumes[v] = "ours"}
<1> DEFINE IdOf(S) == IF S = {} THEN 0 ELSE (CHOOSE r \in S : TRUE).id
           held(s) == {r \in Snapshot.containers : r.service = s}
           made_(n) == {r \in Snapshot.networks : r.name = n}
           out == FromSnapshot(Snapshot)
<1>1. out = [containers |-> [s \in Services |-> IdOf(held(s))],
             networks |-> [n \in Networks |-> IdOf(made_(n))],
             volumes |-> {r.name : r \in Snapshot.volumes}]
  BY DEF FromSnapshot
<1>2. ASSUME NEW S, NEW id, \A r \in S : r.id = id
      PROVE  IdOf(S) = IF S = {} THEN 0 ELSE id
  <2>1. CASE S = {}
    BY <2>1
  <2>2. CASE S # {}
    <3>1. (CHOOSE r \in S : TRUE) \in S
      BY <2>2
    <3>2. QED
      BY <1>2, <2>2, <3>1
  <2>3. QED
    BY <2>1, <2>2
<1>3. \A r \in Snapshot.containers : /\ r.service \in Services /\ r.id = containers[r.service].id
                                     /\ containers[r.service].ours
  BY DEF Snapshot
<1>4. \A r \in Snapshot.networks : /\ r.name \in Networks /\ r.id = networks[r.name].id
                                   /\ networks[r.name].ours
  BY DEF Snapshot
<1>5. {r.name : r \in Snapshot.volumes} = {v \in Volumes : volumes[v] = "ours"}
  <2> DEFINE ours == {v \in Volumes : volumes[v] = "ours"}
             named == {[id |-> v, name |-> v, ours |-> TRUE] : v \in ours}
  <2>1. Snapshot.volumes = named
    BY DEF Snapshot
  <2>2. \A r \in named : r.name \in ours
    OBVIOUS
  <2>3. \A v \in ours : \E r \in named : r.name = v
    <3>1. SUFFICES ASSUME NEW v \in ours
                   PROVE  \E r \in named : r.name = v
      OBVIOUS
    <3>2. [id |-> v, name |-> v, ours |-> TRUE] \in named
      OBVIOUS
    <3>3. [id |-> v, name |-> v, ours |-> TRUE].name = v
      OBVIOUS
    <3> HIDE DEF named
    <3>4. QED
      BY <3>2, <3>3
  <2> HIDE DEF named, ours
  <2>4. {r.name : r \in named} = ours
    BY <2>2, <2>3
  <2>5. QED
    BY <2>1, <2>4 DEF ours
<1>6. ASSUME NEW s \in Services
      PROVE  KnownContainer(IdOf(held(s)), s)
  <2>1. IdOf(held(s)) = IF held(s) = {} THEN 0 ELSE containers[s].id
    BY <1>2, <1>3
  <2>2. ForeignContainer(s) => held(s) = {}
    BY <1>3 DEF ForeignContainer
  <2> HIDE DEF IdOf, held
  <2>3. QED
    BY <2>1, <2>2 DEF EngineTypes, Issued, KnownContainer, ForeignContainer
<1>7. ASSUME NEW n \in Networks
      PROVE  KnownNetwork(IdOf(made_(n)), n)
  <2>1. IdOf(made_(n)) = IF made_(n) = {} THEN 0 ELSE networks[n].id
    BY <1>2, <1>4
  <2>2. ForeignNetwork(n) => made_(n) = {}
    BY <1>4 DEF ForeignNetwork
  <2> HIDE DEF IdOf, made_
  <2>3. QED
    BY <2>1, <2>2 DEF EngineTypes, Issued, KnownNetwork, ForeignNetwork
<1> HIDE DEF IdOf, held, made_
<1>8. out \in Outputs
  BY <1>1, <1>5, <1>6, <1>7 DEF Outputs, KnownContainer, KnownNetwork
<1>9. out.volumes = {v \in Volumes : volumes[v] = "ours"}
  BY <1>1, <1>5
<1>10. QED
  BY <1>1, <1>6, <1>7, <1>8, <1>9

(* No reference at all.                                                    *)
LEMMA NoOutputsEmpty ==
  /\ NoOutputs \in Outputs
  /\ \A s \in Services : NoOutputs.containers[s] = 0
  /\ \A n \in Networks : NoOutputs.networks[n] = 0
  /\ NoOutputs.volumes = {}
<1>1. NoOutputs = [containers |-> [s \in Services |-> 0], networks |-> [n \in Networks |-> 0],
                   volumes |-> {}]
  BY DEF NoOutputs, FromSnapshot
<1>2. QED
  BY <1>1 DEF Outputs

(* The reference 0 is known to all.                                        *)
LEMMA NothingKnown ==
  ASSUME EngineTypes, Issued
  PROVE  /\ \A s \in Services : KnownContainer(0, s)
         /\ \A n \in Networks : KnownNetwork(0, n)
  BY DEF EngineTypes, KnownContainer, KnownNetwork, ForeignContainer, ForeignNetwork

LEMMA BeginTells ==
  ASSUME ForeignInv, NEW c \in Commands, NEW o, Begin(c, o)
  PROVE  CommandTypes' /\ Unknown'
<1> USE DEF ForeignInv, TypeOK
<1>1. /\ UNCHANGED <<engineVars, outputs, owned>>
      /\ fate' = [fate EXCEPT ![c] = [a \in DOMAIN plan'[c] |-> "waiting"]]
      /\ seen' = [seen EXCEPT ![c] = [a \in DOMAIN plan'[c] |-> 0]]
      /\ phase[c] = "idle"
      /\ phase' \in {[phase EXCEPT ![c] = "planned"], [phase EXCEPT ![c] = "blocked"]}
  BY DEF Begin
<1>2. \/ plan' = [plan EXCEPT ![c] = << >>]
      \/ plan' = [plan EXCEPT ![c] = UpPlan(TheProject, Snapshot, Options(o))]
      \/ plan' = [plan EXCEPT ![c] = DownPlan(TheProject, Snapshot, Options(o))]
  BY DEF Begin
<1>3. DOMAIN plan' = Commands /\ \A d \in Commands : d # c => plan'[d] = plan[d]
  BY <1>2 DEF CommandTypes
<1>4. /\ \A a \in DOMAIN plan'[c] : a.kind = "CreateVolume" => Name(a) \in Volumes
      /\ \A a, b \in DOMAIN plan'[c] : a.kind = "RemoveVolume" => b.kind # "CreateVolume"
  <2>1. CASE plan' = [plan EXCEPT ![c] = << >>]
    <3>1. plan'[c] = << >>
      BY <2>1 DEF CommandTypes
    <3>2. DOMAIN plan'[c] = {}
      BY <3>1
    <3>3. QED
      BY <3>2
  <2>2. CASE plan' = [plan EXCEPT ![c] = UpPlan(TheProject, Snapshot, Options(o))]
    <3>1. plan'[c] = UpPlan(TheProject, Snapshot, Options(o))
      BY <2>2 DEF CommandTypes
    <3>2. QED
      BY <3>1, UpPlanVolumes
  <2>3. CASE plan' = [plan EXCEPT ![c] = DownPlan(TheProject, Snapshot, Options(o))]
    <3>1. plan'[c] = DownPlan(TheProject, Snapshot, Options(o))
      BY <2>3 DEF CommandTypes
    <3>2. QED
      BY <3>1, DownPlanVolumes
  <2>4. QED
    BY <1>2, <2>1, <2>2, <2>3
<1>5. CommandTypes'
  BY <1>1, <1>3, <1>4 DEF CommandTypes, Fate
<1>6. /\ \A d \in Commands : d # c => seen'[d] = seen[d] /\ phase'[d] = phase[d]
      /\ \A a \in DOMAIN plan'[c] : seen'[c][a] = 0
      /\ phase'[c] # "idle"
  BY <1>1 DEF CommandTypes
<1>7. outputs[c].volumes = {}
  BY <1>1 DEF Unknown, UnknownTo
<1>8. Unknown'
  <2> SUFFICES ASSUME NEW d \in Commands
               PROVE  UnknownTo(d)'
    BY DEF Unknown
  <2>0. EngineKept /\ UnknownTo(d)
    BY <1>1, EngineAtRest DEF Unknown
  <2>1. CASE d = c
    <3>1. /\ \A s \in Services : KnownContainer(0, s)
          /\ \A n \in Networks : KnownNetwork(0, n)
      BY NothingKnown
    <3>2. QED
      BY <1>1, <1>4, <1>6, <1>7, <2>0, <2>1, <3>1
         DEF UnknownTo, KnownContainer, KnownNetwork, engineVars, ForeignContainer, ForeignNetwork
  <2>2. CASE d # c
    BY <1>1, <1>3, <1>6, <2>0, <2>2, CommandAtRest
  <2>3. QED
    BY <2>1, <2>2
<1>9. QED
  BY <1>5, <1>8

LEMMA ApplyTells ==
  ASSUME ForeignInv, NEW c \in Commands, Apply(c)
  PROVE  CommandTypes' /\ Unknown'
<1> USE DEF ForeignInv, TypeOK
<1> DEFINE out == FromSnapshot(Snapshot)
<1>1. /\ UNCHANGED <<engineVars, plan, fate, seen>>
      /\ outputs' = [outputs EXCEPT ![c] = out]
      /\ owned' = [owned EXCEPT ![c] = {v \in Volumes : volumes[v] = "ours"}]
      /\ phase[c] = "planned" /\ phase' = [phase EXCEPT ![c] = "applying"]
  BY DEF Apply
<1>2. /\ out \in Outputs
      /\ \A s \in Services : KnownContainer(out.containers[s], s)
      /\ \A n \in Networks : KnownNetwork(out.networks[n], n)
      /\ out.volumes = {v \in Volumes : volumes[v] = "ours"}
  BY SnapshotOurs
<1> HIDE DEF out
<1>3. CommandTypes'
  BY <1>1, <1>2 DEF CommandTypes
<1>4. /\ outputs'[c] = out /\ phase'[c] = "applying" /\ owned'[c] = out.volumes
      /\ \A d \in Commands : d # c => /\ outputs'[d] = outputs[d] /\ phase'[d] = phase[d]
                                      /\ owned'[d] = owned[d]
  BY <1>1, <1>2 DEF CommandTypes
<1>5. Unknown'
  <2> SUFFICES ASSUME NEW d \in Commands
               PROVE  UnknownTo(d)'
    BY DEF Unknown
  <2>0. EngineKept /\ UnknownTo(d)
    BY <1>1, EngineAtRest DEF Unknown
  <2>1. CASE d = c
    BY <1>1, <1>2, <1>4, <2>0, <2>1
       DEF UnknownTo, KnownContainer, KnownNetwork, engineVars, ForeignContainer, ForeignNetwork
  <2>2. CASE d # c
    BY <1>1, <1>4, <2>0, <2>2, CommandAtRest
  <2>3. QED
    BY <2>1, <2>2
<1>6. QED
  BY <1>3, <1>5

(* An action takes its reference from outputs that hold nothing foreign.   *)
LEMMA SpawnTells ==
  ASSUME ForeignInv, NEW c \in Commands, NEW a \in DOMAIN plan[c], Spawn(c, a)
  PROVE  CommandTypes' /\ Unknown'
<1> USE DEF ForeignInv, TypeOK
<1>1. /\ UNCHANGED <<engineVars, phase, plan, outputs, owned>> /\ phase[c] = "applying"
      /\ fate' = [fate EXCEPT ![c][a] = "running"]
      /\ seen' = [seen EXCEPT ![c][a] = Reference(c, a)]
  BY DEF Spawn
<1>2. CommandTypes'
  BY <1>1 DEF CommandTypes, Fate
<1>3. /\ a.kind \in {"StartContainer", "StopContainer", "RemoveContainer"} =>
           Reference(c, a) = outputs[c].containers[Name(a)]
      /\ a.kind = "RemoveNetwork" => Reference(c, a) = outputs[c].networks[Name(a)]
      /\ a.kind = "RemoveVolume" =>
           Reference(c, a) = IF Name(a) \in outputs[c].volumes THEN 1 ELSE 0
  BY DEF Reference
<1>4. /\ seen'[c][a] = Reference(c, a)
      /\ \A b \in DOMAIN plan[c] : b # a => seen'[c][b] = seen[c][b]
      /\ \A d \in Commands : d # c => seen'[d] = seen[d]
  BY <1>1 DEF CommandTypes
<1>5. Unknown'
  <2> SUFFICES ASSUME NEW d \in Commands
               PROVE  UnknownTo(d)'
    BY DEF Unknown
  <2>0. EngineKept /\ UnknownTo(d)
    BY <1>1, EngineAtRest DEF Unknown
  <2>1. CASE d = c
    <3>1. /\ a.kind \in {"StartContainer", "StopContainer", "RemoveContainer"} =>
               \A s \in Services : Name(a) = s => KnownContainer(Reference(c, a), s)
          /\ a.kind = "RemoveNetwork" =>
               \A n \in Networks : Name(a) = n => KnownNetwork(Reference(c, a), n)
          /\ a.kind = "RemoveVolume" => (Reference(c, a) # 0 => Name(a) \in owned[c])
      BY <1>3, <2>0, <2>1 DEF UnknownTo
    <3>2. QED
      BY <1>1, <1>4, <2>0, <2>1, <3>1
         DEF UnknownTo, KnownContainer, KnownNetwork, engineVars, ForeignContainer, ForeignNetwork
  <2>2. CASE d # c
    BY <1>1, <1>4, <2>0, <2>2, CommandAtRest
  <2>3. QED
    BY <2>1, <2>2
<1>6. QED
  BY <1>2, <1>5

(* What a command leaves behind are some of its requests.                  *)
LEMMA ForgetTells ==
  ASSUME ForeignInv, NEW c \in Commands, NEW left \in SUBSET (DOMAIN plan[c]), Forget(c, left),
         UNCHANGED <<engineVars, owned>>,
         NEW ph \in {"closed", "dead"}, phase' = [phase EXCEPT ![c] = ph]
  PROVE  CommandTypes' /\ Unknown'
<1> USE DEF ForeignInv, TypeOK
<1>1. /\ plan' = [plan EXCEPT ![c] = [a \in left |-> {}]]
      /\ fate' = [fate EXCEPT ![c] = [a \in left |-> "running"]]
      /\ seen' = [seen EXCEPT ![c] = [a \in left |-> seen[c][a]]]
      /\ outputs' = [outputs EXCEPT ![c] = NoOutputs]
      /\ UNCHANGED engineVars
  BY DEF Forget
<1>2. /\ plan'[c] = [a \in left |-> {}] /\ seen'[c] = [a \in left |-> seen[c][a]]
      /\ fate'[c] = [a \in left |-> "running"]
      /\ outputs'[c] = NoOutputs /\ phase'[c] \notin {"idle", "planned"}
      /\ \A d \in Commands : d # c => /\ plan'[d] = plan[d] /\ seen'[d] = seen[d] /\ fate'[d] = fate[d]
                                      /\ outputs'[d] = outputs[d] /\ phase'[d] = phase[d]
  BY <1>1 DEF CommandTypes
<1>3. CommandTypes'
  <2>1. /\ phase' \in [Commands -> {"idle", "planned", "applying", "closed", "blocked", "dead"}]
        /\ outputs' \in [Commands -> Outputs]
        /\ DOMAIN plan' = Commands /\ DOMAIN fate' = Commands /\ DOMAIN seen' = Commands
    BY <1>1, NoOutputsEmpty DEF CommandTypes
  <2>2. ASSUME NEW d \in Commands
        PROVE  /\ fate'[d] \in [DOMAIN plan'[d] -> Fate] /\ DOMAIN seen'[d] = DOMAIN plan'[d]
               /\ \A a \in DOMAIN plan'[d] : a.kind = "CreateVolume" => Name(a) \in Volumes
    <3>1. CASE d = c
      BY <1>2, <3>1 DEF CommandTypes, Fate
    <3>2. CASE d # c
      BY <1>2, <3>2 DEF CommandTypes
    <3>3. QED
      BY <3>1, <3>2
  <2>3. QED
    BY <2>1, <2>2 DEF CommandTypes
<1>4. Unknown'
  <2> SUFFICES ASSUME NEW d \in Commands
               PROVE  UnknownTo(d)'
    BY DEF Unknown
  <2>0. EngineKept /\ UnknownTo(d)
    BY EngineAtRest DEF Unknown
  <2>1. CASE d = c
    <3>1. /\ \A s \in Services : KnownContainer(0, s)
          /\ \A n \in Networks : KnownNetwork(0, n)
      BY NothingKnown
    <3>2. QED
      BY <1>2, <2>0, <2>1, <3>1, NoOutputsEmpty
         DEF UnknownTo, KnownContainer, KnownNetwork, engineVars, ForeignContainer, ForeignNetwork
  <2>2. CASE d # c
    BY <1>2, <2>0, <2>2, CommandAtRest
  <2>3. QED
    BY <2>1, <2>2
<1>5. QED
  BY <1>3, <1>4

-----------------------------------------------------------------------------
\* The invariant and the theorems.

LEMMA InitForeign == Init => ForeignInv
<1> SUFFICES ASSUME Init
             PROVE  ForeignInv
  OBVIOUS
<1>1. PICK start \in Starts : InitialEngine(start.taken, start.left)
  BY DEF Init
<1>2. EngineTypes
  BY <1>1 DEF InitialEngine, EngineTypes, Live, NoContainer, NoNetwork
<1>3. /\ phase = [c \in Commands |-> "idle"]
      /\ plan = [c \in Commands |-> << >>] /\ fate = [c \in Commands |-> << >>]
      /\ seen = [c \in Commands |-> << >>] /\ outputs = [c \in Commands |-> NoOutputs]
      /\ owned = [c \in Commands |-> {}]
  BY DEF Init
<1>4. CommandTypes
  <2>1. << >> \in [{} -> Fate] /\ DOMAIN << >> = {}
    OBVIOUS
  <2>2. QED
    BY <1>3, <2>1, NoOutputsEmpty DEF CommandTypes
<1>5. Issued
  <2>1. /\ \A s \in Services : containers[s].id \in {0, 1} /\ (containers[s].id = 1 => made[s] = 1)
        /\ \A n \in Networks : networks[n].id \in {0, 1} /\ (networks[n].id = 1 => made[n] = 1)
    BY <1>1 DEF InitialEngine, NoContainer, NoNetwork
  <2>2. QED
    BY <1>2, <2>1 DEF Issued, EngineTypes
<1>6. Unknown
  <2>1. DOMAIN << >> = {}
    OBVIOUS
  <2>2. /\ \A s \in Services : KnownContainer(0, s)
        /\ \A n \in Networks : KnownNetwork(0, n)
    BY <1>2, <1>5, NothingKnown
  <2>3. QED
    BY <1>3, <2>1, <2>2, NoOutputsEmpty DEF Unknown, UnknownTo
<1>7. QED
  BY <1>2, <1>4, <1>5, <1>6 DEF ForeignInv, TypeOK

(* A container changes by itself.                                          *)
LEMMA ProcessesKeep ==
  ASSUME ForeignInv, NEW s \in Services, ProcessExits(s) \/ BecomesHealthy(s)
  PROVE  EngineKept /\ CommandTypes' /\ Unknown'
<1> USE DEF ForeignInv, TypeOK
<1>1. /\ ~ ForeignContainer(s)
      /\ UNCHANGED <<networks, volumes, made, phase, plan, fate, outputs, seen, owned>>
  BY DEF ProcessExits, BecomesHealthy, quietVars, commandVars, ForeignContainer
<1>2. CASE ProcessExits(s)
  <2>1. PICK exit \in Exits : containers' = [containers EXCEPT ![s].state = exit]
    BY <1>2 DEF ProcessExits
  <2>2. exit \in {"created", "completed", "crashed"} \cup Live
    BY ProjectAssumption
  <2>3. QED
    BY <1>1, <2>1, <2>2, ContainerChanges, CommandsAtRest
<1>3. CASE BecomesHealthy(s)
  <2>1. containers' = [containers EXCEPT ![s].state = "healthy"]
    BY <1>3 DEF BecomesHealthy
  <2>2. "healthy" \in {"created", "completed", "crashed"} \cup Live
    BY DEF Live
  <2>3. QED
    BY <1>1, <2>1, <2>2, ContainerChanges, CommandsAtRest
<1>4. QED
  BY <1>2, <1>3

(* Others than the commands make or remove something.                      *)
Meddles ==
  \/ \E s \in Services : MeddleWithContainer(s)
  \/ \E n \in Networks : MeddleWithNetwork(n)
  \/ \E v \in Volumes : MeddleWithVolume(v)

LEMMA MeddlesOpenly ==
  ASSUME Meddles
  PROVE  UNCHANGED commandVars /\ Disturb /\ meddling' = meddling + 1
  BY DEF Meddles, MeddleWithContainer, MeddleWithNetwork, MeddleWithVolume, Meddling

(* What others do they do to the project's own, or under names that are    *)
(* free; what they make has an id that was not given out before.           *)
LEMMA MeddlingKeeps ==
  ASSUME ForeignInv, Meddles
  PROVE  EngineKept /\ CommandTypes' /\ Unknown'
<1> USE DEF ForeignInv, TypeOK
<1>1. UNCHANGED <<phase, plan, fate, outputs, seen, owned>>
  BY MeddlesOpenly DEF commandVars
<1>2. ASSUME NEW s \in Services, MeddleWithContainer(s) PROVE EngineKept
  <2>1. UNCHANGED <<networks, volumes>>
    BY <1>2 DEF MeddleWithContainer
  <2>2. CASE containers[s].ours /\ containers' = [containers EXCEPT ![s] = NoContainer] /\ UNCHANGED made
    BY <2>1, <2>2, ContainerChanges DEF ForeignContainer
  <2>3. CASE /\ ~Present(s) /\ made' = [made EXCEPT ![s] = @ + 1]
             /\ containers' = [containers EXCEPT ![s] = [id |-> made[s] + 1, ours |-> FALSE, state |-> "running"]]
    <3> DEFINE new == [id |-> made[s] + 1, ours |-> FALSE, state |-> "running"]
               Container == [id : Nat, ours : BOOLEAN,
                             state : {"absent", "created", "completed", "crashed"} \cup Live]
    <3>1. made' \in [Services \cup Networks -> Nat]
      BY <2>3, Increments DEF EngineTypes
    <3>2. new \in Container
      BY DEF EngineTypes, Live
    <3>3. containers' \in [Services -> Container]
      BY <2>3, <3>2 DEF EngineTypes
    <3>4. \A t \in Services : t # s => containers'[t] = containers[t]
      BY <2>3 DEF EngineTypes
    <3>5. containers'[s].id = made'[s] /\ made'[s] = made[s] + 1 /\ made[s] \in Nat
      BY <2>3 DEF EngineTypes
    <3>6. \A r \in Services \cup Networks : made[r] <= made'[r] /\ made[r] \in Nat /\ made'[r] \in Nat
      BY <2>3 DEF EngineTypes
    <3> HIDE DEF new
    <3>7. EngineTypes'
      BY <2>1, <3>1, <3>3 DEF EngineTypes
    <3>8. Issued'
      <4>1. \A n \in Networks : networks'[n].id <= made'[n]
        BY <2>1, <3>6 DEF Issued, EngineTypes
      <4>2. \A t \in Services : containers'[t].id <= made'[t]
        BY <3>4, <3>5, <3>6 DEF Issued, EngineTypes
      <4>3. QED
        BY <4>1, <4>2 DEF Issued
    <3>9. Kept
      <4>1. ~ ForeignContainer(s)
        BY <2>3 DEF Present, ForeignContainer
      <4>2. QED
        BY <2>1, <3>4, <3>5, <3>6, <4>1 DEF Kept, ForeignContainer, ForeignNetwork, ForeignVolume
    <3>10. QED
      BY <3>7, <3>8, <3>9 DEF EngineKept
  <2>4. QED
    BY <1>2, <2>2, <2>3 DEF MeddleWithContainer
<1>3. ASSUME NEW n \in Networks, MeddleWithNetwork(n) PROVE EngineKept
  <2>1. /\ UNCHANGED <<containers, volumes>> /\ networks[n].id = 0
        /\ networks' = [networks EXCEPT ![n] = [id |-> made[n] + 1, ours |-> FALSE]]
        /\ made' = [made EXCEPT ![n] = @ + 1]
    BY <1>3 DEF MeddleWithNetwork
  <2>2. made' \in [Services \cup Networks -> Nat]
    BY <2>1, Increments DEF EngineTypes
  <2>3. [id |-> made[n] + 1, ours |-> FALSE] \in [id : Nat, ours : BOOLEAN]
    BY DEF EngineTypes
  <2>4. networks' \in [Networks -> [id : Nat, ours : BOOLEAN]]
    BY <2>1, <2>3 DEF EngineTypes
  <2>5. \A m \in Networks : m # n => networks'[m] = networks[m]
    BY <2>1 DEF EngineTypes
  <2>6. networks'[n].id = made'[n] /\ made'[n] = made[n] + 1 /\ made[n] \in Nat
    BY <2>1 DEF EngineTypes
  <2>7. \A r \in Services \cup Networks : made[r] <= made'[r] /\ made[r] \in Nat /\ made'[r] \in Nat
    BY <2>1 DEF EngineTypes
  <2>8. EngineTypes'
    BY <2>1, <2>2, <2>4 DEF EngineTypes
  <2>9. Issued'
    <3>1. \A s \in Services : containers'[s].id <= made'[s]
      BY <2>1, <2>7 DEF Issued, EngineTypes
    <3>2. \A m \in Networks : networks'[m].id <= made'[m]
      BY <2>5, <2>6, <2>7 DEF Issued, EngineTypes
    <3>3. QED
      BY <3>1, <3>2 DEF Issued
  <2>10. Kept
    BY <2>1, <2>5, <2>6, <2>7 DEF Kept, ForeignContainer, ForeignNetwork, ForeignVolume
  <2>11. QED
    BY <2>8, <2>9, <2>10 DEF EngineKept
<1>4. ASSUME NEW v \in Volumes, MeddleWithVolume(v) PROVE EngineKept
  <2>1. /\ UNCHANGED <<containers, networks, made>>
        /\ \/ volumes[v] # "other" /\ volumes' = [volumes EXCEPT ![v] = "absent"]
           \/ volumes' = [volumes EXCEPT ![v] = "other"]
    BY <1>4 DEF MeddleWithVolume
  <2>2. QED
    BY <2>1 DEF EngineTypes, Issued, EngineKept, Kept, ForeignContainer, ForeignNetwork, ForeignVolume
<1>5. QED
  BY <1>1, <1>2, <1>3, <1>4, CommandsAtRest DEF Meddles

(* Every step preserves the invariant and leaves the foreign alone.        *)
LEMMA NextForeign ==
  ASSUME ForeignInv, [Next]_vars
  PROVE  ForeignInv' /\ EngineKept
<1> USE DEF ForeignInv, TypeOK, EngineKept
<1>1. ASSUME NEW c \in Commands, NEW o, Begin(c, o) PROVE ForeignInv' /\ EngineKept
  <2>1. UNCHANGED engineVars
    BY <1>1 DEF Begin
  <2>2. QED
    BY <1>1, <2>1, EngineAtRest, BeginTells
<1>2. ASSUME NEW c \in Commands, Apply(c) PROVE ForeignInv' /\ EngineKept
  <2>1. UNCHANGED engineVars
    BY <1>2 DEF Apply
  <2>2. QED
    BY <1>2, <2>1, EngineAtRest, ApplyTells
<1>3. ASSUME NEW c \in Commands, NEW a \in DOMAIN plan[c], Spawn(c, a) PROVE ForeignInv' /\ EngineKept
  <2>1. UNCHANGED engineVars
    BY <1>3 DEF Spawn
  <2>2. QED
    BY <1>3, <2>1, EngineAtRest, SpawnTells
<1>4. ASSUME NEW c \in Commands, NEW a \in DOMAIN plan[c], Skip(c, a) PROVE ForeignInv' /\ EngineKept
  <2>1. UNCHANGED engineVars /\ UNCHANGED <<phase, plan, outputs, seen, owned>>
    BY <1>4 DEF Skip
  <2>2. fate' = [fate EXCEPT ![c][a] = "skipped"] /\ "skipped" \in Fate
    BY <1>4 DEF Skip, Fate, Settled
  <2>3. QED
    BY <2>1, <2>2, EngineAtRest, FateChanges
<1>5. ASSUME NEW c \in Commands, Close(c) PROVE ForeignInv' /\ EngineKept
  <2>1. UNCHANGED <<engineVars, owned>> /\ Forget(c, {}) /\ phase' = [phase EXCEPT ![c] = "closed"]
    BY <1>5 DEF Close
  <2>2. CommandTypes' /\ Unknown'
    BY <2>1, ForgetTells
  <2>3. QED
    BY <2>1, <2>2, EngineAtRest
<1>6. ASSUME NEW c \in Commands, Kill(c) PROVE ForeignInv' /\ EngineKept
  <2> DEFINE left == {a \in InFlight(c) : a.kind \notin {"WaitForDependency", "NoOp"}}
  <2>1. UNCHANGED <<engineVars, owned>> /\ Forget(c, left) /\ phase' = [phase EXCEPT ![c] = "dead"]
    BY <1>6 DEF Kill
  <2>2. left \in SUBSET (DOMAIN plan[c])
    BY DEF InFlight
  <2> HIDE DEF left
  <2>3. CommandTypes' /\ Unknown'
    BY <2>1, <2>2, ForgetTells
  <2>4. QED
    BY <2>1, <2>3, EngineAtRest
<1>7. ASSUME NEW c \in Commands, Request(c) PROVE ForeignInv' /\ EngineKept
  BY <1>7, RequestsKeep, RequestsTell DEF Request
<1>8. ASSUME NEW c \in Commands, NEW a \in DOMAIN plan[c], Fault(c, a) PROVE ForeignInv' /\ EngineKept
  <2>1. UNCHANGED engineVars /\ UNCHANGED <<phase, plan, outputs, seen, owned>>
    BY <1>8 DEF Fault, steadyVars
  <2>2. fate' = [fate EXCEPT ![c][a] = "failed"] /\ "failed" \in Fate
    BY <1>8 DEF Fault, Fate, Settled
  <2>3. QED
    BY <2>1, <2>2, EngineAtRest, FateChanges
<1>9. ASSUME NEW s \in Services, ProcessExits(s) \/ BecomesHealthy(s)
      PROVE  ForeignInv' /\ EngineKept
  BY <1>9, ProcessesKeep
<1>10. ASSUME Meddles PROVE ForeignInv' /\ EngineKept
  BY <1>10, MeddlingKeeps
<1>11. CASE UNCHANGED vars
  BY <1>11, EngineAtRest, CommandsAtRest DEF vars, engineVars, commandVars
<1>12. QED
  BY <1>1, <1>2, <1>3, <1>4, <1>5, <1>6, <1>7, <1>8, <1>9, <1>10, <1>11
     DEF Next, Step, Environment, Meddles, Rest

(* The state of the engine and of the commands keeps its types.            *)
THEOREM DeploymentTypes == Spec => []TypeOK
<1>1. ForeignInv /\ [Next]_vars => ForeignInv'
  BY NextForeign
<1>2. ForeignInv => TypeOK
  BY DEF ForeignInv
<1>3. QED
  BY InitForeign, <1>1, <1>2, PTL DEF Spec

(* An action whose request was answered is no longer in flight.            *)
LEMMA AnsweredNotInFlight ==
  ASSUME ForeignInv, NEW c \in Commands, NEW a \in DOMAIN plan[c],
         RemoveContainer(c, a) \/ RemoveNetwork(c, a) \/ RemoveVolume(c, a)
  PROVE  a \in InFlight(c) /\ a \notin InFlight(c)'
<1>1. a \in InFlight(c) /\ UNCHANGED plan
  BY DEF RemoveContainer, RemoveNetwork, RemoveVolume, Asks, steadyVars
<1>2. fate' = [fate EXCEPT ![c][a] = "succeeded"] \/ fate' = [fate EXCEPT ![c][a] = "failed"]
  BY DEF RemoveContainer, RemoveNetwork, RemoveVolume, Succeeds, Fails
<1>3. fate'[c][a] # "running"
  BY <1>2 DEF ForeignInv, TypeOK, CommandTypes
<1>4. QED
  BY <1>1, <1>3 DEF InFlight

(* However many commands run, overlap, fail or are killed, on whatever     *)
(* engine, and whatever others make under names the commands know: no      *)
(* container and no network of others is ever touched, and a volume of     *)
(* others is lost only to the request of a down that had seen the          *)
(* project's own volume of that name.                                      *)
THEOREM ForeignSafe == Spec => ForeignUntouched
<1>1. ForeignInv /\ [Next]_vars => ForeignInv'
  BY NextForeign
<1>2. ForeignInv /\ [Next]_vars =>
        [/\ \A s \in Services : Present(s) /\ ~containers[s].ours => containers'[s] = containers[s]
         /\ \A n \in Networks : networks[n].id # 0 /\ ~networks[n].ours => networks'[n] = networks[n]
         /\ \A v \in Volumes :
              volumes[v] = "other" /\ volumes'[v] # "other" =>
                \E c \in Commands : /\ v \in owned[c]
                                   /\ \E a \in InFlight(c) \ InFlight(c)' :
                                        a.kind = "RemoveVolume" /\ Name(a) = v]_vars
  <2> SUFFICES ASSUME ForeignInv, [Next]_vars
               PROVE  /\ \A s \in Services :
                           Present(s) /\ ~containers[s].ours => containers'[s] = containers[s]
                      /\ \A n \in Networks :
                           networks[n].id # 0 /\ ~networks[n].ours => networks'[n] = networks[n]
                      /\ \A v \in Volumes :
                           volumes[v] = "other" /\ volumes'[v] # "other" =>
                             \E c \in Commands : /\ v \in owned[c]
                                                /\ \E a \in InFlight(c) \ InFlight(c)' :
                                                     a.kind = "RemoveVolume" /\ Name(a) = v
    OBVIOUS
  <2>1. Kept
    BY NextForeign DEF EngineKept
  <2>2. /\ \A s \in Services : Present(s) /\ ~containers[s].ours => containers'[s] = containers[s]
        /\ \A n \in Networks : networks[n].id # 0 /\ ~networks[n].ours => networks'[n] = networks[n]
    BY <2>1 DEF Kept, Present, ForeignContainer, ForeignNetwork
  <2>3. ASSUME NEW v \in Volumes, volumes[v] = "other", volumes'[v] # "other"
        PROVE  \E c \in Commands : /\ v \in owned[c]
                                   /\ \E a \in InFlight(c) \ InFlight(c)' :
                                        a.kind = "RemoveVolume" /\ Name(a) = v
    <3>1. PICK c \in Commands : \E a \in DOMAIN plan[c] : RemoveVolume(c, a) /\ Name(a) = v /\ seen[c][a] # 0
      BY <2>1, <2>3 DEF Kept, ForeignVolume, RemovedByName
    <3>2. PICK a \in DOMAIN plan[c] : RemoveVolume(c, a) /\ Name(a) = v /\ seen[c][a] # 0
      BY <3>1
    <3>3. a.kind = "RemoveVolume"
      BY <3>2 DEF RemoveVolume, Asks
    <3>4. v \in owned[c]
      BY <3>2, <3>3 DEF ForeignInv, Unknown, UnknownTo
    <3>5. QED
      BY <3>2, <3>3, <3>4, AnsweredNotInFlight
  <2>4. QED
    BY <2>2, <2>3
<1>3. QED
  BY InitForeign, <1>1, <1>2, PTL DEF Spec, ForeignUntouched

-----------------------------------------------------------------------------
(***************************************************************************)
(* What a command may remove.  A down's references are those of its second *)
(* snapshot, since nothing in its plan makes any; an up's plan removes     *)
(* nothing.                                                                *)
(***************************************************************************)

Makes == {"CreateContainer", "CreateNetwork"}
Takes == {"RemoveContainer", "RemoveNetwork", "RemoveVolume"}

(* The plan is one for what the command was asked.                         *)
PlanFits(c) ==
  /\ operation[c].op = "up" => \A a \in DOMAIN plan[c] : a.kind \notin Takes
  /\ operation[c].op # "up" => \A a \in DOMAIN plan[c] : a.kind \notin Makes
  /\ \A a \in DOMAIN plan[c] :
       /\ a.kind \in Takes => operation[c].op = "down"
       /\ a.kind = "RemoveContainer" => a = RemoveId(Name(a)) /\ Name(a) \in Services
       /\ a.kind = "RemoveNetwork" => Name(a) \in Networks
       /\ a.kind = "RemoveVolume" => operation[c].volumes

(* What a down knows was there when it took its second snapshot.           *)
KnowsNothingNew(c) ==
  operation[c].op # "up" =>
    /\ \A s \in Services : outputs[c].containers[s] <= horizon[c][s]
    /\ \A n \in Networks : outputs[c].networks[n] <= horizon[c][n]
    /\ \A a \in DOMAIN plan[c] :
         a.kind \in {"RemoveContainer", "RemoveNetwork"} => seen[c][a] <= horizon[c][Name(a)]

(* A second snapshot holds what was made until then.                       *)
HorizonPast == \A c \in Commands : \A r \in Services \cup Networks : horizon[c][r] <= made[r]

RemovalTypes ==
  /\ horizon \in [Commands -> [Services \cup Networks -> Nat]]
  /\ DOMAIN operation = Commands /\ meddling \in Nat
  /\ \A c \in Commands :
       /\ \A a \in DOMAIN plan[c] : a.kind \in {"RemoveContainer", "RemoveNetwork"} => seen[c][a] \in Nat
       /\ phase[c] = "idle" => operation[c].op # "up" /\ DOMAIN plan[c] = {}

RemovalInv ==
  /\ RemovalTypes
  /\ HorizonPast
  /\ \A c \in Commands : PlanFits(c) /\ KnowsNothingNew(c)

LEMMA UpTakesNothing ==
  ASSUME NEW snap, NEW opts, NEW a \in DOMAIN UpPlan(TheProject, snap, opts)
  PROVE  a.kind \notin Takes
<1>1. a \in UpActions(TheProject, snap, opts)
  BY DEF UpPlan
<1>2. QED
  BY <1>1 DEF UpActions, NetworkId, VolumeId, VerifyId, BuildId, PullId, CreateId, StartId, WaitId, Id, Takes

LEMMA ActiveServices == Active(TheProject) \subseteq Services
  BY ProjectAssumption DEF WellFormed, Active

LEMMA DownTakes ==
  ASSUME NEW opts, NEW a \in DOMAIN DownPlan(TheProject, Snapshot, opts)
  PROVE  /\ a.kind \notin Makes
         /\ a.kind = "RemoveContainer" => a = RemoveId(Name(a)) /\ Name(a) \in Services
         /\ a.kind = "RemoveNetwork" => Name(a) \in Networks
         /\ a.kind = "RemoveVolume" => opts.volumes
<1>1. a \in DownActions(TheProject, Snapshot, opts)
  BY DEF DownPlan
<1>2. TornDown(TheProject, Snapshot) \subseteq Services
  BY ActiveServices DEF TornDown
<1>3. CASE \E s \in TornDown(TheProject, Snapshot) : a = StopId(s) \/ a = RemoveId(s)
  BY <1>2, <1>3 DEF StopId, RemoveId, Id, Name, Makes
<1>4. CASE a \in Removed("RemoveNetwork", "network", Snapshot.networks)
  BY <1>4 DEF Removed, Snapshot, Id, Name, Makes
<1>5. CASE a \in RemovedVolumes(Snapshot, opts)
  BY <1>5 DEF RemovedVolumes, Removed, Id, Makes
<1>6. CASE a = NothingToDo
  BY <1>6 DEF NothingToDo, Id, Makes
<1>7. QED
  BY <1>1, <1>3, <1>4, <1>5, <1>6 DEF DownActions

(* The references a snapshot yields are those of what is there.            *)
LEMMA SnapshotIds ==
  LET out == FromSnapshot(Snapshot)
  IN  /\ \A s \in Services : out.containers[s] \in {0, containers[s].id}
      /\ \A n \in Networks : out.networks[n] \in {0, networks[n].id}
<1> DEFINE IdOf(S) == IF S = {} THEN 0 ELSE (CHOOSE r \in S : TRUE).id
           held(s) == {r \in Snapshot.containers : r.service = s}
           made_(n) == {r \in Snapshot.networks : r.name = n}
           out == FromSnapshot(Snapshot)
<1>1. out = [containers |-> [s \in Services |-> IdOf(held(s))],
             networks |-> [n \in Networks |-> IdOf(made_(n))],
             volumes |-> {r.name : r \in Snapshot.volumes}]
  BY DEF FromSnapshot
<1>2. ASSUME NEW S, NEW id, \A r \in S : r.id = id
      PROVE  IdOf(S) \in {0, id}
  <2>1. CASE S = {}
    BY <2>1
  <2>2. CASE S # {}
    <3>1. (CHOOSE r \in S : TRUE) \in S
      BY <2>2
    <3>2. QED
      BY <1>2, <2>2, <3>1
  <2>3. QED
    BY <2>1, <2>2
<1>3. \A s : \A r \in held(s) : r.id = containers[s].id
  BY DEF Snapshot
<1>4. \A n : \A r \in made_(n) : r.id = networks[n].id
  BY DEF Snapshot
<1>5. \A s, n : IdOf(held(s)) \in {0, containers[s].id} /\ IdOf(made_(n)) \in {0, networks[n].id}
  BY <1>2, <1>3, <1>4
<1> HIDE DEF IdOf, held, made_
<1>6. QED
  BY <1>1, <1>5

(* Requests that make nothing leave the ids alone; those that do are an    *)
(* up's.                                                                   *)
LEMMA RequestsTakeOld ==
  ASSUME ForeignInv, RemovalInv, NEW c \in Commands, NEW a \in DOMAIN plan[c],
         \/ NothingToAsk(c, a) \/ PullImage(c, a)
         \/ CreateNetwork(c, a) \/ CreateVolume(c, a) \/ CreateContainer(c, a)
         \/ StartContainer(c, a) \/ WaitForDependency(c, a) \/ StopContainer(c, a)
         \/ RemoveContainer(c, a) \/ RemoveNetwork(c, a) \/ RemoveVolume(c, a)
  PROVE  RemovalInv'
<1> USE DEF ForeignInv, TypeOK, RemovalInv
<1>1. UNCHANGED <<operation, phase, plan, seen, horizon, meddling>>
  BY DEF NothingToAsk, PullImage, CreateNetwork, CreateVolume, CreateContainer, StartContainer,
         WaitForDependency, StopContainer, RemoveContainer, RemoveNetwork, RemoveVolume, steadyVars
<1>2. RemovalTypes' /\ HorizonPast'
  <2>1. EngineTypes' /\ \A r \in Services \cup Networks : made[r] <= made'[r]
    BY RequestsKeep DEF EngineKept, Kept
  <2>2. HorizonPast'
    BY <1>1, <2>1 DEF HorizonPast, EngineTypes, RemovalTypes
  <2>3. RemovalTypes'
    BY <1>1 DEF RemovalTypes
  <2>4. QED
    BY <2>2, <2>3
<1>3. ASSUME UNCHANGED outputs \/ outputs' = [outputs EXCEPT ![c] = outputs[c]]
      PROVE  RemovalInv'
  <2>1. \A d \in Commands : outputs'[d] = outputs[d]
    BY <1>3 DEF CommandTypes
  <2>2. \A d \in Commands : PlanFits(d)' /\ KnowsNothingNew(d)'
    BY <1>1, <2>1 DEF PlanFits, KnowsNothingNew
  <2>3. QED
    BY <1>2, <2>2
<1>4. CASE NothingToAsk(c, a) \/ WaitForDependency(c, a)
  BY <1>3, <1>4 DEF NothingToAsk, WaitForDependency
<1>5. CASE \/ PullImage(c, a) \/ StartContainer(c, a) \/ StopContainer(c, a)
           \/ RemoveContainer(c, a) \/ RemoveNetwork(c, a) \/ RemoveVolume(c, a)
  <2>1. Succeeds(c, a, outputs[c]) \/ Fails(c, a)
    BY <1>5 DEF PullImage, StartContainer, StopContainer, RemoveContainer, RemoveNetwork, RemoveVolume
  <2>2. UNCHANGED outputs \/ outputs' = [outputs EXCEPT ![c] = outputs[c]]
    BY <2>1 DEF Succeeds, Fails, CommandTypes
  <2>3. QED
    BY <1>3, <2>2
<1>6. CASE CreateVolume(c, a)
  <2>1. Succeeds(c, a, [outputs[c] EXCEPT !.volumes = @ \cup {Name(a)}])
    BY <1>6 DEF CreateVolume
  <2>2. \A d \in Commands : /\ outputs'[d].containers = outputs[d].containers
                            /\ outputs'[d].networks = outputs[d].networks
    <3> DEFINE out == [outputs[c] EXCEPT !.volumes = @ \cup {Name(a)}]
    <3>1. out.containers = outputs[c].containers /\ out.networks = outputs[c].networks
      BY DEF CommandTypes, Outputs
    <3>2. UNCHANGED outputs \/ outputs' = [outputs EXCEPT ![c] = IF Alive(c) THEN out ELSE @]
      BY <2>1 DEF Succeeds
    <3> HIDE DEF out
    <3>3. \A d \in Commands : outputs'[d] = outputs[d] \/ (d = c /\ outputs'[d] = out)
      BY <3>2 DEF CommandTypes
    <3>4. QED
      BY <3>1, <3>3
  <2>3. \A d \in Commands : PlanFits(d)' /\ KnowsNothingNew(d)'
    BY <1>1, <2>2 DEF PlanFits, KnowsNothingNew
  <2>4. QED
    BY <1>2, <2>3
<1>7. CASE CreateNetwork(c, a) \/ CreateContainer(c, a)
  <2>1. operation[c].op = "up"
    BY <1>7 DEF CreateNetwork, CreateContainer, Asks, PlanFits, Makes
  <2>2. \A d \in Commands : d # c => outputs'[d] = outputs[d]
    BY <1>7 DEF CreateNetwork, CreateContainer, Succeeds, Fails, CommandTypes
  <2>3. \A d \in Commands : PlanFits(d)' /\ KnowsNothingNew(d)'
    BY <1>1, <2>1, <2>2 DEF PlanFits, KnowsNothingNew
  <2>4. QED
    BY <1>2, <2>3
<1>8. QED
  BY <1>4, <1>5, <1>6, <1>7

LEMMA BeginTakesOld ==
  ASSUME ForeignInv, RemovalInv, NEW c \in Commands, NEW o \in Operations, Begin(c, o)
  PROVE  RemovalInv'
<1> USE DEF ForeignInv, TypeOK, RemovalInv
<1>1. /\ UNCHANGED <<engineVars, outputs, horizon, meddling>>
      /\ operation' = [operation EXCEPT ![c] = o]
      /\ seen' = [seen EXCEPT ![c] = [a \in DOMAIN plan'[c] |-> 0]]
      /\ phase[c] = "idle"
      /\ phase' \in {[phase EXCEPT ![c] = "planned"], [phase EXCEPT ![c] = "blocked"]}
  BY DEF Begin
<1>2. \E p : /\ plan' = [plan EXCEPT ![c] = p]
             /\ \/ p = << >>
                \/ o.op = "up" /\ p = UpPlan(TheProject, Snapshot, Options(o))
                \/ o.op # "up" /\ p = DownPlan(TheProject, Snapshot, Options(o))
  BY DEF Begin
<1>3. plan'[c] = << >> \/ (o.op = "up" /\ plan'[c] = UpPlan(TheProject, Snapshot, Options(o)))
        \/ (o.op # "up" /\ plan'[c] = DownPlan(TheProject, Snapshot, Options(o)))
  BY <1>2 DEF CommandTypes
<1>4. /\ operation'[c] = o /\ phase'[c] # "idle"
      /\ \A a \in DOMAIN plan'[c] : seen'[c][a] = 0
      /\ \A d \in Commands : d # c => /\ operation'[d] = operation[d] /\ plan'[d] = plan[d]
                                      /\ seen'[d] = seen[d] /\ phase'[d] = phase[d]
  BY <1>1, <1>2 DEF CommandTypes, RemovalTypes
<1>5. o.op # "up" => o.op = "down"
  BY ProjectAssumption
<1>6. PlanFits(c)'
  <2>1. CASE plan'[c] = << >>
    <3>1. DOMAIN plan'[c] = {}
      BY <2>1
    <3>2. QED
      BY <3>1 DEF PlanFits
  <2>2. CASE o.op = "up" /\ plan'[c] = UpPlan(TheProject, Snapshot, Options(o))
    BY <1>4, <2>2, UpTakesNothing DEF PlanFits, Takes
  <2>3. CASE o.op # "up" /\ plan'[c] = DownPlan(TheProject, Snapshot, Options(o))
    <3>1. Options(o).volumes = o.volumes
      BY DEF Options
    <3>2. QED
      BY <1>4, <1>5, <2>3, <3>1, DownTakes DEF PlanFits
  <2>4. QED
    BY <1>3, <2>1, <2>2, <2>3
<1>7. KnowsNothingNew(c)'
  <2>1. operation[c].op # "up"
    BY <1>1 DEF RemovalTypes
  <2>2. /\ \A s \in Services : outputs[c].containers[s] <= horizon[c][s]
        /\ \A n \in Networks : outputs[c].networks[n] <= horizon[c][n]
    BY <2>1 DEF KnowsNothingNew
  <2>3. \A a \in DOMAIN plan'[c] :
          a.kind \in {"RemoveContainer", "RemoveNetwork"} => 0 <= horizon[c][Name(a)]
    BY <1>4, <1>6 DEF PlanFits, RemovalTypes
  <2>4. QED
    BY <1>1, <1>4, <2>2, <2>3 DEF KnowsNothingNew
<1>8. \A d \in Commands : PlanFits(d)' /\ KnowsNothingNew(d)'
  BY <1>1, <1>4, <1>6, <1>7 DEF PlanFits, KnowsNothingNew
<1>9. HorizonPast'
  BY <1>1 DEF HorizonPast, engineVars
<1>10. RemovalTypes'
  <2>1. \A d \in Commands :
          /\ \A a \in DOMAIN plan'[d] :
               a.kind \in {"RemoveContainer", "RemoveNetwork"} => seen'[d][a] \in Nat
          /\ phase'[d] = "idle" => operation'[d].op # "up" /\ DOMAIN plan'[d] = {}
    BY <1>4 DEF RemovalTypes
  <2>2. QED
    BY <1>1, <2>1 DEF RemovalTypes
<1>11. QED
  BY <1>8, <1>9, <1>10

LEMMA ApplyTakesOld ==
  ASSUME ForeignInv, RemovalInv, NEW c \in Commands, Apply(c)
  PROVE  RemovalInv'
<1> USE DEF ForeignInv, TypeOK, RemovalInv
<1> DEFINE out == FromSnapshot(Snapshot)
<1>1. /\ UNCHANGED <<engineVars, operation, plan, seen, meddling>>
      /\ phase[c] = "planned" /\ phase' = [phase EXCEPT ![c] = "applying"]
      /\ outputs' = [outputs EXCEPT ![c] = out] /\ horizon' = [horizon EXCEPT ![c] = made]
  BY DEF Apply
<1>2. /\ \A s \in Services : out.containers[s] <= made[s]
      /\ \A n \in Networks : out.networks[n] <= made[n]
  BY SnapshotIds DEF Issued, EngineTypes
<1> HIDE DEF out
<1>3. /\ outputs'[c] = out /\ horizon'[c] = made
      /\ \A d \in Commands : d # c => outputs'[d] = outputs[d] /\ horizon'[d] = horizon[d]
      /\ \A d \in Commands : phase'[d] = "idle" => phase[d] = "idle"
  BY <1>1 DEF CommandTypes, RemovalTypes
<1>4. operation[c].op # "up" =>
        \A a \in DOMAIN plan[c] :
          a.kind \in {"RemoveContainer", "RemoveNetwork"} => seen[c][a] <= made[Name(a)]
  <2> SUFFICES ASSUME operation[c].op # "up", NEW a \in DOMAIN plan[c],
                      a.kind \in {"RemoveContainer", "RemoveNetwork"}
               PROVE  seen[c][a] <= made[Name(a)]
    OBVIOUS
  <2>1. Name(a) \in Services \cup Networks
    BY DEF PlanFits
  <2>2. seen[c][a] <= horizon[c][Name(a)] /\ horizon[c][Name(a)] <= made[Name(a)]
    BY <2>1 DEF KnowsNothingNew, HorizonPast
  <2>3. seen[c][a] \in Nat /\ horizon[c][Name(a)] \in Nat /\ made[Name(a)] \in Nat
    BY <2>1 DEF RemovalTypes, EngineTypes
  <2>4. QED
    BY <2>2, <2>3
<1>5. \A d \in Commands : PlanFits(d)' /\ KnowsNothingNew(d)'
  BY <1>1, <1>2, <1>3, <1>4 DEF PlanFits, KnowsNothingNew
<1>6. RemovalTypes'
  BY <1>1, <1>3 DEF RemovalTypes, EngineTypes
<1>7. HorizonPast'
  BY <1>1, <1>3 DEF HorizonPast, engineVars, EngineTypes
<1>8. QED
  BY <1>5, <1>6, <1>7

(* An action takes its reference from what its command knows.              *)
LEMMA SpawnTakesOld ==
  ASSUME ForeignInv, RemovalInv, NEW c \in Commands, NEW a \in DOMAIN plan[c], Spawn(c, a)
  PROVE  RemovalInv'
<1> USE DEF ForeignInv, TypeOK, RemovalInv
<1>1. /\ UNCHANGED <<engineVars, operation, phase, plan, outputs, horizon, meddling>>
      /\ seen' = [seen EXCEPT ![c][a] = Reference(c, a)]
      /\ phase[c] = "applying"
  BY DEF Spawn
<1>2. /\ seen'[c][a] = Reference(c, a)
      /\ \A b \in DOMAIN plan[c] : b # a => seen'[c][b] = seen[c][b]
      /\ \A d \in Commands : d # c => seen'[d] = seen[d]
  BY <1>1 DEF CommandTypes
<1>3. /\ a.kind = "RemoveContainer" => Reference(c, a) = outputs[c].containers[Name(a)]
      /\ a.kind = "RemoveNetwork" => Reference(c, a) = outputs[c].networks[Name(a)]
  BY DEF Reference
<1>4. a.kind \in {"RemoveContainer", "RemoveNetwork"} => Reference(c, a) \in Nat
  BY <1>3 DEF PlanFits, CommandTypes, Outputs
<1>5. operation[c].op # "up" =>
        (a.kind \in {"RemoveContainer", "RemoveNetwork"} => Reference(c, a) <= horizon[c][Name(a)])
  BY <1>3 DEF PlanFits, KnowsNothingNew
<1>6. \A d \in Commands : PlanFits(d)' /\ KnowsNothingNew(d)'
  BY <1>1, <1>2, <1>5 DEF PlanFits, KnowsNothingNew
<1>7. HorizonPast'
  BY <1>1 DEF HorizonPast, engineVars
<1>8. RemovalTypes'
  <2>1. \A d \in Commands : \A b \in DOMAIN plan[d] :
          b.kind \in {"RemoveContainer", "RemoveNetwork"} => seen'[d][b] \in Nat
    BY <1>2, <1>4 DEF RemovalTypes
  <2>2. QED
    BY <1>1, <2>1 DEF RemovalTypes
<1>9. QED
  BY <1>6, <1>7, <1>8

(* What a command leaves behind it knows no better than before.            *)
LEMMA ForgetTakesOld ==
  ASSUME ForeignInv, RemovalInv, NEW c \in Commands, NEW left \in SUBSET (DOMAIN plan[c]),
         Forget(c, left), UNCHANGED <<engineVars, operation, horizon, meddling>>,
         NEW ph \in {"closed", "dead"}, phase' = [phase EXCEPT ![c] = ph]
  PROVE  RemovalInv'
<1> USE DEF ForeignInv, TypeOK, RemovalInv
<1>1. /\ plan'[c] = [a \in left |-> {}] /\ seen'[c] = [a \in left |-> seen[c][a]]
      /\ outputs'[c] = NoOutputs /\ phase'[c] # "idle"
      /\ \A d \in Commands : d # c => /\ plan'[d] = plan[d] /\ seen'[d] = seen[d]
                                      /\ outputs'[d] = outputs[d] /\ phase'[d] = phase[d]
  BY DEF Forget, CommandTypes
<1>2. RemovalTypes' /\ HorizonPast'
  <2>1. \A d \in Commands :
          /\ \A a \in DOMAIN plan'[d] :
               a.kind \in {"RemoveContainer", "RemoveNetwork"} => seen'[d][a] \in Nat
          /\ phase'[d] = "idle" => operation'[d].op # "up" /\ DOMAIN plan'[d] = {}
    BY <1>1 DEF RemovalTypes
  <2>2. RemovalTypes'
    BY <2>1 DEF RemovalTypes
  <2>3. QED
    BY <2>2 DEF HorizonPast, engineVars
<1>3. /\ \A s \in Services : 0 <= horizon[c][s]
      /\ \A n \in Networks : 0 <= horizon[c][n]
  BY DEF RemovalTypes
<1>4. ASSUME NEW d \in Commands PROVE PlanFits(d)' /\ KnowsNothingNew(d)'
  <2>1. CASE d # c
    BY <1>1, <2>1 DEF PlanFits, KnowsNothingNew
  <2>2. CASE d = c
    BY <1>1, <1>3, <2>2, NoOutputsEmpty DEF PlanFits, KnowsNothingNew
  <2>3. QED
    BY <2>1, <2>2
<1>5. QED
  BY <1>2, <1>4

(* What happens besides is nothing a command knows of.                     *)
LEMMA EnvironmentKeepsOld ==
  ASSUME ForeignInv, RemovalInv,
         Meddles \/ \E s \in Services : ProcessExits(s) \/ BecomesHealthy(s)
  PROVE  RemovalInv'
<1> USE DEF ForeignInv, TypeOK, RemovalInv
<1>1. UNCHANGED <<operation, phase, plan, outputs, seen, horizon>> /\ meddling' \in Nat
  BY MeddlesOpenly DEF ProcessExits, BecomesHealthy, quietVars, commandVars, RemovalTypes
<1>2. EngineTypes' /\ \A r \in Services \cup Networks : made[r] <= made'[r]
  BY ProcessesKeep, MeddlingKeeps DEF EngineKept, Kept
<1>3. HorizonPast'
  BY <1>1, <1>2 DEF HorizonPast, EngineTypes, RemovalTypes
<1>4. RemovalTypes' /\ \A c \in Commands : PlanFits(c)' /\ KnowsNothingNew(c)'
  BY <1>1 DEF RemovalTypes, PlanFits, KnowsNothingNew
<1>5. QED
  BY <1>3, <1>4

LEMMA InitRemoval == Init => RemovalInv
<1> SUFFICES ASSUME Init
             PROVE  RemovalInv
  OBVIOUS
<1>1. PICK start \in Starts : InitialEngine(start.taken, start.left)
  BY DEF Init
<1>2. made \in [Services \cup Networks -> Nat]
  BY <1>1 DEF InitialEngine
<1>3. /\ horizon = [c \in Commands |-> made]
      /\ operation = [c \in Commands |-> [op |-> "none", volumes |-> FALSE]]
      /\ plan = [c \in Commands |-> << >>] /\ outputs = [c \in Commands |-> NoOutputs]
  BY DEF Init
<1>4. DOMAIN << >> = {}
  OBVIOUS
<1>5. RemovalTypes
  BY <1>2, <1>3, <1>4 DEF RemovalTypes, Init
<1>6. HorizonPast
  BY <1>2, <1>3 DEF HorizonPast
<1>7. \A c \in Commands : PlanFits(c) /\ KnowsNothingNew(c)
  BY <1>2, <1>3, <1>4, NoOutputsEmpty DEF PlanFits, KnowsNothingNew
<1>8. QED
  BY <1>5, <1>6, <1>7 DEF RemovalInv

LEMMA NextRemoval ==
  ASSUME ForeignInv, RemovalInv, [Next]_vars
  PROVE  RemovalInv'
<1>1. ASSUME NEW c \in Commands, NEW o \in Operations, Begin(c, o) PROVE RemovalInv'
  BY <1>1, BeginTakesOld
<1>2. ASSUME NEW c \in Commands, Apply(c) PROVE RemovalInv'
  BY <1>2, ApplyTakesOld
<1>3. ASSUME NEW c \in Commands, NEW a \in DOMAIN plan[c], Spawn(c, a) PROVE RemovalInv'
  BY <1>3, SpawnTakesOld
<1>4. ASSUME UNCHANGED <<engineVars, operation, phase, plan, outputs, seen, horizon, meddling>> PROVE RemovalInv'
  BY <1>4 DEF RemovalInv, RemovalTypes, HorizonPast, PlanFits, KnowsNothingNew, engineVars
<1>5. ASSUME NEW c \in Commands, NEW a \in DOMAIN plan[c], Skip(c, a) \/ Fault(c, a) PROVE RemovalInv'
  BY <1>4, <1>5 DEF Skip, Fault, steadyVars
<1>6. ASSUME NEW c \in Commands, Close(c) PROVE RemovalInv'
  <2>1. /\ UNCHANGED <<engineVars, operation, horizon, meddling>>
        /\ Forget(c, {}) /\ phase' = [phase EXCEPT ![c] = "closed"]
    BY <1>6 DEF Close
  <2>2. QED
    BY <2>1, ForgetTakesOld
<1>7. ASSUME NEW c \in Commands, Kill(c) PROVE RemovalInv'
  <2> DEFINE left == {a \in InFlight(c) : a.kind \notin {"WaitForDependency", "NoOp"}}
  <2>1. /\ UNCHANGED <<engineVars, operation, horizon, meddling>>
        /\ Forget(c, left) /\ phase' = [phase EXCEPT ![c] = "dead"]
    BY <1>7 DEF Kill
  <2>2. left \in SUBSET (DOMAIN plan[c])
    BY DEF InFlight
  <2> HIDE DEF left
  <2>3. QED
    BY <2>1, <2>2, ForgetTakesOld
<1>8. ASSUME NEW c \in Commands, Request(c) PROVE RemovalInv'
  BY <1>8, RequestsTakeOld DEF Request
<1>9. ASSUME Meddles \/ \E s \in Services : ProcessExits(s) \/ BecomesHealthy(s) PROVE RemovalInv'
  BY <1>9, EnvironmentKeepsOld
<1>10. CASE UNCHANGED vars
  BY <1>4, <1>10 DEF vars, commandVars
<1>11. QED
  BY <1>1, <1>2, <1>3, <1>5, <1>6, <1>7, <1>8, <1>9, <1>10 DEF Next, Step, Environment, Meddles, Rest

(* Which requests make a container go, a network go, or a volume of the    *)
(* project no longer be its own.                                           *)
LEMMA RequestsTake ==
  ASSUME ForeignInv, NEW c \in Commands, NEW a \in DOMAIN plan[c],
         \/ NothingToAsk(c, a) \/ PullImage(c, a)
         \/ CreateNetwork(c, a) \/ CreateVolume(c, a) \/ CreateContainer(c, a)
         \/ StartContainer(c, a) \/ WaitForDependency(c, a) \/ StopContainer(c, a)
         \/ RemoveContainer(c, a) \/ RemoveNetwork(c, a) \/ RemoveVolume(c, a)
  PROVE  /\ \A s \in Services : Present(s) /\ containers'[s].id = 0 =>
              RemoveContainer(c, a) /\ Found(c, a) /\ Name(a) = s
         /\ \A n \in Networks : networks[n].id # 0 /\ networks'[n].id = 0 =>
              RemoveNetwork(c, a) /\ Name(a) = n /\ seen[c][a] = networks[n].id
         /\ \A v \in Volumes : volumes[v] = "ours" /\ volumes'[v] # "ours" => RemoveVolume(c, a)
<1> USE DEF ForeignInv, TypeOK, EngineTypes
<1>1. CASE NothingToAsk(c, a) \/ WaitForDependency(c, a) \/ PullImage(c, a)
  BY <1>1 DEF NothingToAsk, WaitForDependency, PullImage, engineVars, Present
<1>2. CASE CreateNetwork(c, a)
  <2>1. UNCHANGED <<containers, volumes>>
    BY <1>2 DEF CreateNetwork
  <2>2. \A n \in Networks : networks[n].id # 0 => networks'[n] = networks[n]
    BY <1>2 DEF CreateNetwork
  <2>3. QED
    BY <2>1, <2>2 DEF Present
<1>3. CASE CreateVolume(c, a)
  BY <1>3 DEF CreateVolume, Present
<1>4. CASE CreateContainer(c, a)
  <2>1. UNCHANGED networks
    BY <1>4 DEF CreateContainer
  <2>2. \A s \in Services : Present(s) => containers'[s] = containers[s]
    BY <1>4 DEF CreateContainer, Present
  <2>3. \A v \in Volumes : volumes[v] = "ours" => volumes'[v] = "ours"
    BY <1>4 DEF CreateContainer
  <2>4. QED
    BY <2>1, <2>2, <2>3 DEF Present
<1>5. CASE StartContainer(c, a) \/ StopContainer(c, a)
  <2>1. UNCHANGED <<networks, volumes>>
    BY <1>5 DEF StartContainer, StopContainer
  <2>2. \A s \in Services : containers'[s].id = containers[s].id
    <3>1. CASE UNCHANGED containers
      BY <3>1
    <3>2. CASE \E st : containers' = [containers EXCEPT ![Name(a)].state = st]
      BY <3>2
    <3>3. QED
      BY <1>5, <3>1, <3>2 DEF StartContainer, StopContainer
  <2>3. QED
    BY <2>1, <2>2 DEF Present
<1>6. CASE RemoveContainer(c, a)
  <2>1. UNCHANGED <<networks, volumes>>
    BY <1>6 DEF RemoveContainer
  <2>2. \/ UNCHANGED containers
        \/ Found(c, a) /\ \A s \in Services : s # Name(a) => containers'[s] = containers[s]
    BY <1>6 DEF RemoveContainer
  <2>3. QED
    BY <1>6, <2>1, <2>2 DEF Present
<1>7. CASE RemoveNetwork(c, a)
  <2>1. UNCHANGED <<containers, volumes>>
    BY <1>7 DEF RemoveNetwork
  <2>2. \/ UNCHANGED networks
        \/ /\ networks[Name(a)].id = seen[c][a]
           /\ \A n \in Networks : n # Name(a) => networks'[n] = networks[n]
    BY <1>7 DEF RemoveNetwork
  <2>3. QED
    BY <1>7, <2>1, <2>2 DEF Present
<1>8. CASE RemoveVolume(c, a)
  <2>1. UNCHANGED <<containers, networks>>
    BY <1>8 DEF RemoveVolume
  <2>2. QED
    BY <1>8, <2>1 DEF Present
<1>9. QED
  BY <1>1, <1>2, <1>3, <1>4, <1>5, <1>6, <1>7, <1>8

(* Only requests, and those who meddle, make anything go.                  *)
LEMMA OnlyRequestsTake ==
  ASSUME ForeignInv, RemovalInv, [Next]_vars, ~ \E c \in Commands : Request(c)
  PROVE  /\ \A s \in Services : Present(s) /\ containers'[s].id = 0 => meddling' # meddling
         /\ \A n \in Networks : networks[n].id # 0 => networks'[n] = networks[n]
         /\ volumes' # volumes => meddling' # meddling
<1> USE DEF ForeignInv, TypeOK, EngineTypes
<1>1. CASE UNCHANGED engineVars
  BY <1>1 DEF engineVars, Present
<1>2. ASSUME NEW s \in Services, ProcessExits(s) \/ BecomesHealthy(s)
      PROVE  UNCHANGED <<networks, volumes>> /\ \A t \in Services : containers'[t].id = containers[t].id
  <2>1. UNCHANGED <<networks, volumes>>
    BY <1>2 DEF ProcessExits, BecomesHealthy, quietVars
  <2>2. \E st : containers' = [containers EXCEPT ![s].state = st]
    BY <1>2 DEF ProcessExits, BecomesHealthy
  <2>3. QED
    BY <2>1, <2>2
<1>3. CASE Meddles
  <2>1. meddling' # meddling
    BY <1>3, MeddlesOpenly DEF RemovalInv, RemovalTypes
  <2>2. \A n \in Networks : networks[n].id # 0 => networks'[n] = networks[n]
    BY <1>3 DEF Meddles, MeddleWithContainer, MeddleWithNetwork, MeddleWithVolume
  <2>3. QED
    BY <2>1, <2>2
<1>4. QED
  BY <1>1, <1>2, <1>3
     DEF Next, Step, Environment, Meddles, Rest, Begin, Apply, Spawn, Skip, Close, Kill, Fault, vars, Present

-----------------------------------------------------------------------------

SafeInv == ForeignInv /\ RemovalInv

LEMMA RemovalInvariant == Spec => []SafeInv
<1>1. Init => SafeInv
  BY InitForeign, InitRemoval DEF SafeInv
<1>2. SafeInv /\ [Next]_vars => SafeInv'
  BY NextForeign, NextRemoval DEF SafeInv
<1>3. QED
  BY <1>1, <1>2, PTL DEF Spec

(* Of any number of commands, whatever overlaps, fails or is killed: a     *)
(* volume of the project is removed only where a down was told to, unless  *)
(* others do it.                                                           *)
THEOREM VolumesSafe == Spec => VolumesSurvive
<1>1. SafeInv /\ [Next]_vars =>
        [\A v \in Volumes :
           volumes[v] = "ours" /\ volumes'[v] # "ours" /\ meddling' = meddling =>
             \E c \in Commands : operation[c].volumes /\ operation[c].op = "down"]_vars
  <2> SUFFICES ASSUME SafeInv, [Next]_vars, NEW v \in Volumes,
                      volumes[v] = "ours", volumes'[v] # "ours", meddling' = meddling
               PROVE  \E c \in Commands : operation[c].volumes /\ operation[c].op = "down"
    OBVIOUS
  <2>1. PICK c \in Commands : Request(c)
    BY OnlyRequestsTake DEF SafeInv
  <2>2. PICK a \in DOMAIN plan[c] : RemoveVolume(c, a)
    BY <2>1, RequestsTake DEF SafeInv, Request
  <2>3. a.kind = "RemoveVolume"
    BY <2>2 DEF RemoveVolume, Asks
  <2>4. operation[c].volumes /\ operation[c].op = "down"
    BY <2>3 DEF SafeInv, RemovalInv, PlanFits, Takes
  <2>5. QED
    BY <2>4
<1>2. QED
  BY <1>1, RemovalInvariant, PTL DEF Spec, VolumesSurvive

(* Removal never hits what was made after the command's second snapshot,   *)
(* however often names are given again.                                    *)
THEOREM NewcomersSafe == Spec => NewcomersSurvive
<1>1. SafeInv /\ [Next]_vars =>
        [/\ \A s \in Services :
              Present(s) /\ containers'[s].id = 0 /\ meddling' = meddling =>
                \E c \in Commands : containers[s].id <= horizon[c][s]
                                   /\ RemoveId(s) \in InFlight(c) /\ RemoveId(s) \notin InFlight(c)'
         /\ \A n \in Networks :
              networks[n].id # 0 /\ networks'[n].id = 0 =>
                \E c \in Commands : /\ networks[n].id <= horizon[c][n]
                                   /\ \E a \in InFlight(c) \ InFlight(c)' :
                                        a.kind = "RemoveNetwork" /\ Name(a) = n]_vars
  <2> SUFFICES ASSUME SafeInv, [Next]_vars
               PROVE  /\ \A s \in Services :
                            Present(s) /\ containers'[s].id = 0 /\ meddling' = meddling =>
                              \E c \in Commands : containers[s].id <= horizon[c][s]
                                                 /\ RemoveId(s) \in InFlight(c)
                                                 /\ RemoveId(s) \notin InFlight(c)'
                      /\ \A n \in Networks :
                            networks[n].id # 0 /\ networks'[n].id = 0 =>
                              \E c \in Commands : /\ networks[n].id <= horizon[c][n]
                                                 /\ \E a \in InFlight(c) \ InFlight(c)' :
                                                      a.kind = "RemoveNetwork" /\ Name(a) = n
    OBVIOUS
  <2> USE DEF SafeInv, RemovalInv
  <2>1. ASSUME NEW s \in Services, Present(s), containers'[s].id = 0, meddling' = meddling
        PROVE  \E c \in Commands : containers[s].id <= horizon[c][s]
                                   /\ RemoveId(s) \in InFlight(c) /\ RemoveId(s) \notin InFlight(c)'
    <3>1. PICK c \in Commands : Request(c)
      BY <2>1, OnlyRequestsTake
    <3>2. PICK a \in DOMAIN plan[c] : RemoveContainer(c, a) /\ Found(c, a) /\ Name(a) = s
      BY <2>1, <3>1, RequestsTake DEF Request
    <3>3. a = RemoveId(s) /\ operation[c].op # "up" /\ a.kind = "RemoveContainer"
      BY <3>2 DEF PlanFits, RemoveContainer, Asks, Takes
    <3>4. containers[s].id <= horizon[c][s]
      BY <3>2, <3>3 DEF KnowsNothingNew, Found
    <3>5. QED
      BY <3>2, <3>3, <3>4, AnsweredNotInFlight
  <2>2. ASSUME NEW n \in Networks, networks[n].id # 0, networks'[n].id = 0
        PROVE  \E c \in Commands : /\ networks[n].id <= horizon[c][n]
                                   /\ \E a \in InFlight(c) \ InFlight(c)' :
                                        a.kind = "RemoveNetwork" /\ Name(a) = n
    <3>1. PICK c \in Commands : Request(c)
      BY <2>2, OnlyRequestsTake
    <3>2. PICK a \in DOMAIN plan[c] : /\ RemoveNetwork(c, a) /\ Name(a) = n
                                     /\ seen[c][a] = networks[n].id
      BY <2>2, <3>1, RequestsTake DEF Request
    <3>3. operation[c].op # "up" /\ a.kind = "RemoveNetwork"
      BY <3>2 DEF PlanFits, RemoveNetwork, Asks, Takes
    <3>4. networks[n].id <= horizon[c][n]
      BY <3>2, <3>3 DEF KnowsNothingNew
    <3>5. QED
      BY <3>2, <3>3, <3>4, AnsweredNotInFlight
  <2>3. QED
    BY <2>1, <2>2
<1>2. QED
  BY <1>1, RemovalInvariant, PTL DEF Spec, NewcomersSurvive
-----------------------------------------------------------------------------
\* Dependents start later.

(* What a plan says of containers: an up's starts and waits are those of   *)
(* its project, only a down stops and removes, and nothing has happened    *)
(* before the plan is applied.                                             *)
PlanShape(c) ==
  /\ phase[c] = "idle" => operation[c].op # "down"
  /\ phase[c] \in {"idle", "closed", "blocked"} => DOMAIN plan[c] = {}
  /\ \A a \in DOMAIN plan[c] :
       /\ a.kind = "CreateContainer" => a = CreateId(Name(a))
       /\ a.kind = "StartContainer" => a = StartId(Name(a))
       /\ a.kind \in {"StopContainer", "RemoveContainer"} => operation[c].op = "down"
       /\ Alive(c) /\ a.kind = "StartContainer" =>
            /\ Name(a) \in Active(TheProject)
            /\ plan[c][a] = StartAfter(TheProject, Name(a)) /\ plan[c][a] \subseteq DOMAIN plan[c]
       /\ Alive(c) /\ a.kind = "WaitForDependency" =>
            /\ a.disc[1] \in WaitedFor(TheProject, Name(a))
            /\ plan[c][a] = {StartId(a.disc[1])} /\ plan[c][a] \subseteq DOMAIN plan[c]
            /\ fate[c][a] = "running" => fate[c][StartId(a.disc[1])] = "succeeded"
       /\ phase[c] = "planned" => fate[c][a] = "waiting"

(* The container of a service that a command has made and may go on with,  *)
(* and those of them it may still start.                                   *)
Made(c, s) ==
  IF /\ phase[c] = "applying"
     /\ CreateId(s) \in DOMAIN plan[c] /\ fate[c][CreateId(s)] = "succeeded"
  THEN {outputs[c].containers[s]} ELSE {}

Starting(c, s) == IF StartId(s) \in InFlight(c) THEN {seen[c][StartId(s)]} ELSE {}

Owned(c, s) == Made(c, s) \cup Starting(c, s)

MayStart(c, s) ==
  Starting(c, s) \cup
    (IF StartId(s) \in DOMAIN plan[c] /\ fate[c][StartId(s)] = "waiting" THEN Made(c, s) ELSE {})

(* No two commands go on with the same container, and what has a state is  *)
(* there.                                                                  *)
OwnedOnce ==
  \A s \in Services :
    /\ containers[s].state # "absent" => containers[s].id # 0
    /\ \A c \in Commands :
         /\ Owned(c, s) \subseteq 0..made[s]
         /\ \A d \in Commands : d # c => Owned(c, s) \cap Owned(d, s) = {}

(* Nobody else is under way beside a command that nobody disturbed.        *)
CalmAlone ==
  \A c, d \in Commands : calm[c] /\ UnderWay(c) /\ UnderWay(d) => c = d

(* The container of `s` is in one of these states, and no command is about *)
(* to start it.                                                            *)
Steady(s, states) ==
  /\ containers[s].state \in states
  /\ \A c \in Commands : containers[s].id \notin MayStart(c, s)

Ready(s, d) == Steady(d, Exits \cup Fit[TheProject.dependsOn[s][d]])

(* What was started is steady, what was waited for is ready, and so is     *)
(* what the container depends on that is being started.                    *)
StartReady(c, a) ==
  /\ phase[c] = "applying" /\ fate[c][a] = "succeeded" =>
       /\ a.kind = "StartContainer" => Steady(Name(a), Live \cup Exits)
       /\ a.kind = "WaitForDependency" => Ready(Name(a), a.disc[1])
  /\ fate[c][a] = "running" /\ a.kind = "StartContainer" =>
       \A d \in DependsOn(TheProject, Name(a)) \cap Active(TheProject) : Ready(Name(a), d)

StartsReady(c) == \A a \in DOMAIN plan[c] : StartReady(c, a)

(* No down and nobody else interferes.                                     *)
Quiet ==
  meddling = 0 /\ \A c \in Commands : operation[c].op = "down" => calm[c] /\ phase[c] = "closed"

StartInv ==
  /\ \A c \in Commands : PlanShape(c)
  /\ OwnedOnce
  /\ CalmAlone
  /\ Quiet => \A c \in Commands : StartsReady(c)


(* A command learns what became of an action.  Its outputs get a container *)
(* only where it made one.                                                 *)
Answer(c, a, f) ==
  /\ UNCHANGED <<operation, phase, plan, seen>>
  /\ fate' = [fate EXCEPT ![c][a] = f]
  /\ \A d \in Commands : \A s \in Services :
       outputs'[d].containers[s] # outputs[d].containers[s] =>
         d = c /\ a.kind = "CreateContainer" /\ Name(a) = s /\ f = "succeeded"
  /\ \A s \in Services : a.kind = "CreateContainer" /\ Name(a) = s /\ f = "succeeded" =>
       /\ made'[s] = made[s] + 1
       /\ phase[c] = "applying" => outputs'[c].containers[s] = made[s] + 1

LEMMA PlainAnswer ==
  ASSUME ForeignInv, UNCHANGED steadyVars, NEW c \in Commands, NEW a \in DOMAIN plan[c],
         a.kind # "CreateContainer",
         NEW out, out.containers = outputs[c].containers,
         Succeeds(c, a, out) \/ Fails(c, a)
  PROVE  \E f \in {"succeeded", "failed"} : Answer(c, a, f)
<1>1. UNCHANGED <<operation, phase, plan, seen>>
  BY DEF steadyVars
<1>2. PICK f \in {"succeeded", "failed"} : fate' = [fate EXCEPT ![c][a] = f]
  BY DEF Succeeds, Fails
<1>3. \A d \in Commands : outputs'[d].containers = outputs[d].containers
  BY DEF Succeeds, Fails, ForeignInv, TypeOK, CommandTypes
<1>4. QED
  BY <1>1, <1>2, <1>3 DEF Answer

LEMMA RequestsAnswer ==
  ASSUME ForeignInv, NEW c \in Commands, NEW a \in DOMAIN plan[c],
         \/ NothingToAsk(c, a) \/ PullImage(c, a)
         \/ CreateNetwork(c, a) \/ CreateVolume(c, a) \/ CreateContainer(c, a)
         \/ StartContainer(c, a) \/ WaitForDependency(c, a) \/ StopContainer(c, a)
         \/ RemoveContainer(c, a) \/ RemoveNetwork(c, a) \/ RemoveVolume(c, a)
  PROVE  \E f \in {"succeeded", "failed"} : Answer(c, a, f)
<1> USE DEF ForeignInv, TypeOK
<1>1. outputs[c] \in Outputs
  BY DEF CommandTypes
<1>2. CASE NothingToAsk(c, a) \/ WaitForDependency(c, a)
  <2>1. UNCHANGED <<operation, phase, plan, seen, outputs>> /\ a.kind # "CreateContainer"
    BY <1>2 DEF NothingToAsk, WaitForDependency, steadyVars, Asks
  <2>2. PICK f \in {"succeeded", "failed"} : fate' = [fate EXCEPT ![c][a] = f]
    BY <1>2 DEF NothingToAsk, WaitForDependency
  <2>3. QED
    BY <2>1, <2>2 DEF Answer
<1>3. CASE \/ PullImage(c, a) \/ StartContainer(c, a) \/ StopContainer(c, a)
           \/ RemoveContainer(c, a) \/ RemoveNetwork(c, a) \/ RemoveVolume(c, a)
  <2>1. /\ Succeeds(c, a, outputs[c]) \/ Fails(c, a)
        /\ UNCHANGED steadyVars /\ a.kind # "CreateContainer"
    BY <1>3 DEF PullImage, StartContainer, StopContainer, RemoveContainer, RemoveNetwork,
                RemoveVolume, steadyVars, Asks
  <2>2. QED
    BY <2>1, PlainAnswer
<1>4. CASE CreateNetwork(c, a)
  <2> DEFINE out == [outputs[c] EXCEPT !.networks[Name(a)] = made[Name(a)] + 1]
  <2>1. out.containers = outputs[c].containers
    BY <1>1 DEF Outputs
  <2>2. /\ Succeeds(c, a, out) \/ Fails(c, a)
        /\ UNCHANGED steadyVars /\ a.kind # "CreateContainer"
    BY <1>4 DEF CreateNetwork, steadyVars, Asks
  <2> HIDE DEF out
  <2>3. QED
    BY <2>1, <2>2, PlainAnswer
<1>5. CASE CreateVolume(c, a)
  <2> DEFINE out == [outputs[c] EXCEPT !.volumes = @ \cup {Name(a)}]
  <2>1. out.containers = outputs[c].containers
    BY <1>1 DEF Outputs
  <2>2. Succeeds(c, a, out) /\ UNCHANGED steadyVars /\ a.kind # "CreateContainer"
    BY <1>5 DEF CreateVolume, steadyVars, Asks
  <2> HIDE DEF out
  <2>3. QED
    BY <2>1, <2>2, PlainAnswer
<1>6. CASE CreateContainer(c, a)
  <2> DEFINE s == Name(a)
             out == [outputs[c] EXCEPT !.containers[s] = made[s] + 1]
  <2>1. UNCHANGED <<operation, phase, plan, seen>> /\ a.kind = "CreateContainer"
    BY <1>6 DEF CreateContainer, steadyVars, Asks
  <2>2. CASE Fails(c, a)
    BY <2>1, <2>2 DEF Fails, Answer
  <2>3. CASE Succeeds(c, a, out) /\ made' = [made EXCEPT ![s] = @ + 1]
    <3>1. \A t \in Services : t # s => out.containers[t] = outputs[c].containers[t]
      BY <1>1 DEF Outputs
    <3>2. s \in Services => out.containers[s] = made[s] + 1 /\ made'[s] = made[s] + 1
      BY <1>1, <2>3 DEF Outputs, EngineTypes
    <3> HIDE DEF out
    <3>3. CASE fate' = [fate EXCEPT ![c][a] = "failed"] /\ UNCHANGED outputs
      BY <2>1, <3>3 DEF Answer
    <3>4. CASE /\ fate' = [fate EXCEPT ![c][a] = "succeeded"]
               /\ outputs' = [outputs EXCEPT ![c] = IF Alive(c) THEN out ELSE @]
      <4>1. \A d \in Commands : d # c => outputs'[d] = outputs[d]
        BY <3>4 DEF CommandTypes
      <4>2. outputs'[c] = IF Alive(c) THEN out ELSE outputs[c]
        BY <3>4 DEF CommandTypes
      <4>3. \A t \in Services : t # s => outputs'[c].containers[t] = outputs[c].containers[t]
        BY <3>1, <4>2
      <4>4. phase[c] = "applying" /\ s \in Services => outputs'[c].containers[s] = made[s] + 1
        BY <3>2, <4>2 DEF Alive
      <4>5. Answer(c, a, "succeeded")
        BY <2>1, <3>2, <3>4, <4>1, <4>3, <4>4 DEF Answer
      <4>6. QED
        BY <4>5
    <3>5. QED
      BY <2>3, <3>3, <3>4 DEF Succeeds
  <2>4. QED
    BY <1>6, <2>2, <2>3 DEF CreateContainer
<1>7. QED
  BY <1>2, <1>3, <1>4, <1>5, <1>6

-----------------------------------------------------------------------------
\* What may become of a container.

Turn(s) ==
  \/ containers'[s] = containers[s]
  \/ /\ containers'[s].id = containers[s].id
     /\ containers[s].state \in Live /\ containers'[s].state \in Exits
  \/ /\ containers'[s].id = containers[s].id
     /\ containers[s].state = "running" /\ containers'[s].state = "healthy"
  \/ containers'[s] = NoContainer /\ ~Quiet'
  \/ ~Present(s) /\ containers'[s].id = made[s] + 1 /\ containers'[s].state = "running" /\ meddling' # 0
  \/ ~Present(s) /\ containers'[s].id = made[s] + 1 /\ containers'[s].state = "created"
  \/ /\ containers'[s].id = containers[s].id /\ Present(s) /\ containers'[s].state \in Live
     /\ \E c \in Commands : StartId(s) \in InFlight(c) /\ seen[c][StartId(s)] = containers[s].id

Turns == \A s \in Services : Turn(s) /\ made'[s] \in {made[s], made[s] + 1}

(* Setting the state of one container.                                     *)
LEMMA OneTurn ==
  ASSUME EngineTypes, NEW s, NEW st, containers' = [containers EXCEPT ![s].state = st]
  PROVE  /\ \A t \in Services : t # s => containers'[t] = containers[t]
         /\ s \in Services => containers'[s].id = containers[s].id /\ containers'[s].state = st
  BY DEF EngineTypes

LEMMA RequestsTurn ==
  ASSUME ForeignInv, NEW c \in Commands, NEW a \in DOMAIN plan[c], PlanShape(c),
         \/ NothingToAsk(c, a) \/ PullImage(c, a)
         \/ CreateNetwork(c, a) \/ CreateVolume(c, a) \/ CreateContainer(c, a)
         \/ StartContainer(c, a) \/ WaitForDependency(c, a) \/ StopContainer(c, a)
         \/ RemoveContainer(c, a) \/ RemoveNetwork(c, a) \/ RemoveVolume(c, a)
  PROVE  Turns
<1> USE DEF ForeignInv, TypeOK
<1>1. ASSUME UNCHANGED made, \A s \in Services : Turn(s)
      PROVE  Turns
  BY <1>1 DEF Turns
<1>2. ASSUME UNCHANGED <<containers, made>>
      PROVE  Turns
  BY <1>2 DEF Turns, Turn
<1>3. CASE \/ NothingToAsk(c, a) \/ PullImage(c, a) \/ WaitForDependency(c, a)
           \/ CreateVolume(c, a) \/ RemoveNetwork(c, a) \/ RemoveVolume(c, a)
  BY <1>2, <1>3 DEF NothingToAsk, PullImage, WaitForDependency, CreateVolume, RemoveNetwork, RemoveVolume, engineVars
<1>4. CASE CreateNetwork(c, a)
  <2>1. UNCHANGED containers
    BY <1>4 DEF CreateNetwork
  <2>2. UNCHANGED made \/ made' = [made EXCEPT ![Name(a)] = @ + 1]
    BY <1>4 DEF CreateNetwork
  <2>3. \A s \in Services : made'[s] \in {made[s], made[s] + 1}
    BY <2>2 DEF EngineTypes
  <2>4. QED
    BY <2>1, <2>3 DEF Turns, Turn
<1>5. CASE CreateContainer(c, a)
  <2> DEFINE s == Name(a)
  <2>1. CASE UNCHANGED <<containers, made>>
    BY <1>2, <2>1
  <2>2. CASE /\ ~Present(s)
             /\ containers' = [containers EXCEPT ![s] = [id |-> made[s] + 1, ours |-> TRUE, state |-> "created"]]
             /\ made' = [made EXCEPT ![s] = @ + 1]
    <3>1. \A t \in Services : made'[t] \in {made[t], made[t] + 1}
      BY <2>2 DEF EngineTypes
    <3>2. \A t \in Services : t # s => containers'[t] = containers[t]
      BY <2>2 DEF EngineTypes
    <3>3. s \in Services => containers'[s].id = made[s] + 1 /\ containers'[s].state = "created"
      BY <2>2 DEF EngineTypes
    <3>4. QED
      BY <2>2, <3>1, <3>2, <3>3 DEF Turns, Turn
  <2>3. QED
    BY <1>5, <2>1, <2>2 DEF CreateContainer
<1>6. CASE StartContainer(c, a)
  <2> DEFINE s == Name(a)
  <2>1. a = StartId(s) /\ a \in InFlight(c) /\ UNCHANGED made
    BY <1>6 DEF StartContainer, Asks, PlanShape
  <2>2. CASE UNCHANGED containers
    BY <1>2, <2>1, <2>2
  <2>3. CASE /\ Found(c, a)
             /\ containers' = [containers EXCEPT ![s].state = IF @ \in Live THEN @ ELSE "running"]
    <3>1. PICK st \in Live : containers' = [containers EXCEPT ![s].state = st]
      BY <2>3 DEF Live
    <3>2. seen[c][StartId(s)] = containers[s].id /\ Present(s)
      BY <2>1, <2>3 DEF Found, Present
    <3>3. \A t \in Services : t # s => containers'[t] = containers[t]
      BY <3>1, OneTurn
    <3>4. s \in Services => containers'[s].id = containers[s].id /\ containers'[s].state \in Live
      BY <3>1, OneTurn
    <3>5. \A t \in Services : Turn(t)
      BY <2>1, <3>2, <3>3, <3>4 DEF Turn
    <3>6. QED
      BY <1>1, <2>1, <3>5
  <2>4. QED
    BY <1>6, <2>2, <2>3 DEF StartContainer
<1>7. CASE StopContainer(c, a)
  <2> DEFINE s == Name(a)
  <2>1. UNCHANGED made
    BY <1>7 DEF StopContainer
  <2>2. CASE UNCHANGED containers
    BY <1>2, <2>1, <2>2
  <2>3. ASSUME NEW exit \in Exits, containers' = [containers EXCEPT ![s].state = IF @ \in Live THEN exit ELSE @]
        PROVE  Turns
    <3>1. CASE containers[s].state \in Live
      <4>1. containers' = [containers EXCEPT ![s].state = exit]
        BY <2>3, <3>1
      <4>2. \A t \in Services : Turn(t)
        BY <3>1, <4>1, OneTurn DEF Turn
      <4>3. QED
        BY <1>1, <2>1, <4>2
    <3>2. CASE containers[s].state \notin Live
      <4>1. containers' = containers
        BY <2>3, <3>2 DEF EngineTypes
      <4>2. QED
        BY <1>2, <2>1, <4>1
    <3>3. QED
      BY <3>1, <3>2
  <2>4. QED
    BY <1>7, <2>2, <2>3 DEF StopContainer
<1>8. CASE RemoveContainer(c, a)
  <2>1. UNCHANGED <<made, operation, phase>> /\ a.kind = "RemoveContainer"
    BY <1>8 DEF RemoveContainer, steadyVars, Asks
  <2>2. CASE UNCHANGED containers
    BY <1>2, <2>1, <2>2
  <2>3. CASE containers' = [containers EXCEPT ![Name(a)] = NoContainer]
    <3>1. operation'[c].op = "down" /\ phase'[c] # "closed"
      BY <2>1 DEF PlanShape
    <3>2. ~Quiet'
      BY <3>1 DEF Quiet
    <3>3. \A t \in Services : containers'[t] = containers[t] \/ containers'[t] = NoContainer
      BY <2>3 DEF EngineTypes
    <3>4. QED
      BY <1>1, <2>1, <3>2, <3>3 DEF Turn
  <2>4. QED
    BY <1>8, <2>2, <2>3 DEF RemoveContainer
<1>9. QED
  BY <1>3, <1>4, <1>5, <1>6, <1>7, <1>8

LEMMA EnvironmentTurns ==
  ASSUME ForeignInv, RemovalInv, Meddles \/ \E s \in Services : ProcessExits(s) \/ BecomesHealthy(s)
  PROVE  Turns
<1> USE DEF ForeignInv, TypeOK
<1>1. ASSUME NEW s \in Services, ProcessExits(s) PROVE Turns
  <2>1. PICK exit \in Exits : containers' = [containers EXCEPT ![s].state = exit]
    BY <1>1 DEF ProcessExits
  <2>2. UNCHANGED made
    BY <1>1 DEF ProcessExits, quietVars
  <2>3. QED
    BY <1>1, <2>1, <2>2, OneTurn DEF Turns, Turn, ProcessExits
<1>2. ASSUME NEW s \in Services, BecomesHealthy(s) PROVE Turns
  <2>1. UNCHANGED made
    BY <1>2 DEF BecomesHealthy, quietVars
  <2>2. QED
    BY <1>2, <2>1, OneTurn DEF Turns, Turn, BecomesHealthy
<1>3. CASE Meddles
  <2>1. meddling' # 0
    BY <1>3, MeddlesOpenly DEF RemovalInv, RemovalTypes
  <2>2. CASE \E v \in Volumes : MeddleWithVolume(v)
    BY <2>2 DEF MeddleWithVolume, Turns, Turn
  <2>3. ASSUME NEW n \in Networks, MeddleWithNetwork(n) PROVE Turns
    <3>1. UNCHANGED containers /\ made' = [made EXCEPT ![n] = @ + 1]
      BY <2>3 DEF MeddleWithNetwork
    <3>2. \A s \in Services : made'[s] \in {made[s], made[s] + 1}
      BY <3>1 DEF EngineTypes
    <3>3. QED
      BY <3>1, <3>2 DEF Turns, Turn
  <2>4. ASSUME NEW s \in Services, MeddleWithContainer(s) PROVE Turns
    <3>1. CASE containers' = [containers EXCEPT ![s] = NoContainer] /\ UNCHANGED made
      <4>1. \A t \in Services : containers'[t] = containers[t] \/ containers'[t] = NoContainer
        BY <3>1 DEF EngineTypes
      <4>2. QED
        BY <2>1, <3>1, <4>1 DEF Turns, Turn, Quiet
    <3>2. CASE /\ ~Present(s) /\ made' = [made EXCEPT ![s] = @ + 1]
               /\ containers' = [containers EXCEPT ![s] =
                                    [id |-> made[s] + 1, ours |-> FALSE, state |-> "running"]]
      <4>1. \A t \in Services : made'[t] \in {made[t], made[t] + 1}
        BY <3>2 DEF EngineTypes
      <4>2. \A t \in Services : t # s => containers'[t] = containers[t]
        BY <3>2 DEF EngineTypes
      <4>3. containers'[s].id = made[s] + 1 /\ containers'[s].state = "running"
        BY <3>2 DEF EngineTypes
      <4>4. QED
        BY <2>1, <3>2, <4>1, <4>2, <4>3 DEF Turns, Turn
    <3>3. QED
      BY <2>4, <3>1, <3>2 DEF MeddleWithContainer
  <2>5. QED
    BY <1>3, <2>2, <2>3, <2>4 DEF Meddles
<1>4. QED
  BY <1>1, <1>2, <1>3

-----------------------------------------------------------------------------
\* Plans keep their shape.

LEMMA UpStarts ==
  ASSUME NEW snap, NEW opts, NEW a \in DOMAIN UpPlan(TheProject, snap, opts)
  PROVE  LET up == UpPlan(TheProject, snap, opts)
         IN  /\ a.kind = "CreateContainer" => a = CreateId(Name(a))
             /\ a.kind = "StartContainer" =>
                  /\ a = StartId(Name(a)) /\ Name(a) \in Active(TheProject)
                  /\ up[a] = StartAfter(TheProject, Name(a)) /\ up[a] \subseteq DOMAIN up
             /\ a.kind = "WaitForDependency" =>
                  /\ a.disc[1] \in WaitedFor(TheProject, Name(a))
                  /\ up[a] = {StartId(a.disc[1])} /\ up[a] \subseteq DOMAIN up
<1> DEFINE up == UpPlan(TheProject, snap, opts)
           actions == UpActions(TheProject, snap, opts)
<1>1. DOMAIN up = actions /\ a \in actions
  BY DEF UpPlan
<1>2. /\ \A s \in Active(TheProject) : CreateId(s) \in actions /\ StartId(s) \in actions
      /\ \A s \in Active(TheProject) : \A d \in WaitedFor(TheProject, s) : WaitId(s, d) \in actions
  BY DEF UpActions
<1>3. \A s : Earlier(TheProject, s) \subseteq Active(TheProject)
  BY DEF Earlier, Active
<1>4. /\ a.kind = "CreateContainer" => \E s \in Active(TheProject) : a = CreateId(s)
      /\ a.kind = "StartContainer" => \E s \in Active(TheProject) : a = StartId(s)
      /\ a.kind = "WaitForDependency" =>
           \E s \in Active(TheProject) : \E d \in WaitedFor(TheProject, s) : a = WaitId(s, d)
  BY <1>1 DEF UpActions, NetworkId, VolumeId, VerifyId, BuildId, PullId, CreateId, StartId, WaitId, Id
<1>5. /\ a.kind = "StartContainer" => up[a] = StartAfter(TheProject, Name(a))
      /\ a.kind = "WaitForDependency" => up[a] = {StartId(a.disc[1])}
  BY <1>1 DEF UpPlan
<1> HIDE DEF up, actions
<1>6. a.kind = "CreateContainer" => a = CreateId(Name(a))
  BY <1>4 DEF CreateId, Id, Name
<1>7. ASSUME a.kind = "StartContainer"
      PROVE  /\ a = StartId(Name(a)) /\ Name(a) \in Active(TheProject)
             /\ StartAfter(TheProject, Name(a)) \subseteq actions
  <2>1. PICK s \in Active(TheProject) : a = StartId(s)
    BY <1>4, <1>7
  <2>2. Name(a) = s
    BY <2>1 DEF StartId, Id, Name
  <2>3. StartAfter(TheProject, s) \subseteq actions
    BY <1>2, <1>3, <2>1 DEF StartAfter
  <2>4. QED
    BY <2>1, <2>2, <2>3
<1>8. ASSUME a.kind = "WaitForDependency"
      PROVE  /\ a.disc[1] \in WaitedFor(TheProject, Name(a))
             /\ StartId(a.disc[1]) \in actions
  <2>1. PICK s \in Active(TheProject) : \E d \in WaitedFor(TheProject, s) : a = WaitId(s, d)
    BY <1>4, <1>8
  <2>5. PICK d \in WaitedFor(TheProject, s) : a = WaitId(s, d)
    BY <2>1
  <2>2. Name(a) = s /\ a.disc[1] = d
    BY <2>5 DEF WaitId, Id, Name
  <2>3. d \in Active(TheProject)
    BY <1>3, <2>5 DEF WaitedFor
  <2>4. QED
    BY <1>2, <2>2, <2>3, <2>5
<1>9. QED
  BY <1>1, <1>5, <1>6, <1>7, <1>8 DEF up

LEMMA UpStopsNothing ==
  ASSUME NEW snap, NEW opts, NEW a \in DOMAIN UpPlan(TheProject, snap, opts)
  PROVE  a.kind \notin {"StopContainer", "RemoveContainer"}
<1>1. a \in UpActions(TheProject, snap, opts)
  BY DEF UpPlan
<1>2. QED
  BY <1>1 DEF UpActions, NetworkId, VolumeId, VerifyId, BuildId, PullId, CreateId, StartId, WaitId, Id

LEMMA DownStarts ==
  ASSUME NEW opts, NEW a \in DOMAIN DownPlan(TheProject, Snapshot, opts)
  PROVE  a.kind \notin {"CreateContainer", "StartContainer", "WaitForDependency"}
<1>1. a \in DownActions(TheProject, Snapshot, opts)
  BY DEF DownPlan
<1>2. QED
  BY <1>1 DEF DownActions, StopId, RemoveId, Removed, RemovedVolumes, NothingToDo, Id

LEMMA BeginShows ==
  ASSUME ForeignInv, RemovalInv, NEW c \in Commands, NEW o \in Operations, Begin(c, o)
  PROVE  /\ \A d \in Commands : d # c =>
              /\ operation'[d] = operation[d] /\ plan'[d] = plan[d] /\ phase'[d] = phase[d]
              /\ fate'[d] = fate[d] /\ seen'[d] = seen[d]
         /\ UNCHANGED <<engineVars, outputs>>
         /\ operation'[c] = o /\ phase'[c] \in {"planned", "blocked"}
         /\ phase'[c] = "blocked" => DOMAIN plan'[c] = {}
         /\ \A a \in DOMAIN plan'[c] : fate'[c][a] = "waiting"
         /\ \/ DOMAIN plan'[c] = {}
            \/ o.op = "up" /\ plan'[c] = UpPlan(TheProject, Snapshot, Options(o))
            \/ o.op = "down" /\ plan'[c] = DownPlan(TheProject, Snapshot, Options(o))
<1> USE DEF ForeignInv, TypeOK, RemovalInv
<1>1. /\ UNCHANGED <<engineVars, outputs>>
      /\ operation' = [operation EXCEPT ![c] = o]
      /\ seen' = [seen EXCEPT ![c] = [a \in DOMAIN plan'[c] |-> 0]]
      /\ fate' = [fate EXCEPT ![c] = [a \in DOMAIN plan'[c] |-> "waiting"]]
  BY DEF Begin
<1>2. \E p, ph : /\ plan' = [plan EXCEPT ![c] = p] /\ phase' = [phase EXCEPT ![c] = ph]
                 /\ \/ p = << >> /\ ph = "blocked"
                    \/ o.op = "up" /\ p = UpPlan(TheProject, Snapshot, Options(o)) /\ ph = "planned"
                    \/ o.op # "up" /\ p = DownPlan(TheProject, Snapshot, Options(o)) /\ ph = "planned"
  BY DEF Begin
<1>3. \/ plan'[c] = << >> /\ phase'[c] = "blocked"
      \/ o.op = "up" /\ plan'[c] = UpPlan(TheProject, Snapshot, Options(o)) /\ phase'[c] = "planned"
      \/ o.op # "up" /\ plan'[c] = DownPlan(TheProject, Snapshot, Options(o)) /\ phase'[c] = "planned"
  BY <1>2 DEF CommandTypes
<1>4. \A d \in Commands : d # c =>
        /\ operation'[d] = operation[d] /\ plan'[d] = plan[d] /\ phase'[d] = phase[d]
        /\ fate'[d] = fate[d] /\ seen'[d] = seen[d]
  BY <1>1, <1>2 DEF CommandTypes, RemovalTypes
<1>5. operation'[c] = o /\ fate'[c] = [a \in DOMAIN plan'[c] |-> "waiting"]
  BY <1>1 DEF CommandTypes, RemovalTypes
<1>6. o.op # "up" => o.op = "down"
  BY ProjectAssumption
<1>7. DOMAIN << >> = {}
  OBVIOUS
<1>8. QED
  BY <1>1, <1>3, <1>4, <1>5, <1>6, <1>7

LEMMA ForgetShows ==
  ASSUME ForeignInv, NEW c \in Commands, NEW left, Forget(c, left),
         NEW ph, phase' = [phase EXCEPT ![c] = ph]
  PROVE  /\ \A d \in Commands : d # c =>
              /\ plan'[d] = plan[d] /\ phase'[d] = phase[d] /\ fate'[d] = fate[d]
              /\ seen'[d] = seen[d] /\ outputs'[d] = outputs[d]
         /\ phase'[c] = ph
         /\ plan'[c] = [a \in left |-> {}] /\ fate'[c] = [a \in left |-> "running"]
         /\ seen'[c] = [a \in left |-> seen[c][a]]
  BY DEF Forget, ForeignInv, TypeOK, CommandTypes

(* Every action of a plan has a fate of its own.                           *)
LEMMA OneFate ==
  ASSUME ForeignInv, NEW c \in Commands, NEW a \in DOMAIN plan[c], NEW f,
         fate' = [fate EXCEPT ![c][a] = f]
  PROVE  /\ fate'[c][a] = f
         /\ \A b \in DOMAIN plan[c] : b # a => fate'[c][b] = fate[c][b]
         /\ \A d \in Commands : d # c => fate'[d] = fate[d]
  BY DEF ForeignInv, TypeOK, CommandTypes

LEMMA BeginShapes ==
  ASSUME ForeignInv, RemovalInv, NEW c \in Commands, NEW o \in Operations, Begin(c, o),
         \A d \in Commands : PlanShape(d)
  PROVE  \A d \in Commands : PlanShape(d)'
<1>1. ASSUME NEW d \in Commands, d # c
      PROVE  PlanShape(d)'
  BY <1>1, BeginShows DEF PlanShape, Alive
<1>2. PlanShape(c)'
  <2>1. /\ operation'[c] = o /\ phase'[c] \in {"planned", "blocked"}
        /\ phase'[c] = "blocked" => DOMAIN plan'[c] = {}
        /\ \A a \in DOMAIN plan'[c] : fate'[c][a] = "waiting"
    BY BeginShows
  <2>2. CASE DOMAIN plan'[c] = {}
    BY <2>1, <2>2 DEF PlanShape
  <2>3. CASE o.op = "up" /\ plan'[c] = UpPlan(TheProject, Snapshot, Options(o))
    <3>1. \A a \in DOMAIN plan'[c] :
            /\ a.kind \notin {"StopContainer", "RemoveContainer"}
            /\ a.kind = "CreateContainer" => a = CreateId(Name(a))
            /\ a.kind = "StartContainer" =>
                 /\ a = StartId(Name(a)) /\ Name(a) \in Active(TheProject)
                 /\ plan'[c][a] = StartAfter(TheProject, Name(a)) /\ plan'[c][a] \subseteq DOMAIN plan'[c]
            /\ a.kind = "WaitForDependency" =>
                 /\ a.disc[1] \in WaitedFor(TheProject, Name(a))
                 /\ plan'[c][a] = {StartId(a.disc[1])} /\ plan'[c][a] \subseteq DOMAIN plan'[c]
      BY <2>3, UpStarts, UpStopsNothing
    <3>2. QED
      BY <2>1, <3>1 DEF PlanShape
  <2>4. CASE o.op = "down" /\ plan'[c] = DownPlan(TheProject, Snapshot, Options(o))
    BY <2>1, <2>4, DownStarts DEF PlanShape
  <2>5. QED
    BY <2>2, <2>3, <2>4, BeginShows
<1>3. QED
  BY <1>1, <1>2

LEMMA AnswerShapes ==
  ASSUME ForeignInv, NEW c \in Commands, NEW a \in DOMAIN plan[c], NEW f \in Settled, Answer(c, a, f),
         fate[c][a] = "running" \/ (fate[c][a] = "waiting" /\ phase[c] = "applying"),
         \A d \in Commands : PlanShape(d)
  PROVE  \A d \in Commands : PlanShape(d)'
<1>1. UNCHANGED <<operation, phase, plan>> /\ fate' = [fate EXCEPT ![c][a] = f]
  BY DEF Answer
<1>2. f # "running"
  BY DEF Settled
<1>3. ASSUME NEW d \in Commands, d # c
      PROVE  PlanShape(d)'
  BY <1>1, <1>3, OneFate DEF PlanShape, Alive
<1>4. PlanShape(c)'
  <2>1. phase[c] # "planned"
    BY DEF PlanShape
  <2>5. fate'[c][a] = f /\ \A b \in DOMAIN plan[c] : b # a => fate'[c][b] = fate[c][b]
    BY <1>1 DEF ForeignInv, TypeOK, CommandTypes
  <2>2. ASSUME NEW b \in DOMAIN plan[c], Alive(c), b.kind = "WaitForDependency", fate'[c][b] = "running"
        PROVE  fate'[c][StartId(b.disc[1])] = "succeeded"
    <3>1. b # a /\ fate[c][b] = "running"
      <4>1. fate'[c][a] = f /\ (b # a => fate'[c][b] = fate[c][b])
        BY <2>5
      <4>2. QED
        BY <1>2, <2>2, <4>1
    <3>2. StartId(b.disc[1]) \in DOMAIN plan[c] /\ fate[c][StartId(b.disc[1])] = "succeeded"
      BY <2>2, <3>1 DEF PlanShape
    <3>3. a # StartId(b.disc[1])
      BY <3>2
    <3>4. QED
      BY <1>1, <3>2, <3>3, OneFate
  <2>3. Alive(c)' <=> Alive(c)
    BY <1>1 DEF Alive
  <2>4. QED
    BY <1>1, <2>1, <2>2, <2>3 DEF PlanShape
<1>5. QED
  BY <1>3, <1>4

LEMMA SpawnShapes ==
  ASSUME ForeignInv, NEW c \in Commands, NEW a \in DOMAIN plan[c], Spawn(c, a),
         \A d \in Commands : PlanShape(d)
  PROVE  \A d \in Commands : PlanShape(d)'
<1>1. /\ UNCHANGED <<operation, phase, plan>> /\ fate' = [fate EXCEPT ![c][a] = "running"]
      /\ phase[c] = "applying" /\ fate[c][a] = "waiting"
      /\ \A d \in plan[c][a] : fate[c][d] = "succeeded"
  BY DEF Spawn
<1>2. ASSUME NEW d \in Commands, d # c
      PROVE  PlanShape(d)'
  BY <1>1, <1>2, OneFate DEF PlanShape, Alive
<1>3. PlanShape(c)'
  <2>1. ASSUME NEW b \in DOMAIN plan[c], b.kind = "WaitForDependency", fate'[c][b] = "running"
        PROVE  fate'[c][StartId(b.disc[1])] = "succeeded"
    <3>1. StartId(b.disc[1]) \in DOMAIN plan[c] /\ fate[c][StartId(b.disc[1])] = "succeeded"
      <4>1. Alive(c)
        BY <1>1 DEF Alive
      <4>2. plan[c][b] = {StartId(b.disc[1])} /\ plan[c][b] \subseteq DOMAIN plan[c]
        BY <2>1, <4>1 DEF PlanShape
      <4>3. CASE b = a
        BY <1>1, <4>2, <4>3
      <4>4. CASE b # a
        <5>1. fate[c][b] = "running"
          BY <1>1, <2>1, <4>4, OneFate
        <5>2. QED
          BY <2>1, <4>1, <4>2, <5>1 DEF PlanShape
      <4>5. QED
        BY <4>3, <4>4
    <3>2. QED
      BY <1>1, <3>1, OneFate
  <2>2. QED
    BY <1>1, <2>1 DEF PlanShape, Alive
<1>4. QED
  BY <1>2, <1>3

LEMMA ApplyShapes ==
  ASSUME ForeignInv, NEW c \in Commands, Apply(c), \A d \in Commands : PlanShape(d)
  PROVE  \A d \in Commands : PlanShape(d)'
<1>1. /\ UNCHANGED <<operation, plan, fate>> /\ phase[c] = "planned" /\ phase'[c] = "applying"
      /\ \A d \in Commands : d # c => phase'[d] = phase[d]
  BY DEF Apply, ForeignInv, TypeOK, CommandTypes
<1>2. QED
  BY <1>1 DEF PlanShape, Alive

LEMMA ForgetShapes ==
  ASSUME ForeignInv, NEW c \in Commands, NEW left \in SUBSET DOMAIN plan[c], Forget(c, left),
         UNCHANGED operation,
         NEW ph, phase' = [phase EXCEPT ![c] = ph], (ph = "closed" /\ left = {}) \/ ph = "dead",
         \A d \in Commands : PlanShape(d)
  PROVE  \A d \in Commands : PlanShape(d)'
<1>1. /\ \A d \in Commands : d # c =>
           plan'[d] = plan[d] /\ phase'[d] = phase[d] /\ fate'[d] = fate[d]
      /\ phase'[c] = ph /\ plan'[c] = [a \in left |-> {}]
  BY ForgetShows
<1>2. ASSUME NEW d \in Commands, d # c
      PROVE  PlanShape(d)'
  BY <1>1, <1>2 DEF PlanShape, Alive
<1>3. PlanShape(c)'
  <2>1. DOMAIN plan'[c] = left /\ operation'[c] = operation[c]
    BY <1>1
  <2>2. phase'[c] \in {"closed", "dead"} /\ (phase'[c] = "closed" => left = {})
    BY <1>1
  <2>3. QED
    BY <2>1, <2>2 DEF PlanShape, Alive
<1>4. QED
  BY <1>2, <1>3

-----------------------------------------------------------------------------
\* Who goes on with which container.

(* A step of `c` makes one container at most its own, a new one, and       *)
(* nobody else's.                                                          *)
Grows(c) ==
  \A e \in Commands : \A s \in Services :
    LET new == IF e = c /\ made'[s] = made[s] + 1 THEN {made[s] + 1} ELSE {}
    IN  /\ Owned(e, s)' \subseteq Owned(e, s) \cup new
        /\ MayStart(e, s)' \subseteq MayStart(e, s) \cup new

(* A command whose plan, fates, references and outputs stay owns the same. *)
LEMMA OwnsTheSame ==
  ASSUME NEW e, NEW s, phase'[e] = phase[e], plan'[e] = plan[e], fate'[e] = fate[e],
         seen'[e] = seen[e], Made(e, s) # {} => outputs'[e].containers[s] = outputs[e].containers[s]
  PROVE  Owned(e, s)' = Owned(e, s) /\ MayStart(e, s)' = MayStart(e, s)
<1>1. Made(e, s)' = Made(e, s)
  BY DEF Made
<1>2. Starting(e, s)' = Starting(e, s)
  BY DEF Starting, InFlight
<1>3. QED
  BY <1>1, <1>2 DEF Owned, MayStart

LEMMA AnswerGrows ==
  ASSUME ForeignInv, NEW c \in Commands, NEW a \in DOMAIN plan[c], NEW f \in Settled, Answer(c, a, f),
         \A d \in Commands : PlanShape(d)
  PROVE  Grows(c)
<1>1. UNCHANGED <<phase, plan, seen>> /\ fate' = [fate EXCEPT ![c][a] = f]
  BY DEF Answer
<1>2. f \notin {"running", "waiting"}
  BY DEF Settled
<1> SUFFICES ASSUME NEW e \in Commands, NEW s \in Services
             PROVE  LET new == IF e = c /\ made'[s] = made[s] + 1 THEN {made[s] + 1} ELSE {}
                    IN  /\ Owned(e, s)' \subseteq Owned(e, s) \cup new
                        /\ MayStart(e, s)' \subseteq MayStart(e, s) \cup new
  BY DEF Grows
<1>3. CASE e # c
  <2>1. outputs'[e].containers[s] = outputs[e].containers[s]
    BY <1>3 DEF Answer
  <2>2. fate'[e] = fate[e]
    BY <1>1, <1>3, OneFate
  <2>3. QED
    BY <1>1, <2>1, <2>2, OwnsTheSame
<1>4. CASE e = c
  <2> DEFINE new == IF made'[s] = made[s] + 1 THEN {made[s] + 1} ELSE {}
  <2>1. \A b \in DOMAIN plan[c] : fate'[c][b] \in {"running", "waiting"} => fate'[c][b] = fate[c][b]
    BY <1>1, <1>2, OneFate
  <2>2. Starting(c, s)' \subseteq Starting(c, s)
    BY <1>1, <2>1 DEF Starting, InFlight
  <2>3. Made(c, s)' \subseteq Made(c, s) \cup new
    <3>1. CASE a = CreateId(s) /\ f = "succeeded"
      <4>1. a.kind = "CreateContainer" /\ Name(a) = s
        BY <3>1 DEF CreateId, Id, Name
      <4>2. made'[s] = made[s] + 1 /\ (phase[c] = "applying" => outputs'[c].containers[s] = made[s] + 1)
        BY <3>1, <4>1 DEF Answer
      <4>3. QED
        BY <1>1, <4>2 DEF Made
    <3>2. CASE ~ (a = CreateId(s) /\ f = "succeeded")
      <4>1. outputs'[c].containers[s] = outputs[c].containers[s]
        BY <3>2 DEF Answer, PlanShape
      <4>2. CreateId(s) \in DOMAIN plan[c] /\ fate'[c][CreateId(s)] = "succeeded"
              => fate[c][CreateId(s)] = "succeeded"
        BY <1>1, <3>2, OneFate
      <4>3. QED
        BY <1>1, <4>1, <4>2 DEF Made
    <3>3. QED
      BY <3>1, <3>2
  <2>4. StartId(s) \in DOMAIN plan'[c] /\ fate'[c][StartId(s)] = "waiting"
          => StartId(s) \in DOMAIN plan[c] /\ fate[c][StartId(s)] = "waiting"
    BY <1>1, <2>1
  <2> HIDE DEF new
  <2>5. Owned(c, s)' \subseteq Owned(c, s) \cup new /\ MayStart(c, s)' \subseteq MayStart(c, s) \cup new
    BY <2>2, <2>3, <2>4 DEF Owned, MayStart
  <2>6. QED
    BY <1>4, <2>5 DEF new
<1>5. QED
  BY <1>3, <1>4

LEMMA SpawnGrows ==
  ASSUME ForeignInv, NEW c \in Commands, NEW a \in DOMAIN plan[c], Spawn(c, a),
         \A d \in Commands : PlanShape(d)
  PROVE  \A e \in Commands : \A s \in Services :
           Owned(e, s)' \subseteq Owned(e, s) /\ MayStart(e, s)' \subseteq MayStart(e, s)
<1> SUFFICES ASSUME NEW e \in Commands, NEW s \in Services
             PROVE  Owned(e, s)' \subseteq Owned(e, s) /\ MayStart(e, s)' \subseteq MayStart(e, s)
  OBVIOUS
<1>1. /\ UNCHANGED <<phase, plan, outputs>> /\ fate' = [fate EXCEPT ![c][a] = "running"]
      /\ seen' = [seen EXCEPT ![c][a] = Reference(c, a)]
      /\ phase[c] = "applying" /\ fate[c][a] = "waiting"
      /\ \A d \in plan[c][a] : fate[c][d] = "succeeded"
  BY DEF Spawn
<1>2. CASE e # c
  <2>1. fate'[e] = fate[e] /\ seen'[e] = seen[e]
    BY <1>1, <1>2 DEF ForeignInv, TypeOK, CommandTypes
  <2>2. QED
    BY <1>1, <2>1, OwnsTheSame
<1>3. CASE e = c
  <2>1. /\ \A b \in DOMAIN plan[c] : b # a => seen'[c][b] = seen[c][b] /\ fate'[c][b] = fate[c][b]
        /\ seen'[c][a] = Reference(c, a) /\ fate'[c][a] = "running"
    BY <1>1 DEF ForeignInv, TypeOK, CommandTypes
  <2>2. Made(c, s)' \subseteq Made(c, s)
    BY <1>1, <2>1 DEF Made
  <2>3. CASE a = StartId(s)
    <3>1. a.kind = "StartContainer" /\ Name(a) = s
      BY <2>3 DEF StartId, Id, Name
    <3>2. seen'[c][a] = outputs[c].containers[s]
      BY <2>1, <3>1 DEF Reference
    <3>3. CreateId(s) \in plan[c][a] /\ plan[c][a] \subseteq DOMAIN plan[c]
      BY <1>1, <3>1 DEF PlanShape, Alive, StartAfter
    <3>4. Made(c, s) = {outputs[c].containers[s]}
      BY <1>1, <3>3 DEF Made
    <3>5. Starting(c, s)' \subseteq Made(c, s)
      BY <2>3, <3>2, <3>4 DEF Starting
    <3>6. Made(c, s) \subseteq MayStart(c, s)
      BY <1>1, <2>3 DEF MayStart
    <3>7. StartId(s) \in DOMAIN plan'[c] /\ fate'[c][StartId(s)] = "waiting" => FALSE
      BY <1>1, <2>1, <2>3
    <3>8. QED
      BY <1>3, <2>2, <3>5, <3>6, <3>7 DEF Owned, MayStart
  <2>4. CASE a # StartId(s)
    <3>1. Starting(c, s)' = Starting(c, s)
      BY <1>1, <2>1, <2>4 DEF Starting, InFlight
    <3>2. StartId(s) \in DOMAIN plan'[c] /\ fate'[c][StartId(s)] = "waiting"
            => StartId(s) \in DOMAIN plan[c] /\ fate[c][StartId(s)] = "waiting"
      BY <1>1, <2>1, <2>4
    <3>3. QED
      BY <1>3, <2>2, <3>1, <3>2 DEF Owned, MayStart
  <2>5. QED
    BY <2>3, <2>4
<1>4. QED
  BY <1>2, <1>3

LEMMA ApplyGrows ==
  ASSUME ForeignInv, NEW c \in Commands, Apply(c), \A d \in Commands : PlanShape(d)
  PROVE  \A e \in Commands : \A s \in Services :
           Owned(e, s)' \subseteq Owned(e, s) /\ MayStart(e, s)' \subseteq MayStart(e, s)
<1>1. /\ UNCHANGED <<operation, plan, fate, seen>> /\ phase[c] = "planned"
      /\ \A d \in Commands : d # c => phase'[d] = phase[d] /\ outputs'[d] = outputs[d]
  BY DEF Apply, ForeignInv, TypeOK, CommandTypes
<1>2. ASSUME NEW s \in Services
      PROVE  Owned(c, s)' = {} /\ MayStart(c, s)' = {}
  <2>1. \A a \in DOMAIN plan[c] : fate[c][a] = "waiting"
    BY <1>1 DEF PlanShape
  <2>2. Made(c, s)' = {} /\ Starting(c, s)' = {}
    BY <1>1, <2>1 DEF Made, Starting, InFlight
  <2>3. QED
    BY <2>2 DEF Owned, MayStart
<1>3. ASSUME NEW e \in Commands, NEW s \in Services, e # c
      PROVE  Owned(e, s)' = Owned(e, s) /\ MayStart(e, s)' = MayStart(e, s)
  BY <1>1, <1>3, OwnsTheSame
<1>4. QED
  BY <1>2, <1>3

LEMMA BeginGrows ==
  ASSUME ForeignInv, RemovalInv, NEW c \in Commands, NEW o \in Operations, Begin(c, o)
  PROVE  \A e \in Commands : \A s \in Services :
           Owned(e, s)' \subseteq Owned(e, s) /\ MayStart(e, s)' \subseteq MayStart(e, s)
<1>1. ASSUME NEW s \in Services
      PROVE  Owned(c, s)' = {} /\ MayStart(c, s)' = {}
  <2>1. phase'[c] # "applying" /\ \A a \in DOMAIN plan'[c] : fate'[c][a] = "waiting"
    BY BeginShows
  <2>2. Made(c, s)' = {} /\ Starting(c, s)' = {}
    BY <2>1 DEF Made, Starting, InFlight
  <2>3. QED
    BY <2>2 DEF Owned, MayStart
<1>2. ASSUME NEW e \in Commands, NEW s \in Services, e # c
      PROVE  Owned(e, s)' = Owned(e, s) /\ MayStart(e, s)' = MayStart(e, s)
  BY <1>2, BeginShows, OwnsTheSame
<1>3. QED
  BY <1>1, <1>2

LEMMA ForgetGrows ==
  ASSUME ForeignInv, NEW c \in Commands, NEW left \in SUBSET InFlight(c), Forget(c, left),
         NEW ph \in {"closed", "dead"}, phase' = [phase EXCEPT ![c] = ph]
  PROVE  \A e \in Commands : \A s \in Services :
           Owned(e, s)' \subseteq Owned(e, s) /\ MayStart(e, s)' \subseteq MayStart(e, s)
<1>1. ASSUME NEW s \in Services
      PROVE  Owned(c, s)' \subseteq Owned(c, s) /\ MayStart(c, s)' \subseteq MayStart(c, s)
  <2>1. /\ phase'[c] # "applying"
        /\ plan'[c] = [a \in left |-> {}] /\ fate'[c] = [a \in left |-> "running"]
        /\ seen'[c] = [a \in left |-> seen[c][a]]
    BY ForgetShows
  <2>2. Made(c, s)' = {}
    BY <2>1 DEF Made
  <2>3. Starting(c, s)' \subseteq Starting(c, s)
    BY <2>1 DEF Starting, InFlight
  <2>4. QED
    BY <2>2, <2>3 DEF Owned, MayStart
<1>2. ASSUME NEW e \in Commands, NEW s \in Services, e # c
      PROVE  Owned(e, s)' = Owned(e, s) /\ MayStart(e, s)' = MayStart(e, s)
  BY <1>2, ForgetShows, OwnsTheSame
<1>3. QED
  BY <1>1, <1>2

-----------------------------------------------------------------------------
\* What every step does.

Shrinks ==
  \A e \in Commands : \A s \in Services :
    Owned(e, s)' \subseteq Owned(e, s) /\ MayStart(e, s)' \subseteq MayStart(e, s)

Moves ==
  /\ Turns
  /\ Shrinks \/ \E c \in Commands : Grows(c)
  /\ \A d \in Commands : PlanShape(d)'

LEMMA AnswerMoves ==
  ASSUME ForeignInv, NEW c \in Commands, NEW a \in DOMAIN plan[c], NEW f \in Settled, Answer(c, a, f),
         fate[c][a] = "running" \/ (fate[c][a] = "waiting" /\ phase[c] = "applying"),
         Turns, \A d \in Commands : PlanShape(d)
  PROVE  Moves
<1>1. Grows(c)
  BY AnswerGrows
<1>2. \A d \in Commands : PlanShape(d)'
  BY AnswerShapes
<1>3. QED
  BY <1>1, <1>2 DEF Moves

LEMMA ForgetMoves ==
  ASSUME ForeignInv, NEW c \in Commands, NEW left \in SUBSET InFlight(c), Forget(c, left),
         UNCHANGED <<engineVars, operation>>,
         NEW ph \in {"closed", "dead"}, phase' = [phase EXCEPT ![c] = ph], ph = "closed" => left = {},
         \A d \in Commands : PlanShape(d)
  PROVE  Moves
<1>1. Shrinks
  BY ForgetGrows DEF Shrinks
<1>2. left \in SUBSET DOMAIN plan[c] /\ ((ph = "closed" /\ left = {}) \/ ph = "dead") /\ UNCHANGED operation
  BY DEF InFlight
<1>3. \A d \in Commands : PlanShape(d)'
  BY <1>2, ForgetShapes
<1>4. Turns
  BY DEF Turns, Turn, engineVars
<1>5. QED
  BY <1>1, <1>3, <1>4 DEF Moves

LEMMA NextMoves ==
  ASSUME ForeignInv, RemovalInv, [Next]_vars, \A d \in Commands : PlanShape(d)
  PROVE  Moves
<1>1. ASSUME NEW c \in Commands, NEW o \in Operations, Begin(c, o) PROVE Moves
  <2>1. Shrinks
    BY <1>1, BeginGrows DEF Shrinks
  <2>2. \A d \in Commands : PlanShape(d)'
    BY <1>1, BeginShapes
  <2>3. Turns
    BY <1>1 DEF Begin, Turns, Turn, engineVars
  <2>4. QED
    BY <2>1, <2>2, <2>3 DEF Moves
<1>2. ASSUME NEW c \in Commands, Apply(c) PROVE Moves
  <2>1. Shrinks
    BY <1>2, ApplyGrows DEF Shrinks
  <2>2. \A d \in Commands : PlanShape(d)'
    BY <1>2, ApplyShapes
  <2>3. Turns
    BY <1>2 DEF Apply, Turns, Turn, engineVars
  <2>4. QED
    BY <2>1, <2>2, <2>3 DEF Moves
<1>3. ASSUME NEW c \in Commands, NEW a \in DOMAIN plan[c], Spawn(c, a) PROVE Moves
  <2>1. Shrinks
    BY <1>3, SpawnGrows DEF Shrinks
  <2>2. \A d \in Commands : PlanShape(d)'
    BY <1>3, SpawnShapes
  <2>3. Turns
    BY <1>3 DEF Spawn, Turns, Turn, engineVars
  <2>4. QED
    BY <2>1, <2>2, <2>3 DEF Moves
<1>4. ASSUME NEW c \in Commands, NEW a \in DOMAIN plan[c], Skip(c, a) \/ Fault(c, a) PROVE Moves
  <2>1. PICK f \in Settled : Answer(c, a, f)
    BY <1>4 DEF Skip, Fault, Answer, Settled, steadyVars
  <2>2. Turns
    BY <1>4 DEF Skip, Fault, Turns, Turn, engineVars
  <2>3. fate[c][a] = "running" \/ (fate[c][a] = "waiting" /\ phase[c] = "applying")
    BY <1>4 DEF Skip, Fault, InFlight
  <2>4. QED
    BY <2>1, <2>2, <2>3, AnswerMoves
<1>5. ASSUME NEW c \in Commands, Close(c) PROVE Moves
  <2>1. /\ UNCHANGED <<engineVars, operation>> /\ Forget(c, {})
        /\ phase' = [phase EXCEPT ![c] = "closed"]
    BY <1>5 DEF Close
  <2>2. QED
    BY <2>1, ForgetMoves
<1>6. ASSUME NEW c \in Commands, Kill(c) PROVE Moves
  <2> DEFINE left == {a \in InFlight(c) : a.kind \notin {"WaitForDependency", "NoOp"}}
  <2>1. /\ UNCHANGED <<engineVars, operation>> /\ Forget(c, left)
        /\ phase' = [phase EXCEPT ![c] = "dead"]
    BY <1>6 DEF Kill
  <2>2. left \in SUBSET InFlight(c)
    OBVIOUS
  <2> HIDE DEF left
  <2>3. QED
    BY <2>1, <2>2, ForgetMoves
<1>7. ASSUME NEW c \in Commands, Request(c) PROVE Moves
  <2>1. PICK a \in DOMAIN plan[c] :
          \/ NothingToAsk(c, a) \/ PullImage(c, a)
          \/ CreateNetwork(c, a) \/ CreateVolume(c, a) \/ CreateContainer(c, a)
          \/ StartContainer(c, a) \/ WaitForDependency(c, a) \/ StopContainer(c, a)
          \/ RemoveContainer(c, a) \/ RemoveNetwork(c, a) \/ RemoveVolume(c, a)
    BY <1>7 DEF Request
  <2>2. a \in InFlight(c)
    BY <2>1 DEF NothingToAsk, PullImage, CreateNetwork, CreateVolume, CreateContainer, StartContainer,
                WaitForDependency, StopContainer, RemoveContainer, RemoveNetwork, RemoveVolume, Asks
  <2>3. PICK f \in {"succeeded", "failed"} : Answer(c, a, f)
    BY <2>1, RequestsAnswer
  <2>4. Turns
    BY <2>1, RequestsTurn
  <2>5. f \in Settled /\ fate[c][a] = "running"
    BY <2>2 DEF Settled, InFlight
  <2>6. QED
    BY <2>3, <2>4, <2>5, AnswerMoves
<1>8. ASSUME UNCHANGED commandVars PROVE Shrinks /\ \A d \in Commands : PlanShape(d)'
  BY <1>8, OwnsTheSame DEF commandVars, Shrinks, PlanShape, Alive
<1>9. ASSUME Meddles \/ \E s \in Services : ProcessExits(s) \/ BecomesHealthy(s) PROVE Moves
  <2>1. UNCHANGED commandVars
    BY <1>9, MeddlesOpenly DEF ProcessExits, BecomesHealthy, quietVars
  <2>2. QED
    BY <1>8, <1>9, <2>1, EnvironmentTurns DEF Moves
<1>10. CASE UNCHANGED vars
  <2>1. Turns
    BY <1>10 DEF vars, Turns, Turn, engineVars
  <2>2. QED
    BY <1>8, <1>10, <2>1 DEF Moves, vars
<1>11. QED
  BY <1>1, <1>2, <1>3, <1>4, <1>5, <1>6, <1>7, <1>9, <1>10 DEF Next, Step, Environment, Meddles, Rest

LEMMA OnceMore ==
  ASSUME ForeignInv, RemovalInv, OwnedOnce, Moves
  PROVE  OwnedOnce'
<1> USE DEF ForeignInv, TypeOK, RemovalInv, EngineTypes
<1>1. ASSUME NEW s \in Services
      PROVE  containers'[s].state # "absent" => containers'[s].id # 0
  BY DEF Moves, Turns, Turn, OwnedOnce, NoContainer, Live, Present
<1>2. ASSUME NEW s \in Services
      PROVE  made[s] \in Nat /\ made'[s] \in {made[s], made[s] + 1}
  BY DEF Moves, Turns
<1>3. ASSUME NEW s \in Services, NEW c \in Commands, NEW d \in Commands, d # c
      PROVE  Owned(c, s)' \subseteq 0..made'[s] /\ Owned(c, s)' \cap Owned(d, s)' = {}
  <2>1. /\ Owned(c, s) \subseteq 0..made[s] /\ Owned(d, s) \subseteq 0..made[s]
        /\ Owned(c, s) \cap Owned(d, s) = {}
    BY <1>3 DEF OwnedOnce
  <2>2. made[s] + 1 \notin 0..made[s] /\ 0..made[s] \subseteq 0..made'[s]
        /\ (made'[s] = made[s] + 1 => made[s] + 1 \in 0..made'[s])
    BY <1>2
  <2>3. CASE Shrinks
    BY <2>1, <2>2, <2>3 DEF Shrinks
  <2>4. ASSUME NEW e \in Commands, Grows(e)
        PROVE  Owned(c, s)' \subseteq 0..made'[s] /\ Owned(c, s)' \cap Owned(d, s)' = {}
    <3>1. /\ c # e => Owned(c, s)' \subseteq Owned(c, s)
          /\ d # e => Owned(d, s)' \subseteq Owned(d, s)
          /\ Owned(c, s)' \subseteq Owned(c, s) \cup {made[s] + 1}
          /\ Owned(d, s)' \subseteq Owned(d, s) \cup {made[s] + 1}
          /\ made'[s] # made[s] + 1 => Owned(c, s)' \subseteq Owned(c, s)
      BY <2>4 DEF Grows
    <3>2. c # e \/ d # e
      BY <1>3
    <3>3. QED
      BY <2>1, <2>2, <3>1, <3>2
  <2>5. QED
    BY <2>3, <2>4 DEF Moves
<1>4. ASSUME NEW s \in Services, NEW c \in Commands
      PROVE  Owned(c, s)' \subseteq 0..made'[s]
  <2>1. Owned(c, s) \subseteq 0..made[s]
    BY DEF OwnedOnce
  <2>2. 0..made[s] \subseteq 0..made'[s] /\ (made'[s] = made[s] + 1 => made[s] + 1 \in 0..made'[s])
    BY <1>2
  <2>3. Owned(c, s)' \subseteq Owned(c, s) \cup (IF made'[s] = made[s] + 1 THEN {made[s] + 1} ELSE {})
    BY DEF Moves, Shrinks, Grows
  <2>4. QED
    BY <2>1, <2>2, <2>3
<1>5. QED
  BY <1>1, <1>3, <1>4 DEF OwnedOnce

-----------------------------------------------------------------------------
\* Who is under way, and when it becomes quiet.

(* Nothing begins: nobody gets under way, and what was disturbed stays so. *)
Subsides ==
  /\ UNCHANGED operation /\ (meddling' = 0 => meddling = 0)
  /\ \A d \in Commands : (UnderWay(d)' => UnderWay(d)) /\ (calm[d]' => calm[d])

LEMMA AnswerSubsides ==
  ASSUME ForeignInv, NEW c \in Commands, NEW a \in DOMAIN plan[c], NEW f \in Settled, Answer(c, a, f),
         UNCHANGED <<operation, meddling>>, UNCHANGED calm \/ Disturb
  PROVE  Subsides /\ UNCHANGED phase
<1>1. UNCHANGED <<phase, plan>> /\ fate' = [fate EXCEPT ![c][a] = f]
  BY DEF Answer
<1>2. f # "running"
  BY DEF Settled
<1>3. \A d \in Commands : \A b \in DOMAIN plan[d] : fate'[d][b] = "running" => fate[d][b] = "running"
  BY <1>1, <1>2 DEF ForeignInv, TypeOK, CommandTypes
<1>4. \A d \in Commands : UnderWay(d)' => UnderWay(d)
  BY <1>1, <1>3 DEF UnderWay, Alive, InFlight
<1>5. \A d \in Commands : calm[d]' => calm[d]
  BY DEF Disturb
<1>6. QED
  BY <1>1, <1>4, <1>5 DEF Subsides

LEMMA RequestsRuffle ==
  ASSUME NEW c \in Commands, NEW a \in DOMAIN plan[c],
         \/ NothingToAsk(c, a) \/ PullImage(c, a)
         \/ CreateNetwork(c, a) \/ CreateVolume(c, a) \/ CreateContainer(c, a)
         \/ StartContainer(c, a) \/ WaitForDependency(c, a) \/ StopContainer(c, a)
         \/ RemoveContainer(c, a) \/ RemoveNetwork(c, a) \/ RemoveVolume(c, a)
  PROVE  UNCHANGED <<operation, meddling>> /\ (UNCHANGED calm \/ Disturb)
  BY DEF NothingToAsk, PullImage, CreateNetwork, CreateVolume, CreateContainer, StartContainer,
         WaitForDependency, StopContainer, RemoveContainer, RemoveNetwork, RemoveVolume,
         Succeeds, Fails, steadyVars

(* Every step begins a command, or things subside, and only the end of a   *)
(* command closes it.                                                      *)
LEMMA NextSubsides ==
  ASSUME ForeignInv, RemovalInv, [Next]_vars
  PROVE  \/ \E c \in Commands : \E o \in Operations : Begin(c, o)
         \/ /\ Subsides
            /\ \A d \in Commands : phase[d]' = "closed" => phase[d] = "closed" \/ Close(d)
<1> USE DEF ForeignInv, TypeOK, CommandTypes
<1> DEFINE Goal == /\ Subsides
                   /\ \A d \in Commands : phase[d]' = "closed" => phase[d] = "closed" \/ Close(d)
<1>1. ASSUME NEW c \in Commands, Apply(c) PROVE Goal
  <2>1. UNCHANGED <<operation, plan, fate, meddling, calm>> /\ phase[c] = "planned"
    BY <1>1 DEF Apply
  <2>2. phase'[c] = "applying" /\ \A d \in Commands : d # c => phase'[d] = phase[d]
    BY <1>1 DEF Apply
  <2>3. QED
    BY <2>1, <2>2 DEF Subsides, UnderWay, Alive, InFlight
<1>2. ASSUME NEW c \in Commands, NEW a \in DOMAIN plan[c], Spawn(c, a) PROVE Goal
  <2>1. UNCHANGED <<operation, phase, plan, meddling, calm>> /\ phase[c] = "applying"
        /\ \A d \in Commands : d # c => fate'[d] = fate[d]
    BY <1>2 DEF Spawn
  <2>2. QED
    BY <2>1 DEF Subsides, UnderWay, Alive, InFlight
<1>3. ASSUME NEW c \in Commands, NEW a \in DOMAIN plan[c], Skip(c, a) \/ Fault(c, a) PROVE Goal
  <2>1. PICK f \in Settled : Answer(c, a, f)
    BY <1>3 DEF Skip, Fault, Answer, Settled, steadyVars
  <2>2. UNCHANGED <<operation, meddling>> /\ (UNCHANGED calm \/ Disturb)
    BY <1>3 DEF Skip, Fault, steadyVars
  <2>3. QED
    BY <2>1, <2>2, AnswerSubsides
<1>4. ASSUME NEW c \in Commands, NEW left, Forget(c, left), Alive(c),
             NEW ph \in {"closed", "dead"}, phase' = [phase EXCEPT ![c] = ph],
             UNCHANGED <<operation, meddling, calm>>, ph = "closed" => Close(c)
      PROVE  Goal
  <2>1. /\ \A d \in Commands : d # c => plan'[d] = plan[d] /\ phase'[d] = phase[d] /\ fate'[d] = fate[d]
        /\ phase'[c] = ph
    BY <1>4, ForgetShows
  <2>2. UnderWay(c)
    BY <1>4 DEF UnderWay
  <2>3. \A d \in Commands : d # c => (UnderWay(d)' <=> UnderWay(d))
    BY <2>1 DEF UnderWay, Alive, InFlight
  <2>4. QED
    BY <1>4, <2>1, <2>2, <2>3 DEF Subsides
<1>5. ASSUME NEW c \in Commands, Close(c) PROVE Goal
  <2>1. /\ UNCHANGED <<operation, meddling, calm>> /\ Forget(c, {}) /\ Alive(c)
        /\ phase' = [phase EXCEPT ![c] = "closed"]
    BY <1>5 DEF Close, Alive
  <2>2. QED
    BY <1>4, <1>5, <2>1
<1>6. ASSUME NEW c \in Commands, Kill(c) PROVE Goal
  <2>1. \E left : Forget(c, left)
    BY <1>6 DEF Kill
  <2>2. UNCHANGED <<operation, meddling, calm>> /\ Alive(c) /\ phase' = [phase EXCEPT ![c] = "dead"]
    BY <1>6 DEF Kill
  <2>3. QED
    BY <1>4, <2>1, <2>2
<1>7. ASSUME NEW c \in Commands, Request(c) PROVE Goal
  <2>1. PICK a \in DOMAIN plan[c] :
          \/ NothingToAsk(c, a) \/ PullImage(c, a)
          \/ CreateNetwork(c, a) \/ CreateVolume(c, a) \/ CreateContainer(c, a)
          \/ StartContainer(c, a) \/ WaitForDependency(c, a) \/ StopContainer(c, a)
          \/ RemoveContainer(c, a) \/ RemoveNetwork(c, a) \/ RemoveVolume(c, a)
    BY <1>7 DEF Request
  <2>2. PICK f \in {"succeeded", "failed"} : Answer(c, a, f)
    BY <2>1, RequestsAnswer
  <2>3. UNCHANGED <<operation, meddling>> /\ (UNCHANGED calm \/ Disturb)
    BY <2>1, RequestsRuffle
  <2>4. f \in Settled
    BY DEF Settled
  <2>5. Subsides /\ UNCHANGED phase
    BY <2>2, <2>3, <2>4, AnswerSubsides
  <2>6. QED
    BY <2>5
<1>8. ASSUME UNCHANGED commandVars, UNCHANGED calm \/ Disturb, meddling' = 0 => meddling = 0 PROVE Goal
  BY <1>8 DEF commandVars, Subsides, Disturb, UnderWay, Alive, InFlight
<1>9. ASSUME Meddles \/ \E s \in Services : ProcessExits(s) \/ BecomesHealthy(s) PROVE Goal
  <2>1. UNCHANGED commandVars /\ (UNCHANGED calm \/ Disturb)
    BY <1>9, MeddlesOpenly DEF ProcessExits, BecomesHealthy, quietVars
  <2>2. meddling' = meddling \/ meddling' = meddling + 1
    BY <1>9, MeddlesOpenly DEF ProcessExits, BecomesHealthy
  <2>3. meddling' = 0 => meddling = 0
    BY <2>2 DEF RemovalInv, RemovalTypes
  <2>4. QED
    BY <1>8, <2>1, <2>3
<1>10. ASSUME UNCHANGED vars PROVE Goal
  <2>1. UNCHANGED <<commandVars, calm, meddling>>
    BY <1>10 DEF vars
  <2>2. QED
    BY <1>8, <2>1
<1> HIDE DEF Goal
<1>11. ASSUME \E c \in Commands : Step(c) \/ Request(c) PROVE Goal
  BY <1>1, <1>2, <1>3, <1>5, <1>7, <1>11 DEF Step
<1>12. ASSUME Environment PROVE Goal
  BY <1>3, <1>6, <1>9, <1>12 DEF Environment, Meddles
<1>13. ASSUME Rest PROVE Goal
  BY <1>10, <1>13 DEF Rest
<1>14. (\E c \in Commands : \E o \in Operations : Begin(c, o)) \/ Goal
  BY <1>10, <1>11, <1>12, <1>13 DEF Next
<1>15. QED
  BY <1>14 DEF Goal

(* Who begins is calm only if nobody else is under way, and disturbs all.  *)
LEMMA BeginAlone ==
  ASSUME ForeignInv, RemovalInv, NEW c \in Commands, NEW o \in Operations, Begin(c, o)
  PROVE  /\ meddling' = meddling
         /\ calm[c]' => \A e \in Commands : ~UnderWay(e)
         /\ \A d \in Commands : d # c => (UnderWay(d)' <=> UnderWay(d)) /\ (calm[d]' => calm[d] /\ ~UnderWay(d))
<1>1. \A d \in Commands : d # c => phase'[d] = phase[d] /\ plan'[d] = plan[d] /\ fate'[d] = fate[d]
  BY BeginShows
<1>2. \A d \in Commands : d # c => (UnderWay(d)' <=> UnderWay(d))
  BY <1>1 DEF UnderWay, Alive, InFlight
<1>3. /\ meddling' = meddling
      /\ calm' = [d \in Commands |->
                    IF d = c THEN ~ \E e \in Commands : UnderWay(e) ELSE calm[d] /\ ~UnderWay(d)]
  BY DEF Begin
<1>4. QED
  BY <1>2, <1>3

LEMMA StillAlone ==
  ASSUME ForeignInv, RemovalInv, CalmAlone, [Next]_vars
  PROVE  CalmAlone'
<1>1. ASSUME NEW c \in Commands, NEW o \in Operations, Begin(c, o)
      PROVE  CalmAlone'
  BY <1>1, BeginAlone DEF CalmAlone
<1>2. CASE Subsides
  BY <1>2 DEF Subsides, CalmAlone
<1>3. QED
  BY <1>1, <1>2, NextSubsides

(* When the last down that interfered ends, nobody is under way.           *)
LEMMA QuietAgain ==
  ASSUME ForeignInv, RemovalInv, CalmAlone, \A d \in Commands : PlanShape(d), [Next]_vars, ~Quiet, Quiet'
  PROVE  \A e \in Commands : ~UnderWay(e)'
<1>1. ASSUME NEW c \in Commands, NEW o \in Operations, Begin(c, o)
      PROVE  FALSE
  <2>1. phase[c] = "idle" /\ operation[c].op # "down"
    BY <1>1 DEF Begin, PlanShape
  <2>2. meddling = 0
    BY <1>1, BeginAlone DEF Quiet
  <2>3. ASSUME NEW d \in Commands, operation[d].op = "down"
        PROVE  calm[d] /\ phase[d] = "closed"
    <3>1. d # c
      BY <2>1, <2>3
    <3>2. operation'[d] = operation[d] /\ phase'[d] = phase[d]
      BY <1>1, <3>1, BeginShows
    <3>3. calm'[d] /\ phase'[d] = "closed"
      BY <2>3, <3>2 DEF Quiet
    <3>4. QED
      BY <1>1, <3>1, <3>2, <3>3, BeginAlone
  <2>4. QED
    BY <2>2, <2>3 DEF Quiet
<1>2. ASSUME Subsides, \A d \in Commands : phase[d]' = "closed" => phase[d] = "closed" \/ Close(d)
      PROVE  \A e \in Commands : ~UnderWay(e)'
  <2>1. PICK d \in Commands : operation[d].op = "down" /\ ~(calm[d] /\ phase[d] = "closed")
    BY <1>2 DEF Subsides, Quiet
  <2>2. calm[d] /\ Close(d) /\ phase'[d] = "closed"
    BY <1>2, <2>1 DEF Subsides, Quiet
  <2>3. UnderWay(d)
    BY <2>2 DEF Close, UnderWay, Alive
  <2>4. \A e \in Commands : UnderWay(e) => e = d
    BY <2>2, <2>3 DEF CalmAlone
  <2>5. ~UnderWay(d)'
    BY <2>2 DEF UnderWay, Alive
  <2>6. QED
    BY <1>2, <2>4, <2>5 DEF Subsides
<1>3. QED
  BY <1>1, <1>2, NextSubsides

-----------------------------------------------------------------------------
\* What is steady stays so, and every step leaves ready what it relies on.

LEMMA StaysSteady ==
  ASSUME ForeignInv, RemovalInv, OwnedOnce, Moves, Quiet', NEW s \in Services, NEW states,
         Exits \subseteq states, states \subseteq Live \cup Exits,
         "running" \in states => "healthy" \in states,
         Steady(s, states)
  PROVE  Steady(s, states)'
<1> USE DEF ForeignInv, TypeOK, RemovalInv
<1>1. /\ containers[s].state # "absent" /\ containers[s].id # 0
      /\ containers[s].id \in Nat /\ made[s] \in Nat /\ containers[s].id <= made[s]
  BY ProjectAssumption DEF Steady, OwnedOnce, EngineTypes, Issued, Live
<1>2. \A c \in Commands : containers[s].id \notin MayStart(c, s)
  BY DEF Steady
<1>3. containers'[s].id = containers[s].id /\ containers'[s].state \in states
  <2>1. Turn(s)
    BY DEF Moves, Turns
  <2>2. Present(s)
    BY <1>1 DEF Present
  <2>3. ~ \E c \in Commands : StartId(s) \in InFlight(c) /\ seen[c][StartId(s)] = containers[s].id
    BY <1>2 DEF MayStart, Starting
  <2>4. QED
    BY <2>1, <2>2, <2>3 DEF Turn, Steady
<1>4. ASSUME NEW c \in Commands
      PROVE  containers[s].id \notin MayStart(c, s)'
  <2>1. MayStart(c, s)' \subseteq MayStart(c, s) \cup {made[s] + 1}
    BY DEF Moves, Shrinks, Grows
  <2>2. containers[s].id # made[s] + 1
    BY <1>1
  <2>3. QED
    BY <1>2, <2>1, <2>2
<1>5. QED
  BY <1>3, <1>4 DEF Steady

LEMMA FitStates ==
  ASSUME NEW s, NEW d \in DependsOn(TheProject, s)
  PROVE  LET fit == Fit[TheProject.dependsOn[s][d]]
         IN  fit \subseteq Live /\ ("running" \in fit => "healthy" \in fit)
  BY DEF DependsOn, Conditions, Fit, Live

LEMMA StaysReady ==
  ASSUME ForeignInv, RemovalInv, OwnedOnce, Moves, Quiet', NEW s, NEW d \in DependsOn(TheProject, s),
         Ready(s, d)
  PROVE  Ready(s, d)'
<1> DEFINE fit == Fit[TheProject.dependsOn[s][d]]
           states == Exits \cup fit
<1>1. fit \subseteq Live /\ ("running" \in fit => "healthy" \in fit) /\ d \in Services
  BY FitStates DEF DependsOn
<1>2. "running" \notin Exits
  BY ProjectAssumption
<1>3. Steady(d, states)
  BY DEF Ready
<1> HIDE DEF fit
<1>4. Exits \subseteq states /\ states \subseteq Live \cup Exits /\ ("running" \in states => "healthy" \in states)
  BY <1>1, <1>2
<1> HIDE DEF states
<1>5. Steady(d, states)'
  BY <1>1, <1>3, <1>4, StaysSteady
<1>6. QED
  BY <1>5 DEF Ready, states, fit

LEMMA StartedStaysSteady ==
  ASSUME ForeignInv, RemovalInv, OwnedOnce, Moves, Quiet', NEW s \in Services, Steady(s, Live \cup Exits)
  PROVE  Steady(s, Live \cup Exits)'
<1> DEFINE states == Live \cup Exits
<1>1. Exits \subseteq states /\ states \subseteq Live \cup Exits /\ ("running" \in states => "healthy" \in states)
  BY DEF Live
<1> HIDE DEF states
<1>2. Steady(s, states)'
  BY <1>1, StaysSteady DEF states
<1>3. QED
  BY <1>2 DEF states

(* Of an action that has not just succeeded or begun.                      *)
LEMMA RestReady ==
  ASSUME ForeignInv, RemovalInv, OwnedOnce, Moves, Quiet',
         NEW c \in Commands, NEW a, a \in DOMAIN plan'[c], PlanShape(c),
         \/ a.kind \notin {"StartContainer", "WaitForDependency"}
         \/ /\ a \in DOMAIN plan[c] /\ StartReady(c, a)
            /\ phase'[c] = "applying" /\ fate'[c][a] = "succeeded"
                 => phase[c] = "applying" /\ fate[c][a] = "succeeded"
            /\ fate'[c][a] = "running" => fate[c][a] = "running"
  PROVE  StartReady(c, a)'
<1>1. CASE a.kind \notin {"StartContainer", "WaitForDependency"}
  BY <1>1 DEF StartReady
<1>2. CASE /\ a \in DOMAIN plan[c] /\ StartReady(c, a)
           /\ phase'[c] = "applying" /\ fate'[c][a] = "succeeded"
                => phase[c] = "applying" /\ fate[c][a] = "succeeded"
           /\ fate'[c][a] = "running" => fate[c][a] = "running"
  <2>1. ASSUME phase'[c] = "applying", fate'[c][a] = "succeeded", a.kind = "StartContainer"
        PROVE  Steady(Name(a), Live \cup Exits)'
    <3>1. Steady(Name(a), Live \cup Exits) /\ Alive(c)
      BY <1>2, <2>1 DEF StartReady, Alive
    <3>2. Name(a) \in Services
      BY <1>2, <2>1, <3>1, ActiveServices DEF PlanShape
    <3>3. QED
      BY <3>1, <3>2, StartedStaysSteady
  <2>2. ASSUME phase'[c] = "applying", fate'[c][a] = "succeeded", a.kind = "WaitForDependency"
        PROVE  Ready(Name(a), a.disc[1])'
    <3>1. Ready(Name(a), a.disc[1]) /\ Alive(c)
      BY <1>2, <2>2 DEF StartReady, Alive
    <3>2. a.disc[1] \in DependsOn(TheProject, Name(a))
      BY <1>2, <2>2, <3>1 DEF PlanShape, WaitedFor
    <3>3. QED
      BY <3>1, <3>2, StaysReady
  <2>3. ASSUME fate'[c][a] = "running", a.kind = "StartContainer",
               NEW d \in DependsOn(TheProject, Name(a)) \cap Active(TheProject)
        PROVE  Ready(Name(a), d)'
    <3>1. Ready(Name(a), d)
      BY <1>2, <2>3 DEF StartReady
    <3>2. QED
      BY <3>1, StaysReady
  <2>4. QED
    BY <2>1, <2>2, <2>3 DEF StartReady
<1>3. QED
  BY <1>1, <1>2

(* A container that was started by its maker is nobody else's to start.    *)
LEMMA StartedReady ==
  ASSUME ForeignInv, RemovalInv, OwnedOnce, NEW c \in Commands, NEW a \in DOMAIN plan[c],
         \A d \in Commands : PlanShape(d), phase[c] = "applying",
         StartContainer(c, a), fate'[c][a] = "succeeded"
  PROVE  Steady(Name(a), Live \cup Exits)'
<1> DEFINE s == Name(a)
<1> USE DEF ForeignInv, TypeOK
<1>1. /\ UNCHANGED <<plan, phase, seen, made>> /\ a \in InFlight(c) /\ a.kind = "StartContainer"
  BY DEF StartContainer, Asks, steadyVars
<1>2. a = StartId(s) /\ s \in Services
  BY <1>1, ActiveServices DEF PlanShape, Alive
<1>3. /\ Found(c, a)
      /\ containers' = [containers EXCEPT ![s].state = IF @ \in Live THEN @ ELSE "running"]
  <2>1. Fails(c, a) => fate'[c][a] = "failed"
    BY DEF Fails, CommandTypes
  <2>2. QED
    BY <2>1 DEF StartContainer
<1>4. containers'[s].id = seen[c][StartId(s)] /\ containers'[s].state \in Live
  <2>1. PICK st \in Live : containers' = [containers EXCEPT ![s].state = st]
    BY <1>3 DEF Live
  <2>2. containers'[s].id = containers[s].id /\ containers'[s].state = st
    BY <1>2, <2>1, OneTurn
  <2>3. QED
    BY <1>2, <1>3, <2>1, <2>2 DEF Found
<1>5. seen[c][StartId(s)] \in Owned(c, s)
  BY <1>1, <1>2 DEF Owned, Starting
<1>6. ASSUME NEW e \in Commands
      PROVE  seen[c][StartId(s)] \notin MayStart(e, s)'
  <2>1. CASE e = c
    <3>1. fate'[c][StartId(s)] = "succeeded"
      BY <1>2
    <3>2. Starting(c, s)' = {}
      BY <3>1 DEF Starting, InFlight
    <3>3. MayStart(c, s)' = {}
      BY <3>1, <3>2 DEF MayStart
    <3>4. QED
      BY <2>1, <3>3
  <2>2. CASE e # c
    <3>1. seen[c][StartId(s)] \notin Owned(e, s)
      BY <1>2, <1>5, <2>2 DEF OwnedOnce
    <3>2. MayStart(e, s)' = MayStart(e, s)
      <4>1. PICK f \in {"succeeded", "failed"} : Answer(c, a, f)
        BY RequestsAnswer
      <4>2. fate'[e] = fate[e] /\ outputs'[e].containers[s] = outputs[e].containers[s]
        BY <1>2, <2>2, <4>1 DEF Answer, CommandTypes
      <4>3. QED
        BY <1>1, <4>2, OwnsTheSame
    <3>3. MayStart(e, s) \subseteq Owned(e, s)
      BY DEF MayStart, Owned
    <3>4. QED
      BY <3>1, <3>2, <3>3
  <2>3. QED
    BY <2>1, <2>2
<1>7. QED
  BY <1>4, <1>6 DEF Steady

(* What was waited for was started before, and is as it was waited for.    *)
LEMMA WaitedReady ==
  ASSUME ForeignInv, NEW c \in Commands, NEW a \in DOMAIN plan[c],
         PlanShape(c), phase[c] = "applying", StartsReady(c),
         WaitForDependency(c, a), fate'[c][a] = "succeeded"
  PROVE  Ready(Name(a), a.disc[1])
<1> DEFINE d == a.disc[1]
<1>1. a.kind = "WaitForDependency" /\ fate[c][a] = "running" /\ Alive(c)
  BY DEF WaitForDependency, Asks, InFlight, Alive
<1>2. /\ d \in WaitedFor(TheProject, Name(a)) /\ StartId(d) \in DOMAIN plan[c]
      /\ fate[c][StartId(d)] = "succeeded"
  BY <1>1 DEF PlanShape
<1>3. Steady(d, Live \cup Exits)
  <2>1. StartId(d).kind = "StartContainer" /\ Name(StartId(d)) = d
    BY DEF StartId, Id, Name
  <2>2. StartReady(c, StartId(d))
    BY <1>2 DEF StartsReady
  <2>3. QED
    BY <1>2, <2>1, <2>2 DEF StartReady
<1>4. IF TheProject.dependsOn[Name(a)][d] = "ServiceHealthy" THEN containers[d].state = "healthy"
      ELSE containers[d].state \in Exits
  <2> DEFINE met == /\ containers[d].ours
                    /\ CASE TheProject.dependsOn[Name(a)][d] = "ServiceHealthy" -> containers[d].state = "healthy"
                         [] OTHER -> containers[d].state \in Exits
  <2>1. fate' = [fate EXCEPT ![c][a] = IF met THEN "succeeded" ELSE "failed"]
    BY DEF WaitForDependency
  <2>2. fate'[c][a] = IF met THEN "succeeded" ELSE "failed"
    <3> HIDE DEF met
    <3>1. QED
      BY <2>1 DEF ForeignInv, TypeOK, CommandTypes
  <2>3. met
    <3> HIDE DEF met
    <3>1. QED
      BY <2>2
  <2>4. QED
    BY <2>3
<1>5. containers[d].state \in Exits \cup Fit[TheProject.dependsOn[Name(a)][d]]
  BY <1>4 DEF Fit
<1>6. QED
  BY <1>3, <1>5 DEF Steady, Ready

(* What is started waits for all it depends on.                            *)
LEMMA SpawnedReady ==
  ASSUME NEW c \in Commands, NEW a \in DOMAIN plan[c], PlanShape(c), StartsReady(c),
         Spawn(c, a), a.kind = "StartContainer",
         NEW d \in DependsOn(TheProject, Name(a)) \cap Active(TheProject)
  PROVE  Ready(Name(a), d)
<1> DEFINE s == Name(a)
<1>1. /\ phase[c] = "applying" /\ Alive(c)
      /\ \A b \in plan[c][a] : fate[c][b] = "succeeded"
  BY DEF Spawn, Alive
<1>2. s \in Active(TheProject) /\ plan[c][a] = StartAfter(TheProject, s) /\ plan[c][a] \subseteq DOMAIN plan[c]
  BY <1>1 DEF PlanShape
<1>3. d \in Earlier(TheProject, s)
  <2>1. PICK i \in 1..Len(TheProject.order) : TheProject.order[i] = s
    BY <1>2 DEF Active
  <2>2. PICK j \in 1..Len(TheProject.order) : TheProject.order[j] = d
    BY DEF Active
  <2>3. \A k, l \in 1..Len(TheProject.order) :
          k <= l => TheProject.order[l] \notin DependsOn(TheProject, TheProject.order[k])
    BY ProjectAssumption DEF InGraphOrder
  <2>4. ~ (i <= j)
    BY <2>1, <2>2, <2>3
  <2>5. j < i
    BY <2>4
  <2>6. QED
    BY <2>1, <2>2, <2>5 DEF Earlier
<1>4. StartId(d) \in plan[c][a] /\ (TheProject.dependsOn[s][d] # "ServiceStarted" => WaitId(s, d) \in plan[c][a])
  BY <1>2, <1>3 DEF StartAfter, WaitedFor
<1>5. CASE TheProject.dependsOn[s][d] = "ServiceStarted"
  <2>1. StartReady(c, StartId(d)) /\ fate[c][StartId(d)] = "succeeded"
    BY <1>1, <1>2, <1>4 DEF StartsReady
  <2>2. StartId(d).kind = "StartContainer" /\ Name(StartId(d)) = d
    BY DEF StartId, Id, Name
  <2>3. Steady(d, Live \cup Exits)
    BY <1>1, <2>1, <2>2 DEF StartReady
  <2>4. Exits \cup Fit[TheProject.dependsOn[s][d]] = Live \cup Exits
    BY <1>5 DEF Fit
  <2>5. QED
    BY <2>3, <2>4 DEF Ready
<1>6. CASE TheProject.dependsOn[s][d] # "ServiceStarted"
  <2>1. StartReady(c, WaitId(s, d)) /\ fate[c][WaitId(s, d)] = "succeeded"
    BY <1>1, <1>2, <1>4, <1>6 DEF StartsReady
  <2>2. WaitId(s, d).kind = "WaitForDependency" /\ Name(WaitId(s, d)) = s /\ WaitId(s, d).disc[1] = d
    BY DEF WaitId, Id, Name
  <2>3. QED
    BY <1>1, <2>1, <2>2 DEF StartReady
<1>7. QED
  BY <1>5, <1>6

(* Of commands whose answers or steps bring nothing new.                   *)
LEMMA UnmovedReady ==
  ASSUME ForeignInv, RemovalInv, OwnedOnce, Moves, Quiet', NEW c \in Commands, PlanShape(c), StartsReady(c),
         DOMAIN plan'[c] \subseteq DOMAIN plan[c],
         phase'[c] = "applying" => phase[c] = "applying",
         \A a \in DOMAIN plan'[c] : fate'[c][a] \in {"running", "succeeded"} => fate[c][a] = fate'[c][a]
  PROVE  StartsReady(c)'
<1>1. ASSUME NEW a \in DOMAIN plan'[c]
      PROVE  StartReady(c, a)'
  <2>1. a \in DOMAIN plan[c] /\ StartReady(c, a)
    BY DEF StartsReady
  <2>2. QED
    BY <2>1, RestReady
<1>2. QED
  BY <1>1 DEF StartsReady

(* Where one action moves, all the others stay ready.                      *)
LEMMA OneMovedReady ==
  ASSUME ForeignInv, RemovalInv, OwnedOnce, Moves, Quiet', \A d \in Commands : PlanShape(d) /\ StartsReady(d),
         UNCHANGED <<phase, plan>>,
         NEW c \in Commands, NEW a \in DOMAIN plan[c], NEW f, fate' = [fate EXCEPT ![c][a] = f],
         StartReady(c, a)'
  PROVE  \A d \in Commands : StartsReady(d)'
<1>1. /\ \A d \in Commands : d # c => fate'[d] = fate[d]
      /\ \A b \in DOMAIN plan[c] : b # a => fate'[c][b] = fate[c][b]
  BY DEF ForeignInv, TypeOK, CommandTypes
<1>2. ASSUME NEW d \in Commands, d # c
      PROVE  StartsReady(d)'
  BY <1>1, <1>2, UnmovedReady
<1>3. ASSUME NEW b \in DOMAIN plan'[c], b # a
      PROVE  StartReady(c, b)'
  <2>1. b \in DOMAIN plan[c] /\ StartReady(c, b) /\ fate'[c][b] = fate[c][b]
    BY <1>1, <1>3 DEF StartsReady
  <2>2. QED
    BY <2>1, RestReady
<1>4. StartsReady(c)'
  BY <1>3 DEF StartsReady
<1>5. QED
  BY <1>2, <1>4

LEMMA AnswerReady ==
  ASSUME ForeignInv, RemovalInv, OwnedOnce, Moves, Quiet', \A d \in Commands : PlanShape(d) /\ StartsReady(d),
         NEW c \in Commands, NEW a \in DOMAIN plan[c], NEW f \in Settled, Answer(c, a, f),
         \/ f # "succeeded"
         \/ a.kind \notin {"StartContainer", "WaitForDependency"}
         \/ StartContainer(c, a) \/ WaitForDependency(c, a)
  PROVE  \A d \in Commands : StartsReady(d)'
<1>1. UNCHANGED <<phase, plan>> /\ fate' = [fate EXCEPT ![c][a] = f]
  BY DEF Answer
<1>2. fate'[c][a] = f /\ f # "running"
  BY <1>1 DEF Settled, ForeignInv, TypeOK, CommandTypes
<1>3. StartReady(c, a)'
  <2>1. CASE f # "succeeded" \/ a.kind \notin {"StartContainer", "WaitForDependency"} \/ phase[c] # "applying"
    BY <1>1, <1>2, <2>1 DEF StartReady
  <2>2. ASSUME f = "succeeded", phase[c] = "applying", StartContainer(c, a)
        PROVE  StartReady(c, a)'
    <3>1. Steady(Name(a), Live \cup Exits)'
      BY <1>2, <2>2, StartedReady
    <3>2. a.kind = "StartContainer"
      BY <2>2 DEF StartContainer, Asks
    <3>3. QED
      BY <1>2, <2>2, <3>1, <3>2 DEF StartReady
  <2>3. ASSUME f = "succeeded", phase[c] = "applying", WaitForDependency(c, a)
        PROVE  StartReady(c, a)'
    <3>1. Ready(Name(a), a.disc[1])
      BY <1>2, <2>3, WaitedReady
    <3>2. a.kind = "WaitForDependency"
      BY <2>3 DEF WaitForDependency, Asks
    <3>3. a.disc[1] \in DependsOn(TheProject, Name(a))
      BY <2>3, <3>2 DEF PlanShape, Alive, WaitedFor
    <3>4. Ready(Name(a), a.disc[1])'
      BY <3>1, <3>3, StaysReady
    <3>5. QED
      BY <1>2, <2>3, <3>2, <3>4 DEF StartReady
  <2>4. QED
    BY <2>1, <2>2, <2>3
<1>4. QED
  BY <1>1, <1>3, OneMovedReady

LEMMA SpawnReady ==
  ASSUME ForeignInv, RemovalInv, OwnedOnce, Moves, Quiet', \A d \in Commands : PlanShape(d) /\ StartsReady(d),
         NEW c \in Commands, NEW a \in DOMAIN plan[c], Spawn(c, a)
  PROVE  \A d \in Commands : StartsReady(d)'
<1>1. UNCHANGED <<phase, plan>> /\ fate' = [fate EXCEPT ![c][a] = "running"]
  BY DEF Spawn
<1>2. fate'[c][a] = "running"
  BY <1>1 DEF ForeignInv, TypeOK, CommandTypes
<1>3. ASSUME a.kind = "StartContainer", NEW d \in DependsOn(TheProject, Name(a)) \cap Active(TheProject)
      PROVE  Ready(Name(a), d)'
  <2>1. Ready(Name(a), d)
    BY <1>3, SpawnedReady
  <2>2. QED
    BY <2>1, StaysReady
<1>4. StartReady(c, a)'
  BY <1>2, <1>3 DEF StartReady
<1>5. QED
  BY <1>1, <1>4, OneMovedReady

LEMMA NextReady ==
  ASSUME ForeignInv, RemovalInv, OwnedOnce, Moves, Quiet', [Next]_vars,
         \A d \in Commands : PlanShape(d) /\ StartsReady(d)
  PROVE  \A d \in Commands : StartsReady(d)'
<1> DEFINE Goal == \A d \in Commands : StartsReady(d)'
<1>1. ASSUME NEW c \in Commands, NEW o \in Operations, Begin(c, o) PROVE Goal
  <2>1. /\ \A d \in Commands : d # c => plan'[d] = plan[d] /\ phase'[d] = phase[d] /\ fate'[d] = fate[d]
        /\ \A a \in DOMAIN plan'[c] : fate'[c][a] = "waiting"
    BY <1>1, BeginShows
  <2>2. StartsReady(c)'
    BY <2>1 DEF StartsReady, StartReady
  <2>3. ASSUME NEW d \in Commands, d # c PROVE StartsReady(d)'
    BY <2>1, <2>3, UnmovedReady
  <2>4. QED
    BY <2>2, <2>3
<1>2. ASSUME NEW c \in Commands, Apply(c) PROVE Goal
  <2>1. /\ UNCHANGED <<plan, fate>> /\ phase[c] = "planned"
        /\ \A d \in Commands : d # c => phase'[d] = phase[d]
    BY <1>2 DEF Apply, ForeignInv, TypeOK, CommandTypes
  <2>2. \A a \in DOMAIN plan[c] : fate[c][a] = "waiting"
    BY <2>1 DEF PlanShape
  <2>3. StartsReady(c)'
    BY <2>1, <2>2 DEF StartsReady, StartReady
  <2>4. ASSUME NEW d \in Commands, d # c PROVE StartsReady(d)'
    BY <2>1, <2>4, UnmovedReady
  <2>5. QED
    BY <2>3, <2>4
<1>3. ASSUME NEW c \in Commands, NEW a \in DOMAIN plan[c], Spawn(c, a) PROVE Goal
  BY <1>3, SpawnReady
<1>4. ASSUME NEW c \in Commands, NEW a \in DOMAIN plan[c], Skip(c, a) \/ Fault(c, a) PROVE Goal
  <2>1. PICK f \in {"failed", "skipped"} : Answer(c, a, f)
    BY <1>4 DEF Skip, Fault, Answer, steadyVars
  <2>2. f \in Settled /\ f # "succeeded"
    BY DEF Settled
  <2>3. QED
    BY <2>1, <2>2, AnswerReady
<1>5. ASSUME NEW c \in Commands, NEW left \in SUBSET InFlight(c), Forget(c, left),
             NEW ph \in {"closed", "dead"}, phase' = [phase EXCEPT ![c] = ph]
      PROVE  Goal
  <2>1. /\ \A d \in Commands : d # c => plan'[d] = plan[d] /\ phase'[d] = phase[d] /\ fate'[d] = fate[d]
        /\ phase'[c] = ph
        /\ plan'[c] = [a \in left |-> {}] /\ fate'[c] = [a \in left |-> "running"]
    BY <1>5, ForgetShows
  <2>2. /\ DOMAIN plan'[c] = left /\ phase'[c] # "applying"
        /\ \A a \in left : a \in DOMAIN plan[c] /\ fate[c][a] = "running" /\ fate'[c][a] = "running"
    BY <2>1 DEF InFlight
  <2>3. StartsReady(c)'
    BY <2>2, UnmovedReady
  <2>4. ASSUME NEW d \in Commands, d # c PROVE StartsReady(d)'
    BY <2>1, <2>4, UnmovedReady
  <2>5. QED
    BY <2>3, <2>4
<1>6. ASSUME NEW c \in Commands, Close(c) PROVE Goal
  <2>1. Forget(c, {}) /\ phase' = [phase EXCEPT ![c] = "closed"] /\ {} \in SUBSET InFlight(c)
    BY <1>6 DEF Close
  <2>2. QED
    BY <1>5, <2>1
<1>7. ASSUME NEW c \in Commands, Kill(c) PROVE Goal
  <2> DEFINE left == {a \in InFlight(c) : a.kind \notin {"WaitForDependency", "NoOp"}}
  <2>1. Forget(c, left) /\ phase' = [phase EXCEPT ![c] = "dead"]
    BY <1>7 DEF Kill
  <2>2. left \in SUBSET InFlight(c)
    OBVIOUS
  <2> HIDE DEF left
  <2>3. QED
    BY <1>5, <2>1, <2>2
<1>8. ASSUME NEW c \in Commands, Request(c) PROVE Goal
  <2>1. PICK a \in DOMAIN plan[c] :
          \/ NothingToAsk(c, a) \/ PullImage(c, a)
          \/ CreateNetwork(c, a) \/ CreateVolume(c, a) \/ CreateContainer(c, a)
          \/ StartContainer(c, a) \/ WaitForDependency(c, a) \/ StopContainer(c, a)
          \/ RemoveContainer(c, a) \/ RemoveNetwork(c, a) \/ RemoveVolume(c, a)
    BY <1>8 DEF Request
  <2>2. PICK f \in {"succeeded", "failed"} : Answer(c, a, f)
    BY <2>1, RequestsAnswer
  <2>3. \/ a.kind \notin {"StartContainer", "WaitForDependency"}
        \/ StartContainer(c, a) \/ WaitForDependency(c, a)
    BY <2>1 DEF NothingToAsk, PullImage, CreateNetwork, CreateVolume, CreateContainer,
                StopContainer, RemoveContainer, RemoveNetwork, RemoveVolume, Asks
  <2>4. f \in Settled
    BY DEF Settled
  <2>5. QED
    BY <2>2, <2>3, <2>4, AnswerReady
<1>9. ASSUME UNCHANGED commandVars PROVE Goal
  <2>1. UNCHANGED <<phase, plan, fate>>
    BY <1>9 DEF commandVars
  <2>2. QED
    BY <2>1, UnmovedReady
<1>10. ASSUME Meddles \/ \E s \in Services : ProcessExits(s) \/ BecomesHealthy(s) PROVE Goal
  <2>1. UNCHANGED commandVars
    BY <1>10, MeddlesOpenly DEF ProcessExits, BecomesHealthy, quietVars
  <2>2. QED
    BY <1>9, <2>1
<1>11. ASSUME UNCHANGED vars PROVE Goal
  BY <1>9, <1>11 DEF vars
<1> HIDE DEF Goal
<1>12. ASSUME \E c \in Commands : Step(c) \/ Request(c) PROVE Goal
  BY <1>2, <1>3, <1>4, <1>6, <1>8, <1>12 DEF Step
<1>13. ASSUME Environment PROVE Goal
  BY <1>4, <1>7, <1>10, <1>13 DEF Environment, Meddles
<1>14. ASSUME Rest PROVE Goal
  BY <1>11, <1>14 DEF Rest
<1>15. Goal
  BY <1>1, <1>11, <1>12, <1>13, <1>14 DEF Next
<1>16. QED
  BY <1>15 DEF Goal

-----------------------------------------------------------------------------
LEMMA InitStart == Init => StartInv
<1> SUFFICES ASSUME Init
             PROVE  StartInv
  OBVIOUS
<1>1. \A c \in Commands : /\ phase[c] = "idle" /\ plan[c] = << >> /\ calm[c] = FALSE
                          /\ operation[c].op = "none"
  BY DEF Init
<1>2. DOMAIN << >> = {}
  OBVIOUS
<1>3. \A c \in Commands : PlanShape(c)
  BY <1>1, <1>2 DEF PlanShape
<1>4. \A c \in Commands : StartsReady(c)
  BY <1>1, <1>2 DEF StartsReady
<1>5. ASSUME NEW c \in Commands, NEW s
      PROVE  Owned(c, s) = {}
  BY <1>1, <1>2 DEF Owned, Made, Starting, InFlight
<1>6. \A s \in Services : containers[s].state # "absent" => containers[s].id # 0
  <2>1. PICK start \in Starts : InitialEngine(start.taken, start.left)
    BY DEF Init
  <2>2. QED
    BY <2>1 DEF InitialEngine, NoContainer
<1>7. OwnedOnce
  BY <1>5, <1>6 DEF OwnedOnce
<1>8. CalmAlone
  BY <1>1 DEF CalmAlone
<1>9. QED
  BY <1>3, <1>4, <1>7, <1>8 DEF StartInv

LEMMA NextStart ==
  ASSUME ForeignInv, RemovalInv, StartInv, [Next]_vars
  PROVE  StartInv'
<1>1. (\A c \in Commands : PlanShape(c)) /\ OwnedOnce /\ CalmAlone
  BY DEF StartInv
<1>2. Moves
  BY <1>1, NextMoves
<1>3. \A c \in Commands : PlanShape(c)'
  BY <1>2 DEF Moves
<1>4. OwnedOnce' /\ CalmAlone'
  BY <1>1, <1>2, OnceMore, StillAlone
<1>5. ASSUME Quiet', Quiet
      PROVE  \A c \in Commands : StartsReady(c)'
  <2>1. \A d \in Commands : PlanShape(d) /\ StartsReady(d)
    BY <1>5 DEF StartInv
  <2>2. QED
    BY <1>1, <1>2, <1>5, <2>1, NextReady
<1>6. ASSUME Quiet', ~Quiet, NEW c \in Commands
      PROVE  StartsReady(c)'
  <2>1. ~UnderWay(c)'
    BY <1>1, <1>6, QuietAgain
  <2>2. phase'[c] \in {"idle", "planned", "applying", "closed", "blocked", "dead"}
    BY NextForeign DEF ForeignInv, TypeOK, CommandTypes
  <2>3. phase'[c] # "applying" /\ \A a \in DOMAIN plan'[c] : fate'[c][a] # "running"
    <3>1. CASE phase'[c] = "dead"
      BY <2>1, <3>1 DEF UnderWay, InFlight
    <3>2. CASE phase'[c] # "dead"
      <4>1. phase'[c] \in {"idle", "closed", "blocked"}
        BY <2>1, <2>2, <3>2 DEF UnderWay, Alive
      <4>2. QED
        BY <1>3, <4>1 DEF PlanShape
    <3>3. QED
      BY <3>1, <3>2
  <2>4. QED
    BY <2>3 DEF StartsReady, StartReady
<1>7. QED
  BY <1>3, <1>4, <1>5, <1>6 DEF StartInv

LEMMA StartInvariant == Spec => [](SafeInv /\ StartInv)
<1>1. Init => SafeInv /\ StartInv
  BY InitForeign, InitRemoval, InitStart DEF SafeInv
<1>2. SafeInv /\ StartInv /\ [Next]_vars => (SafeInv /\ StartInv)'
  BY NextForeign, NextRemoval, NextStart DEF SafeInv
<1>3. QED
  BY <1>1, <1>2, PTL DEF Spec

(* Whatever other ups overlap, fail, are killed or still have requests in  *)
(* flight, and whenever processes exit and health checks pass: while no    *)
(* down and nobody else interferes, what a container depends on was        *)
(* started, is healthy or has ended, as it is to be, when it is started.   *)
THEOREM DependentsSafe == Spec => DependentsStartLater
<1>1. SafeInv /\ StartInv /\ [Next]_vars =>
        [\A s \in Services :
           /\ containers[s].state \notin Live /\ containers'[s].state \in Live
           /\ meddling' = 0 /\ \A c \in Commands : operation[c].op = "down" => calm[c] /\ phase[c] = "closed"
           => \A d \in DependsOn(TheProject, s) \cap Active(TheProject) :
                containers[d].state \in Exits \cup Fit[TheProject.dependsOn[s][d]]]_vars
  <2> SUFFICES ASSUME SafeInv, StartInv, [Next]_vars, NEW s \in Services,
                      containers[s].state \notin Live, containers'[s].state \in Live, meddling' = 0,
                      \A c \in Commands : operation[c].op = "down" => calm[c] /\ phase[c] = "closed",
                      NEW d \in DependsOn(TheProject, s) \cap Active(TheProject)
               PROVE  containers[d].state \in Exits \cup Fit[TheProject.dependsOn[s][d]]
    OBVIOUS
  <2>0. Quiet
    BY NextSubsides, BeginAlone DEF SafeInv, Subsides, Quiet
  <2>1. Moves
    BY NextMoves DEF SafeInv, StartInv
  <2>2. Turn(s)
    BY <2>1 DEF Moves, Turns
  <2>3. PICK c \in Commands : StartId(s) \in InFlight(c)
    BY <2>2, ProjectAssumption DEF Turn, Live, NoContainer
  <2>4. StartReady(c, StartId(s)) /\ fate[c][StartId(s)] = "running"
    BY <2>0, <2>3 DEF StartInv, StartsReady, InFlight
  <2>5. StartId(s).kind = "StartContainer" /\ Name(StartId(s)) = s
    BY DEF StartId, Id, Name
  <2>6. Ready(s, d)
    BY <2>0, <2>4, <2>5 DEF StartReady
  <2>7. QED
    BY <2>6 DEF Ready, Steady
<1>2. QED
  BY <1>1, StartInvariant, PTL DEF Spec, DependentsStartLater

-----------------------------------------------------------------------------
\* A down that nothing disturbs leaves nothing of its project behind, and an up
\* that nothing disturbs fails for a cause.

(* Command c runs op, and neither another command nor an operator, nor a   *)
(* fault of the engine, has come between since it was started.             *)
Undisturbed(c, op) == calm[c] /\ Alive(c) /\ operation[c].op = op

(* The actions on a resource, as the planner names them.                   *)
RemoveNetworkId(n, id) == Id(<<"network", n>>, "RemoveNetwork", <<id>>)
RemoveVolumeId(v)  == Id(<<"volume", v>>, "RemoveVolume", <<v>>)
CreateNetworkId(n) == Id(<<"network", n>>, "CreateNetwork", <<>>)

(* What is the project's exists: the engine has given it an id.            *)
OursHaveIds ==
  /\ \A s \in Services : containers[s].ours => containers[s].id # 0
  /\ \A n \in Networks : networks[n].ours => networks[n].id # 0

(* An action runs only once all it depends on succeeded.                   *)
InOrder(c) ==
  \A a \in DOMAIN plan[c] :
    /\ plan[c][a] \subseteq DOMAIN plan[c]
    /\ fate[c][a] \in {"running", "succeeded"} =>
         \A b \in plan[c][a] : fate[c][b] = "succeeded"

(* The actions of a down: a container is removed after its own stop, and   *)
(* all else waits for containers only.                                     *)
DownShape(c) ==
  \A a \in DOMAIN plan[c] :
    /\ a.kind \in {"StopContainer", "RemoveContainer", "RemoveNetwork", "RemoveVolume", "NoOp"}
    /\ a.kind = "StopContainer" =>
         a = StopId(Name(a)) /\ RemoveId(Name(a)) \in DOMAIN plan[c]
    /\ a.kind = "RemoveContainer" =>
         a = RemoveId(Name(a)) /\ plan[c][a] = {StopId(Name(a))}
    /\ a.kind \in {"StopContainer", "RemoveContainer"} => Name(a) \in Active(TheProject)
    /\ \A b \in plan[c][a] : b.kind \in {"StopContainer", "RemoveContainer"}

(* The stops and removals of containers cannot fail, and a container of    *)
(* the project is there exactly until its removal succeeded: the command   *)
(* knows it by the id it has, and it does not run once it was stopped.     *)
StopsAll(c) ==
  /\ \A a \in DOMAIN plan[c] :
       /\ fate[c][a] # "skipped"
       /\ fate[c][a] = "failed" => a.kind \in {"RemoveNetwork", "RemoveVolume"}
       /\ a.kind = "RemoveContainer" /\ fate[c][a] # "succeeded" => containers[Name(a)].ours
  /\ \A s \in Active(TheProject) :
       containers[s].ours =>
         /\ {StopId(s), RemoveId(s)} \subseteq DOMAIN plan[c]
         /\ fate[c][RemoveId(s)] # "succeeded"
         /\ phase[c] = "applying" => outputs[c].containers[s] = containers[s].id
         /\ \A a \in {StopId(s), RemoveId(s)} :
              fate[c][a] = "running" => seen[c][a] = containers[s].id
         /\ fate[c][StopId(s)] = "succeeded" => containers[s].state \notin Live

(* A network of the project has its removal planned after all containers,  *)
(* and only a container of a service left out can make it fail.            *)
RemovesNetworks(c) ==
  \A n \in Networks :
    LET a == RemoveNetworkId(n, networks[n].id) IN
    networks[n].ours =>
      /\ a \in DOMAIN plan[c] /\ fate[c][a] # "succeeded"
      /\ \A s \in Active(TheProject) : containers[s].ours => RemoveId(s) \in plan[c][a]
      /\ phase[c] = "applying" => outputs[c].networks[n] = networks[n].id
      /\ fate[c][a] = "running" => seen[c][a] = networks[n].id
      /\ fate[c][a] = "failed" =>
           \E s \in Services \ Active(TheProject) : Present(s) /\ n \in TheProject.networks[s]

(* The same of a volume, when the down is to remove volumes.               *)
RemovesVolumes(c) ==
  \A v \in Volumes :
    LET a == RemoveVolumeId(v) IN
    operation[c].volumes /\ volumes[v] = "ours" =>
      /\ a \in DOMAIN plan[c] /\ fate[c][a] # "succeeded"
      /\ \A s \in Active(TheProject) : containers[s].ours => RemoveId(s) \in plan[c][a]
      /\ phase[c] = "applying" => v \in outputs[c].volumes
      /\ fate[c][a] = "running" => seen[c][a] # 0
      /\ fate[c][a] = "failed" => Mounting(v) \ Active(TheProject) # {}

TearsDown(c) ==
  Undisturbed(c, "down") =>
    InOrder(c) /\ DownShape(c) /\ StopsAll(c) /\ RemovesNetworks(c) /\ RemovesVolumes(c)

(* The actions of an up: a container is started after it was created.      *)
UpShape(c) ==
  \A a \in DOMAIN plan[c] :
    /\ a.kind \in {"NoOp", "CreateNetwork", "CreateVolume", "PullImage", "CreateContainer",
                   "StartContainer", "WaitForDependency"}
    /\ a.kind = "CreateNetwork" => a = CreateNetworkId(Name(a)) /\ Name(a) \in Networks
    /\ a.kind = "CreateContainer" => a = CreateId(Name(a)) /\ Name(a) \in Services
    /\ a.kind = "StartContainer" => a = StartId(Name(a)) /\ CreateId(Name(a)) \in plan[c][a]

(* The image and the networks of a container that is to be created are     *)
(* there or supplied before it.                                            *)
Supplied(c) ==
  \A a \in DOMAIN plan[c] : a.kind = "CreateContainer" =>
    LET s == Name(a) IN
    /\ TheProject.image[s] \in images \/ PullId(TheProject.image[s]) \in plan[c][a]
    /\ \A n \in TheProject.networks[s] \cap Networks :
         networks[n].id # 0 \/ CreateNetworkId(n) \in plan[c][a]

(* What an action that succeeded has supplied is there, under the id the   *)
(* command knows, and only a name that is taken makes a creation fail.     *)
Brought(c) ==
  \A a \in DOMAIN plan[c] :
    /\ a.kind = "PullImage" /\ fate[c][a] = "succeeded" => Name(a) \in images
    /\ a.kind = "CreateNetwork" => (networks[Name(a)].ours <=> fate[c][a] = "succeeded")
    /\ a.kind = "CreateContainer" /\ fate[c][a] = "succeeded" =>
         /\ containers[Name(a)].ours
         /\ containers[Name(a)].id = outputs[c].containers[Name(a)]
    /\ a.kind = "StartContainer" /\ fate[c][a] = "running" =>
         seen[c][a] = containers[Name(a)].id
    /\ fate[c][a] = "failed" =>
         \/ a.kind \in {"WaitForDependency", "CreateNetwork"}
         \/ a.kind = "CreateContainer" /\ Present(Name(a))

BringsUp(c) ==
  Undisturbed(c, "up") => InOrder(c) /\ UpShape(c) /\ Supplied(c) /\ Brought(c)

CleanInv == OursHaveIds /\ \A c \in Commands : TearsDown(c) /\ BringsUp(c)

-----------------------------------------------------------------------------
\* Whose steps an undisturbed command sees.

(* A request of an action and its answer.                                  *)
Asked(c, a) ==
  \/ NothingToAsk(c, a) \/ PullImage(c, a)
  \/ CreateNetwork(c, a) \/ CreateVolume(c, a) \/ CreateContainer(c, a)
  \/ StartContainer(c, a) \/ WaitForDependency(c, a) \/ StopContainer(c, a)
  \/ RemoveContainer(c, a) \/ RemoveNetwork(c, a) \/ RemoveVolume(c, a)

(* Only an action in flight asks.                                          *)
LEMMA AskedInFlight ==
  ASSUME NEW c, NEW a, Asked(c, a)
  PROVE  a \in InFlight(c) /\ phase' = phase
  BY DEF Asked, NothingToAsk, PullImage, CreateNetwork, CreateVolume, CreateContainer, StartContainer,
         WaitForDependency, StopContainer, RemoveContainer, RemoveNetwork, RemoveVolume, Asks, steadyVars

(* As long as nothing disturbs a command, it begins, takes a step of its   *)
(* own, or a container changes its state.                                  *)
LEMMA OnlyItsOwn ==
  ASSUME ForeignInv, RemovalInv, CalmAlone, \A d \in Commands : PlanShape(d), [Next]_vars,
         NEW c \in Commands, calm[c]', Alive(c)'
  PROVE  \/ \E o \in Operations : Begin(c, o)
         \/ /\ calm[c] /\ Alive(c) /\ operation'[c] = operation[c]
            /\ \/ Apply(c)
               \/ \E a \in DOMAIN plan[c] : Spawn(c, a) \/ Skip(c, a) \/ Asked(c, a)
               \/ \E s \in Services : ProcessExits(s) \/ BecomesHealthy(s)
               \/ UNCHANGED vars
<1> USE DEF ForeignInv, TypeOK, CommandTypes
<1> DEFINE Steps == \/ Apply(c)
                    \/ \E a \in DOMAIN plan[c] : Spawn(c, a) \/ Skip(c, a) \/ Asked(c, a)
                    \/ \E s \in Services : ProcessExits(s) \/ BecomesHealthy(s)
                    \/ UNCHANGED vars
           Goal == Subsides => Alive(c) /\ Steps
<1>1. ASSUME Subsides, Alive(c), NEW d \in Commands, UnderWay(d)
      PROVE  d = c /\ calm[c] /\ ~(calm[c]' = (calm[c] /\ ~UnderWay(c)))
  <2>1. calm[c] /\ UnderWay(c)
    BY <1>1 DEF Subsides, UnderWay
  <2>2. QED
    BY <1>1, <2>1 DEF CalmAlone
<1>2. ASSUME NEW d \in Commands, Apply(d) PROVE Goal
  <2>1. Alive(c) /\ UnderWay(d)
    BY <1>2 DEF Apply, Alive, UnderWay
  <2>2. QED
    BY <1>1, <1>2, <2>1
<1>3. ASSUME NEW d \in Commands, NEW a \in DOMAIN plan[d], Spawn(d, a) \/ Skip(d, a) PROVE Goal
  <2>1. Alive(c) /\ UnderWay(d)
    BY <1>3 DEF Spawn, Skip, Alive, UnderWay
  <2>2. QED
    BY <1>1, <1>3, <2>1
<1>4. ASSUME NEW d \in Commands, Close(d) \/ Kill(d) PROVE Goal
  <2>1. UnderWay(d) /\ \E ph \in {"closed", "dead"} : phase' = [phase EXCEPT ![d] = ph]
    BY <1>4 DEF Close, Kill, Alive, UnderWay
  <2>2. d # c /\ Alive(c)
    BY <2>1 DEF Alive
  <2>3. QED
    BY <1>1, <2>1, <2>2
<1>5. ASSUME NEW d \in Commands, NEW a \in DOMAIN plan[d], Asked(d, a) PROVE Goal
  <2>1. Alive(c)
    BY <1>5, AskedInFlight DEF Alive
  <2>2. a \in InFlight(d)
    BY <1>5, AskedInFlight
  <2>3. phase[d] \notin {"idle", "closed", "blocked", "planned"}
    <3>1. a \in DOMAIN plan[d] /\ fate[d][a] # "waiting"
      BY <2>2 DEF InFlight
    <3>2. QED
      BY <3>1 DEF PlanShape
  <2>4. UnderWay(d)
    BY <2>2, <2>3 DEF UnderWay, Alive
  <2>5. QED
    BY <1>1, <1>5, <2>1, <2>4
<1>6. ASSUME NEW d \in Commands, NEW a \in DOMAIN plan[d], Fault(d, a) PROVE Goal
  <2>1. /\ Alive(c) /\ a \in InFlight(d)
        /\ calm' = [e \in Commands |-> calm[e] /\ ~UnderWay(e)]
    BY <1>6 DEF Fault, Disturb, Alive, steadyVars
  <2>2. UnderWay(c)
    BY <2>1 DEF UnderWay
  <2>3. QED
    BY <2>1, <2>2
<1>7. ASSUME NEW s \in Services, ProcessExits(s) \/ BecomesHealthy(s) PROVE Goal
  BY <1>7 DEF ProcessExits, BecomesHealthy, quietVars, commandVars, Alive
<1>8. ASSUME Meddles PROVE Goal
  <2>1. Alive(c) /\ calm' = [e \in Commands |-> calm[e] /\ ~UnderWay(e)]
    BY <1>8, MeddlesOpenly DEF Disturb, Alive, commandVars
  <2>2. UnderWay(c)
    BY <2>1 DEF UnderWay
  <2>3. QED
    BY <2>1, <2>2
<1>9. ASSUME UNCHANGED vars PROVE Goal
  BY <1>9 DEF vars, commandVars, Alive
<1>10. ASSUME NEW d \in Commands, NEW o \in Operations, Begin(d, o) PROVE Begin(c, o)
  <2>1. calm[c]' /\ d # c => ~UnderWay(c) /\ phase'[c] = phase[c]
    BY <1>10, BeginAlone, BeginShows
  <2>2. QED
    BY <1>10, <2>1 DEF UnderWay, Alive
<1>11. Subsides => calm[c] /\ operation'[c] = operation[c]
  BY DEF Subsides
<1> HIDE DEF Goal
<1>12. ASSUME NEW d \in Commands, Step(d) \/ Request(d) PROVE Goal
  <2>1. CASE Step(d)
    BY <1>2, <1>3, <1>4, <2>1 DEF Step
  <2>2. CASE Request(d)
    BY <1>5, <2>2 DEF Request, Asked
  <2>3. QED
    BY <1>12, <2>1, <2>2
<1>13. ASSUME Environment \/ Rest PROVE Goal
  BY <1>4, <1>6, <1>7, <1>8, <1>9, <1>13 DEF Environment, Meddles, Rest
<1>14. (\E o \in Operations : Begin(c, o)) \/ Goal
  BY <1>9, <1>10, <1>12, <1>13 DEF Next
<1>15. CASE \E d \in Commands : \E o \in Operations : Begin(d, o)
  BY <1>10, <1>15
<1>16. CASE Subsides
  BY <1>11, <1>14, <1>16 DEF Goal
<1>17. QED
  BY <1>15, <1>16, NextSubsides

(* A request of an undisturbed command that is carried out is answered.    *)
LEMMA CalmSucceeds ==
  ASSUME NEW c \in Commands, NEW a, NEW out, Succeeds(c, a, out), Alive(c), calm[c]'
  PROVE  fate' = [fate EXCEPT ![c][a] = "succeeded"] /\ outputs' = [outputs EXCEPT ![c] = out]
<1>1. UnderWay(c)
  BY DEF UnderWay
<1>2. ~Disturb
  BY <1>1 DEF Disturb
<1>3. QED
  BY <1>2 DEF Succeeds

-----------------------------------------------------------------------------
\* What is the project's has an id.

(* What an earlier command left has an id from the start.                  *)
LEMMA InitHasIds == Init => OursHaveIds
<1> SUFFICES ASSUME Init
             PROVE  OursHaveIds
  OBVIOUS
<1>1. PICK start \in Starts : InitialEngine(start.taken, start.left)
  BY DEF Init
<1>2. QED
  BY <1>1 DEF InitialEngine, OursHaveIds, NoContainer, NoNetwork

(* No step makes something of the project's without an id.                 *)
LEMMA KeepsIds ==
  ASSUME ForeignInv, OursHaveIds, [Next]_vars
  PROVE  OursHaveIds'
<1> USE DEF ForeignInv, TypeOK, EngineTypes
<1> DEFINE Containers ==
             \/ containers' = containers
             \/ \E s, st : containers' = [containers EXCEPT ![s].state = st]
             \/ \E s : \/ containers' = [containers EXCEPT ![s] = NoContainer]
                       \/ \E by, st : containers' = [containers EXCEPT ![s] =
                                                       [id |-> made[s] + 1, ours |-> by, state |-> st]]
           Nets ==
             \/ networks' = networks
             \/ \E n : \/ networks' = [networks EXCEPT ![n] = NoNetwork]
                       \/ \E by : networks' = [networks EXCEPT ![n] = [id |-> made[n] + 1, ours |-> by]]
<1>1. ASSUME Containers, NEW s \in Services, containers'[s].ours
      PROVE  containers'[s].id # 0
  <2>1. CASE containers' = containers
    BY <1>1, <2>1 DEF OursHaveIds
  <2>2. CASE \E t, st : containers' = [containers EXCEPT ![t].state = st]
    BY <1>1, <2>2 DEF OursHaveIds
  <2>3. CASE \E t : containers' = [containers EXCEPT ![t] = NoContainer]
    BY <1>1, <2>3 DEF OursHaveIds, NoContainer
  <2>4. CASE \E t, by, st : containers' = [containers EXCEPT ![t] =
                                             [id |-> made[t] + 1, ours |-> by, state |-> st]]
    <3>1. made[s] \in Nat
      OBVIOUS
    <3>2. QED
      BY <1>1, <2>4, <3>1 DEF OursHaveIds
  <2>5. QED
    BY <1>1, <2>1, <2>2, <2>3, <2>4
<1>2. ASSUME Nets, NEW n \in Networks, networks'[n].ours
      PROVE  networks'[n].id # 0
  <2>1. made[n] \in Nat
    OBVIOUS
  <2>2. QED
    BY <1>2, <2>1 DEF OursHaveIds, NoNetwork
<1>3. ASSUME NEW c \in Commands, Step(c) \/ Kill(c) \/ (\E o \in Operations : Begin(c, o))
             \/ \E a \in DOMAIN plan[c] : Fault(c, a)
      PROVE  Containers /\ Nets
  BY <1>3 DEF Step, Apply, Close, Spawn, Skip, Kill, Begin, Fault, engineVars
<1>4. ASSUME NEW c \in Commands, NEW a \in DOMAIN plan[c], Asked(c, a)
      PROVE  Containers /\ Nets
  <2>1. CASE \/ NothingToAsk(c, a) \/ PullImage(c, a) \/ CreateVolume(c, a) \/ CreateContainer(c, a)
             \/ StartContainer(c, a) \/ WaitForDependency(c, a) \/ StopContainer(c, a)
             \/ RemoveContainer(c, a) \/ RemoveVolume(c, a)
    BY <2>1 DEF NothingToAsk, PullImage, CreateVolume, CreateContainer, StartContainer,
                WaitForDependency, StopContainer, RemoveContainer, RemoveVolume, engineVars
  <2>2. CASE CreateNetwork(c, a) \/ RemoveNetwork(c, a)
    BY <2>2 DEF CreateNetwork, RemoveNetwork
  <2>3. QED
    BY <1>4, <2>1, <2>2 DEF Asked
<1>5. ASSUME Meddles \/ \E s \in Services : ProcessExits(s) \/ BecomesHealthy(s)
      PROVE  Containers /\ Nets
  <2>1. CASE \E s \in Services : ProcessExits(s) \/ BecomesHealthy(s)
    BY <2>1 DEF ProcessExits, BecomesHealthy, quietVars
  <2>2. CASE Meddles
    BY <2>2 DEF Meddles, MeddleWithContainer, MeddleWithNetwork, MeddleWithVolume
  <2>3. QED
    BY <1>5, <2>1, <2>2
<1>6. ASSUME UNCHANGED vars
      PROVE  Containers /\ Nets
  BY <1>6 DEF vars, engineVars
<1>7. Containers /\ Nets
  <2> HIDE DEF Containers, Nets
  <2>1. ASSUME NEW c \in Commands, Request(c)
        PROVE  Containers /\ Nets
    BY <1>4, <2>1 DEF Request, Asked
  <2>2. QED
    BY <1>3, <1>5, <1>6, <2>1 DEF Next, Environment, Meddles, Rest
<1> HIDE DEF Containers, Nets
<1>8. QED
  BY <1>1, <1>2, <1>7 DEF OursHaveIds

-----------------------------------------------------------------------------
\* What a command plans, and what its second snapshot tells it.

(* A command that begins holds the plan for its options and what is there. *)
LEMMA BeginPlans ==
  ASSUME ForeignInv, NEW c \in Commands, NEW o \in Operations, Begin(c, o), phase'[c] = "planned"
  PROVE  /\ o.op = "up" =>
              /\ UpProblems(TheProject, Capabilities, Snapshot, Options(o)) = {}
              /\ plan'[c] = UpPlan(TheProject, Snapshot, Options(o))
         /\ o.op = "down" => plan'[c] = DownPlan(TheProject, Snapshot, Options(o))
<1> DEFINE problems == IF o.op = "up" THEN UpProblems(TheProject, Capabilities, Snapshot, Options(o))
                       ELSE DownProblems(TheProject, Snapshot)
           next == IF problems # {} THEN << >>
                   ELSE IF o.op = "up" THEN UpPlan(TheProject, Snapshot, Options(o))
                   ELSE DownPlan(TheProject, Snapshot, Options(o))
<1>1. /\ phase' = [phase EXCEPT ![c] = IF problems = {} THEN "planned" ELSE "blocked"]
      /\ plan' = [plan EXCEPT ![c] = next]
  BY DEF Begin
<1>2. DOMAIN phase = Commands /\ DOMAIN plan = Commands
  BY DEF ForeignInv, TypeOK, CommandTypes
<1> HIDE DEF problems, next
<1>3. plan'[c] = next /\ problems = {}
  BY <1>1, <1>2
<1>4. QED
  BY <1>3 DEF problems, next

(* The second snapshot of a command gives it the ids of the project's.     *)
LEMMA SnapshotKnows ==
  LET out == FromSnapshot(Snapshot)
  IN  /\ \A s \in Services : containers[s].ours => out.containers[s] = containers[s].id
      /\ \A n \in Networks : networks[n].ours => out.networks[n] = networks[n].id
      /\ \A v \in Volumes : volumes[v] = "ours" => v \in out.volumes
<1> DEFINE IdOf(S) == IF S = {} THEN 0 ELSE (CHOOSE r \in S : TRUE).id
           held(s) == {r \in Snapshot.containers : r.service = s}
           made_(n) == {r \in Snapshot.networks : r.name = n}
           out == FromSnapshot(Snapshot)
<1>1. out = [containers |-> [s \in Services |-> IdOf(held(s))],
             networks |-> [n \in Networks |-> IdOf(made_(n))],
             volumes |-> {r.name : r \in Snapshot.volumes}]
  BY DEF FromSnapshot
<1>2. ASSUME NEW S, NEW id, NEW x \in S, \A r \in S : r.id = id
      PROVE  IdOf(S) = id
  <2>1. (CHOOSE r \in S : TRUE) \in S
    BY <1>2
  <2>2. QED
    BY <1>2, <2>1
<1>3. ASSUME NEW s \in Services, containers[s].ours
      PROVE  IdOf(held(s)) = containers[s].id
  <2>1. \A r \in held(s) : r.id = containers[s].id
    BY DEF Snapshot
  <2>2. [id |-> containers[s].id, service |-> s, replica |-> 0, ours |-> TRUE, complete |-> TRUE] \in held(s)
    BY <1>3 DEF Snapshot
  <2> HIDE DEF IdOf, held
  <2>3. QED
    BY <1>2, <2>1, <2>2
<1>4. ASSUME NEW n \in Networks, networks[n].ours
      PROVE  IdOf(made_(n)) = networks[n].id
  <2>1. \A r \in made_(n) : r.id = networks[n].id
    BY DEF Snapshot
  <2>2. [id |-> networks[n].id, name |-> n, ours |-> TRUE] \in made_(n)
    BY <1>4 DEF Snapshot
  <2> HIDE DEF IdOf, made_
  <2>3. QED
    BY <1>2, <2>1, <2>2
<1>5. ASSUME NEW v \in Volumes, volumes[v] = "ours"
      PROVE  v \in {r.name : r \in Snapshot.volumes}
  <2>1. [id |-> v, name |-> v, ours |-> TRUE] \in Snapshot.volumes
    BY <1>5 DEF Snapshot
  <2>2. QED
    BY <2>1
<1> HIDE DEF IdOf, held, made_
<1>6. QED
  BY <1>1, <1>3, <1>4, <1>5

-----------------------------------------------------------------------------
\* An undisturbed down.

(* What a down plans: to stop and then remove each container of an active  *)
(* service, and all networks and, if asked to, volumes after that.         *)
LEMMA DownPlanned ==
  ASSUME NEW opts
  PROVE  LET down == DownPlan(TheProject, Snapshot, opts)
             torn == {s \in Active(TheProject) : containers[s].ours}
         IN  /\ \A a \in DOMAIN down :
                  /\ down[a] \subseteq DOMAIN down
                  /\ a.kind \in {"StopContainer", "RemoveContainer", "RemoveNetwork", "RemoveVolume", "NoOp"}
                  /\ a.kind = "StopContainer" => a = StopId(Name(a)) /\ RemoveId(Name(a)) \in DOMAIN down
                  /\ a.kind = "RemoveContainer" => a = RemoveId(Name(a)) /\ down[a] = {StopId(Name(a))}
                  /\ a.kind \in {"StopContainer", "RemoveContainer"} => Name(a) \in torn
                  /\ \A b \in down[a] : b.kind \in {"StopContainer", "RemoveContainer"}
             /\ \A s \in torn : {StopId(s), RemoveId(s)} \subseteq DOMAIN down
             /\ \A n \in Networks : networks[n].ours =>
                  LET a == RemoveNetworkId(n, networks[n].id)
                  IN  a \in DOMAIN down /\ \A s \in torn : RemoveId(s) \in down[a]
             /\ \A v \in Volumes : volumes[v] = "ours" /\ opts.volumes =>
                  LET a == RemoveVolumeId(v)
                  IN  a \in DOMAIN down /\ \A s \in torn : RemoveId(s) \in down[a]
<1> DEFINE down == DownPlan(TheProject, Snapshot, opts)
           torn == {s \in Active(TheProject) : containers[s].ours}
           nets == Removed("RemoveNetwork", "network", Snapshot.networks)
           vols == RemovedVolumes(Snapshot, opts)
           actions == {StopId(s) : s \in torn} \cup {RemoveId(s) : s \in torn} \cup nets \cup vols
<1>1. TornDown(TheProject, Snapshot) = torn
  <2>1. ASSUME NEW s \in Active(TheProject), containers[s].ours
        PROVE  Claims(Snapshot, s) # {}
    <3>1. [id |-> containers[s].id, service |-> s, replica |-> 0, ours |-> TRUE, complete |-> TRUE]
            \in Snapshot.containers
      BY <2>1, ActiveServices DEF Snapshot
    <3>2. PICK k \in Snapshot.containers : k.ours /\ k.service = s
      BY <3>1
    <3>3. QED
      BY <3>2 DEF Claims
  <2>2. ASSUME NEW s, NEW k \in Claims(Snapshot, s)
        PROVE  containers[s].ours
    BY <2>2 DEF Claims, Snapshot
  <2>3. QED
    BY <2>1, <2>2 DEF TornDown
<1>2. /\ DOMAIN down = IF actions = {} THEN {NothingToDo} ELSE actions
      /\ \A a \in DOMAIN down :
           down[a] = IF a.kind = "RemoveContainer" THEN {StopId(Name(a))}
                     ELSE IF a.kind \in {"RemoveNetwork", "RemoveVolume"} THEN {RemoveId(s) : s \in torn}
                     ELSE {}
  BY <1>1 DEF DownPlan, DownActions, DownDependencies
<1>3. \A a \in nets : a.kind = "RemoveNetwork"
  BY DEF Removed, Id
<1>4. \A a \in vols : a.kind = "RemoveVolume"
  BY DEF RemovedVolumes, Removed, Id
<1>5. \A n \in Networks : networks[n].ours => RemoveNetworkId(n, networks[n].id) \in nets
  <2>1. ASSUME NEW n \in Networks, networks[n].ours
        PROVE  RemoveNetworkId(n, networks[n].id) \in nets
    <3>1. [id |-> networks[n].id, name |-> n, ours |-> TRUE] \in Snapshot.networks
      BY <2>1 DEF Snapshot
    <3>2. PICK r \in Snapshot.networks : r.ours /\ r.id = networks[n].id /\ r.name = n
      BY <3>1
    <3>3. RemoveNetworkId(n, networks[n].id) = Id(<<"network", r.name>>, "RemoveNetwork", <<r.id>>)
      BY <3>2 DEF RemoveNetworkId
    <3>4. QED
      BY <3>2, <3>3 DEF Removed
  <2>2. QED
    BY <2>1
<1>6. \A v \in Volumes : volumes[v] = "ours" /\ opts.volumes => RemoveVolumeId(v) \in vols
  <2>1. ASSUME NEW v \in Volumes, volumes[v] = "ours", opts.volumes
        PROVE  RemoveVolumeId(v) \in vols
    <3>1. [id |-> v, name |-> v, ours |-> TRUE] \in Snapshot.volumes
      BY <2>1 DEF Snapshot
    <3>2. PICK r \in Snapshot.volumes : r.ours /\ r.id = v /\ r.name = v
      BY <3>1
    <3>3. RemoveVolumeId(v) = Id(<<"volume", r.name>>, "RemoveVolume", <<r.id>>)
      BY <3>2 DEF RemoveVolumeId
    <3>4. QED
      BY <2>1, <3>2, <3>3 DEF RemovedVolumes, Removed
  <2>2. QED
    BY <2>1
<1>7. /\ \A s : StopId(s).kind = "StopContainer" /\ Name(StopId(s)) = s
      /\ \A s : RemoveId(s).kind = "RemoveContainer" /\ Name(RemoveId(s)) = s
      /\ \A n, id : RemoveNetworkId(n, id).kind = "RemoveNetwork"
      /\ \A v : RemoveVolumeId(v).kind = "RemoveVolume"
      /\ NothingToDo.kind = "NoOp"
  BY DEF StopId, RemoveId, RemoveNetworkId, RemoveVolumeId, NothingToDo, Id, Name
<1> HIDE DEF down, nets, vols
<1>8. ASSUME NEW a \in DOMAIN down
      PROVE  /\ down[a] \subseteq DOMAIN down
             /\ a.kind \in {"StopContainer", "RemoveContainer", "RemoveNetwork", "RemoveVolume", "NoOp"}
             /\ a.kind = "StopContainer" => a = StopId(Name(a)) /\ RemoveId(Name(a)) \in DOMAIN down
             /\ a.kind = "RemoveContainer" => a = RemoveId(Name(a)) /\ down[a] = {StopId(Name(a))}
             /\ a.kind \in {"StopContainer", "RemoveContainer"} => Name(a) \in torn
             /\ \A b \in down[a] : b.kind \in {"StopContainer", "RemoveContainer"}
  <2>1. CASE a = NothingToDo
    BY <1>2, <1>7, <2>1
  <2>2. CASE a \in actions
    <3>1. DOMAIN down = actions
      BY <1>2, <2>2
    <3>2. CASE a \in nets \cup vols
      <4>1. a.kind \in {"RemoveNetwork", "RemoveVolume"}
        BY <1>3, <1>4, <3>2
      <4>2. down[a] = {RemoveId(s) : s \in torn}
        BY <1>2, <4>1
      <4>3. {RemoveId(s) : s \in torn} \subseteq DOMAIN down
        BY <3>1
      <4>4. \A b \in {RemoveId(s) : s \in torn} : b.kind = "RemoveContainer"
        BY <1>7
      <4>5. QED
        BY <4>1, <4>2, <4>3, <4>4
    <3>3. CASE \E s \in torn : a = StopId(s)
      <4>1. PICK s \in torn : a = StopId(s)
        BY <3>3
      <4>2. a.kind = "StopContainer" /\ Name(a) = s /\ down[a] = {}
        BY <1>2, <1>7, <4>1
      <4>3. RemoveId(s) \in DOMAIN down
        BY <3>1
      <4>4. QED
        BY <4>1, <4>2, <4>3
    <3>4. CASE \E s \in torn : a = RemoveId(s)
      <4>1. PICK s \in torn : a = RemoveId(s)
        BY <3>4
      <4>2. a.kind = "RemoveContainer" /\ Name(a) = s /\ down[a] = {StopId(s)}
        BY <1>2, <1>7, <4>1
      <4>3. StopId(s) \in DOMAIN down
        BY <3>1
      <4>4. QED
        BY <1>7, <4>1, <4>2, <4>3
    <3>5. QED
      BY <2>2, <3>2, <3>3, <3>4
  <2>3. QED
    BY <1>2, <2>1, <2>2
<1>9. \A s \in torn : {StopId(s), RemoveId(s)} \subseteq DOMAIN down
  BY <1>2
<1>10. ASSUME NEW a \in nets \cup vols
       PROVE  a \in DOMAIN down /\ \A s \in torn : RemoveId(s) \in down[a]
  <2>1. a \in DOMAIN down /\ a.kind \in {"RemoveNetwork", "RemoveVolume"}
    BY <1>2, <1>3, <1>4, <1>10
  <2>2. down[a] = {RemoveId(s) : s \in torn}
    BY <1>2, <2>1
  <2>3. QED
    BY <2>1, <2>2
<1>11. QED
  BY <1>5, <1>6, <1>8, <1>9, <1>10 DEF down

(* A down begins with all planned, and nothing of it done.                 *)
LEMMA BeginTears ==
  ASSUME ForeignInv, RemovalInv, NEW c \in Commands, NEW o \in Operations, Begin(c, o)
  PROVE  TearsDown(c)'
<1> SUFFICES ASSUME Undisturbed(c, "down")'
             PROVE  (InOrder(c) /\ DownShape(c) /\ StopsAll(c) /\ RemovesNetworks(c) /\ RemovesVolumes(c))'
  BY DEF TearsDown
<1>1. /\ UNCHANGED <<containers, networks, volumes>> /\ operation'[c] = o
      /\ \A a \in DOMAIN plan'[c] : fate'[c][a] = "waiting"
      /\ phase'[c] = "planned" /\ o.op = "down"
  BY BeginShows DEF engineVars, Undisturbed, Alive
<1>2. plan'[c] = DownPlan(TheProject, Snapshot, Options(o))
  BY <1>1, BeginPlans
<1>3. Options(o).volumes = o.volumes
  BY DEF Options
<1> DEFINE down == plan'[c]
           torn == {s \in Active(TheProject) : containers[s].ours}
<1>4. /\ \A a \in DOMAIN down :
           /\ down[a] \subseteq DOMAIN down
           /\ a.kind \in {"StopContainer", "RemoveContainer", "RemoveNetwork", "RemoveVolume", "NoOp"}
           /\ a.kind = "StopContainer" => a = StopId(Name(a)) /\ RemoveId(Name(a)) \in DOMAIN down
           /\ a.kind = "RemoveContainer" => a = RemoveId(Name(a)) /\ down[a] = {StopId(Name(a))}
           /\ a.kind \in {"StopContainer", "RemoveContainer"} => Name(a) \in torn
           /\ \A b \in down[a] : b.kind \in {"StopContainer", "RemoveContainer"}
      /\ \A s \in torn : {StopId(s), RemoveId(s)} \subseteq DOMAIN down
      /\ \A n \in Networks : networks[n].ours =>
           LET a == RemoveNetworkId(n, networks[n].id)
           IN  a \in DOMAIN down /\ \A s \in torn : RemoveId(s) \in down[a]
      /\ \A v \in Volumes : volumes[v] = "ours" /\ o.volumes =>
           LET a == RemoveVolumeId(v)
           IN  a \in DOMAIN down /\ \A s \in torn : RemoveId(s) \in down[a]
  BY <1>2, <1>3, DownPlanned
<1>5. InOrder(c)' /\ DownShape(c)'
  BY <1>1, <1>4 DEF InOrder, DownShape
<1>6. StopsAll(c)'
  <2>1. ASSUME NEW a \in DOMAIN down
        PROVE  /\ fate'[c][a] = "waiting"
               /\ a.kind = "RemoveContainer" => containers'[Name(a)].ours
    BY <1>1, <1>4, <2>1
  <2>2. ASSUME NEW s \in Active(TheProject), containers'[s].ours
        PROVE  /\ {StopId(s), RemoveId(s)} \subseteq DOMAIN down
               /\ \A a \in {StopId(s), RemoveId(s)} : fate'[c][a] = "waiting"
    BY <1>1, <1>4, <2>2
  <2>3. ASSUME NEW s \in Active(TheProject), containers'[s].ours
        PROVE  /\ {StopId(s), RemoveId(s)} \subseteq DOMAIN down
               /\ fate'[c][RemoveId(s)] = "waiting" /\ fate'[c][StopId(s)] = "waiting"
    BY <2>2, <2>3
  <2> HIDE DEF down
  <2>4. QED
    BY <1>1, <2>1, <2>3 DEF StopsAll, down
<1>7. RemovesNetworks(c)'
  BY <1>1, <1>4 DEF RemovesNetworks
<1>8. RemovesVolumes(c)'
  BY <1>1, <1>4 DEF RemovesVolumes
<1>9. QED
  BY <1>5, <1>6, <1>7, <1>8

(* Its second snapshot tells it the ids of what it is to remove.           *)
LEMMA ApplyTears ==
  ASSUME ForeignInv, NEW c \in Commands, PlanShape(c), Undisturbed(c, "down"), TearsDown(c), Apply(c)
  PROVE  TearsDown(c)'
<1>1. /\ UNCHANGED <<containers, networks, volumes, operation, plan, fate, seen>>
      /\ outputs'[c] = FromSnapshot(Snapshot) /\ phase'[c] = "applying" /\ phase[c] = "planned"
  BY DEF Apply, engineVars, ForeignInv, TypeOK, CommandTypes
<1>2. \A a \in DOMAIN plan[c] : fate[c][a] = "waiting"
  BY <1>1 DEF PlanShape
<1>3. \A s \in Active(TheProject) : containers[s].ours => outputs'[c].containers[s] = containers[s].id
  BY <1>1, SnapshotKnows, ActiveServices
<1>4. \A n \in Networks : networks[n].ours => outputs'[c].networks[n] = networks[n].id
  BY <1>1, SnapshotKnows
<1>5. \A v \in Volumes : volumes[v] = "ours" => v \in outputs'[c].volumes
  BY <1>1, SnapshotKnows
<1>6. InOrder(c)' /\ DownShape(c)'
  BY <1>1 DEF TearsDown, InOrder, DownShape
<1>7. StopsAll(c)'
  BY <1>1, <1>3 DEF TearsDown, StopsAll
<1>8. RemovesNetworks(c)'
  BY <1>1, <1>2, <1>4 DEF TearsDown, RemovesNetworks
<1>9. RemovesVolumes(c)'
  BY <1>1, <1>2, <1>5 DEF TearsDown, RemovesVolumes
<1>10. QED
  BY <1>6, <1>7, <1>8, <1>9 DEF TearsDown

(* A fate that is decided once all it waits for succeeded keeps the order. *)
LEMMA FateInOrder ==
  ASSUME ForeignInv, NEW c \in Commands, NEW a \in DOMAIN plan[c], NEW f,
         fate' = [fate EXCEPT ![c][a] = f], UNCHANGED plan, InOrder(c), fate[c][a] # "succeeded",
         f \in {"running", "succeeded"} => \A b \in plan[c][a] : fate[c][b] = "succeeded"
  PROVE  InOrder(c)'
<1>1. fate'[c][a] = f /\ \A b \in DOMAIN plan[c] : b # a => fate'[c][b] = fate[c][b]
  BY DEF ForeignInv, TypeOK, CommandTypes
<1>2. ASSUME NEW b \in DOMAIN plan[c]
      PROVE  plan[c][b] \subseteq DOMAIN plan[c]
  BY <1>2 DEF InOrder
<1>3. ASSUME NEW b \in DOMAIN plan[c], fate'[c][b] \in {"running", "succeeded"}, NEW d \in plan[c][b]
      PROVE  fate'[c][d] = "succeeded"
  <2>1. fate[c][d] = "succeeded"
    <3>1. CASE b = a
      BY <1>1, <1>3, <3>1
    <3>2. CASE b # a
      BY <1>1, <1>3, <3>2 DEF InOrder
    <3>3. QED
      BY <3>1, <3>2
  <2>2. d \in DOMAIN plan[c] /\ d # a
    BY <1>2, <1>3, <2>1
  <2>3. QED
    BY <1>1, <2>1, <2>2
<1>4. QED
  BY <1>2, <1>3 DEF InOrder

(* An action that starts takes the id the command knows.                   *)
LEMMA SpawnTears ==
  ASSUME ForeignInv, NEW c \in Commands, NEW a \in DOMAIN plan[c],
         Undisturbed(c, "down"), TearsDown(c), Spawn(c, a)
  PROVE  TearsDown(c)'
<1> USE DEF ForeignInv, TypeOK, CommandTypes
<1>1. InOrder(c) /\ DownShape(c) /\ StopsAll(c) /\ RemovesNetworks(c) /\ RemovesVolumes(c)
  BY DEF TearsDown
<1>2. /\ UNCHANGED <<containers, networks, volumes, operation, phase, plan, outputs>>
      /\ phase[c] = "applying" /\ fate[c][a] = "waiting"
      /\ \A b \in plan[c][a] : fate[c][b] = "succeeded"
      /\ fate' = [fate EXCEPT ![c][a] = "running"]
  BY DEF Spawn, engineVars
<1>3. fate'[c][a] = "running" /\ \A b \in DOMAIN plan[c] : b # a => fate'[c][b] = fate[c][b]
  BY <1>2, OneFate
<1>4. seen'[c][a] = Reference(c, a) /\ \A b \in DOMAIN plan[c] : b # a => seen'[c][b] = seen[c][b]
  BY DEF Spawn
<1>5. InOrder(c)'
  BY <1>1, <1>2, FateInOrder
<1>6. DownShape(c)'
  BY <1>1, <1>2 DEF DownShape
<1>7. ASSUME NEW b \in DOMAIN plan[c]
      PROVE  /\ fate'[c][b] # fate[c][b] => b = a /\ fate[c][b] = "waiting" /\ fate'[c][b] = "running"
             /\ fate'[c][b] = "running" =>
                  (fate[c][b] = "running" /\ seen'[c][b] = seen[c][b]) \/ seen'[c][b] = Reference(c, b)
  BY <1>2, <1>3, <1>4, <1>7
<1>8. StopsAll(c)'
  <2>1. ASSUME NEW b \in DOMAIN plan[c]
        PROVE  /\ fate'[c][b] # "skipped"
               /\ fate'[c][b] = "failed" => b.kind \in {"RemoveNetwork", "RemoveVolume"}
               /\ b.kind = "RemoveContainer" /\ fate'[c][b] # "succeeded" => containers'[Name(b)].ours
    <3>1. /\ fate[c][b] # "skipped" /\ (fate[c][b] = "failed" => b.kind \in {"RemoveNetwork", "RemoveVolume"})
          /\ b.kind = "RemoveContainer" /\ fate[c][b] # "succeeded" => containers[Name(b)].ours
      BY <1>1 DEF StopsAll
    <3>2. fate'[c][b] = fate[c][b] \/ (fate[c][b] = "waiting" /\ fate'[c][b] = "running")
      BY <1>7
    <3>3. QED
      BY <1>2, <3>1, <3>2
  <2>2. ASSUME NEW s \in Active(TheProject), containers'[s].ours
        PROVE  /\ {StopId(s), RemoveId(s)} \subseteq DOMAIN plan[c] /\ fate'[c][RemoveId(s)] # "succeeded"
               /\ outputs'[c].containers[s] = containers'[s].id
               /\ \A b \in {StopId(s), RemoveId(s)} : fate'[c][b] = "running" => seen'[c][b] = containers'[s].id
               /\ fate'[c][StopId(s)] = "succeeded" => containers'[s].state \notin Live
    <3>1. /\ {StopId(s), RemoveId(s)} \subseteq DOMAIN plan[c] /\ fate[c][RemoveId(s)] # "succeeded"
          /\ outputs[c].containers[s] = containers[s].id
          /\ \A b \in {StopId(s), RemoveId(s)} : fate[c][b] = "running" => seen[c][b] = containers[s].id
          /\ fate[c][StopId(s)] = "succeeded" => containers[s].state \notin Live
      BY <1>1, <1>2, <2>2 DEF StopsAll
    <3>2. \A b \in {StopId(s), RemoveId(s)} : Reference(c, b) = outputs[c].containers[s]
      BY DEF Reference, StopId, RemoveId, Id, Name
    <3>3. \A b \in {StopId(s), RemoveId(s)} : fate'[c][b] = "running" => seen'[c][b] = containers[s].id
      BY <1>7, <3>1, <3>2
    <3>4. QED
      BY <1>2, <1>7, <3>1, <3>3
  <2>3. QED
    BY <1>2, <2>1, <2>2 DEF StopsAll
<1>9. RemovesNetworks(c)'
  <2>1. ASSUME NEW n \in Networks, networks'[n].ours, NEW b, b = RemoveNetworkId(n, networks[n].id)
        PROVE  /\ b \in DOMAIN plan[c] /\ fate'[c][b] # "succeeded"
               /\ \A s \in Active(TheProject) : containers'[s].ours => RemoveId(s) \in plan[c][b]
               /\ outputs'[c].networks[n] = networks[n].id
               /\ fate'[c][b] = "running" => seen'[c][b] = networks[n].id
               /\ fate'[c][b] = "failed" =>
                    \E s \in Services \ Active(TheProject) : containers'[s].id # 0 /\ n \in TheProject.networks[s]
    <3>1. /\ b \in DOMAIN plan[c] /\ fate[c][b] # "succeeded"
          /\ \A s \in Active(TheProject) : containers[s].ours => RemoveId(s) \in plan[c][b]
          /\ outputs[c].networks[n] = networks[n].id
          /\ fate[c][b] = "running" => seen[c][b] = networks[n].id
          /\ fate[c][b] = "failed" =>
               \E s \in Services \ Active(TheProject) : containers[s].id # 0 /\ n \in TheProject.networks[s]
      BY <1>1, <1>2, <2>1 DEF RemovesNetworks, Present
    <3>2. Reference(c, b) = outputs[c].networks[n]
      BY <2>1 DEF Reference, RemoveNetworkId, Id, Name
    <3>3. QED
      BY <1>2, <1>7, <3>1, <3>2
  <2>2. QED
    BY <1>2, <2>1 DEF RemovesNetworks, Present
<1>10. RemovesVolumes(c)'
  <2>1. ASSUME NEW v \in Volumes, operation[c].volumes, volumes[v] = "ours", NEW b, b = RemoveVolumeId(v)
        PROVE  /\ b \in DOMAIN plan[c] /\ fate'[c][b] # "succeeded"
               /\ \A s \in Active(TheProject) : containers[s].ours => RemoveId(s) \in plan[c][b]
               /\ v \in outputs[c].volumes
               /\ fate'[c][b] = "running" => seen'[c][b] # 0
               /\ fate'[c][b] = "failed" => Mounting(v) \ Active(TheProject) # {}
    <3>1. /\ b \in DOMAIN plan[c] /\ fate[c][b] # "succeeded"
          /\ \A s \in Active(TheProject) : containers[s].ours => RemoveId(s) \in plan[c][b]
          /\ v \in outputs[c].volumes
          /\ fate[c][b] = "running" => seen[c][b] # 0
          /\ fate[c][b] = "failed" => Mounting(v) \ Active(TheProject) # {}
      BY <1>1, <1>2, <2>1 DEF RemovesVolumes
    <3>2. Reference(c, b) = 1
      BY <2>1, <3>1 DEF Reference, RemoveVolumeId, Id, Name
    <3>3. QED
      BY <1>7, <3>1, <3>2
  <2>2. QED
    BY <1>2, <2>1 DEF RemovesVolumes, Mounting, Present
<1>11. QED
  BY <1>5, <1>6, <1>8, <1>9, <1>10 DEF TearsDown

(* It skips nothing: what all others wait for does not fail.               *)
LEMMA SkipTears ==
  ASSUME NEW c \in Commands, NEW a \in DOMAIN plan[c], Undisturbed(c, "down"), TearsDown(c), Skip(c, a)
  PROVE  FALSE
<1>1. PICK b \in plan[c][a] : fate[c][b] \in Settled /\ fate[c][b] # "succeeded"
  BY DEF Skip
<1>2. b \in DOMAIN plan[c] /\ b.kind \in {"StopContainer", "RemoveContainer"}
  BY DEF TearsDown, InOrder, DownShape
<1>3. fate[c][b] \notin {"failed", "skipped"}
  BY <1>2 DEF TearsDown, StopsAll
<1>4. QED
  BY <1>1, <1>3 DEF Settled

(* A container that changes its state changes nothing else.                *)
LEMMA ProcessTears ==
  ASSUME ForeignInv, NEW c \in Commands, Undisturbed(c, "down"), TearsDown(c),
         NEW t \in Services, ProcessExits(t) \/ BecomesHealthy(t)
  PROVE  TearsDown(c)'
<1>1. InOrder(c) /\ DownShape(c) /\ StopsAll(c) /\ RemovesNetworks(c) /\ RemovesVolumes(c)
  BY DEF TearsDown
<1>2. UNCHANGED <<networks, volumes, operation, phase, plan, fate, outputs, seen>>
  BY DEF ProcessExits, BecomesHealthy, quietVars, commandVars
<1>3. \A s \in Services : /\ containers'[s].id = containers[s].id /\ containers'[s].ours = containers[s].ours
                          /\ containers[s].state \notin Live => containers'[s].state \notin Live
  <2>1. containers[t].state \in Live /\ \E st : containers' = [containers EXCEPT ![t].state = st]
    BY DEF ProcessExits, BecomesHealthy, Live
  <2>2. PICK st : containers' = [containers EXCEPT ![t].state = st]
    BY <2>1
  <2>3. \A s \in Services : s # t => containers'[s] = containers[s]
    BY <2>2 DEF ForeignInv, TypeOK, EngineTypes
  <2>4. containers'[t].id = containers[t].id /\ containers'[t].ours = containers[t].ours
    BY <2>2 DEF ForeignInv, TypeOK, EngineTypes
  <2>5. QED
    BY <2>1, <2>3, <2>4
<1>4. InOrder(c)' /\ DownShape(c)'
  BY <1>1, <1>2 DEF InOrder, DownShape
<1>5. StopsAll(c)'
  BY <1>1, <1>2, <1>3, ActiveServices DEF StopsAll, DownShape
<1>6. RemovesNetworks(c)'
  BY <1>1, <1>2, <1>3, ActiveServices DEF RemovesNetworks, Present
<1>7. \A v \in Volumes : Mounting(v)' = Mounting(v)
  BY <1>3 DEF Mounting, Present
<1>8. RemovesVolumes(c)'
  BY <1>1, <1>2, <1>3, <1>7, ActiveServices DEF RemovesVolumes
<1>9. QED
  BY <1>4, <1>5, <1>6, <1>8 DEF TearsDown

(* What an answer may do to the engine while an undisturbed down goes on.  *)
Took(a, f) ==
  /\ f = "failed" => a.kind \in {"RemoveNetwork", "RemoveVolume"}
  /\ \A s \in Services :
       \/ containers'[s] = containers[s]
       \/ a = StopId(s) /\ containers'[s].id = containers[s].id /\ containers'[s].ours = containers[s].ours
       \/ a = RemoveId(s)
  /\ \A s \in Services : /\ a = StopId(s) => containers'[s].state \notin Live
                         /\ a = RemoveId(s) => ~containers'[s].ours
  /\ \A n \in Networks :
       /\ networks'[n] = networks[n] \/ ~networks'[n].ours
       /\ a.kind = "RemoveNetwork" /\ Name(a) = n /\ f = "succeeded" => ~networks'[n].ours
       /\ networks[n].ours /\ a = RemoveNetworkId(n, networks[n].id) /\ f = "failed" =>
            \E s \in Services \ Active(TheProject) : Present(s) /\ n \in TheProject.networks[s]
  /\ \A v \in Volumes :
       /\ volumes'[v] = volumes[v] \/ volumes'[v] # "ours"
       /\ a.kind = "RemoveVolume" /\ Name(a) = v /\ f = "succeeded" => volumes'[v] # "ours"
       /\ volumes[v] = "ours" /\ a = RemoveVolumeId(v) /\ f = "failed" => Mounting(v) \ Active(TheProject) # {}

(* An answer that takes away only what was asked for keeps the invariant.  *)
LEMMA AnswerTears ==
  ASSUME ForeignInv, NEW c \in Commands, NEW a \in DOMAIN plan[c], fate[c][a] = "running",
         phase[c] = "applying", Undisturbed(c, "down"), TearsDown(c), UNCHANGED <<operation, phase, plan, seen>>,
         outputs'[c] = outputs[c],
         NEW f \in {"succeeded", "failed"}, fate' = [fate EXCEPT ![c][a] = f], Took(a, f)
  PROVE  TearsDown(c)'
<1>1. InOrder(c) /\ DownShape(c) /\ StopsAll(c) /\ RemovesNetworks(c) /\ RemovesVolumes(c)
  BY DEF TearsDown
<1>2. fate'[c][a] = f /\ \A b \in DOMAIN plan[c] : b # a => fate'[c][b] = fate[c][b]
  BY DEF ForeignInv, TypeOK, CommandTypes
<1>3. InOrder(c)'
  <2>1. f = "succeeded" => \A b \in plan[c][a] : fate[c][b] = "succeeded"
    BY <1>1 DEF InOrder
  <2>2. QED
    BY <1>1, <2>1, FateInOrder
<1>4. DownShape(c)'
  BY <1>1 DEF DownShape
<1>5. \A s : s \notin Active(TheProject) => a # StopId(s) /\ a # RemoveId(s)
  <2>1. \A s : /\ StopId(s).kind = "StopContainer" /\ Name(StopId(s)) = s
               /\ RemoveId(s).kind = "RemoveContainer" /\ Name(RemoveId(s)) = s
    BY DEF StopId, RemoveId, Id, Name
  <2>2. QED
    BY <1>1, <2>1 DEF DownShape
<1>6. \A s \in Services \ Active(TheProject) : containers'[s] = containers[s]
  BY <1>5 DEF Took
<1>7. \A s \in Services : containers'[s].ours /\ ~containers[s].ours => FALSE
  BY DEF Took
<1>8. StopsAll(c)'
  <2>1. ASSUME NEW b \in DOMAIN plan[c]
        PROVE  /\ fate'[c][b] # "skipped"
               /\ fate'[c][b] = "failed" => b.kind \in {"RemoveNetwork", "RemoveVolume"}
               /\ b.kind = "RemoveContainer" /\ fate'[c][b] # "succeeded" => containers'[Name(b)].ours
    <3>1. /\ fate[c][b] # "skipped" /\ (fate[c][b] = "failed" => b.kind \in {"RemoveNetwork", "RemoveVolume"})
          /\ b.kind = "RemoveContainer" /\ fate[c][b] # "succeeded" => containers[Name(b)].ours
      BY <1>1 DEF StopsAll
    <3>2. /\ fate'[c][b] # "skipped"
          /\ fate'[c][b] = "failed" => b.kind \in {"RemoveNetwork", "RemoveVolume"}
      BY <1>2, <3>1 DEF Took
    <3>3. ASSUME b.kind = "RemoveContainer", fate'[c][b] # "succeeded"
          PROVE  containers'[Name(b)].ours
      <4>1. b # a
        BY <1>2, <3>3 DEF Took
      <4>2. containers[Name(b)].ours /\ b = RemoveId(Name(b)) /\ Name(b) \in Services
        BY <1>1, <1>2, <3>1, <3>3, <4>1, ActiveServices DEF DownShape
      <4>3. QED
        BY <4>1, <4>2 DEF Took
    <3>4. QED
      BY <3>2, <3>3
  <2>2. ASSUME NEW s \in Active(TheProject), containers'[s].ours
        PROVE  /\ {StopId(s), RemoveId(s)} \subseteq DOMAIN plan[c] /\ fate'[c][RemoveId(s)] # "succeeded"
               /\ outputs'[c].containers[s] = containers'[s].id
               /\ fate'[c][StopId(s)] = "running" => seen[c][StopId(s)] = containers'[s].id
               /\ fate'[c][RemoveId(s)] = "running" => seen[c][RemoveId(s)] = containers'[s].id
               /\ fate'[c][StopId(s)] = "succeeded" => containers'[s].state \notin Live
    <3>1. s \in Services /\ containers[s].ours /\ a # RemoveId(s)
      BY <1>7, <2>2, ActiveServices DEF Took
    <3>2. /\ {StopId(s), RemoveId(s)} \subseteq DOMAIN plan[c] /\ fate[c][RemoveId(s)] # "succeeded"
          /\ outputs[c].containers[s] = containers[s].id
          /\ fate[c][StopId(s)] = "running" => seen[c][StopId(s)] = containers[s].id
          /\ fate[c][RemoveId(s)] = "running" => seen[c][RemoveId(s)] = containers[s].id
          /\ fate[c][StopId(s)] = "succeeded" => containers[s].state \notin Live
      BY <1>1, <3>1 DEF StopsAll
    <3>3. fate'[c][RemoveId(s)] = fate[c][RemoveId(s)]
      BY <1>2, <3>1, <3>2
    <3>4. CASE a = StopId(s)
      <4>1. containers'[s].id = containers[s].id /\ containers'[s].state \notin Live
        BY <3>1, <3>4 DEF Took
      <4>2. fate'[c][StopId(s)] # "running"
        BY <1>2, <3>4
      <4>3. QED
        BY <3>2, <3>3, <4>1, <4>2
    <3>5. CASE a # StopId(s)
      <4>1. containers'[s] = containers[s]
        BY <3>1, <3>5 DEF Took
      <4>2. fate'[c][StopId(s)] = fate[c][StopId(s)]
        BY <1>2, <3>2, <3>5
      <4>3. QED
        BY <3>2, <3>3, <4>1, <4>2
    <3>6. QED
      BY <3>4, <3>5
  <2>3. QED
    BY <2>1, <2>2 DEF StopsAll
<1>9. RemovesNetworks(c)'
  <2>1. ASSUME NEW n \in Networks, networks'[n].ours, NEW b, b = RemoveNetworkId(n, networks'[n].id)
        PROVE  /\ b \in DOMAIN plan[c] /\ fate'[c][b] # "succeeded"
               /\ \A s \in Active(TheProject) : containers'[s].ours => RemoveId(s) \in plan[c][b]
               /\ outputs[c].networks[n] = networks'[n].id
               /\ fate'[c][b] = "running" => seen[c][b] = networks'[n].id
               /\ fate'[c][b] = "failed" =>
                    \E s \in Services \ Active(TheProject) : containers'[s].id # 0 /\ n \in TheProject.networks[s]
    <3>1. networks'[n] = networks[n]
      BY <2>1 DEF Took
    <3>2. /\ b \in DOMAIN plan[c] /\ fate[c][b] # "succeeded"
          /\ \A s \in Active(TheProject) : containers[s].ours => RemoveId(s) \in plan[c][b]
          /\ outputs[c].networks[n] = networks[n].id
          /\ fate[c][b] = "running" => seen[c][b] = networks[n].id
          /\ fate[c][b] = "failed" =>
               \E s \in Services \ Active(TheProject) : containers[s].id # 0 /\ n \in TheProject.networks[s]
      BY <1>1, <2>1, <3>1 DEF RemovesNetworks, Present
    <3>3. \A s \in Active(TheProject) : containers'[s].ours => RemoveId(s) \in plan[c][b]
      BY <1>7, <3>2, ActiveServices
    <3>4. CASE b # a
      BY <1>2, <1>6, <3>1, <3>2, <3>3, <3>4
    <3>5. CASE b = a
      <4>1. a.kind = "RemoveNetwork" /\ Name(a) = n
        BY <2>1, <3>5 DEF RemoveNetworkId, Id, Name
      <4>2. f = "failed"
        BY <2>1, <4>1 DEF Took
      <4>3. \E s \in Services \ Active(TheProject) : containers[s].id # 0 /\ n \in TheProject.networks[s]
        BY <2>1, <3>1, <3>5, <4>2 DEF Took, Present
      <4>4. QED
        BY <1>2, <1>6, <3>1, <3>2, <3>3, <3>5, <4>2, <4>3
    <3>6. QED
      BY <3>4, <3>5
  <2>2. QED
    BY <2>1 DEF RemovesNetworks, Present
<1>10. RemovesVolumes(c)'
  <2>1. ASSUME NEW v \in Volumes, operation[c].volumes, volumes'[v] = "ours", NEW b, b = RemoveVolumeId(v)
        PROVE  /\ b \in DOMAIN plan[c] /\ fate'[c][b] # "succeeded"
               /\ \A s \in Active(TheProject) : containers'[s].ours => RemoveId(s) \in plan[c][b]
               /\ v \in outputs[c].volumes
               /\ fate'[c][b] = "running" => seen[c][b] # 0
               /\ fate'[c][b] = "failed" => Mounting(v)' \ Active(TheProject) # {}
    <3>1. volumes[v] = "ours"
      BY <2>1 DEF Took
    <3>2. /\ b \in DOMAIN plan[c] /\ fate[c][b] # "succeeded"
          /\ \A s \in Active(TheProject) : containers[s].ours => RemoveId(s) \in plan[c][b]
          /\ v \in outputs[c].volumes
          /\ fate[c][b] = "running" => seen[c][b] # 0
          /\ fate[c][b] = "failed" => Mounting(v) \ Active(TheProject) # {}
      BY <1>1, <2>1, <3>1 DEF RemovesVolumes
    <3>3. \A s \in Active(TheProject) : containers'[s].ours => RemoveId(s) \in plan[c][b]
      BY <1>7, <3>2, ActiveServices
    <3>4. Mounting(v) \ Active(TheProject) # {} => Mounting(v)' \ Active(TheProject) # {}
      BY <1>6 DEF Mounting, Present
    <3>5. CASE b # a
      BY <1>2, <3>2, <3>3, <3>4, <3>5
    <3>6. CASE b = a
      <4>1. a.kind = "RemoveVolume" /\ Name(a) = v
        BY <2>1, <3>6 DEF RemoveVolumeId, Id, Name
      <4>2. f = "failed"
        BY <2>1, <4>1 DEF Took
      <4>3. Mounting(v) \ Active(TheProject) # {}
        BY <2>1, <3>1, <3>6, <4>2 DEF Took
      <4>4. QED
        BY <1>2, <3>2, <3>3, <3>4, <3>6, <4>2, <4>3
    <3>7. QED
      BY <3>5, <3>6
  <2>2. QED
    BY <2>1 DEF RemovesVolumes
<1>11. QED
  BY <1>3, <1>4, <1>8, <1>9, <1>10 DEF TearsDown

(* So does every request of a down.                                        *)
LEMMA AskedTears ==
  ASSUME ForeignInv, RemovalInv, OursHaveIds, NEW c \in Commands, NEW a \in DOMAIN plan[c], PlanShape(c),
         Undisturbed(c, "down"), calm[c]', TearsDown(c), Asked(c, a)
  PROVE  TearsDown(c)'
<1> USE DEF ForeignInv, TypeOK
<1>1. InOrder(c) /\ DownShape(c) /\ StopsAll(c) /\ RemovesNetworks(c) /\ RemovesVolumes(c)
  BY DEF TearsDown
<1>2. a \in InFlight(c) /\ fate[c][a] = "running" /\ Alive(c) /\ phase[c] = "applying"
  BY AskedInFlight DEF InFlight, PlanShape, Undisturbed, Alive
<1>3. UNCHANGED <<operation, phase, plan, seen>>
  BY DEF Asked, NothingToAsk, PullImage, CreateNetwork, CreateVolume, CreateContainer, StartContainer,
         WaitForDependency, StopContainer, RemoveContainer, RemoveNetwork, RemoveVolume, steadyVars
<1>4. \A s : StopId(s).kind = "StopContainer" /\ Name(StopId(s)) = s
             /\ RemoveId(s).kind = "RemoveContainer" /\ Name(RemoveId(s)) = s
  BY DEF StopId, RemoveId, Id, Name
<1>5. /\ \A n, id : RemoveNetworkId(n, id).kind = "RemoveNetwork" /\ Name(RemoveNetworkId(n, id)) = n
      /\ \A v : RemoveVolumeId(v).kind = "RemoveVolume" /\ Name(RemoveVolumeId(v)) = v
  BY DEF RemoveNetworkId, RemoveVolumeId, Id, Name
<1>6. ASSUME NEW f \in {"succeeded", "failed"}, fate' = [fate EXCEPT ![c][a] = f],
             outputs' = outputs \/ outputs' = [outputs EXCEPT ![c] = outputs[c]], Took(a, f)
      PROVE  TearsDown(c)'
  <2>1. outputs'[c] = outputs[c]
    BY <1>6 DEF CommandTypes
  <2>2. QED
    BY <1>2, <1>3, <1>6, <2>1, AnswerTears
<1>7. CASE NothingToAsk(c, a)
  <2>1. /\ a.kind = "NoOp" /\ fate' = [fate EXCEPT ![c][a] = "succeeded"]
        /\ UNCHANGED <<outputs, containers, networks, volumes>>
    BY <1>7 DEF NothingToAsk, Asks, engineVars
  <2>2. Took(a, "succeeded")
    BY <1>4, <2>1 DEF Took
  <2>3. QED
    BY <1>6, <2>1, <2>2
<1>8. CASE StopContainer(c, a)
  <2> DEFINE s == Name(a)
  <2>1. a = StopId(s) /\ s \in Active(TheProject) /\ s \in Services /\ RemoveId(s) \in DOMAIN plan[c]
    BY <1>1, <1>8, ActiveServices DEF StopContainer, Asks, DownShape
  <2>2. plan[c][RemoveId(s)] = {StopId(s)}
    BY <1>1, <1>4, <2>1 DEF DownShape
  <2>3. fate[c][RemoveId(s)] # "succeeded"
    BY <1>1, <1>2, <2>1, <2>2 DEF InOrder
  <2>4. containers[s].ours
    BY <1>1, <1>4, <2>1, <2>3 DEF StopsAll
  <2>5. Found(c, a)
    BY <1>1, <1>2, <2>1, <2>4 DEF StopsAll, OursHaveIds, Found
  <2>6. /\ UNCHANGED <<networks, volumes>> /\ Succeeds(c, a, outputs[c])
        /\ \E exit \in Exits : containers' = [containers EXCEPT ![s].state = IF @ \in Live THEN exit ELSE @]
    BY <1>8, <2>5 DEF StopContainer
  <2>7. PICK st : containers' = [containers EXCEPT ![s].state = st] /\ st \notin Live
    <3>1. PICK exit \in Exits : containers' = [containers EXCEPT ![s].state = IF @ \in Live THEN exit ELSE @]
      BY <2>6
    <3>2. exit \notin Live
      BY ProjectAssumption DEF Live
    <3>3. QED
      BY <3>1, <3>2
  <2>8. /\ containers'[s].id = containers[s].id /\ containers'[s].ours = containers[s].ours
        /\ containers'[s].state \notin Live
        /\ \A t \in Services : t # s => containers'[t] = containers[t]
    BY <2>1, <2>7 DEF EngineTypes
  <2>9. fate' = [fate EXCEPT ![c][a] = "succeeded"] /\ outputs' = [outputs EXCEPT ![c] = outputs[c]]
    BY <1>2, <2>6, CalmSucceeds
  <2> HIDE DEF s
  <2>10. Took(a, "succeeded")
    <3>1. a.kind = "StopContainer" /\ \A t : a # RemoveId(t)
      BY <1>4, <2>1
    <3>2. ASSUME NEW t, a = StopId(t) PROVE t = s
      BY <1>4, <3>2 DEF s
    <3>3. QED
      BY <1>5, <2>1, <2>6, <2>8, <3>1, <3>2 DEF Took
  <2>11. QED
    BY <1>6, <2>9, <2>10
<1>9. CASE RemoveContainer(c, a)
  <2> DEFINE s == Name(a)
  <2>1. a = RemoveId(s) /\ s \in Active(TheProject) /\ s \in Services /\ plan[c][a] = {StopId(s)}
    BY <1>1, <1>9, ActiveServices DEF RemoveContainer, Asks, DownShape
  <2>2. fate[c][StopId(s)] = "succeeded"
    BY <1>1, <1>2, <2>1 DEF InOrder
  <2>3. containers[s].ours
    BY <1>1, <1>2, <1>4, <2>1 DEF StopsAll
  <2>4. Found(c, a) /\ containers[s].state \notin Live
    BY <1>1, <1>2, <2>1, <2>2, <2>3 DEF StopsAll, OursHaveIds, Found
  <2>5. /\ UNCHANGED <<networks, volumes>> /\ Succeeds(c, a, outputs[c])
        /\ containers' = [containers EXCEPT ![s] = NoContainer]
    BY <1>9, <2>4 DEF RemoveContainer
  <2>6. ~containers'[s].ours /\ \A t \in Services : t # s => containers'[t] = containers[t]
    BY <2>1, <2>5 DEF EngineTypes, NoContainer
  <2>7. fate' = [fate EXCEPT ![c][a] = "succeeded"] /\ outputs' = [outputs EXCEPT ![c] = outputs[c]]
    BY <1>2, <2>5, CalmSucceeds
  <2> HIDE DEF s
  <2>8. Took(a, "succeeded")
    <3>1. a.kind = "RemoveContainer" /\ \A t : a # StopId(t)
      BY <1>4, <2>1
    <3>2. ASSUME NEW t, a = RemoveId(t) PROVE t = s
      BY <1>4, <3>2 DEF s
    <3>3. QED
      BY <1>5, <2>1, <2>5, <2>6, <3>1, <3>2 DEF Took
  <2>9. QED
    BY <1>6, <2>7, <2>8
<1>10. ASSUME NEW b \in DOMAIN plan[c], b = a,
              \A s \in Active(TheProject) : containers[s].ours => RemoveId(s) \in plan[c][b]
       PROVE  \A s \in Active(TheProject) : ~containers[s].ours
  <2>1. ASSUME NEW s \in Active(TheProject), containers[s].ours
        PROVE  FALSE
    <3>1. fate[c][RemoveId(s)] = "succeeded"
      BY <1>1, <1>2, <1>10, <2>1 DEF InOrder
    <3>2. QED
      BY <1>1, <2>1, <3>1 DEF StopsAll
  <2>2. QED
    BY <2>1, ActiveServices DEF EngineTypes
<1>11. CASE RemoveNetwork(c, a)
  <2> DEFINE n == Name(a)
             possible == seen[c][a] # 0 /\ networks[n].id = seen[c][a] /\ Attached(n) = {}
  <2>1. a.kind = "RemoveNetwork" /\ UNCHANGED <<containers, volumes>>
    BY <1>11 DEF RemoveNetwork, Asks
  <2>2. CASE possible
    <3>1. networks' = [networks EXCEPT ![n] = NoNetwork] /\ Succeeds(c, a, outputs[c])
      BY <1>11, <2>2 DEF RemoveNetwork
    <3>2. \A m \in Networks : IF m = n THEN ~networks'[m].ours ELSE networks'[m] = networks[m]
      BY <3>1 DEF EngineTypes, NoNetwork
    <3>3. fate' = [fate EXCEPT ![c][a] = "succeeded"] /\ outputs' = [outputs EXCEPT ![c] = outputs[c]]
      BY <1>2, <3>1, CalmSucceeds
    <3>4. Took(a, "succeeded")
      BY <1>4, <2>1, <3>2 DEF Took
    <3>5. QED
      BY <1>6, <3>3, <3>4
  <2>3. CASE ~possible
    <3>1. UNCHANGED networks /\ Fails(c, a)
      BY <1>11, <2>3 DEF RemoveNetwork
    <3>2. ASSUME NEW m \in Networks, networks[m].ours, a = RemoveNetworkId(m, networks[m].id)
          PROVE  \E s \in Services \ Active(TheProject) : Present(s) /\ m \in TheProject.networks[s]
      <4>1. m = n
        BY <1>5, <3>2
      <4>2. /\ \A s \in Active(TheProject) : containers[s].ours => RemoveId(s) \in plan[c][a]
            /\ seen[c][a] = networks[m].id
        BY <1>1, <1>2, <3>2 DEF RemovesNetworks
      <4>3. PICK s \in Services : m \in TheProject.networks[s] /\ containers[s].ours
        BY <2>3, <3>2, <4>1, <4>2 DEF OursHaveIds, Attached
      <4>4. s \notin Active(TheProject)
        BY <1>10, <4>2, <4>3
      <4>5. QED
        BY <4>3, <4>4 DEF OursHaveIds, Present
    <3>3. Took(a, "failed")
      BY <1>4, <1>5, <2>1, <3>1, <3>2 DEF Took
    <3>4. QED
      BY <1>6, <3>1, <3>3 DEF Fails
  <2>4. QED
    BY <2>2, <2>3
<1>12. CASE RemoveVolume(c, a)
  <2> DEFINE v == Name(a)
             possible == seen[c][a] # 0 /\ volumes[v] # "absent" /\ Mounting(v) = {}
  <2>1. a.kind = "RemoveVolume" /\ UNCHANGED <<containers, networks>>
    BY <1>12 DEF RemoveVolume, Asks
  <2>2. CASE possible
    <3>1. volumes' = [volumes EXCEPT ![v] = "absent"] /\ Succeeds(c, a, outputs[c])
      BY <1>12, <2>2 DEF RemoveVolume
    <3>2. \A w \in Volumes : IF w = v THEN volumes'[w] # "ours" ELSE volumes'[w] = volumes[w]
      BY <3>1 DEF EngineTypes
    <3>3. fate' = [fate EXCEPT ![c][a] = "succeeded"] /\ outputs' = [outputs EXCEPT ![c] = outputs[c]]
      BY <1>2, <3>1, CalmSucceeds
    <3>4. Took(a, "succeeded")
      BY <1>4, <2>1, <3>2 DEF Took
    <3>5. QED
      BY <1>6, <3>3, <3>4
  <2>3. CASE ~possible
    <3>1. UNCHANGED volumes /\ Fails(c, a)
      BY <1>12, <2>3 DEF RemoveVolume
    <3>2. ASSUME NEW w \in Volumes, volumes[w] = "ours", a = RemoveVolumeId(w)
          PROVE  Mounting(w) \ Active(TheProject) # {}
      <4>1. w = v
        BY <1>5, <3>2
      <4>2. operation[c].volumes
        BY <2>1 DEF RemovalInv, PlanFits
      <4>3. /\ \A s \in Active(TheProject) : containers[s].ours => RemoveId(s) \in plan[c][a]
            /\ seen[c][a] # 0
        BY <1>1, <1>2, <3>2, <4>2 DEF RemovesVolumes
      <4>4. PICK s \in Mounting(w) : TRUE
        BY <2>3, <3>2, <4>1, <4>3
      <4>5. s \notin Active(TheProject)
        BY <1>10, <4>3, <4>4 DEF Mounting
      <4>6. QED
        BY <4>4, <4>5
    <3>3. Took(a, "failed")
      BY <1>4, <1>5, <2>1, <3>1, <3>2 DEF Took
    <3>4. QED
      BY <1>6, <3>1, <3>3 DEF Fails
  <2>4. QED
    BY <2>2, <2>3
<1>13. a.kind \in {"StopContainer", "RemoveContainer", "RemoveNetwork", "RemoveVolume", "NoOp"}
  BY <1>1 DEF DownShape
<1>14. \/ NothingToAsk(c, a) \/ StopContainer(c, a)
       \/ RemoveContainer(c, a) \/ RemoveNetwork(c, a) \/ RemoveVolume(c, a)
  BY <1>13 DEF Asked, PullImage, CreateNetwork, CreateVolume, CreateContainer, StartContainer,
               WaitForDependency, Asks
<1>15. QED
  BY <1>7, <1>8, <1>9, <1>11, <1>12, <1>14

-----------------------------------------------------------------------------
\* An undisturbed up.

(* What an up plans: networks that are not there, and containers with all  *)
(* they need that is not there.  The images and networks that are there    *)
(* are those of the snapshot, and it builds nothing.                       *)
LEMMA UpPlanned ==
  ASSUME OursHaveIds, NEW o, UpProblems(TheProject, Capabilities, Snapshot, Options(o)) = {},
         NEW up, up = UpPlan(TheProject, Snapshot, Options(o)), NEW a \in DOMAIN up
  PROVE  /\ up[a] \subseteq DOMAIN up
         /\ a.kind \in {"NoOp", "CreateNetwork", "CreateVolume", "PullImage", "CreateContainer",
                        "StartContainer", "WaitForDependency"}
         /\ a.kind = "CreateNetwork" =>
              a = CreateNetworkId(Name(a)) /\ Name(a) \in Networks /\ ~networks[Name(a)].ours
         /\ a.kind = "CreateContainer" =>
              /\ a = CreateId(Name(a)) /\ Name(a) \in Services
              /\ TheProject.image[Name(a)] \in images \/ PullId(TheProject.image[Name(a)]) \in up[a]
              /\ \A n \in TheProject.networks[Name(a)] \cap Networks :
                   networks[n].id # 0 \/ CreateNetworkId(n) \in up[a]
         /\ a.kind = "StartContainer" => a = StartId(Name(a)) /\ CreateId(Name(a)) \in up[a]
<1> DEFINE p == TheProject
           opts == Options(o)
           missing == MissingImages(p, Snapshot, opts)
           actions == UpActions(p, Snapshot, opts)
<1>1. /\ Built(p, opts) = {} /\ missing = RequiredImages(p) \ images
      /\ \A s \in Active(p) : p.image[s] # NoImage
  <2>1. Built(p, opts) = {} /\ missing = RequiredImages(p) \ images
    BY DEF Built, Options, MissingImages, Snapshot
  <2>2. CapabilityProblems(p, Capabilities, opts) = {}
    BY DEF UpProblems
  <2>3. QED
    BY <2>1, <2>2 DEF CapabilityProblems
<1>2. \A n \in Networks : Ours(Snapshot.networks, n) <=> networks[n].ours
  <2>1. ASSUME NEW n \in Networks, networks[n].ours
        PROVE  Ours(Snapshot.networks, n)
    <3>1. [id |-> networks[n].id, name |-> n, ours |-> TRUE] \in Snapshot.networks
      BY <2>1 DEF Snapshot
    <3>2. QED
      BY <3>1 DEF Ours
  <2>2. ASSUME NEW n \in Networks, Ours(Snapshot.networks, n)
        PROVE  networks[n].ours
    BY <2>2 DEF Ours, Snapshot
  <2>3. QED
    BY <2>1, <2>2
<1>3. \A n \in Networks : NetworkId(Snapshot, n) =
        IF networks[n].ours THEN Id(<<"network", n>>, "NoOp", <<>>) ELSE CreateNetworkId(n)
  BY <1>2 DEF NetworkId, CreateNetworkId
<1>4. /\ DOMAIN up = actions
      /\ a.kind = "CreateContainer" => up[a] = Prerequisites(p, Snapshot, opts, Name(a))
      /\ a.kind = "StartContainer" => up[a] = StartAfter(p, Name(a))
      /\ a.kind = "WaitForDependency" => up[a] = {StartId(a.disc[1])}
      /\ a.kind \notin {"BuildImage", "CreateContainer", "StartContainer", "WaitForDependency"} => up[a] = {}
  BY DEF UpPlan
<1>5. \/ \E n \in Networks : a = NetworkId(Snapshot, n)
      \/ \E v \in RequiredVolumes(p) : a = VolumeId(Snapshot, v)
      \/ \E i \in missing : a = PullId(i)
      \/ \E s \in Active(p) : a = CreateId(s)
      \/ \E s \in Active(p) : a = StartId(s)
      \/ \E s \in Active(p) : \E d \in WaitedFor(p, s) : a = WaitId(s, d)
  BY <1>1, <1>4 DEF UpActions
<1> HIDE DEF p, opts, missing, actions
<1>6. CASE \E n \in Networks : a = NetworkId(Snapshot, n)
  <2>1. PICK n \in Networks : a = NetworkId(Snapshot, n)
    BY <1>6
  <2>2. CASE networks[n].ours
    BY <1>3, <1>4, <2>1, <2>2 DEF Id
  <2>3. CASE ~networks[n].ours
    <3>1. a = CreateNetworkId(n)
      BY <1>3, <2>1, <2>3
    <3>2. a.kind = "CreateNetwork" /\ Name(a) = n
      BY <3>1 DEF CreateNetworkId, Id, Name
    <3>3. QED
      BY <1>4, <2>3, <3>1, <3>2
  <2>4. QED
    BY <2>2, <2>3
<1>7. CASE (\E v \in RequiredVolumes(p) : a = VolumeId(Snapshot, v)) \/ \E i \in missing : a = PullId(i)
  <2>1. a.kind \in {"NoOp", "CreateVolume", "PullImage"}
    BY <1>7 DEF VolumeId, PullId, Id
  <2>2. QED
    BY <1>4, <2>1
<1>8. CASE \E s \in Active(p) : a = CreateId(s)
  <2>1. PICK s \in Active(p) : a = CreateId(s)
    BY <1>8
  <2>2. a.kind = "CreateContainer" /\ Name(a) = s
    BY <2>1 DEF CreateId, Id, Name
  <2>3. s \in Services
    BY ActiveServices DEF p
  <2>4. up[a] = {PullId(i) : i \in missing \cap {p.image[s]}}
                  \cup {NetworkId(Snapshot, n) : n \in p.networks[s] \cap Networks}
                  \cup {VolumeId(Snapshot, v) : v \in p.volumes[s]}
    BY <1>1, <1>4, <2>2 DEF Prerequisites, missing
  <2>5. up[a] \subseteq DOMAIN up
    <3>1. p.volumes[s] \subseteq RequiredVolumes(p)
      BY DEF RequiredVolumes
    <3>2. /\ \A i \in missing : PullId(i) \in actions
          /\ \A n \in Networks : NetworkId(Snapshot, n) \in actions
          /\ \A v \in RequiredVolumes(p) : VolumeId(Snapshot, v) \in actions
      BY DEF actions, UpActions, missing
    <3>3. QED
      BY <1>4, <2>4, <3>1, <3>2
  <2>6. p.image[s] \in images \/ PullId(p.image[s]) \in up[a]
    <3>1. p.image[s] \in RequiredImages(p)
      BY <1>1 DEF RequiredImages
    <3>2. QED
      BY <1>1, <2>4, <3>1
  <2>7. \A n \in p.networks[s] \cap Networks : networks[n].id # 0 \/ CreateNetworkId(n) \in up[a]
    BY <1>3, <2>4 DEF OursHaveIds
  <2>8. QED
    BY <2>1, <2>2, <2>3, <2>5, <2>6, <2>7 DEF p
<1>9. CASE \E s \in Active(p) : a = StartId(s)
  <2>1. PICK s \in Active(p) : a = StartId(s)
    BY <1>9
  <2>2. a.kind = "StartContainer" /\ Name(a) = s
    BY <2>1 DEF StartId, Id, Name
  <2>3. up[a] \subseteq DOMAIN up
    BY <2>2, UpStarts
  <2>4. CreateId(s) \in up[a]
    BY <1>4, <2>2 DEF StartAfter
  <2>5. QED
    BY <2>1, <2>2, <2>3, <2>4
<1>10. CASE \E s \in Active(p) : \E d \in WaitedFor(p, s) : a = WaitId(s, d)
  <2>1. a.kind = "WaitForDependency"
    BY <1>10 DEF WaitId, Id
  <2>2. up[a] \subseteq DOMAIN up
    BY <2>1, UpStarts
  <2>3. QED
    BY <2>1, <2>2
<1>11. QED
  BY <1>5, <1>6, <1>7, <1>8, <1>9, <1>10

(* An up begins with all supplied or planned, and nothing of it done.      *)
LEMMA BeginBrings ==
  ASSUME ForeignInv, RemovalInv, OursHaveIds, NEW c \in Commands, NEW o \in Operations, Begin(c, o)
  PROVE  BringsUp(c)'
<1> SUFFICES ASSUME Undisturbed(c, "up")'
             PROVE  (InOrder(c) /\ UpShape(c) /\ Supplied(c) /\ Brought(c))'
  BY DEF BringsUp
<1>1. /\ UNCHANGED <<containers, networks, volumes, images>> /\ operation'[c] = o
      /\ \A a \in DOMAIN plan'[c] : fate'[c][a] = "waiting"
      /\ phase'[c] = "planned" /\ o.op = "up"
  BY BeginShows DEF engineVars, Undisturbed, Alive
<1>2. /\ UpProblems(TheProject, Capabilities, Snapshot, Options(o)) = {}
      /\ plan'[c] = UpPlan(TheProject, Snapshot, Options(o))
  BY <1>1, BeginPlans
<1>3. ASSUME NEW a \in DOMAIN plan'[c]
      PROVE  /\ plan'[c][a] \subseteq DOMAIN plan'[c]
             /\ a.kind \in {"NoOp", "CreateNetwork", "CreateVolume", "PullImage", "CreateContainer",
                            "StartContainer", "WaitForDependency"}
             /\ a.kind = "CreateNetwork" =>
                  a = CreateNetworkId(Name(a)) /\ Name(a) \in Networks /\ ~networks[Name(a)].ours
             /\ a.kind = "CreateContainer" =>
                  /\ a = CreateId(Name(a)) /\ Name(a) \in Services
                  /\ TheProject.image[Name(a)] \in images \/ PullId(TheProject.image[Name(a)]) \in plan'[c][a]
                  /\ \A n \in TheProject.networks[Name(a)] \cap Networks :
                       networks[n].id # 0 \/ CreateNetworkId(n) \in plan'[c][a]
             /\ a.kind = "StartContainer" => a = StartId(Name(a)) /\ CreateId(Name(a)) \in plan'[c][a]
  BY <1>2, <1>3, UpPlanned
<1>4. InOrder(c)' /\ UpShape(c)'
  BY <1>1, <1>3 DEF InOrder, UpShape
<1>5. Supplied(c)'
  BY <1>1, <1>3 DEF Supplied
<1>6. Brought(c)'
  BY <1>1, <1>3 DEF Brought
<1>7. QED
  BY <1>4, <1>5, <1>6

(* Its second snapshot changes nothing: no action has succeeded yet.       *)
LEMMA ApplyBrings ==
  ASSUME ForeignInv, NEW c \in Commands, PlanShape(c), Undisturbed(c, "up"), BringsUp(c), Apply(c)
  PROVE  BringsUp(c)'
<1>1. /\ UNCHANGED <<containers, networks, images, operation, plan, fate, seen>> /\ phase[c] = "planned"
  BY DEF Apply, engineVars
<1>2. \A a \in DOMAIN plan[c] : fate[c][a] = "waiting"
  BY <1>1 DEF PlanShape
<1>3. InOrder(c)' /\ UpShape(c)' /\ Supplied(c)'
  BY <1>1 DEF BringsUp, InOrder, UpShape, Supplied
<1>4. Brought(c)'
  BY <1>1, <1>2 DEF BringsUp, Brought
<1>5. QED
  BY <1>3, <1>4 DEF BringsUp

(* A start takes the id of the container created before it.                *)
LEMMA SpawnBrings ==
  ASSUME ForeignInv, NEW c \in Commands, NEW a \in DOMAIN plan[c],
         Undisturbed(c, "up"), BringsUp(c), Spawn(c, a) \/ Skip(c, a)
  PROVE  BringsUp(c)'
<1> USE DEF ForeignInv, TypeOK, CommandTypes
<1>1. InOrder(c) /\ UpShape(c) /\ Supplied(c) /\ Brought(c)
  BY DEF BringsUp
<1>2. /\ UNCHANGED <<containers, networks, images, operation, phase, plan, outputs>>
      /\ fate[c][a] = "waiting"
  BY DEF Spawn, Skip, engineVars
<1>3. PICK f \in {"running", "skipped"} :
        /\ fate' = [fate EXCEPT ![c][a] = f]
        /\ f = "running" => \A b \in plan[c][a] : fate[c][b] = "succeeded"
  BY DEF Spawn, Skip
<1>4. fate'[c][a] = f /\ \A b \in DOMAIN plan[c] : b # a => fate'[c][b] = fate[c][b]
  BY <1>3
<1>5. /\ \A b \in DOMAIN plan[c] : b # a => seen'[c][b] = seen[c][b]
      /\ f = "running" => seen'[c][a] = Reference(c, a)
  BY <1>4 DEF Spawn, Skip
<1>6. InOrder(c)'
  BY <1>1, <1>2, <1>3, FateInOrder
<1>7. UpShape(c)' /\ Supplied(c)'
  BY <1>1, <1>2 DEF UpShape, Supplied
<1>8. ASSUME NEW b \in DOMAIN plan[c], b.kind = "StartContainer", fate'[c][b] = "running"
      PROVE  seen'[c][b] = containers[Name(b)].id
  <2>1. CASE b # a
    BY <1>1, <1>4, <1>5, <1>8, <2>1 DEF Brought
  <2>2. CASE b = a
    <3>1. CreateId(Name(b)) \in DOMAIN plan[c] /\ fate[c][CreateId(Name(b))] = "succeeded"
      BY <1>1, <1>3, <1>4, <1>8, <2>2 DEF UpShape, InOrder
    <3>2. CreateId(Name(b)).kind = "CreateContainer" /\ Name(CreateId(Name(b))) = Name(b)
      BY DEF CreateId, Id, Name
    <3>3. outputs[c].containers[Name(b)] = containers[Name(b)].id
      BY <1>1, <3>1, <3>2 DEF Brought
    <3>4. Reference(c, b) = outputs[c].containers[Name(b)]
      BY <1>8 DEF Reference
    <3>5. QED
      BY <1>4, <1>5, <1>8, <2>2, <3>3, <3>4
  <2>3. QED
    BY <2>1, <2>2
<1>9. \A b \in DOMAIN plan[c] : fate'[c][b] \in {"succeeded", "failed"} \/ fate[c][b] \in {"succeeded", "failed"}
                                => fate'[c][b] = fate[c][b]
  BY <1>2, <1>4
<1>10. Brought(c)'
  BY <1>1, <1>2, <1>8, <1>9 DEF Brought, Present
<1>11. QED
  BY <1>6, <1>7, <1>10 DEF BringsUp

(* A container that changes its state takes nothing away.                  *)
LEMMA ProcessBrings ==
  ASSUME ForeignInv, NEW c \in Commands, Undisturbed(c, "up"), BringsUp(c),
         NEW t \in Services, ProcessExits(t) \/ BecomesHealthy(t)
  PROVE  BringsUp(c)'
<1>1. UNCHANGED <<networks, images, operation, phase, plan, fate, outputs, seen>>
  BY DEF ProcessExits, BecomesHealthy, quietVars, commandVars
<1>2. \A s \in Services : containers'[s].id = containers[s].id /\ containers'[s].ours = containers[s].ours
  <2>1. PICK st : containers' = [containers EXCEPT ![t].state = st]
    BY DEF ProcessExits, BecomesHealthy
  <2>2. QED
    BY <2>1 DEF ForeignInv, TypeOK, EngineTypes
<1>3. InOrder(c)' /\ UpShape(c)' /\ Supplied(c)'
  BY <1>1 DEF BringsUp, InOrder, UpShape, Supplied
<1>4. \A a \in DOMAIN plan[c] : a.kind \in {"CreateContainer", "StartContainer"} => Name(a) \in Services
  <2>1. ASSUME NEW a \in DOMAIN plan[c], a.kind = "StartContainer"
        PROVE  Name(a) \in Services
    <3>1. CreateId(Name(a)) \in DOMAIN plan[c]
      BY <2>1 DEF BringsUp, InOrder, UpShape
    <3>2. CreateId(Name(a)).kind = "CreateContainer" /\ Name(CreateId(Name(a))) = Name(a)
      BY DEF CreateId, Id, Name
    <3>3. QED
      BY <3>1, <3>2 DEF BringsUp, UpShape
  <2>2. QED
    BY <2>1 DEF BringsUp, UpShape
<1>5. Brought(c)'
  BY <1>1, <1>2, <1>4 DEF BringsUp, Brought, Present
<1>6. QED
  BY <1>3, <1>5 DEF BringsUp

(* What an answer may do to the engine and the outputs while it goes on.   *)
Gave(c, a, f) ==
  /\ images \subseteq images'
  /\ \A n \in Networks : IF a = CreateNetworkId(n) /\ f = "succeeded"
                         THEN networks'[n].ours /\ networks'[n].id # 0
                         ELSE networks'[n] = networks[n]
  /\ \A s \in Services : IF a = CreateId(s) /\ f = "succeeded"
                         THEN containers'[s].ours /\ containers'[s].id = outputs'[c].containers[s]
                         ELSE /\ containers'[s].id = containers[s].id /\ containers'[s].ours = containers[s].ours
                              /\ outputs'[c].containers[s] = outputs[c].containers[s]
  /\ a.kind = "PullImage" /\ f = "succeeded" => Name(a) \in images'
  /\ f = "failed" =>
       \/ a.kind \in {"WaitForDependency", "CreateNetwork"}
       \/ a.kind = "CreateContainer" /\ Present(Name(a))

(* An answer that supplies what was asked for keeps the invariant.         *)
LEMMA AnswerBrings ==
  ASSUME ForeignInv, NEW c \in Commands, NEW a \in DOMAIN plan[c], fate[c][a] = "running",
         Undisturbed(c, "up"), BringsUp(c), UNCHANGED <<operation, phase, plan, seen>>,
         NEW f \in {"succeeded", "failed"}, fate' = [fate EXCEPT ![c][a] = f], Gave(c, a, f)
  PROVE  BringsUp(c)'
<1>1. InOrder(c) /\ UpShape(c) /\ Supplied(c) /\ Brought(c)
  BY DEF BringsUp
<1>2. fate'[c][a] = f /\ \A b \in DOMAIN plan[c] : b # a => fate'[c][b] = fate[c][b]
  BY DEF ForeignInv, TypeOK, CommandTypes
<1>3. InOrder(c)'
  <2>1. f = "succeeded" => \A b \in plan[c][a] : fate[c][b] = "succeeded"
    BY <1>1 DEF InOrder
  <2>2. QED
    BY <1>1, <2>1, FateInOrder
<1>4. UpShape(c)'
  BY <1>1 DEF UpShape
<1>5. \A n \in Networks : networks[n].id # 0 => networks'[n].id # 0
  BY DEF Gave
<1>6. Supplied(c)'
  BY <1>1, <1>5 DEF Supplied, Gave
<1>7. \A s : CreateId(s).kind = "CreateContainer" /\ Name(CreateId(s)) = s
  BY DEF CreateId, Id, Name
<1>8. \A n : CreateNetworkId(n).kind = "CreateNetwork" /\ Name(CreateNetworkId(n)) = n
  BY DEF CreateNetworkId, Id, Name
<1>9. ASSUME NEW b \in DOMAIN plan[c]
      PROVE  /\ b.kind = "PullImage" /\ fate'[c][b] = "succeeded" => Name(b) \in images'
             /\ b.kind = "CreateNetwork" => (networks'[Name(b)].ours <=> fate'[c][b] = "succeeded")
             /\ b.kind = "CreateContainer" /\ fate'[c][b] = "succeeded" =>
                  containers'[Name(b)].ours /\ containers'[Name(b)].id = outputs'[c].containers[Name(b)]
             /\ b.kind = "StartContainer" /\ fate'[c][b] = "running" => seen[c][b] = containers'[Name(b)].id
             /\ fate'[c][b] = "failed" =>
                  \/ b.kind \in {"WaitForDependency", "CreateNetwork"}
                  \/ b.kind = "CreateContainer" /\ containers'[Name(b)].id # 0
  <2>1. /\ b.kind = "PullImage" /\ fate[c][b] = "succeeded" => Name(b) \in images
        /\ b.kind = "CreateNetwork" => (networks[Name(b)].ours <=> fate[c][b] = "succeeded")
        /\ b.kind = "CreateContainer" /\ fate[c][b] = "succeeded" =>
             containers[Name(b)].ours /\ containers[Name(b)].id = outputs[c].containers[Name(b)]
        /\ b.kind = "StartContainer" /\ fate[c][b] = "running" => seen[c][b] = containers[Name(b)].id
        /\ fate[c][b] = "failed" =>
             \/ b.kind \in {"WaitForDependency", "CreateNetwork"}
             \/ b.kind = "CreateContainer" /\ containers[Name(b)].id # 0
    BY <1>1 DEF Brought, Present
  <2>2. b.kind = "PullImage" /\ fate'[c][b] = "succeeded" => Name(b) \in images'
    BY <1>2, <2>1 DEF Gave
  <2>3. b.kind = "CreateNetwork" => (networks'[Name(b)].ours <=> fate'[c][b] = "succeeded")
    <3>1. b.kind = "CreateNetwork" => b = CreateNetworkId(Name(b)) /\ Name(b) \in Networks
      BY <1>1 DEF UpShape
    <3>2. CASE b = a
      BY <1>2, <2>1, <3>1, <3>2 DEF Gave
    <3>3. CASE b # a
      BY <1>2, <2>1, <3>1, <3>3 DEF Gave
    <3>4. QED
      BY <3>2, <3>3
  <2>4. b.kind = "CreateContainer" => b = CreateId(Name(b)) /\ Name(b) \in Services
    BY <1>1 DEF UpShape
  <2>5. b.kind = "CreateContainer" /\ fate'[c][b] = "succeeded" =>
          containers'[Name(b)].ours /\ containers'[Name(b)].id = outputs'[c].containers[Name(b)]
    BY <1>2, <2>1, <2>4 DEF Gave
  <2>6. ASSUME b.kind = "StartContainer", fate'[c][b] = "running"
        PROVE  seen[c][b] = containers'[Name(b)].id
    <3>1. b # a /\ fate[c][b] = "running"
      BY <1>2, <2>6
    <3>2. CreateId(Name(b)) \in DOMAIN plan[c] /\ fate[c][CreateId(Name(b))] = "succeeded"
      BY <1>1, <2>6, <3>1 DEF UpShape, InOrder
    <3>3. Name(b) \in Services /\ a # CreateId(Name(b))
      BY <1>1, <1>7, <3>2 DEF UpShape
    <3>4. QED
      BY <2>1, <2>6, <3>1, <3>3 DEF Gave
  <2>7. ASSUME fate'[c][b] = "failed"
        PROVE  \/ b.kind \in {"WaitForDependency", "CreateNetwork"}
               \/ b.kind = "CreateContainer" /\ containers'[Name(b)].id # 0
    <3>1. \/ b.kind \in {"WaitForDependency", "CreateNetwork"}
          \/ b.kind = "CreateContainer" /\ containers[Name(b)].id # 0
      BY <1>2, <2>1, <2>7 DEF Gave, Present
    <3>2. b.kind = "CreateContainer" => ~(a = CreateId(Name(b)) /\ f = "succeeded")
      BY <1>2, <2>4, <2>7
    <3>3. QED
      BY <2>4, <3>1, <3>2 DEF Gave
  <2>8. QED
    BY <2>2, <2>3, <2>5, <2>6, <2>7
<1>10. Brought(c)'
  BY <1>9 DEF Brought, Present
<1>11. QED
  BY <1>3, <1>4, <1>6, <1>10 DEF BringsUp

(* So does every request of an up.                                         *)
LEMMA AskedBrings ==
  ASSUME ForeignInv, OursHaveIds, NEW c \in Commands, NEW a \in DOMAIN plan[c],
         Undisturbed(c, "up"), calm[c]', BringsUp(c), Asked(c, a)
  PROVE  BringsUp(c)'
<1> USE DEF ForeignInv, TypeOK
<1>1. InOrder(c) /\ UpShape(c) /\ Supplied(c) /\ Brought(c)
  BY DEF BringsUp
<1>2. a \in InFlight(c) /\ fate[c][a] = "running" /\ Alive(c)
  BY AskedInFlight DEF InFlight, Undisturbed
<1>3. UNCHANGED <<operation, phase, plan, seen>>
  BY DEF Asked, NothingToAsk, PullImage, CreateNetwork, CreateVolume, CreateContainer, StartContainer,
         WaitForDependency, StopContainer, RemoveContainer, RemoveNetwork, RemoveVolume, steadyVars
<1>4. \A s : CreateId(s).kind = "CreateContainer" /\ Name(CreateId(s)) = s
  BY DEF CreateId, Id, Name
<1>5. \A n : CreateNetworkId(n).kind = "CreateNetwork" /\ Name(CreateNetworkId(n)) = n
  BY DEF CreateNetworkId, Id, Name
<1>6. ASSUME NEW f \in {"succeeded", "failed"}, fate' = [fate EXCEPT ![c][a] = f], Gave(c, a, f)
      PROVE  BringsUp(c)'
  BY <1>2, <1>3, <1>6, AnswerBrings
<1>7. \A b \in plan[c][a] : b \in DOMAIN plan[c] /\ fate[c][b] = "succeeded"
  BY <1>1, <1>2 DEF InOrder
<1>8. ASSUME NEW out, Succeeds(c, a, out)
      PROVE  fate' = [fate EXCEPT ![c][a] = "succeeded"] /\ outputs'[c] = out
  BY <1>2, <1>8, CalmSucceeds DEF CommandTypes
<1>9. CASE NothingToAsk(c, a) \/ WaitForDependency(c, a)
  <2>1. /\ UNCHANGED <<containers, networks, images, outputs>> /\ a.kind \in {"NoOp", "WaitForDependency"}
        /\ \E f \in {"succeeded", "failed"} : /\ fate' = [fate EXCEPT ![c][a] = f]
                                              /\ f = "failed" => a.kind = "WaitForDependency"
    BY <1>9 DEF NothingToAsk, WaitForDependency, Asks, engineVars
  <2>2. PICK f \in {"succeeded", "failed"} : /\ fate' = [fate EXCEPT ![c][a] = f]
                                             /\ f = "failed" => a.kind = "WaitForDependency"
    BY <2>1
  <2>3. Gave(c, a, f)
    BY <1>4, <1>5, <2>1, <2>2 DEF Gave
  <2>4. QED
    BY <1>6, <2>2, <2>3
<1>10. CASE PullImage(c, a)
  <2>1. /\ UNCHANGED <<containers, networks>> /\ a.kind = "PullImage" /\ images' = images \cup {Name(a)}
        /\ Succeeds(c, a, outputs[c])
    BY <1>10 DEF PullImage, Asks
  <2>2. fate' = [fate EXCEPT ![c][a] = "succeeded"] /\ outputs'[c] = outputs[c]
    BY <1>8, <2>1
  <2>3. Gave(c, a, "succeeded")
    BY <1>4, <1>5, <2>1, <2>2 DEF Gave
  <2>4. QED
    BY <1>6, <2>2, <2>3
<1>11. CASE CreateNetwork(c, a)
  <2> DEFINE n == Name(a)
             out == [outputs[c] EXCEPT !.networks[n] = made[n] + 1]
  <2>1. /\ a.kind = "CreateNetwork" /\ a = CreateNetworkId(n) /\ n \in Networks
        /\ UNCHANGED <<containers, images>>
    BY <1>1, <1>11 DEF CreateNetwork, Asks, UpShape
  <2>2. CASE /\ networks' = [networks EXCEPT ![n] = [id |-> made[n] + 1, ours |-> TRUE]]
             /\ Succeeds(c, a, out)
    <3>1. out.containers = outputs[c].containers
      BY DEF CommandTypes, Outputs
    <3>2. /\ \A m \in Networks : m # n => networks'[m] = networks[m]
          /\ networks'[n].ours /\ networks'[n].id = made[n] + 1 /\ made[n] \in Nat
      BY <2>1, <2>2 DEF EngineTypes
    <3> HIDE DEF out
    <3>3. fate' = [fate EXCEPT ![c][a] = "succeeded"] /\ outputs'[c] = out
      BY <1>8, <2>2
    <3>4. \A m \in Networks : a = CreateNetworkId(m) <=> m = n
      BY <1>5, <2>1
    <3>5. Gave(c, a, "succeeded")
      BY <1>4, <2>1, <3>1, <3>2, <3>3, <3>4 DEF Gave
    <3>6. QED
      BY <1>6, <3>3, <3>5
  <2>3. CASE Fails(c, a) /\ UNCHANGED networks
    <3>1. fate' = [fate EXCEPT ![c][a] = "failed"] /\ UNCHANGED outputs
      BY <2>3 DEF Fails
    <3>2. Gave(c, a, "failed")
      BY <2>1, <2>3, <3>1 DEF Gave
    <3>3. QED
      BY <1>6, <3>1, <3>2
  <2>4. QED
    BY <1>11, <2>2, <2>3 DEF CreateNetwork
<1>12. CASE CreateVolume(c, a)
  <2> DEFINE out == [outputs[c] EXCEPT !.volumes = @ \cup {Name(a)}]
  <2>1. /\ UNCHANGED <<containers, networks, images>> /\ a.kind = "CreateVolume" /\ Succeeds(c, a, out)
    BY <1>12 DEF CreateVolume, Asks
  <2>2. out.containers = outputs[c].containers
    BY DEF CommandTypes, Outputs
  <2> HIDE DEF out
  <2>3. fate' = [fate EXCEPT ![c][a] = "succeeded"] /\ outputs'[c] = out
    BY <1>8, <2>1
  <2>4. Gave(c, a, "succeeded")
    BY <1>4, <1>5, <2>1, <2>2, <2>3 DEF Gave
  <2>5. QED
    BY <1>6, <2>3, <2>4
<1>13. CASE CreateContainer(c, a)
  <2> DEFINE s == Name(a)
             out == [outputs[c] EXCEPT !.containers[s] = made[s] + 1]
  <2>1. a.kind = "CreateContainer" /\ a = CreateId(s) /\ s \in Services /\ UNCHANGED <<networks, images>>
    BY <1>1, <1>13 DEF CreateContainer, Asks, UpShape
  <2>2. TheProject.image[s] \in images
    <3>1. CASE PullId(TheProject.image[s]) \in plan[c][a]
      <4>1. PullId(TheProject.image[s]).kind = "PullImage" /\ Name(PullId(TheProject.image[s])) = TheProject.image[s]
        BY DEF PullId, Id, Name
      <4>2. QED
        BY <1>1, <1>7, <3>1, <4>1 DEF Brought
    <3>2. QED
      BY <1>1, <2>1, <3>1 DEF Supplied
  <2>3. CASE Fails(c, a) /\ Present(s) /\ UNCHANGED containers
    <3>1. fate' = [fate EXCEPT ![c][a] = "failed"] /\ UNCHANGED outputs
      BY <2>3 DEF Fails
    <3>2. Gave(c, a, "failed")
      BY <2>1, <2>3, <3>1 DEF Gave
    <3>3. QED
      BY <1>6, <3>1, <3>2
  <2>4. CASE /\ containers' = [containers EXCEPT ![s] = [id |-> made[s] + 1, ours |-> TRUE, state |-> "created"]]
             /\ Succeeds(c, a, out)
    <3>1. /\ out.containers[s] = made[s] + 1
          /\ \A t \in Services : t # s => out.containers[t] = outputs[c].containers[t]
      BY <2>1 DEF CommandTypes, Outputs
    <3>2. /\ containers'[s].ours /\ containers'[s].id = made[s] + 1
          /\ \A t \in Services : t # s => containers'[t] = containers[t]
      BY <2>1, <2>4 DEF EngineTypes
    <3> HIDE DEF out
    <3>3. fate' = [fate EXCEPT ![c][a] = "succeeded"] /\ outputs'[c] = out
      BY <1>8, <2>4
    <3>4. \A t \in Services : a = CreateId(t) <=> t = s
      BY <1>4, <2>1
    <3>5. Gave(c, a, "succeeded")
      BY <1>5, <2>1, <3>1, <3>2, <3>3, <3>4 DEF Gave
    <3>6. QED
      BY <1>6, <3>3, <3>5
  <2>5. QED
    BY <1>13, <2>2, <2>3, <2>4 DEF CreateContainer
<1>14. CASE StartContainer(c, a)
  <2> DEFINE s == Name(a)
             possible == Found(c, a) /\ \A n \in TheProject.networks[s] \cap Networks : networks[n].id # 0
  <2>1. /\ a.kind = "StartContainer" /\ UNCHANGED <<networks, images>>
        /\ CreateId(s) \in DOMAIN plan[c] /\ fate[c][CreateId(s)] = "succeeded"
    BY <1>1, <1>7, <1>14 DEF StartContainer, Asks, UpShape
  <2>2. s \in Services /\ containers[s].ours
    BY <1>1, <1>4, <2>1 DEF UpShape, Brought
  <2>3. Found(c, a)
    BY <1>1, <1>2, <2>1, <2>2 DEF Brought, OursHaveIds, Found
  <2>4. ASSUME NEW n \in TheProject.networks[s] \cap Networks, networks[n].id = 0
        PROVE  FALSE
    <3>1. CreateNetworkId(n) \in plan[c][CreateId(s)]
      BY <1>1, <1>4, <2>1, <2>4 DEF Supplied
    <3>2. CreateNetworkId(n) \in DOMAIN plan[c] /\ fate[c][CreateNetworkId(n)] = "succeeded"
      BY <1>1, <2>1, <3>1 DEF InOrder
    <3>3. networks[n].ours
      BY <1>1, <1>5, <3>2 DEF Brought
    <3>4. QED
      BY <2>4, <3>3 DEF OursHaveIds
  <2>5. /\ Succeeds(c, a, outputs[c])
        /\ containers' = [containers EXCEPT ![s].state = IF @ \in Live THEN @ ELSE "running"]
    BY <1>14, <2>3, <2>4 DEF StartContainer
  <2>6. \A t \in Services : containers'[t].id = containers[t].id /\ containers'[t].ours = containers[t].ours
    BY <2>5 DEF EngineTypes
  <2>7. fate' = [fate EXCEPT ![c][a] = "succeeded"] /\ outputs'[c] = outputs[c]
    BY <1>8, <2>5
  <2>8. Gave(c, a, "succeeded")
    BY <1>4, <1>5, <2>1, <2>6, <2>7 DEF Gave
  <2>9. QED
    BY <1>6, <2>7, <2>8
<1>15. a.kind \in {"NoOp", "CreateNetwork", "CreateVolume", "PullImage", "CreateContainer",
                   "StartContainer", "WaitForDependency"}
  BY <1>1 DEF UpShape
<1>16. \/ NothingToAsk(c, a) \/ PullImage(c, a) \/ CreateNetwork(c, a) \/ CreateVolume(c, a)
       \/ CreateContainer(c, a) \/ StartContainer(c, a) \/ WaitForDependency(c, a)
  BY <1>15 DEF Asked, StopContainer, RemoveContainer, RemoveNetwork, RemoveVolume, Asks
<1>17. QED
  BY <1>9, <1>10, <1>11, <1>12, <1>13, <1>14, <1>16

-----------------------------------------------------------------------------
\* Both, and what they promise.

(* Every step keeps the invariant of downs and ups.                        *)
LEMMA NextCleans ==
  ASSUME ForeignInv, RemovalInv, StartInv, CleanInv, [Next]_vars
  PROVE  CleanInv'
<1>1. OursHaveIds /\ CalmAlone /\ \A c \in Commands : PlanShape(c) /\ TearsDown(c) /\ BringsUp(c)
  BY DEF CleanInv, StartInv
<1>2. OursHaveIds'
  BY <1>1, KeepsIds
<1>3. ASSUME NEW c \in Commands, calm[c]', Alive(c)'
      PROVE  TearsDown(c)' /\ BringsUp(c)'
  <2>1. CASE \E o \in Operations : Begin(c, o)
    BY <1>1, <2>1, BeginTears, BeginBrings
  <2>2. CASE /\ calm[c] /\ Alive(c) /\ operation'[c] = operation[c]
             /\ \/ Apply(c)
                \/ \E a \in DOMAIN plan[c] : Spawn(c, a) \/ Skip(c, a) \/ Asked(c, a)
                \/ \E s \in Services : ProcessExits(s) \/ BecomesHealthy(s)
                \/ UNCHANGED vars
    <3>1. CASE UNCHANGED vars
      BY <1>1, <3>1 DEF vars, engineVars, commandVars, TearsDown, BringsUp, Undisturbed, Alive, InOrder,
                        DownShape, StopsAll, RemovesNetworks, RemovesVolumes, Present, Mounting,
                        UpShape, Supplied, Brought
    <3>2. ASSUME ~(UNCHANGED vars), operation[c].op = "down"
          PROVE  TearsDown(c)'
      <4>1. Undisturbed(c, "down")
        BY <2>2, <3>2 DEF Undisturbed
      <4>2. QED
        BY <1>1, <1>3, <2>2, <3>2, <4>1, ApplyTears, SpawnTears, SkipTears, AskedTears, ProcessTears
    <3>3. ASSUME ~(UNCHANGED vars), operation[c].op = "up"
          PROVE  BringsUp(c)'
      <4>1. Undisturbed(c, "up")
        BY <2>2, <3>3 DEF Undisturbed
      <4>2. QED
        BY <1>1, <1>3, <2>2, <3>3, <4>1, ApplyBrings, SpawnBrings, AskedBrings, ProcessBrings
    <3>4. QED
      BY <2>2, <3>1, <3>2, <3>3 DEF TearsDown, BringsUp, Undisturbed
  <2>3. QED
    BY <1>1, <1>3, <2>1, <2>2, OnlyItsOwn
<1>4. QED
  BY <1>2, <1>3 DEF CleanInv, TearsDown, BringsUp, Undisturbed

(* The invariant holds of every behaviour.                                 *)
LEMMA CleanInvariant == Spec => [](SafeInv /\ StartInv /\ CleanInv)
<1>1. Init => CleanInv
  BY InitHasIds DEF Init, CleanInv, TearsDown, BringsUp, Undisturbed
<1>2. SafeInv /\ StartInv /\ CleanInv /\ [Next]_vars => CleanInv'
  BY NextCleans DEF SafeInv
<1>3. QED
  BY <1>1, <1>2, StartInvariant, PTL DEF Spec

(* Only its own last step closes a command.                                *)
LEMMA OnlyCloses ==
  ASSUME SafeInv, [Next]_vars, NEW c \in Commands, phase[c] = "applying", phase'[c] = "closed"
  PROVE  Close(c)
<1>1. ForeignInv /\ RemovalInv
  BY DEF SafeInv
<1>2. ASSUME NEW d \in Commands, NEW o \in Operations, Begin(d, o)
      PROVE  FALSE
  <2>1. phase[d] = "idle" /\ phase'[d] \in {"planned", "blocked"} /\ (d # c => phase'[c] = phase[c])
    BY <1>1, <1>2, BeginShows DEF Begin
  <2>2. QED
    BY <2>1
<1>3. QED
  BY <1>1, <1>2, NextSubsides

(* A down that nobody disturbs succeeds, after whatever was left by        *)
(* commands that failed or were killed before it, and leaves nothing of    *)
(* the project but volumes it was not asked to remove, orphans, and the    *)
(* networks and volumes those use.                                         *)
THEOREM DownCleans == Spec => DownCleansUp
<1>1. ASSUME SafeInv, StartInv, CleanInv, [Next]_vars, NEW c \in Commands, operation[c].op = "down",
             phase[c] = "applying", phase'[c] = "closed", calm[c]
      PROVE  /\ \A s \in Active(TheProject) : ~containers[s].ours
             /\ \A n \in Networks : networks[n].ours =>
                  \E s \in Services \ Active(TheProject) : Present(s) /\ n \in TheProject.networks[s]
             /\ operation[c].volumes => \A v \in Volumes : volumes[v] = "ours" => Mounting(v) # {}
             /\ \A a \in DOMAIN plan[c] :
                  fate[c][a] # "succeeded" => a.kind \in {"RemoveNetwork", "RemoveVolume"}
  <2>1. \A a \in DOMAIN plan[c] : fate[c][a] \in Settled
    BY <1>1, OnlyCloses DEF Close
  <2>2. StopsAll(c) /\ RemovesNetworks(c) /\ RemovesVolumes(c)
    BY <1>1 DEF CleanInv, TearsDown, Undisturbed, Alive
  <2>3. ASSUME NEW a \in DOMAIN plan[c], fate[c][a] # "succeeded"
        PROVE  fate[c][a] = "failed" /\ a.kind \in {"RemoveNetwork", "RemoveVolume"}
    BY <2>1, <2>2, <2>3 DEF StopsAll, Settled
  <2>4. ASSUME NEW s \in Active(TheProject), containers[s].ours
        PROVE  FALSE
    <3>1. RemoveId(s) \in DOMAIN plan[c] /\ fate[c][RemoveId(s)] # "succeeded"
      BY <2>2, <2>4 DEF StopsAll
    <3>2. RemoveId(s).kind = "RemoveContainer"
      BY DEF RemoveId, Id
    <3>3. QED
      BY <2>3, <3>1, <3>2
  <2>5. \A n \in Networks : networks[n].ours =>
          \E s \in Services \ Active(TheProject) : Present(s) /\ n \in TheProject.networks[s]
    BY <2>2, <2>3 DEF RemovesNetworks
  <2>6. operation[c].volumes => \A v \in Volumes : volumes[v] = "ours" => Mounting(v) # {}
    BY <2>2, <2>3 DEF RemovesVolumes
  <2>7. QED
    BY <2>3, <2>4, <2>5, <2>6
<1>2. SafeInv /\ StartInv /\ CleanInv /\ [Next]_vars =>
        [\A c \in Commands :
           operation[c].op = "down" /\ phase[c] = "applying" /\ phase'[c] = "closed" /\ calm[c] =>
             /\ \A s \in Active(TheProject) : ~containers[s].ours
             /\ \A n \in Networks : networks[n].ours =>
                  \E s \in Services \ Active(TheProject) : Present(s) /\ n \in TheProject.networks[s]
             /\ operation[c].volumes => \A v \in Volumes : volumes[v] = "ours" => Mounting(v) # {}
             /\ \A a \in DOMAIN plan[c] :
                  fate[c][a] # "succeeded" => a.kind \in {"RemoveNetwork", "RemoveVolume"}]_vars
  BY <1>1
<1>3. QED
  BY <1>2, CleanInvariant, PTL DEF Spec, DownCleansUp

(* An up that nobody disturbs fails only where a name it needs is taken or *)
(* a condition it waits for does not come true: nothing it does gets in    *)
(* its own way, whatever the order of its steps.  If nothing failed, its   *)
(* verification against a new snapshot finds every service's container.    *)
THEOREM UpFailsForCause == Spec => UpFailsOnlyForCause
<1>1. ASSUME SafeInv, StartInv, CleanInv, [Next]_vars, NEW c \in Commands, operation[c].op = "up",
             phase[c] = "applying", phase'[c] = "closed", calm[c]
      PROVE  /\ \A a \in DOMAIN plan[c] :
                  fate[c][a] = "failed" =>
                    \/ a.kind = "WaitForDependency"
                    \/ a.kind = "CreateContainer" /\ Present(Name(a))
                    \/ a.kind = "CreateNetwork" /\ ~networks[Name(a)].ours
             /\ (\A a \in DOMAIN plan[c] : fate[c][a] = "succeeded")
                  => verify_execution_snapshot(plan[c], Snapshot) = {}
  <2>1. InOrder(c) /\ UpShape(c) /\ Brought(c)
    BY <1>1 DEF CleanInv, BringsUp, Undisturbed, Alive
  <2>2. \A a \in DOMAIN plan[c] :
          fate[c][a] = "failed" =>
            \/ a.kind = "WaitForDependency"
            \/ a.kind = "CreateContainer" /\ Present(Name(a))
            \/ a.kind = "CreateNetwork" /\ ~networks[Name(a)].ours
    BY <2>1 DEF Brought
  <2>3. ASSUME \A a \in DOMAIN plan[c] : fate[c][a] = "succeeded",
               NEW a \in DOMAIN plan[c],
               a.kind \in {"CreateContainer", "VerifyBuildInputs", "BuildImage", "StartContainer"}
        PROVE  Name(a) \in {k.service : k \in Snapshot.containers}
    <3>1. CreateId(Name(a)) \in DOMAIN plan[c]
      BY <2>1, <2>3 DEF UpShape, InOrder
    <3>2. CreateId(Name(a)).kind = "CreateContainer" /\ Name(CreateId(Name(a))) = Name(a)
      BY DEF CreateId, Id, Name
    <3>3. Name(a) \in Services /\ containers[Name(a)].ours
      BY <2>1, <2>3, <3>1, <3>2 DEF UpShape, Brought
    <3>4. [id |-> containers[Name(a)].id, service |-> Name(a), replica |-> 0, ours |-> TRUE, complete |-> TRUE]
            \in Snapshot.containers
      BY <3>3 DEF Snapshot
    <3>5. QED
      BY <3>4
  <2>4. QED
    BY <2>2, <2>3 DEF verify_execution_snapshot
<1>2. SafeInv /\ StartInv /\ CleanInv /\ [Next]_vars =>
        [\A c \in Commands :
           operation[c].op = "up" /\ phase[c] = "applying" /\ phase'[c] = "closed" /\ calm[c] =>
             /\ \A a \in DOMAIN plan[c] :
                  fate[c][a] = "failed" =>
                    \/ a.kind = "WaitForDependency"
                    \/ a.kind = "CreateContainer" /\ Present(Name(a))
                    \/ a.kind = "CreateNetwork" /\ ~networks[Name(a)].ours
             /\ (\A a \in DOMAIN plan[c] : fate[c][a] = "succeeded")
                  => verify_execution_snapshot(plan[c], Snapshot) = {}]_vars
  BY <1>1
<1>3. QED
  BY <1>2, CleanInvariant, PTL DEF Spec, UpFailsOnlyForCause
=============================================================================

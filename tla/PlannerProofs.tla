--------------------------- MODULE PlannerProofs ---------------------------
(***************************************************************************)
(* Proofs that plan_up, plan_down, plan_convergence and plan_replacement   *)
(* always make plans the executor can work off: whatever the project, the  *)
(* snapshot and the options.  And that convergence accounts for every      *)
(* replica and leaves only those alone that are as they are wanted, since  *)
(* a configuration can be told from its fingerprint.                       *)
(***************************************************************************)
EXTENDS Planning, TLAPS, FiniteSetTheorems, WellFoundedInduction

(* The kinds of actions that depend on nothing.                            *)
Basic == {"NoOp", "CreateNetwork", "CreateVolume", "VerifyBuildInputs", "PullImage"}

(* Every action of an up is of one of these forms.                         *)
LEMMA UpActionForms ==
  ASSUME NEW p, NEW snap, NEW opts, NEW a \in UpActions(p, snap, opts)
  PROVE  \/ a.kind \in Basic
         \/ \E s \in Built(p, opts) : a = BuildId(s)
         \/ \E s \in Active(p) : a = CreateId(s)
         \/ \E s \in Active(p) : a = StartId(s)
         \/ \E s \in Active(p) : \E d \in WaitedFor(p, s) : a = WaitId(s, d)
  BY DEF UpActions, Basic, NetworkId, VolumeId, VerifyId, PullId, BuildId, Id

(* What the actions of each form depend on.                                *)
LEMMA UpPlanDependencies ==
  ASSUME NEW p, NEW snap, NEW opts, NEW a \in UpActions(p, snap, opts)
  PROVE  /\ DOMAIN UpPlan(p, snap, opts) = UpActions(p, snap, opts)
         /\ a.kind \in Basic => UpPlan(p, snap, opts)[a] = {}
         /\ \A s : a = BuildId(s) => UpPlan(p, snap, opts)[a] = {VerifyId(s)}
         /\ \A s : a = CreateId(s) => UpPlan(p, snap, opts)[a] = Prerequisites(p, snap, opts, s)
         /\ \A s : a = StartId(s) => UpPlan(p, snap, opts)[a] = StartAfter(p, s)
         /\ \A s, d : a = WaitId(s, d) => UpPlan(p, snap, opts)[a] = {StartId(d)}
<1> DEFINE up == UpPlan(p, snap, opts)
<1>1. DOMAIN up = UpActions(p, snap, opts)
  BY DEF UpPlan
<1>2. up[a] = CASE a.kind = "BuildImage"        -> {VerifyId(Name(a))}
                  [] a.kind = "CreateContainer"   -> Prerequisites(p, snap, opts, Name(a))
                  [] a.kind = "StartContainer"    -> StartAfter(p, Name(a))
                  [] a.kind = "WaitForDependency" -> {StartId(a.disc[1])}
                  [] OTHER -> {}
  BY DEF UpPlan
<1>3. a.kind \in Basic => up[a] = {}
  BY <1>2 DEF Basic
<1>4. ASSUME NEW s, a = BuildId(s) PROVE up[a] = {VerifyId(s)}
  <2>1. a.kind = "BuildImage" /\ Name(a) = s
    BY <1>4 DEF BuildId, Id, Name
  <2>2. QED BY <1>2, <2>1
<1>5. ASSUME NEW s, a = CreateId(s) PROVE up[a] = Prerequisites(p, snap, opts, s)
  <2>1. a.kind = "CreateContainer" /\ Name(a) = s
    BY <1>5 DEF CreateId, Id, Name
  <2>2. QED BY <1>2, <2>1
<1>6. ASSUME NEW s, a = StartId(s) PROVE up[a] = StartAfter(p, s)
  <2>1. a.kind = "StartContainer" /\ Name(a) = s
    BY <1>6 DEF StartId, Id, Name
  <2>2. QED BY <1>2, <2>1
<1>7. ASSUME NEW s, NEW d, a = WaitId(s, d) PROVE up[a] = {StartId(d)}
  <2>1. a.kind = "WaitForDependency" /\ a.disc[1] = d
    BY <1>7 DEF WaitId, Id
  <2>2. QED BY <1>2, <2>1
<1>8. QED
  BY <1>1, <1>3, <1>4, <1>5, <1>6, <1>7

(* What is planned earlier is active.                                      *)
LEMMA EarlierActive ==
  ASSUME NEW p, NEW s, NEW d \in Earlier(p, s)
  PROVE  d \in Active(p)
  BY DEF Earlier, Active

(* An up's actions depend on actions of the same plan.                     *)
LEMMA UpPlanClosed ==
  ASSUME NEW p, WellFormed(p), NEW snap, NEW opts,
         NEW a \in UpActions(p, snap, opts)
  PROVE  UpPlan(p, snap, opts)[a] \subseteq UpActions(p, snap, opts)
<1> DEFINE up == UpPlan(p, snap, opts)
<1>1. CASE a.kind \in Basic
  BY <1>1, UpPlanDependencies
<1>2. CASE \E s \in Built(p, opts) : a = BuildId(s)
  <2>1. PICK s \in Built(p, opts) : a = BuildId(s)
    BY <1>2
  <2>2. up[a] = {VerifyId(s)}
    BY <2>1, UpPlanDependencies
  <2>3. QED
    BY <2>2 DEF UpActions
<1>3. CASE \E s \in Active(p) : a = CreateId(s)
  <2>1. PICK s \in Active(p) : a = CreateId(s)
    BY <1>3
  <2>2. up[a] = Prerequisites(p, snap, opts, s)
    BY <2>1, UpPlanDependencies
  <2>3. p.volumes[s] \subseteq RequiredVolumes(p)
    BY DEF WellFormed, RequiredVolumes
  <2>4. QED
    BY <2>2, <2>3 DEF Prerequisites, UpActions
<1>4. CASE \E s \in Active(p) : a = StartId(s)
  <2>1. PICK s \in Active(p) : a = StartId(s)
    BY <1>4
  <2>2. up[a] = StartAfter(p, s)
    BY <2>1, UpPlanDependencies
  <2>3. QED
    BY <2>2, EarlierActive DEF StartAfter, UpActions
<1>5. CASE \E s \in Active(p) : \E d \in WaitedFor(p, s) : a = WaitId(s, d)
  <2>0. PICK s \in Active(p) : \E d \in WaitedFor(p, s) : a = WaitId(s, d)
    BY <1>5
  <2>1. PICK d \in WaitedFor(p, s) : a = WaitId(s, d)
    BY <2>0
  <2>2. up[a] = {StartId(d)}
    BY <2>1, UpPlanDependencies
  <2>3. d \in Active(p)
    BY EarlierActive DEF WaitedFor
  <2>4. QED
    BY <2>2, <2>3 DEF UpActions
<1>6. QED
  BY <1>1, <1>2, <1>3, <1>4, <1>5, UpActionForms

(* A non-empty set of naturals has a least member.                         *)
LEMMA LeastNatural ==
  ASSUME NEW T \in SUBSET Nat, T # {}
  PROVE  \E m \in T : \A i \in T : m <= i
<1>1. IsWellFoundedOn(OpToRel(<, Nat), Nat)
  BY NatLessThanWellFounded
<1>2. \E m \in T : \A i \in T : ~(<<i, m>> \in OpToRel(<, Nat))
  BY <1>1, WFMin
<1>3. PICK m \in T : \A i \in T : ~(<<i, m>> \in OpToRel(<, Nat))
  BY <1>2
<1>4. \A i \in T : ~(i < m)
  BY <1>3 DEF OpToRel
<1>5. QED
  BY <1>4

(* Among starts and waits, the one whose service, or awaited service, is   *)
(* first in graph order depends on none of the others.                     *)
LEMMA FirstStartFree ==
  ASSUME NEW p, WellFormed(p), InGraphOrder(p), NEW snap, NEW opts,
         NEW S \in SUBSET UpActions(p, snap, opts), S # {},
         \A a \in S : \/ \E s \in Active(p) : a = StartId(s)
                     \/ \E s \in Active(p) : \E d \in WaitedFor(p, s) : a = WaitId(s, d)
  PROVE  \E a \in S : UpPlan(p, snap, opts)[a] \cap S = {}
<1> DEFINE up == UpPlan(p, snap, opts)
           Places == 1..Len(p.order)
           Started == {i \in Places : StartId(p.order[i]) \in S}
           Awaited == {i \in Places : \E s \in Active(p) :
                         p.order[i] \in WaitedFor(p, s) /\ WaitId(s, p.order[i]) \in S}
<1>1. Len(p.order) \in Nat
  BY DEF WellFormed
<1>2. Started \cup Awaited # {}
  <2>1. PICK a \in S : TRUE
    OBVIOUS
  <2>2. CASE \E s \in Active(p) : a = StartId(s)
    BY <2>1, <2>2 DEF Active
  <2>3. CASE \E s \in Active(p) : \E d \in WaitedFor(p, s) : a = WaitId(s, d)
    <3>0. PICK s \in Active(p) : \E d \in WaitedFor(p, s) : a = WaitId(s, d)
      BY <2>3
    <3>1. PICK d \in WaitedFor(p, s) : a = WaitId(s, d)
      BY <3>0
    <3>2. d \in Active(p)
      BY EarlierActive DEF WaitedFor
    <3>3. PICK i \in Places : d = p.order[i]
      BY <3>2 DEF Active
    <3>4. i \in Awaited
      BY <2>1, <3>1, <3>3
    <3>5. QED
      BY <3>4
  <2>4. QED
    BY <2>1, <2>2, <2>3
<1>3. PICK m \in Started \cup Awaited : \A i \in Started \cup Awaited : m <= i
  <2>1. Started \cup Awaited \in SUBSET Nat
    BY <1>1
  <2>2. QED
    BY <1>2, <2>1, LeastNatural
<1>4. ASSUME NEW d \in Earlier(p, p.order[m])
      PROVE  \E i \in Places : i < m /\ d = p.order[i]
  <2>1. PICK i \in Places, j \in Places : i < j /\ p.order[j] = p.order[m] /\ d = p.order[i]
    BY DEF Earlier
  <2>2. j = m
    BY <1>1, <2>1 DEF InGraphOrder
  <2>3. QED
    BY <2>1, <2>2
<1>5. CASE m \in Started
  <2> DEFINE s == p.order[m]
  <2>1. StartId(s) \in S /\ up[StartId(s)] = StartAfter(p, s)
    BY <1>5, UpPlanDependencies
  <2>2. CreateId(s) \notin S
    BY DEF CreateId, StartId, WaitId, Id
  <2>3. ASSUME NEW d \in Earlier(p, s) PROVE StartId(d) \notin S
    <3>1. PICK i \in Places : i < m /\ d = p.order[i]
      BY <1>4
    <3>2. i \notin Started
      BY <1>1, <1>3, <3>1
    <3>3. QED
      BY <3>1, <3>2
  <2>4. ASSUME NEW d \in WaitedFor(p, s) PROVE WaitId(s, d) \notin S
    <3>1. d \in Earlier(p, s)
      BY DEF WaitedFor
    <3>2. PICK i \in Places : i < m /\ d = p.order[i]
      BY <1>4, <3>1
    <3>3. i \notin Awaited
      BY <1>1, <1>3, <3>2
    <3>4. s \in Active(p)
      BY <1>5 DEF Active
    <3>5. QED
      BY <3>2, <3>3, <3>4
  <2>5. up[StartId(s)] \cap S = {}
    BY <2>1, <2>2, <2>3, <2>4 DEF StartAfter
  <2>6. QED
    BY <2>1, <2>5
<1>6. CASE m \notin Started
  <2>1. PICK s \in Active(p) : p.order[m] \in WaitedFor(p, s) /\ WaitId(s, p.order[m]) \in S
    BY <1>3, <1>6
  <2>2. up[WaitId(s, p.order[m])] = {StartId(p.order[m])}
    BY <2>1, UpPlanDependencies
  <2>3. StartId(p.order[m]) \notin S
    BY <1>3, <1>6
  <2>4. QED
    BY <2>1, <2>2, <2>3
<1>7. QED
  BY <1>5, <1>6

(* Every up plan is closed under dependencies and has no cycle, whatever   *)
(* the snapshot shows: validate_action_dag never fails.                    *)
THEOREM UpPlanIsDag ==
  ASSUME NEW p, WellFormed(p), InGraphOrder(p), NEW snap, NEW opts
  PROVE  IsDag(UpPlan(p, snap, opts))
<1> DEFINE up == UpPlan(p, snap, opts)
<1>1. DOMAIN up = UpActions(p, snap, opts)
  BY DEF UpPlan
<1>2. \A a \in DOMAIN up : up[a] \subseteq DOMAIN up
  BY <1>1, UpPlanClosed
<1>3. ASSUME NEW S \in SUBSET (DOMAIN up), S # {}
      PROVE  \E a \in S : up[a] \cap S = {}
  <2>1. CASE \E a \in S : a.kind \in Basic
    BY <1>1, <2>1, UpPlanDependencies
  <2>2. CASE ~(\E a \in S : a.kind \in Basic) /\ \E s : BuildId(s) \in S
    <3>1. PICK s : BuildId(s) \in S
      BY <2>2
    <3>2. up[BuildId(s)] = {VerifyId(s)}
      BY <1>1, <3>1, UpPlanDependencies
    <3>3. VerifyId(s).kind \in Basic
      BY DEF VerifyId, Id, Basic
    <3>4. QED
      BY <2>2, <3>1, <3>2, <3>3
  <2>3. CASE ~(\E a \in S : a.kind \in Basic) /\ ~(\E s : BuildId(s) \in S) /\ \E s : CreateId(s) \in S
    <3>1. PICK s : CreateId(s) \in S
      BY <2>3
    <3>2. up[CreateId(s)] = Prerequisites(p, snap, opts, s)
      BY <1>1, <3>1, UpPlanDependencies
    <3>3. \A b \in Prerequisites(p, snap, opts, s) : b.kind \in Basic \/ \E t : b = BuildId(t)
      BY DEF Prerequisites, PullId, NetworkId, VolumeId, Id, Basic
    <3>4. \A b \in Prerequisites(p, snap, opts, s) : b \notin S
      BY <2>3, <3>3
    <3>5. up[CreateId(s)] \cap S = {}
      BY <3>2, <3>4
    <3>6. QED
      BY <3>1, <3>5
  <2>4. CASE ~(\E a \in S : a.kind \in Basic) /\ ~(\E s : BuildId(s) \in S) /\ ~(\E s : CreateId(s) \in S)
    <3>1. S \in SUBSET UpActions(p, snap, opts)
      BY <1>1
    <3>2. ASSUME NEW a \in S
          PROVE  \/ \E s \in Active(p) : a = StartId(s)
                 \/ \E s \in Active(p) : \E d \in WaitedFor(p, s) : a = WaitId(s, d)
      BY <2>4, <3>1, UpActionForms
    <3>3. QED
      BY <1>3, <3>1, <3>2, FirstStartFree
  <2>5. QED
    BY <2>1, <2>2, <2>3, <2>4
<1>4. QED
  BY <1>2, <1>3 DEF IsDag

(* Every down plan, too, and it is never empty.                            *)
THEOREM DownPlanIsDag ==
  ASSUME NEW p, NEW snap, NEW opts
  PROVE  /\ IsDag(DownPlan(p, snap, opts))
         /\ DOMAIN DownPlan(p, snap, opts) # {}
<1> DEFINE down == DownPlan(p, snap, opts)
           removals == Removed("RemoveNetwork", "network", snap.networks) \cup RemovedVolumes(snap, opts)
<1>1. /\ DOMAIN down = DownActions(p, snap, opts)
      /\ \A a \in DOMAIN down : down[a] = DownDependencies(p, snap, a)
  BY DEF DownPlan
<1>2. DOMAIN down # {}
  BY <1>1 DEF DownActions
<1>3. \A r \in removals : r.kind \in {"RemoveNetwork", "RemoveVolume"}
  BY DEF Removed, RemovedVolumes, Id
<1>4. \A s : /\ StopId(s).kind = "StopContainer"
            /\ RemoveId(s).kind = "RemoveContainer" /\ Name(RemoveId(s)) = s
  BY DEF StopId, RemoveId, Id, Name
<1>5. CASE DOMAIN down = {NothingToDo}
  <2>1. down[NothingToDo] = {}
    BY <1>1, <1>5 DEF DownDependencies, NothingToDo, Id
  <2>2. QED
    BY <1>2, <1>5, <2>1 DEF IsDag
<1>6. CASE DOMAIN down # {NothingToDo}
  <2>1. DOMAIN down = {StopId(s) : s \in TornDown(p, snap)} \cup {RemoveId(s) : s \in TornDown(p, snap)}
                        \cup removals
    BY <1>1, <1>6 DEF DownActions
  <2>2. ASSUME NEW s \in TornDown(p, snap)
        PROVE  down[StopId(s)] = {} /\ down[RemoveId(s)] = {StopId(s)}
    BY <1>1, <1>4, <2>1 DEF DownDependencies
  <2>3. \A a \in removals : down[a] = {RemoveId(s) : s \in TornDown(p, snap)}
    BY <1>1, <1>3, <2>1 DEF DownDependencies
  <2>4. \A a \in DOMAIN down : down[a] \subseteq DOMAIN down
    BY <2>1, <2>2, <2>3
  <2>5. ASSUME NEW S \in SUBSET (DOMAIN down), S # {}
        PROVE  \E a \in S : down[a] \cap S = {}
    <3>1. CASE \E s \in TornDown(p, snap) : StopId(s) \in S
      BY <2>2, <3>1
    <3>2. CASE /\ ~ \E s \in TornDown(p, snap) : StopId(s) \in S
               /\ \E s \in TornDown(p, snap) : RemoveId(s) \in S
      <4>1. PICK s \in TornDown(p, snap) : RemoveId(s) \in S
        BY <3>2
      <4>2. down[RemoveId(s)] \cap S = {}
        BY <2>2, <3>2
      <4>3. QED
        BY <4>1, <4>2
    <3>3. CASE /\ ~ \E s \in TornDown(p, snap) : StopId(s) \in S
               /\ ~ \E s \in TornDown(p, snap) : RemoveId(s) \in S
      <4>1. PICK a \in S : a \in removals
        BY <2>1, <2>5, <3>3
      <4>2. down[a] \cap S = {}
        BY <2>3, <3>3, <4>1
      <4>3. QED
        BY <4>2
    <3>4. QED
      BY <3>1, <3>2, <3>3
  <2>6. QED
    BY <1>2, <2>4, <2>5 DEF IsDag
<1>7. QED
  BY <1>2, <1>5, <1>6

(* The actions of a convergence plan are independent of each other         *)
(* (plan_noop_or_start and plan_scale give none a dependency).             *)
LEMMA ConvergencePlanIsDag ==
  ASSUME NEW desired, NEW containers
  PROVE  IsDag(ConvergencePlan(desired, containers))
  BY DEF ConvergencePlan, IsDag

(* The actions of a replacement form a chain, whatever the strategy        *)
(* (plan_replacement): each is after the one of the kind before it.        *)
THEOREM ReplacementPlanIsDag ==
  ASSUME NEW i, NEW strategy, NEW renamed
  PROVE  IsDag(ReplacementPlan(i, strategy, renamed))
<1> DEFINE r == ReplacementPlan(i, strategy, renamed)
           kinds == ReplacementKinds(strategy, renamed)
           after(k) == ReplacedAfter(k, strategy, renamed)
           id(k) == ConvergeId(i, k)
<1>1. ClearName(strategy, renamed) \in {{"RemoveContainer"}, {"RenameContainer"}, {}}
  BY DEF ClearName
<1>2. /\ DOMAIN r = {id(k) : k \in kinds}
      /\ \A k \in kinds : r[id(k)] = {id(j) : j \in after(k)}
  BY DEF ReplacementPlan, ConvergeId, Id
<1>3. \A k \in kinds : after(k) \subseteq kinds
  BY <1>1 DEF ReplacementKinds, ReplacedAfter, CreateAfter
<1>4. \A j, k : id(j) = id(k) => j = k
  BY DEF ConvergeId, Id
<1>5. \A a \in DOMAIN r : r[a] \subseteq DOMAIN r
  BY <1>2, <1>3
<1>6. ASSUME NEW K \in SUBSET kinds, K # {}
      PROVE  \E k \in K : after(k) \cap K = {}
  <2>1. CASE "RecreateContainer" \in K
    BY <2>1 DEF ReplacedAfter
  <2>2. CASE "RecreateContainer" \notin K /\ "StopContainer" \in K
    BY <2>2 DEF ReplacedAfter
  <2>3. CASE "StopContainer" \notin K /\ \E k \in K : k \in ClearName(strategy, renamed)
    BY <1>1, <2>3 DEF ReplacedAfter
  <2>4. CASE /\ "StopContainer" \notin K /\ "CreateContainer" \in K
             /\ ~ \E k \in K : k \in ClearName(strategy, renamed)
    BY <2>4 DEF ReplacedAfter, CreateAfter
  <2>5. CASE "CreateContainer" \notin K /\ "StartContainer" \in K
    BY <2>5 DEF ReplacedAfter
  <2>6. CASE "StartContainer" \notin K /\ "VerifyReplacement" \in K
    BY <2>6 DEF ReplacedAfter
  <2>7. QED
    BY <1>6, <2>1, <2>2, <2>3, <2>4, <2>5, <2>6 DEF ReplacementKinds
<1>7. ASSUME NEW S \in SUBSET (DOMAIN r), S # {}
      PROVE  \E a \in S : r[a] \cap S = {}
  <2> DEFINE K == {k \in kinds : id(k) \in S}
  <2>1. PICK k \in K : after(k) \cap K = {}
    <3>1. K # {}
      BY <1>2, <1>7
    <3>2. QED
      BY <1>6, <3>1
  <2>2. r[id(k)] = {id(j) : j \in after(k)}
    BY <1>2, <2>1
  <2>3. \A j \in after(k) : id(j) \notin S
    BY <1>3, <2>1
  <2>4. QED
    BY <2>1, <2>2, <2>3
<1>8. QED
  BY <1>5, <1>7 DEF IsDag

-----------------------------------------------------------------------------
(* The plan of an answer is the one of its request.                        *)
AnswersItsRequest ==
  Planned => \/ /\ request.op = "up"
                /\ plan = UpPlan(request.project, request.snapshot, request.options)
             \/ /\ request.op = "down"
                /\ plan = DownPlan(request.project, request.snapshot, request.options)
             \/ /\ request.op = "converge"
                /\ plan = ConvergencePlan(request.desired, request.containers)
             \/ /\ request.op = "replace"
                /\ plan = ReplacementPlan(request.instance, request.strategy, request.renamed)

PlanningInv == request \in Requests /\ AnswersItsRequest

(* An answer is made of the request it was asked, and stays as it is.      *)
LEMMA PlanningInvariant == Spec => []PlanningInv
<1>1. Init => PlanningInv
  BY DEF Init, PlanningInv, AnswersItsRequest, Planned
<1>2. PlanningInv /\ [Next]_vars => PlanningInv'
  <2> SUFFICES ASSUME PlanningInv, [Next]_vars
               PROVE  PlanningInv'
    OBVIOUS
  <2>1. CASE PlanUp
    BY <2>1 DEF PlanUp, PlanningInv, AnswersItsRequest, Planned
  <2>2. CASE PlanDown
    BY <2>2 DEF PlanDown, PlanningInv, AnswersItsRequest, Planned
  <2>3. CASE Converge
    BY <2>3 DEF Converge, PlanningInv, AnswersItsRequest, Planned
  <2>4. CASE Replace
    BY <2>4 DEF Replace, PlanningInv, AnswersItsRequest, Planned
  <2>5. CASE UNCHANGED vars
    BY <2>5 DEF vars, PlanningInv, AnswersItsRequest, Planned
  <2>6. QED
    BY <2>1, <2>2, <2>3, <2>4, <2>5 DEF Next
<1>3. QED
  BY <1>1, <1>2, PTL DEF Spec

(* Whatever it is asked, the planner answers with a plan the executor      *)
(* accepts, or with diagnostics.                                           *)
THEOREM PlannerCorrect == Spec => []PlansAreDags
<1>1. PlanningInv => PlansAreDags
  <2> SUFFICES ASSUME PlanningInv, Planned
               PROVE  IsDag(plan) /\ (request.op = "down" => DOMAIN plan # {})
    BY DEF PlansAreDags
  <2>1. CASE request.op = "up"
    <3>1. plan = UpPlan(request.project, request.snapshot, request.options)
      BY <2>1 DEF PlanningInv, AnswersItsRequest
    <3>2. WellFormed(request.project) /\ InGraphOrder(request.project)
      BY <2>1, RequestsAssumption DEF PlanningInv
    <3>3. QED
      BY <2>1, <3>1, <3>2, UpPlanIsDag
  <2>2. CASE request.op = "down"
    <3>1. plan = DownPlan(request.project, request.snapshot, request.options)
      BY <2>2 DEF PlanningInv, AnswersItsRequest
    <3>2. QED
      BY <3>1, DownPlanIsDag
  <2>3. CASE request.op = "converge"
    <3>1. plan = ConvergencePlan(request.desired, request.containers)
      BY <2>3 DEF PlanningInv, AnswersItsRequest
    <3>2. QED
      BY <2>3, <3>1, ConvergencePlanIsDag
  <2>4. CASE request.op = "replace"
    <3>1. plan = ReplacementPlan(request.instance, request.strategy, request.renamed)
      BY <2>4 DEF PlanningInv, AnswersItsRequest
    <3>2. QED
      BY <2>4, <3>1, ReplacementPlanIsDag
  <2>5. QED
    BY <2>1, <2>2, <2>3, <2>4 DEF PlanningInv, AnswersItsRequest
<1>2. QED
  BY <1>1, PlanningInvariant, PTL

-----------------------------------------------------------------------------
\* Functions by recursion on the naturals.

(* A finite run of a step function from a value.                           *)
RunOf(f, m, start, step) == f[0] = start /\ \A i \in Nat : i < m => f[i + 1] = step[f[i]]

LEMMA RunsExist ==
  ASSUME NEW S, NEW start \in S, NEW step \in [S -> S], NEW m \in Nat
  PROVE  \E f \in [Nat -> S] : RunOf(f, m, start, step)
<1> DEFINE Bad == {i \in Nat : ~ \E f \in [Nat -> S] : RunOf(f, i, start, step)}
<1>1. SUFFICES Bad = {}
  OBVIOUS
<1>2. SUFFICES ASSUME Bad # {} PROVE FALSE
  OBVIOUS
<1>3. PICK b \in Bad : \A i \in Bad : b <= i
  BY <1>2, LeastNatural
<1>4. b # 0
  <2>1. [i \in Nat |-> start] \in [Nat -> S] /\ RunOf([i \in Nat |-> start], 0, start, step)
    BY DEF RunOf
  <2>2. QED
    BY <2>1
<1>5. PICK f \in [Nat -> S] : RunOf(f, b - 1, start, step)
  BY <1>3, <1>4
<1> DEFINE g == [f EXCEPT ![b] = step[f[b - 1]]]
<1>6. g \in [Nat -> S] /\ b - 1 \in Nat
  BY <1>3, <1>4
<1>7. g[b] = step[f[b - 1]] /\ \A i \in Nat : i # b => g[i] = f[i]
  BY <1>3, <1>4
<1> HIDE DEF g
<1>8. RunOf(g, b, start, step)
  <2>1. g[0] = start
    BY <1>4, <1>5, <1>7 DEF RunOf
  <2>2. ASSUME NEW i \in Nat, i < b PROVE g[i + 1] = step[g[i]]
    <3>1. CASE i = b - 1
      BY <1>7, <2>2, <3>1
    <3>2. CASE i # b - 1
      <4>1. i < b - 1 /\ i # b /\ i + 1 # b
        BY <2>2, <3>2
      <4>2. QED
        BY <1>5, <1>7, <4>1 DEF RunOf
    <3>3. QED
      BY <3>1, <3>2
  <2>3. QED
    BY <2>1, <2>2 DEF RunOf
<1>9. QED
  BY <1>3, <1>6, <1>8

(* Two runs agree as far as both go.                                       *)
LEMMA RunsAgree ==
  ASSUME NEW S, NEW start \in S, NEW step \in [S -> S], NEW m \in Nat, NEW n \in Nat, m <= n,
         NEW f \in [Nat -> S], NEW g \in [Nat -> S], RunOf(f, m, start, step), RunOf(g, n, start, step)
  PROVE  f[m] = g[m]
<1> DEFINE Bad == {i \in Nat : i <= m /\ f[i] # g[i]}
<1>1. SUFFICES ASSUME Bad # {} PROVE FALSE
  OBVIOUS
<1>2. PICK b \in Bad : \A i \in Bad : b <= i
  BY <1>1, LeastNatural
<1>3. b # 0
  BY DEF RunOf
<1>4. b - 1 \in Nat /\ b - 1 < m /\ b - 1 < n /\ b - 1 \notin Bad
  BY <1>2, <1>3
<1>5. f[b - 1] = g[b - 1]
  BY <1>4
<1>6. f[(b - 1) + 1] = step[f[b - 1]] /\ g[(b - 1) + 1] = step[g[b - 1]]
  BY <1>4 DEF RunOf
<1>7. (b - 1) + 1 = b
  BY <1>2
<1>8. QED
  BY <1>2, <1>5, <1>6, <1>7

(* A step function can be iterated: there is a function of the naturals    *)
(* that starts with the value and makes one step at a time.                *)
LEMMA Iteration ==
  ASSUME NEW S, NEW start \in S, NEW step \in [S -> S]
  PROVE  \E f \in [Nat -> S] : f[0] = start /\ \A i \in Nat : f[i + 1] = step[f[i]]
<1> DEFINE run == [m \in Nat |-> CHOOSE f \in [Nat -> S] : RunOf(f, m, start, step)]
           g == [m \in Nat |-> run[m][m]]
<1>1. \A m \in Nat : run[m] \in [Nat -> S] /\ RunOf(run[m], m, start, step)
  BY RunsExist
<1> HIDE DEF run
<1>2. g \in [Nat -> S] /\ g[0] = start
  BY <1>1 DEF RunOf
<1>3. ASSUME NEW i \in Nat PROVE g[i + 1] = step[g[i]]
  <2>1. run[i][i] = run[i + 1][i]
    <3>1. i + 1 \in Nat /\ i <= i + 1
      OBVIOUS
    <3>2. PICK f, h : f = run[i] /\ h = run[i + 1]
      OBVIOUS
    <3>3. f \in [Nat -> S] /\ RunOf(f, i, start, step) /\ h \in [Nat -> S] /\ RunOf(h, i + 1, start, step)
      BY <1>1, <3>1, <3>2
    <3>4. f[i] = h[i]
      BY <3>1, <3>3, RunsAgree
    <3>5. QED
      BY <3>2, <3>4
  <2>2. run[i + 1][i + 1] = step[run[i + 1][i]]
    BY <1>1 DEF RunOf
  <2>3. QED
    BY <2>1, <2>2
<1>4. QED
  BY <1>2, <1>3

(* Two steps of After are what an action depends on, what those depend on  *)
(* and what those do; its number of steps is enough for them.              *)
LEMMA AfterReaches ==
  ASSUME IsDag(plan), IsFiniteSet(DOMAIN plan), NEW a \in DOMAIN plan
  PROVE  /\ plan[a] \subseteq After(a)
         /\ \A b \in plan[a] : plan[b] \subseteq After(a)
         /\ \A b \in plan[a] : \A c \in plan[b] : plan[c] \subseteq After(a)
<1> DEFINE S == SUBSET DOMAIN plan
           step == [X \in S |-> X \cup UNION {plan[b] : b \in X}]
           Spreads(f) == f = [n \in Nat |-> IF n = 0 THEN plan[a]
                                           ELSE f[n - 1] \cup UNION {plan[b] : b \in f[n - 1]}]
           reached == CHOOSE f : Spreads(f)
           N == Cardinality(DOMAIN plan)
<1>1. N \in Nat /\ N # 0
  BY FS_CardinalityType, FS_EmptySet
<1>2. plan[a] \in S /\ step \in [S -> S]
  BY DEF IsDag
<1>3. PICK f \in [Nat -> S] : f[0] = plan[a] /\ \A i \in Nat : f[i + 1] = step[f[i]]
  <2> HIDE DEF S, step
  <2>1. QED
    BY <1>2, Iteration, SMTT(30)
<1>4. Spreads(f)
  <2>1. \A n \in Nat : f[n] = IF n = 0 THEN plan[a] ELSE f[n - 1] \cup UNION {plan[b] : b \in f[n - 1]}
    <3> SUFFICES ASSUME NEW n \in Nat, n # 0
                 PROVE  f[n] = f[n - 1] \cup UNION {plan[b] : b \in f[n - 1]}
      BY <1>3
    <3>1. n - 1 \in Nat /\ (n - 1) + 1 = n
      OBVIOUS
    <3>2. f[(n - 1) + 1] = step[f[n - 1]] /\ f[n - 1] \in S
      BY <1>3, <3>1
    <3>3. QED
      BY <3>1, <3>2
  <2>2. QED
    BY <2>1
<1>5. Spreads(reached)
  BY <1>4
<1>6. After(a) = reached[N]
  BY DEF After
<1>7. plan[a] # {} => 2 <= N
  <2> SUFFICES ASSUME NEW b \in plan[a] PROVE 2 <= N
    OBVIOUS
  <2>1. a \notin plan[a] /\ b \in DOMAIN plan
    <3>1. {a} # {} /\ {a} \in SUBSET DOMAIN plan
      OBVIOUS
    <3>2. \E c \in {a} : plan[c] \cap {a} = {}
      BY <3>1 DEF IsDag
    <3>3. b \in DOMAIN plan
      BY DEF IsDag
    <3>4. QED
      BY <3>2, <3>3
  <2>2. {a} \in SUBSET DOMAIN plan /\ {a} # DOMAIN plan
    BY <2>1
  <2>3. Cardinality({a}) = 1
    BY FS_Singleton
  <2>4. 1 <= N /\ N # 1
    <3> DEFINE one == {a}
    <3>1. one \in SUBSET DOMAIN plan /\ one # DOMAIN plan /\ Cardinality(one) = 1
      BY <2>2, <2>3
    <3> HIDE DEF one
    <3>2. Cardinality(one) <= N /\ (N = Cardinality(one) => DOMAIN plan = one)
      BY <3>1, FS_Subset
    <3>3. QED
      BY <3>1, <3>2
  <2>5. QED
    BY <1>1, <2>4
<1> HIDE DEF reached, S, step, N
<1>8. /\ reached[0] = plan[a]
      /\ \A n \in Nat : n # 0 => reached[n] = reached[n - 1] \cup UNION {plan[b] : b \in reached[n - 1]}
  BY <1>5
<1>9. reached[1] = plan[a] \cup UNION {plan[b] : b \in plan[a]}
  BY <1>8
<1>10. ASSUME NEW k \in Nat, k <= N PROVE reached[k] \subseteq reached[N]
  <2> DEFINE Bad == {n \in Nat : k <= n /\ ~ (reached[k] \subseteq reached[n])}
  <2>1. SUFFICES ASSUME Bad # {} PROVE FALSE
    BY <1>1, <1>10
  <2>2. PICK n \in Bad : \A i \in Bad : n <= i
    BY <2>1, LeastNatural
  <2>3. n # k /\ n \in Nat /\ k <= n
    BY <2>2
  <2>4. n # 0 /\ n - 1 \in Nat /\ k <= n - 1 /\ ~ (n <= n - 1)
    BY <2>3, <1>10
  <2>5. n - 1 \notin Bad
    BY <2>2, <2>4
  <2>6. reached[n - 1] \subseteq reached[n]
    BY <1>8, <2>3, <2>4
  <2>7. QED
    BY <2>2, <2>4, <2>5, <2>6
<1>11. reached[2] = reached[1] \cup UNION {plan[b] : b \in reached[1]}
  <2>1. 2 \in Nat /\ 2 # 0 /\ 2 - 1 = 1
    OBVIOUS
  <2>2. QED
    BY <1>8, <2>1
<1>12. reached[1] \subseteq reached[N]
  BY <1>1, <1>10
<1>13. plan[a] # {} => reached[2] \subseteq reached[N]
  BY <1>1, <1>10, <1>7
<1>14. QED
  BY <1>6, <1>9, <1>11, <1>12, <1>13

-----------------------------------------------------------------------------
\* Plans have finitely many actions.

LEMMA ImageFinite ==
  ASSUME NEW S, IsFiniteSet(S), NEW f, DOMAIN f = S
  PROVE  IsFiniteSet({f[x] : x \in S})
<1> DEFINE T == {f[x] : x \in S}
           g == [x \in S |-> f[x]]
<1>1. g \in Surjection(S, T)
  BY DEF Surjection
<1>2. QED
  BY <1>1, FS_Surjection

LEMMA FourFinite ==
  ASSUME NEW A, NEW B, NEW C, NEW D, IsFiniteSet(A), IsFiniteSet(B), IsFiniteSet(C), IsFiniteSet(D)
  PROVE  IsFiniteSet(A \cup B \cup C \cup D)
<1>1. IsFiniteSet(A \cup B)
  BY FS_Union
<1>2. IsFiniteSet((A \cup B) \cup C)
  BY <1>1, FS_Union
<1>3. QED
  BY <1>2, FS_Union

LEMMA EightFinite ==
  ASSUME NEW A, NEW B, NEW C, NEW D, NEW E, NEW F, NEW G, NEW H,
         IsFiniteSet(A), IsFiniteSet(B), IsFiniteSet(C), IsFiniteSet(D),
         IsFiniteSet(E), IsFiniteSet(F), IsFiniteSet(G), IsFiniteSet(H)
  PROVE  IsFiniteSet(A \cup B \cup C \cup D \cup E \cup F \cup G \cup H)
<1>1. IsFiniteSet(A \cup B \cup C \cup D)
  BY FourFinite
<1>2. IsFiniteSet((A \cup B \cup C \cup D) \cup E \cup F \cup G)
  BY <1>1, FourFinite
<1>3. QED
  BY <1>2, FS_Union

LEMMA SevenFinite ==
  ASSUME NEW a, NEW b, NEW c, NEW d, NEW e, NEW f, NEW g
  PROVE  IsFiniteSet({a, b, c, d, e, f, g})
<1>1. \A x : IsFiniteSet({x})
  BY FS_Singleton
<1>2. IsFiniteSet({a} \cup {b} \cup {c} \cup {d})
  BY <1>1, FourFinite
<1>3. IsFiniteSet(({a} \cup {b} \cup {c} \cup {d}) \cup {e} \cup {f} \cup {g})
  BY <1>1, <1>2, FourFinite
<1>4. {a, b, c, d, e, f, g} = ({a} \cup {b} \cup {c} \cup {d}) \cup {e} \cup {f} \cup {g}
  OBVIOUS
<1>5. QED
  BY <1>3, <1>4

LEMMA ActiveFinite ==
  ASSUME NEW p, WellFormed(p)
  PROVE  IsFiniteSet(Active(p))
<1> DEFINE f == [i \in 1..Len(p.order) |-> p.order[i]]
<1>1. IsFiniteSet(1..Len(p.order))
  BY FS_Interval DEF WellFormed
<1>2. IsFiniteSet({f[i] : i \in 1..Len(p.order)})
  BY <1>1, ImageFinite
<1>3. QED
  BY <1>2 DEF Active

LEMMA UpPlanFinite ==
  ASSUME NEW p, WellFormed(p), NEW snap, NEW opts
  PROVE  IsFiniteSet(DOMAIN UpPlan(p, snap, opts))
<1> DEFINE A == Active(p)
           B == Built(p, opts)
           R == RequiredVolumes(p)
           M == MissingImages(p, snap, opts)
<1>1. IsFiniteSet(A)
  BY ActiveFinite
<1>2. IsFiniteSet(B)
  <2>1. B \subseteq A
    BY DEF Built
  <2>2. QED
    BY <1>1, <2>1, FS_Subset
<1>3. IsFiniteSet(R)
  <2>1. R \subseteq Volumes
    BY DEF RequiredVolumes, WellFormed
  <2>2. QED
    BY <2>1, NamesAssumption, FS_Subset
<1>4. IsFiniteSet(M)
  <2> DEFINE f == [s \in A |-> p.image[s]]
  <2>1. IsFiniteSet({f[s] : s \in A})
    BY <1>1, ImageFinite
  <2>2. M \subseteq {f[s] : s \in A}
    BY DEF MissingImages, RequiredImages
  <2>3. QED
    BY <2>1, <2>2, FS_Subset
<1> HIDE DEF A, B, R, M
<1>5. IsFiniteSet({NetworkId(snap, n) : n \in Networks})
  <2> DEFINE f == [n \in Networks |-> NetworkId(snap, n)]
  <2>1. IsFiniteSet({f[n] : n \in Networks})
    BY NamesAssumption, ImageFinite
  <2>2. QED
    BY <2>1
<1>6. IsFiniteSet({VolumeId(snap, v) : v \in R})
  <2> DEFINE f == [v \in R |-> VolumeId(snap, v)]
  <2>1. IsFiniteSet({f[v] : v \in R})
    BY <1>3, ImageFinite
  <2>2. QED
    BY <2>1
<1>7. IsFiniteSet({VerifyId(s) : s \in B})
  <2> DEFINE f == [s \in B |-> VerifyId(s)]
  <2>1. IsFiniteSet({f[s] : s \in B})
    BY <1>2, ImageFinite
  <2>2. QED
    BY <2>1
<1>8. IsFiniteSet({BuildId(s) : s \in B})
  <2> DEFINE f == [s \in B |-> BuildId(s)]
  <2>1. IsFiniteSet({f[s] : s \in B})
    BY <1>2, ImageFinite
  <2>2. QED
    BY <2>1
<1>9. IsFiniteSet({PullId(i) : i \in M})
  <2> DEFINE f == [i \in M |-> PullId(i)]
  <2>1. IsFiniteSet({f[i] : i \in M})
    BY <1>4, ImageFinite
  <2>2. QED
    BY <2>1
<1>10. IsFiniteSet({CreateId(s) : s \in A})
  <2> DEFINE f == [s \in A |-> CreateId(s)]
  <2>1. IsFiniteSet({f[s] : s \in A})
    BY <1>1, ImageFinite
  <2>2. QED
    BY <2>1
<1>11. IsFiniteSet({StartId(s) : s \in A})
  <2> DEFINE f == [s \in A |-> StartId(s)]
  <2>1. IsFiniteSet({f[s] : s \in A})
    BY <1>1, ImageFinite
  <2>2. QED
    BY <2>1
<1>12. IsFiniteSet(UNION {{WaitId(s, d) : d \in WaitedFor(p, s)} : s \in A})
  <2> DEFINE AA == A \X A
             f == [x \in AA |-> WaitId(x[1], x[2])]
             waits == UNION {{WaitId(s, d) : d \in WaitedFor(p, s)} : s \in A}
  <2>1. IsFiniteSet(AA)
    BY <1>1, FS_Product
  <2>2. IsFiniteSet({f[x] : x \in AA})
    <3> HIDE DEF AA
    <3>1. QED
      BY <2>1, ImageFinite
  <2>3. ASSUME NEW s \in A, NEW d \in WaitedFor(p, s)
        PROVE  WaitId(s, d) \in {f[x] : x \in AA}
    <3>1. d \in A
      BY EarlierActive DEF WaitedFor, A
    <3>2. <<s, d>> \in AA /\ f[<<s, d>>] = WaitId(s, d)
      BY <3>1
    <3>3. QED
      BY <3>2
  <2>4. waits \subseteq {f[x] : x \in AA}
    BY <2>3
  <2>5. QED
    BY <2>2, <2>4, FS_Subset
<1> DEFINE networkIds == {NetworkId(snap, n) : n \in Networks}
           volumeIds == {VolumeId(snap, v) : v \in R}
           verifyIds == {VerifyId(s) : s \in B}
           buildIds == {BuildId(s) : s \in B}
           pullIds == {PullId(i) : i \in M}
           createIds == {CreateId(s) : s \in A}
           startIds == {StartId(s) : s \in A}
           waitIds == UNION {{WaitId(s, d) : d \in WaitedFor(p, s)} : s \in A}
<1>13. DOMAIN UpPlan(p, snap, opts) =
         networkIds \cup volumeIds \cup verifyIds \cup buildIds \cup pullIds \cup createIds
           \cup startIds \cup waitIds
  BY DEF UpPlan, UpActions, A, B, R, M
<1>14. /\ IsFiniteSet(networkIds) /\ IsFiniteSet(volumeIds) /\ IsFiniteSet(verifyIds)
       /\ IsFiniteSet(buildIds) /\ IsFiniteSet(pullIds) /\ IsFiniteSet(createIds)
       /\ IsFiniteSet(startIds) /\ IsFiniteSet(waitIds)
  BY <1>5, <1>6, <1>7, <1>8, <1>9, <1>10, <1>11, <1>12
<1> HIDE DEF networkIds, volumeIds, verifyIds, buildIds, pullIds, createIds, startIds, waitIds
<1>15. IsFiniteSet(networkIds \cup volumeIds \cup verifyIds \cup buildIds \cup pullIds \cup createIds
                     \cup startIds \cup waitIds)
  BY <1>14, EightFinite
<1>16. QED
  BY <1>13, <1>15

LEMMA DownPlanFinite ==
  ASSUME NEW p, WellFormed(p), NEW snap, NEW opts,
         IsFiniteSet(snap.networks), IsFiniteSet(snap.volumes)
  PROVE  IsFiniteSet(DOMAIN DownPlan(p, snap, opts))
<1> DEFINE T == TornDown(p, snap)
<1>1. IsFiniteSet(T)
  <2>1. T \subseteq Active(p)
    BY DEF TornDown
  <2>2. QED
    BY <2>1, ActiveFinite, FS_Subset
<1> HIDE DEF T
<1>2. IsFiniteSet({StopId(s) : s \in T})
  <2> DEFINE f == [s \in T |-> StopId(s)]
  <2>1. IsFiniteSet({f[s] : s \in T})
    BY <1>1, ImageFinite
  <2>2. QED
    BY <2>1
<1>3. IsFiniteSet({RemoveId(s) : s \in T})
  <2> DEFINE f == [s \in T |-> RemoveId(s)]
  <2>1. IsFiniteSet({f[s] : s \in T})
    BY <1>1, ImageFinite
  <2>2. QED
    BY <2>1
<1>4. ASSUME NEW resources, IsFiniteSet(resources), NEW kind, NEW type
      PROVE  IsFiniteSet(Removed(kind, type, resources))
  <2> DEFINE O == {r \in resources : r.ours}
             f == [r \in O |-> Id(<<type, r.name>>, kind, <<r.id>>)]
  <2>1. IsFiniteSet(O)
    BY <1>4, FS_Subset
  <2>2. IsFiniteSet({f[r] : r \in O})
    <3> HIDE DEF O
    <3>1. QED
      BY <2>1, ImageFinite
  <2>3. QED
    BY <2>2 DEF Removed
<1>5. IsFiniteSet(RemovedVolumes(snap, opts))
  BY <1>4, FS_EmptySet DEF RemovedVolumes
<1>6. \/ DOMAIN DownPlan(p, snap, opts) = {NothingToDo}
      \/ DOMAIN DownPlan(p, snap, opts) =
           {StopId(s) : s \in T} \cup {RemoveId(s) : s \in T}
             \cup Removed("RemoveNetwork", "network", snap.networks) \cup RemovedVolumes(snap, opts)
  BY DEF DownPlan, DownActions, T
<1>7. IsFiniteSet(Removed("RemoveNetwork", "network", snap.networks))
  BY <1>4
<1>8. IsFiniteSet({NothingToDo})
  BY FS_Singleton
<1>9. QED
  BY <1>2, <1>3, <1>5, <1>6, <1>7, <1>8, FourFinite

LEMMA ReplacementPlanFinite ==
  ASSUME NEW i, NEW strategy, NEW renamed
  PROVE  IsFiniteSet(DOMAIN ReplacementPlan(i, strategy, renamed))
<1> DEFINE K == {"RecreateContainer", "StopContainer", "CreateContainer", "StartContainer",
                 "VerifyReplacement", "RemoveContainer", "RenameContainer"}
           f == [k \in K |-> ConvergeId(i, k)]
<1>1. IsFiniteSet(K)
  BY SevenFinite
<1> HIDE DEF K
<1>2. IsFiniteSet({f[k] : k \in K})
  BY <1>1, ImageFinite
<1>3. ReplacementKinds(strategy, renamed) \subseteq K
  BY DEF ReplacementKinds, ClearName, K
<1>4. DOMAIN ReplacementPlan(i, strategy, renamed) \subseteq {f[k] : k \in K}
  BY <1>3 DEF ReplacementPlan
<1>5. QED
  BY <1>2, <1>4, FS_Subset

-----------------------------------------------------------------------------
\* What the plans of answers promise.

(* An answer without problems has the plan of its request, which found     *)
(* none.                                                                   *)
AnswersFaultlessly ==
  Planned => /\ request.op = "up" =>
                  UpProblems(request.project, request.caps, request.snapshot, request.options) = {}
             /\ request.op = "converge" => ConvergenceErrors(request.desired, request.containers) = {}

LEMMA FaultlessInvariant == Spec => [](PlanningInv /\ AnswersFaultlessly)
<1>1. Init => AnswersFaultlessly
  BY DEF Init, AnswersFaultlessly, Planned
<1>2. AnswersFaultlessly /\ [Next]_vars => AnswersFaultlessly'
  BY DEF AnswersFaultlessly, Planned, Next, PlanUp, PlanDown, Converge, Replace, vars
<1>3. QED
  BY <1>1, <1>2, PlanningInvariant, PTL DEF Spec

(* A dependency comes before its dependents in graph order.                *)
LEMMA DependencyEarlier ==
  ASSUME NEW p, WellFormed(p), InGraphOrder(p), NEW s \in Active(p), NEW d \in DependsOn(p, s) \cap Active(p)
  PROVE  d \in Earlier(p, s)
<1>1. Len(p.order) \in Nat
  BY DEF WellFormed
<1>2. PICK i \in 1..Len(p.order) : p.order[i] = s
  BY DEF Active
<1>3. PICK j \in 1..Len(p.order) : p.order[j] = d
  BY DEF Active
<1>4. ~ (i <= j)
  BY <1>2, <1>3 DEF InGraphOrder
<1>5. j < i
  BY <1>1, <1>4
<1>6. QED
  BY <1>2, <1>3, <1>5 DEF Earlier

(* Whatever the project, the snapshot and the options: no up starts a      *)
(* service before its image, networks and volumes are there and the        *)
(* conditions it waits for hold.                                           *)
THEOREM StartsInOrder == Spec => []StartedAfterAllItNeeds
<1>1. PlanningInv /\ AnswersFaultlessly => StartedAfterAllItNeeds
  <2> DEFINE p == request.project
             snap == request.snapshot
             opts == request.options
             up == UpPlan(p, snap, opts)
             earlier(s) == After(StartId(s))
  <2> SUFFICES ASSUME PlanningInv, AnswersFaultlessly, Planned, request.op = "up", NEW s \in Active(p)
               PROVE  /\ CreateId(s) \in earlier(s)
                      /\ \A d \in DependsOn(p, s) \cap Active(p) :
                           /\ StartId(d) \in earlier(s)
                           /\ p.dependsOn[s][d] # "ServiceStarted" => WaitId(s, d) \in earlier(s)
                      /\ p.image[s] \notin snap.images /\ opts.images # "NeverPull"
                           => PullId(p.image[s]) \in earlier(s)
                      /\ s \in p.build /\ opts.builds = "BuildDeclared"
                           => {BuildId(s), VerifyId(s)} \subseteq earlier(s)
                      /\ \A n \in (p.networks[s] \cap Networks) \ {r.name : r \in snap.networks} :
                           Id(<<"network", n>>, "CreateNetwork", <<>>) \in earlier(s)
                      /\ \A v \in p.volumes[s] \ {r.name : r \in snap.volumes} :
                           Id(<<"volume", v>>, "CreateVolume", <<>>) \in earlier(s)
    BY DEF StartedAfterAllItNeeds
  <2>1. plan = up /\ WellFormed(p) /\ InGraphOrder(p)
    BY RequestsAssumption DEF PlanningInv, AnswersItsRequest
  <2>2. IsDag(plan) /\ IsFiniteSet(DOMAIN plan)
    BY <2>1, UpPlanIsDag, UpPlanFinite
  <2>3. StartId(s) \in DOMAIN plan /\ CreateId(s) \in DOMAIN plan
    BY <2>1 DEF UpPlan, UpActions
  <2>4. plan[StartId(s)] = StartAfter(p, s) /\ plan[CreateId(s)] = Prerequisites(p, snap, opts, s)
    <3>1. StartId(s) \in UpActions(p, snap, opts) /\ CreateId(s) \in UpActions(p, snap, opts)
      BY DEF UpActions
    <3>2. up[StartId(s)] = StartAfter(p, s) /\ up[CreateId(s)] = Prerequisites(p, snap, opts, s)
      <4> HIDE DEF p, snap, opts
      <4>1. QED
        BY <3>1, UpPlanDependencies
    <3>3. QED
      BY <2>1, <3>2
  <2>5. CreateId(s) \in StartAfter(p, s)
    BY DEF StartAfter
  <2>6. StartAfter(p, s) \subseteq earlier(s) /\ Prerequisites(p, snap, opts, s) \subseteq earlier(s)
    BY <2>2, <2>3, <2>4, <2>5, AfterReaches
  <2>7. ASSUME NEW d \in DependsOn(p, s) \cap Active(p)
        PROVE  /\ StartId(d) \in StartAfter(p, s)
               /\ p.dependsOn[s][d] # "ServiceStarted" => WaitId(s, d) \in StartAfter(p, s)
    BY <2>1, DependencyEarlier DEF StartAfter, WaitedFor
  <2>8. p.image[s] # NoImage
    <3>1. CapabilityProblems(p, request.caps, opts) = {}
      BY DEF AnswersFaultlessly, UpProblems
    <3>2. {<<"SUS-CAP-004", t>> : t \in {t \in Active(p) : p.image[t] = NoImage}} = {}
      BY <3>1 DEF CapabilityProblems
    <3>3. QED
      BY <3>2
  <2>9. p.image[s] \notin snap.images /\ opts.images # "NeverPull"
          => PullId(p.image[s]) \in Prerequisites(p, snap, opts, s)
    BY <2>8 DEF Prerequisites, MissingImages, RequiredImages
  <2>10. \A v \in p.volumes[s] \ {r.name : r \in snap.volumes} :
           Id(<<"volume", v>>, "CreateVolume", <<>>) \in Prerequisites(p, snap, opts, s)
    BY DEF Prerequisites, VolumeId, Ours
  <2>11. \A n \in (p.networks[s] \cap Networks) \ {r.name : r \in snap.networks} :
           Id(<<"network", n>>, "CreateNetwork", <<>>) \in Prerequisites(p, snap, opts, s)
    BY DEF Prerequisites, NetworkId, Ours
  <2>12. ASSUME s \in p.build, opts.builds = "BuildDeclared"
         PROVE  BuildId(s) \in earlier(s) /\ VerifyId(s) \in earlier(s)
    <3>1. s \in Built(p, opts)
      BY <2>12 DEF Built
    <3>2. BuildId(s) \in Prerequisites(p, snap, opts, s)
      BY <3>1 DEF Prerequisites
    <3>3. BuildId(s) \in UpActions(p, snap, opts)
      BY <3>1 DEF UpActions
    <3>5. plan[BuildId(s)] = {VerifyId(s)}
      <4> HIDE DEF p, snap, opts
      <4>1. QED
        BY <2>1, <3>3, UpPlanDependencies
    <3>6. plan[BuildId(s)] \subseteq earlier(s)
      BY <2>2, <2>3, <2>4, <2>5, <3>2, AfterReaches
    <3>7. QED
      BY <2>6, <3>2, <3>5, <3>6
  <2>13. QED
    BY <2>5, <2>6, <2>7, <2>9, <2>10, <2>11, <2>12
<1>2. QED
  BY <1>1, FaultlessInvariant, PTL

(* Whatever the snapshot shows and whatever the strategy: teardowns and    *)
(* replacements keep their order and stay with what is the project's.      *)
THEOREM TearsDownInOrder == Spec => []TearsDownItsOwnInOrder
<1>1. PlanningInv => TearsDownItsOwnInOrder
  <2> SUFFICES ASSUME PlanningInv, Planned
               PROVE  /\ request.op = "replace" => ReplacesInOrder
                      /\ request.op = "down" =>
                           \A a \in DOMAIN plan :
                             a.kind \in {"RemoveNetwork", "RemoveVolume"} =>
                               /\ \E r \in request.snapshot.networks \cup request.snapshot.volumes :
                                    r.ours /\ a.disc = <<r.id>>
                               /\ \A c \in request.snapshot.containers :
                                    c.ours /\ c.service \in Active(request.project)
                                      => RemoveId(c.service) \in After(a)
    BY DEF TearsDownItsOwnInOrder
  <2>1. CASE request.op = "replace"
    <3> DEFINE i == request.instance
               strategy == request.strategy
               renamed == request.renamed
               id(kind) == ConvergeId(i, kind)
    <3>1. plan = ReplacementPlan(i, strategy, renamed)
      BY <2>1 DEF PlanningInv, AnswersItsRequest
    <3>2. IsDag(plan) /\ IsFiniteSet(DOMAIN plan)
      BY <3>1, ReplacementPlanIsDag, ReplacementPlanFinite
    <3>3. /\ DOMAIN plan = {id(k) : k \in ReplacementKinds(strategy, renamed)}
          /\ \A k \in ReplacementKinds(strategy, renamed) :
               plan[id(k)] = {id(j) : j \in ReplacedAfter(k, strategy, renamed)}
          /\ \A k : id(k).kind = k
      BY <3>1 DEF ReplacementPlan, ConvergeId, Id
    <3> HIDE DEF i, strategy, renamed, id
    <3>4. /\ id("StopContainer") \in DOMAIN plan
          /\ id("CreateContainer") \in DOMAIN plan
          /\ plan[id("CreateContainer")] = {id(j) : j \in CreateAfter(strategy, renamed)}
      BY <3>3 DEF ReplacementKinds, ReplacedAfter
    <3>5. ASSUME NEW k \in ClearName(strategy, renamed)
          PROVE  /\ k \in {"RemoveContainer", "RenameContainer"}
                 /\ id(k) \in plan[id("CreateContainer")]
                 /\ id(k) \in DOMAIN plan /\ plan[id(k)] = {id("StopContainer")}
      <4>1. k \in {"RemoveContainer", "RenameContainer"} /\ k \in ReplacementKinds(strategy, renamed)
        BY DEF ClearName, ReplacementKinds
      <4>2. k \in CreateAfter(strategy, renamed) /\ ReplacedAfter(k, strategy, renamed) = {"StopContainer"}
        BY <4>1 DEF CreateAfter, ReplacedAfter
      <4>3. QED
        BY <3>3, <3>4, <4>1, <4>2
    <3>6. \A k \in ClearName(strategy, renamed) :
            /\ id(k) \in After(id("CreateContainer"))
            /\ id("StopContainer") \in After(id("CreateContainer"))
            /\ id("StopContainer") \in After(id(k))
      BY <3>2, <3>4, <3>5, AfterReaches
    <3>7. id("StopContainer") \in After(id("CreateContainer"))
      <4>1. CASE ClearName(strategy, renamed) = {}
        BY <3>2, <3>4, <4>1, AfterReaches DEF CreateAfter
      <4>2. QED
        BY <3>6, <4>1
    <3>8. /\ strategy = "StopRemoveCreateStart" => "RemoveContainer" \in ClearName(strategy, renamed)
          /\ strategy = "CreateThenSwitch" /\ renamed => "RenameContainer" \in ClearName(strategy, renamed)
      BY DEF ClearName
    <3>9. ASSUME NEW a \in DOMAIN plan, a.kind \in {"RemoveContainer", "RenameContainer"}
          PROVE  id("StopContainer") \in After(a)
      <4>1. PICK k \in ReplacementKinds(strategy, renamed) : a = id(k)
        BY <3>3
      <4>2. k \in ClearName(strategy, renamed)
        BY <3>3, <3>9, <4>1 DEF ReplacementKinds
      <4>3. QED
        BY <3>6, <4>1, <4>2
    <3>10. ReplacesInOrder
      BY <3>6, <3>7, <3>8, <3>9 DEF ReplacesInOrder, i, strategy, renamed, id
    <3>11. QED
      BY <2>1, <3>10
  <2>2. CASE request.op = "down"
    <3> DEFINE p == request.project
               snap == request.snapshot
               opts == request.options
    <3>1. plan = DownPlan(p, snap, opts) /\ WellFormed(p)
          /\ IsFiniteSet(snap.networks) /\ IsFiniteSet(snap.volumes)
      BY <2>2, RequestsAssumption DEF PlanningInv, AnswersItsRequest
    <3>2. IsDag(plan) /\ IsFiniteSet(DOMAIN plan)
      BY <3>1, DownPlanIsDag, DownPlanFinite
    <3> SUFFICES ASSUME NEW a \in DOMAIN plan, a.kind \in {"RemoveNetwork", "RemoveVolume"}
                 PROVE  /\ \E r \in snap.networks \cup snap.volumes : r.ours /\ a.disc = <<r.id>>
                        /\ \A c \in snap.containers :
                             c.ours /\ c.service \in Active(p) => RemoveId(c.service) \in After(a)
      BY <2>2
    <3>3. a \in Removed("RemoveNetwork", "network", snap.networks) \cup RemovedVolumes(snap, opts)
      BY <3>1 DEF DownPlan, DownActions, NothingToDo, StopId, RemoveId, Id
    <3>4. \E r \in snap.networks \cup snap.volumes : r.ours /\ a.disc = <<r.id>>
      BY <3>3 DEF Removed, RemovedVolumes, Id
    <3>5. plan[a] = {RemoveId(s) : s \in TornDown(p, snap)}
      BY <3>1 DEF DownPlan, DownDependencies
    <3>6. \A c \in snap.containers : c.ours /\ c.service \in Active(p) => c.service \in TornDown(p, snap)
      BY DEF TornDown, Claims
    <3>7. plan[a] \subseteq After(a)
      BY <3>2, AfterReaches
    <3>8. QED
      BY <3>4, <3>5, <3>6, <3>7
  <2>3. QED
    BY <2>1, <2>2
<1>2. QED
  BY <1>1, PlanningInvariant, PTL

-----------------------------------------------------------------------------
\* Convergence.

(* The owners: of each instance of an active service that one container    *)
(* claims.                                                                 *)
LEMMA WhoOwns ==
  ASSUME NEW desired, NEW containers, IsFiniteSet(containers), NEW i
  PROVE  LET index == ObservedDeployment(desired, containers)
             claims == Claiming(containers, i)
         IN  /\ Cardinality(claims) \in Nat /\ (Cardinality(claims) = 0 <=> claims = {})
             /\ i \in DOMAIN index.containers <=> Cardinality(claims) = 1 /\ i.service \in desired.services
             /\ Cardinality(claims) > 1 /\ i.service \in desired.services => i \in index.duplicate_claims
<1> DEFINE claims == Claiming(containers, i)
           index == ObservedDeployment(desired, containers)
           claimed == {Instance(c) : c \in {c \in containers : c.claims /\ c.service \in desired.services}}
<1>1. IsFiniteSet(claims)
  <2>1. claims \subseteq containers
    BY DEF Claiming
  <2>2. QED
    BY <2>1, FS_Subset
<1>2. Cardinality(claims) \in Nat /\ (Cardinality(claims) = 0 <=> claims = {})
  BY <1>1, FS_CardinalityType, FS_EmptySet
<1>3. claims # {} /\ i.service \in desired.services => i \in claimed
  <2> SUFFICES ASSUME NEW c \in claims, i.service \in desired.services
               PROVE  i \in claimed
    OBVIOUS
  <2>1. c \in containers /\ c.claims /\ Instance(c) = i /\ c.service = i.service
    BY DEF Claiming, Instance
  <2>2. QED
    BY <2>1
<1>4. i \in claimed => i.service \in desired.services
  BY DEF Instance
<1>5. /\ DOMAIN index.containers = {j \in claimed : OwnedByOne(containers, j)}
      /\ index.duplicate_claims = {j \in claimed : Cardinality(Claiming(containers, j)) > 1}
  BY DEF ObservedDeployment, OwnershipIndex
<1> HIDE DEF claims, index, claimed
<1>6. i \in DOMAIN index.containers <=> Cardinality(claims) = 1 /\ i.service \in desired.services
  BY <1>2, <1>3, <1>4, <1>5 DEF OwnedByOne, claims
<1>7. Cardinality(claims) > 1 /\ i.service \in desired.services => i \in index.duplicate_claims
  BY <1>2, <1>3, <1>5 DEF claims
<1>8. QED
  BY <1>2, <1>6, <1>7 DEF claims, index

(* Which kinds of actions an instance gets.                                *)
LEMMA ConvergenceActs ==
  ASSUME NEW desired, NEW containers, plan = ConvergencePlan(desired, containers), NEW i
  PROVE  LET differences == classify_deployment_differences(desired, containers)
             delta == ScaleDelta(desired, containers)
         IN  \A kind : kind \in ActsOn(i) <=>
               \/ kind = "NoOp" /\ i \in DOMAIN differences /\ differences[i] = "Unchanged"
               \/ kind = "StartContainer" /\ i \in DOMAIN differences
                                           /\ differences[i] = "StoppedButCompatible"
               \/ kind = "ScaleUpReplica" /\ i \in delta.scale_up
               \/ kind = "ScaleDownReplica" /\ i \in delta.scale_down
<1> DEFINE differences == classify_deployment_differences(desired, containers)
           delta == ScaleDelta(desired, containers)
<1>1. DOMAIN plan = NoopOrStart(differences) \cup plan_scale(delta)
  BY DEF ConvergencePlan
<1> HIDE DEF differences, delta
<1>2. \A kind : kind \in ActsOn(i) <=> \E a \in DOMAIN plan : a.key[2] = i /\ a.kind = kind
  BY DEF ActsOn
<1>3. \A j, kind : ConvergeId(j, kind).key[2] = j /\ ConvergeId(j, kind).kind = kind
  BY DEF ConvergeId, Id
<1>4. \A a : a \in DOMAIN plan <=>
        \/ \E j \in DOMAIN differences : differences[j] = "Unchanged" /\ a = ConvergeId(j, "NoOp")
        \/ \E j \in DOMAIN differences :
             differences[j] = "StoppedButCompatible" /\ a = ConvergeId(j, "StartContainer")
        \/ \E j \in delta.scale_up : a = ConvergeId(j, "ScaleUpReplica")
        \/ \E j \in delta.scale_down : a = ConvergeId(j, "ScaleDownReplica")
  BY <1>1 DEF NoopOrStart, plan_scale
<1>5. ASSUME NEW kind
      PROVE  kind \in ActsOn(i) <=>
               \/ kind = "NoOp" /\ i \in DOMAIN differences /\ differences[i] = "Unchanged"
               \/ kind = "StartContainer" /\ i \in DOMAIN differences
                                           /\ differences[i] = "StoppedButCompatible"
               \/ kind = "ScaleUpReplica" /\ i \in delta.scale_up
               \/ kind = "ScaleDownReplica" /\ i \in delta.scale_down
  BY <1>2, <1>3, <1>4
<1>6. QED
  BY <1>5 DEF differences, delta

(* However many replicas are asked for and whatever claims what: a         *)
(* convergence that is not blocked accounts for every replica.             *)
THEOREM ReplicasCounted == Spec => []ReplicasAccountedFor
<1>1. PlanningInv /\ AnswersFaultlessly => ReplicasAccountedFor
  <2> DEFINE desired == request.desired
             containers == request.containers
             wanted == DesiredInstances(desired)
             claims(i) == Claiming(containers, i)
             surplus(i) == i.ours /\ i.service \in desired.services /\ Cardinality(claims(i)) = 1
             differences == classify_deployment_differences(desired, containers)
             delta == ScaleDelta(desired, containers)
             index == ObservedDeployment(desired, containers)
  <2> SUFFICES ASSUME PlanningInv, AnswersFaultlessly, Planned, request.op = "converge"
               PROVE  /\ \A i \in wanted : /\ Cardinality(claims(i)) <= 1
                                           /\ "ScaleUpReplica" \in ActsOn(i) <=> claims(i) = {}
                                           /\ "ScaleDownReplica" \notin ActsOn(i)
                      /\ \A i \in {Instance(c) : c \in {c \in containers : c.claims}} \ wanted :
                           ActsOn(i) = IF surplus(i) THEN {"ScaleDownReplica"} ELSE {}
    BY DEF ReplicasAccountedFor
  <2>1. plan = ConvergencePlan(desired, containers)
    BY DEF PlanningInv, AnswersItsRequest
  <2>2. IsFiniteSet(containers) /\ DOMAIN desired.given \subseteq desired.services
    BY RequestsAssumption DEF PlanningInv
  <2>3. /\ DOMAIN differences = wanted
        /\ delta.scale_up = wanted \ DOMAIN index.containers
        /\ delta.scale_down = {i \in DOMAIN index.containers : i.ours} \ wanted
    BY DEF classify_deployment_differences, ScaleDelta
  <2>4. \A i \in wanted : i.service \in desired.services
    <3>1. DOMAIN Replicas(desired) = desired.services \cup DOMAIN desired.given
      BY DEF Replicas
    <3>2. \A i \in wanted : i.service \in DOMAIN Replicas(desired)
      BY DEF DesiredInstances
    <3>3. QED
      BY <2>2, <3>1, <3>2
  <2>5. \A i \in wanted : i \notin index.duplicate_claims
    <3> SUFFICES ASSUME NEW i \in wanted, i \in index.duplicate_claims
                 PROVE  FALSE
      OBVIOUS
    <3>1. differences[i] = "OwnershipAmbiguous"
      BY DEF classify_deployment_differences, classify_instance
    <3>2. DiagnosticSeverity(differences[i]) = "Error"
      BY <3>1 DEF DiagnosticSeverity
    <3>3. <<differences[i], i>> \in ConvergenceErrors(desired, containers)
      BY <2>3, <3>2 DEF ConvergenceErrors
    <3>4. QED
      BY <3>3 DEF AnswersFaultlessly
  <2> HIDE DEF desired, containers, wanted, differences, delta, index
  <2>6. ASSUME NEW i
        PROVE  /\ Cardinality(claims(i)) \in Nat /\ (Cardinality(claims(i)) = 0 <=> claims(i) = {})
               /\ i \in DOMAIN index.containers
                    <=> Cardinality(claims(i)) = 1 /\ i.service \in desired.services
               /\ Cardinality(claims(i)) > 1 /\ i.service \in desired.services
                    => i \in index.duplicate_claims
    BY <2>2, WhoOwns DEF index
  <2>7. ASSUME NEW i, NEW kind
        PROVE  kind \in ActsOn(i) <=>
                 \/ kind = "NoOp" /\ i \in DOMAIN differences /\ differences[i] = "Unchanged"
                 \/ kind = "StartContainer" /\ i \in DOMAIN differences
                                             /\ differences[i] = "StoppedButCompatible"
                 \/ kind = "ScaleUpReplica" /\ i \in delta.scale_up
                 \/ kind = "ScaleDownReplica" /\ i \in delta.scale_down
    BY <2>1, ConvergenceActs DEF differences, delta
  <2>8. ASSUME NEW i \in wanted
        PROVE  /\ Cardinality(claims(i)) <= 1
               /\ "ScaleUpReplica" \in ActsOn(i) <=> claims(i) = {}
               /\ "ScaleDownReplica" \notin ActsOn(i)
    <3>1. Cardinality(claims(i)) \in {0, 1}
      BY <2>4, <2>5, <2>6
    <3>2. i \in DOMAIN index.containers <=> claims(i) # {}
      BY <2>4, <2>6, <3>1
    <3>3. QED
      BY <2>3, <2>7, <3>1, <3>2
  <2>9. ASSUME NEW i, i \notin wanted
        PROVE  ActsOn(i) = IF surplus(i) THEN {"ScaleDownReplica"} ELSE {}
    <3>1. i \in delta.scale_down <=> surplus(i)
      BY <2>3, <2>6, <2>9
    <3>2. \A kind : kind \in ActsOn(i) <=> kind = "ScaleDownReplica" /\ surplus(i)
      BY <2>3, <2>7, <2>9, <3>1
    <3>3. QED
      BY <3>2
  <2>10. QED
    BY <2>8, <2>9
<1>2. QED
  BY <1>1, FaultlessInvariant, PTL

-----------------------------------------------------------------------------
\* What can be read back from a fingerprint.

LEMMA OptionRead ==
  ASSUME NEW key, NEW t, t # "<absent>", NEW u, u # "<absent>", atom_opt(key, t) = atom_opt(key, u)
  PROVE  t = u
BY DEF atom_opt, atom, None

LEMMA ImageRead ==
  ASSUME NEW a, NEW b, encode_image(a) = encode_image(b),
         a = [reference |-> a.reference, digest |-> a.digest, image_id |-> a.image_id],
         b = [reference |-> b.reference, digest |-> b.digest, image_id |-> b.image_id],
         "<absent>" \notin {a.reference, a.digest, a.image_id}, "<absent>" \notin {b.reference, b.digest, b.image_id}
  PROVE  a = b
<1>1. /\ atom_opt("reference", a.reference) = atom_opt("reference", b.reference)
      /\ atom_opt("digest", a.digest) = atom_opt("digest", b.digest)
      /\ atom_opt("id", a.image_id) = atom_opt("id", b.image_id)
  BY DEF encode_image
<1>2. a.reference = b.reference /\ a.digest = b.digest /\ a.image_id = b.image_id
  BY <1>1, OptionRead
<1>3. QED
  BY <1>2

LEMMA CommandRead ==
  ASSUME NEW a, NEW b, IsCommand(a), IsCommand(b), encode_command(a) = encode_command(b)
  PROVE  a = b
<1>1. \A c : IsCommand(c) => c.kind \in {"shell", "exec", "absent"}
  BY DEF IsCommand
<1>2. \A c : /\ c.kind = "shell" => encode_command(c) = <<atom("kind", "shell"), atom("value", c.value)>>
             /\ c.kind = "exec" => encode_command(c) = <<atom("kind", "exec"), atom("argc", Len(c.values)),
                                                         atom("args", c.values)>>
             /\ c.kind = "absent" => encode_command(c) = <<atom("kind", "<absent>")>>
  BY DEF encode_command
<1>3. \A c : IsCommand(c) => encode_command(c)[1] = atom("kind", IF c.kind = "absent" THEN "<absent>" ELSE c.kind)
  BY <1>1, <1>2
<1>4. a.kind = b.kind
  BY <1>1, <1>3 DEF atom
<1>5. CASE a.kind = "shell"
  <2>0. b.kind = "shell"
    BY <1>4, <1>5
  <2>1. encode_command(a)[2] = atom("value", a.value) /\ encode_command(b)[2] = atom("value", b.value)
    BY <1>2, <1>5, <2>0
  <2>2. a.value = b.value
    BY <2>1 DEF atom
  <2>3. a = [kind |-> "shell", value |-> a.value]
    BY <1>5 DEF IsCommand
  <2>4. b = [kind |-> "shell", value |-> b.value]
    BY <2>0 DEF IsCommand
  <2>5. QED
    BY <2>2, <2>3, <2>4
<1>6. CASE a.kind = "exec"
  <2>0. b.kind = "exec"
    BY <1>4, <1>6
  <2>1. encode_command(a)[3] = atom("args", a.values) /\ encode_command(b)[3] = atom("args", b.values)
    BY <1>2, <1>6, <2>0
  <2>2. a.values = b.values
    BY <2>1 DEF atom
  <2>3. a = [kind |-> "exec", values |-> a.values]
    BY <1>6 DEF IsCommand
  <2>4. b = [kind |-> "exec", values |-> b.values]
    BY <2>0 DEF IsCommand
  <2>5. QED
    BY <2>2, <2>3, <2>4
<1>7. CASE a.kind = "absent"
  BY <1>4, <1>7 DEF IsCommand
<1>8. QED
  BY <1>1, <1>5, <1>6, <1>7

LEMMA EnvironmentRead ==
  ASSUME NEW a, NEW b, a = [key \in DOMAIN a |-> a[key]], b = [key \in DOMAIN b |-> b[key]],
         encode_environment(a) = encode_environment(b)
  PROVE  a = b
<1> DEFINE entry(e, key) == <<key, atom("inherited", e[key] = "inherited"),
                              atom("value_digest", IF e[key] = "inherited" THEN "<absent>" ELSE e[key])>>
<1>1. {entry(a, key) : key \in DOMAIN a} = {entry(b, key) : key \in DOMAIN b}
  BY DEF encode_environment
<1>2. ASSUME NEW e, NEW f, NEW key, NEW other, entry(e, key) = entry(f, other)
      PROVE  key = other /\ e[key] = f[other]
  <2>1. key = other
    BY <1>2
  <2>2. (e[key] = "inherited") = (f[other] = "inherited")
    BY <1>2 DEF atom
  <2>3. (IF e[key] = "inherited" THEN "<absent>" ELSE e[key]) = (IF f[other] = "inherited" THEN "<absent>" ELSE f[other])
    BY <1>2 DEF atom
  <2>4. QED
    BY <2>1, <2>2, <2>3
<1> HIDE DEF entry
<1>3. ASSUME NEW key \in DOMAIN a
      PROVE  key \in DOMAIN b /\ a[key] = b[key]
  <2>1. PICK other \in DOMAIN b : entry(a, key) = entry(b, other)
    BY <1>1
  <2>2. QED
    BY <1>2, <2>1
<1>4. ASSUME NEW key \in DOMAIN b
      PROVE  key \in DOMAIN a
  <2>1. PICK other \in DOMAIN a : entry(b, key) = entry(a, other)
    BY <1>1
  <2>2. QED
    BY <1>2, <2>1
<1>5. QED
  BY <1>3, <1>4

LEMMA PairsRead ==
  ASSUME NEW a, NEW b, a = [key \in DOMAIN a |-> a[key]], b = [key \in DOMAIN b |-> b[key]],
         encode_pairs(a) = encode_pairs(b)
  PROVE  a = b
<1>1. {atom(key, a[key]) : key \in DOMAIN a} = {atom(key, b[key]) : key \in DOMAIN b}
  BY DEF encode_pairs
<1>2. \A key, value, other, given : atom(key, value) = atom(other, given) => key = other /\ value = given
  BY DEF atom
<1>3. \A key \in DOMAIN a : \E other \in DOMAIN b : atom(key, a[key]) = atom(other, b[other])
  BY <1>1
<1>4. \A key \in DOMAIN b : \E other \in DOMAIN a : atom(key, b[key]) = atom(other, a[other])
  BY <1>1
<1>5. \A key \in DOMAIN a : key \in DOMAIN b /\ a[key] = b[key]
  BY <1>2, <1>3
<1>6. DOMAIN a = DOMAIN b
  BY <1>2, <1>4, <1>5
<1>7. QED
  BY <1>5, <1>6

LEMMA PublishedRead ==
  ASSUME NEW a, NEW b, IsPublished(a), IsPublished(b), encode_published(a) = encode_published(b)
  PROVE  a = b
<1>1. \A p : IsPublished(p) => p.kind \in {"single", "range", "absent"}
  BY DEF IsPublished
<1>2. \A p : /\ p.kind = "single" => encode_published(p) = <<atom("kind", "single"), atom("value", p.start)>>
             /\ p.kind = "range" => encode_published(p) = <<atom("kind", "range"), atom("start", p.start),
                                                            atom("end", p.end)>>
             /\ p.kind = "absent" => encode_published(p) = <<atom("kind", "<absent>")>>
  BY DEF encode_published
<1>3. \A p : IsPublished(p) => encode_published(p)[1] = atom("kind", IF p.kind = "absent" THEN "<absent>" ELSE p.kind)
  BY <1>1, <1>2
<1>4. a.kind = b.kind
  BY <1>1, <1>3 DEF atom
<1>5. CASE a.kind = "single"
  <2>0. b.kind = "single"
    BY <1>4, <1>5
  <2>1. encode_published(a)[2] = atom("value", a.start) /\ encode_published(b)[2] = atom("value", b.start)
    BY <1>2, <1>5, <2>0
  <2>2. a.start = b.start
    BY <2>1 DEF atom
  <2>3. a = [kind |-> "single", start |-> a.start, end |-> a.start]
    BY <1>5 DEF IsPublished
  <2>4. b = [kind |-> "single", start |-> b.start, end |-> b.start]
    BY <2>0 DEF IsPublished
  <2>5. QED
    BY <2>2, <2>3, <2>4
<1>6. CASE a.kind = "range"
  <2>0. b.kind = "range"
    BY <1>4, <1>6
  <2>1. /\ encode_published(a)[2] = atom("start", a.start) /\ encode_published(b)[2] = atom("start", b.start)
        /\ encode_published(a)[3] = atom("end", a.end) /\ encode_published(b)[3] = atom("end", b.end)
    BY <1>2, <1>6, <2>0
  <2>2. a.start = b.start /\ a.end = b.end
    BY <2>1 DEF atom
  <2>3. a = [kind |-> "range", start |-> a.start, end |-> a.end]
    BY <1>6 DEF IsPublished
  <2>4. b = [kind |-> "range", start |-> b.start, end |-> b.end]
    BY <2>0 DEF IsPublished
  <2>5. QED
    BY <2>2, <2>3, <2>4
<1>7. CASE a.kind = "absent"
  BY <1>4, <1>7 DEF IsPublished
<1>8. QED
  BY <1>1, <1>5, <1>6, <1>7


LEMMA PortsRead ==
  ASSUME NEW P, NEW Q, encode_ports(P) = encode_ports(Q),
         \A p \in P \cup Q :
           /\ p = [host_ip |-> p.host_ip, published |-> p.published, target |-> p.target, protocol |-> p.protocol]
           /\ IsPublished(p.published) /\ p.host_ip # "<absent>"
  PROVE  P = Q
<1> DEFINE entry(p) == <<atom_opt("host_ip", p.host_ip), encode_published(p.published), atom("target", p.target),
                         atom("protocol", p.protocol)>>
<1>1. {entry(p) : p \in P} = {entry(p) : p \in Q}
  BY DEF encode_ports
<1>2. ASSUME NEW p \in P \cup Q, NEW q \in P \cup Q, entry(p) = entry(q)
      PROVE  p = q
  <2>1. /\ atom_opt("host_ip", p.host_ip) = atom_opt("host_ip", q.host_ip)
        /\ encode_published(p.published) = encode_published(q.published)
        /\ atom("target", p.target) = atom("target", q.target)
        /\ atom("protocol", p.protocol) = atom("protocol", q.protocol)
    BY <1>2
  <2>2. p.host_ip = q.host_ip
    BY <2>1, OptionRead
  <2>3. p.published = q.published
    BY <2>1, PublishedRead
  <2>4. p.target = q.target /\ p.protocol = q.protocol
    BY <2>1 DEF atom
  <2>5. QED
    BY <2>2, <2>3, <2>4
<1> HIDE DEF entry
<1>3. \A p \in P : p \in Q
  <2> SUFFICES ASSUME NEW p \in P
               PROVE  p \in Q
    OBVIOUS
  <2>1. PICK q \in Q : entry(p) = entry(q)
    BY <1>1
  <2>2. QED
    BY <1>2, <2>1
<1>4. \A p \in Q : p \in P
  <2> SUFFICES ASSUME NEW p \in Q
               PROVE  p \in P
    OBVIOUS
  <2>1. PICK q \in P : entry(p) = entry(q)
    BY <1>1
  <2>2. QED
    BY <1>2, <2>1
<1>5. QED
  BY <1>3, <1>4

AreTexts(names) == \A key \in DOMAIN names : names[key] # "<absent>"

LEMMA NamesAreTexts ==
  ASSUME NEW names, AreTexts(names), NEW key
  PROVE  NameIn(names, key) # "<absent>"
BY DEF NameIn, AreTexts, None

LEMMA VolumesRead ==
  ASSUME NEW V, NEW W, NEW names, NEW others, AreTexts(names), AreTexts(others),
         \A v \in V \cup W :
           /\ v = [kind |-> v.kind, source |-> v.source, target |-> v.target, read_only |-> v.read_only]
           /\ v.source # "<absent>",
         encode_volumes({CanonicalVolumeMount(v, names) : v \in V})
           = encode_volumes({CanonicalVolumeMount(v, others) : v \in W})
  PROVE  V = W /\ \A v \in V : v.kind = "Volume" => NameIn(names, v.source) = NameIn(others, v.source)
<1> DEFINE entry(v) == <<atom("kind", v.kind), atom_opt("source", v.source), atom_opt("runtime_name", v.runtime_name),
                         atom("target", v.target), atom("read_only", v.read_only)>>
           mine(v) == CanonicalVolumeMount(v, names)
           theirs(v) == CanonicalVolumeMount(v, others)
<1>1. {entry(mine(v)) : v \in V} = {entry(theirs(v)) : v \in W}
  <2>1. {entry(v) : v \in {mine(w) : w \in V}} = {entry(v) : v \in {theirs(w) : w \in W}}
    BY DEF encode_volumes
  <2> HIDE DEF entry, mine, theirs
  <2>2. QED
    BY <2>1
<1>2. \A v, n : LET m == CanonicalVolumeMount(v, n)
                IN  /\ m.kind = v.kind /\ m.source = v.source /\ m.target = v.target /\ m.read_only = v.read_only
                    /\ m.runtime_name = IF v.kind = "Volume" THEN NameIn(n, v.source) ELSE None
  BY DEF CanonicalVolumeMount
<1>3. ASSUME NEW v \in V, NEW w \in W, entry(mine(v)) = entry(theirs(w))
      PROVE  v = w /\ (v.kind = "Volume" => NameIn(names, v.source) = NameIn(others, v.source))
  <2>1. PICK a, b : a = mine(v) /\ b = theirs(w)
    OBVIOUS
  <2>2. /\ atom("kind", a.kind) = atom("kind", b.kind)
        /\ atom_opt("source", a.source) = atom_opt("source", b.source)
        /\ atom_opt("runtime_name", a.runtime_name) = atom_opt("runtime_name", b.runtime_name)
        /\ atom("target", a.target) = atom("target", b.target)
        /\ atom("read_only", a.read_only) = atom("read_only", b.read_only)
    <3> HIDE DEF mine, theirs
    <3>1. QED
      BY <1>3, <2>1
  <2>3. /\ a.kind = v.kind /\ a.source = v.source /\ a.target = v.target /\ a.read_only = v.read_only
        /\ b.kind = w.kind /\ b.source = w.source /\ b.target = w.target /\ b.read_only = w.read_only
        /\ a.runtime_name = (IF v.kind = "Volume" THEN NameIn(names, v.source) ELSE None)
        /\ b.runtime_name = (IF w.kind = "Volume" THEN NameIn(others, w.source) ELSE None)
    BY <1>2, <2>1
  <2>4. v.kind = w.kind /\ v.target = w.target /\ v.read_only = w.read_only
    BY <2>2, <2>3 DEF atom
  <2>5. v.source = w.source
    BY <2>2, <2>3, OptionRead
  <2>6. v.kind = "Volume" => NameIn(names, v.source) = NameIn(others, v.source)
    BY <2>2, <2>3, <2>4, <2>5, NamesAreTexts, OptionRead
  <2>7. QED
    BY <2>4, <2>5, <2>6
<1> HIDE DEF entry, mine, theirs
<1>4. ASSUME NEW v \in V
      PROVE  v \in W /\ (v.kind = "Volume" => NameIn(names, v.source) = NameIn(others, v.source))
  <2>1. PICK w \in W : entry(mine(v)) = entry(theirs(w))
    BY <1>1
  <2>2. QED
    BY <1>3, <2>1
<1>5. ASSUME NEW w \in W
      PROVE  w \in V
  <2>1. PICK v \in V : entry(mine(v)) = entry(theirs(w))
    BY <1>1
  <2>2. QED
    BY <1>3, <2>1
<1>6. QED
  BY <1>4, <1>5

LEMMA NetworksRead ==
  ASSUME NEW a, NEW b, a = [n \in DOMAIN a |-> a[n]], b = [n \in DOMAIN b |-> b[n]],
         NEW names, NEW others, AreTexts(names), AreTexts(others),
         encode_networks({CanonicalNetworkAttachment(n, a, names) : n \in DOMAIN a})
           = encode_networks({CanonicalNetworkAttachment(n, b, others) : n \in DOMAIN b})
  PROVE  a = b /\ \A n \in DOMAIN a : NameIn(names, n) = NameIn(others, n)
<1> DEFINE entry(n) == <<n.name, atom_opt("runtime_name", n.runtime_name),
                         atom("aliases.count", Cardinality(n.aliases)), atom("aliases", n.aliases)>>
           mine(n) == CanonicalNetworkAttachment(n, a, names)
           theirs(n) == CanonicalNetworkAttachment(n, b, others)
<1>1. {entry(mine(n)) : n \in DOMAIN a} = {entry(theirs(n)) : n \in DOMAIN b}
  <2>1. {entry(n) : n \in {mine(m) : m \in DOMAIN a}} = {entry(n) : n \in {theirs(m) : m \in DOMAIN b}}
    BY DEF encode_networks
  <2> HIDE DEF entry, mine, theirs
  <2>2. QED
    BY <2>1
<1>2. /\ \A n : mine(n).name = n /\ mine(n).runtime_name = NameIn(names, n) /\ mine(n).aliases = a[n]
      /\ \A n : theirs(n).name = n /\ theirs(n).runtime_name = NameIn(others, n) /\ theirs(n).aliases = b[n]
  BY DEF CanonicalNetworkAttachment
<1> HIDE DEF mine, theirs
<1>3. ASSUME NEW n \in DOMAIN a, NEW m \in DOMAIN b, entry(mine(n)) = entry(theirs(m))
      PROVE  n = m /\ a[n] = b[n] /\ NameIn(names, n) = NameIn(others, n)
  <2>1. /\ mine(n).name = theirs(m).name
        /\ atom_opt("runtime_name", mine(n).runtime_name) = atom_opt("runtime_name", theirs(m).runtime_name)
        /\ atom("aliases", mine(n).aliases) = atom("aliases", theirs(m).aliases)
    BY <1>3
  <2>2. n = m
    BY <1>2, <2>1
  <2>3. a[n] = b[n]
    BY <1>2, <2>1, <2>2 DEF atom
  <2>4. NameIn(names, n) = NameIn(others, n)
    BY <1>2, <2>1, <2>2, NamesAreTexts, OptionRead
  <2>5. QED
    BY <2>2, <2>3, <2>4
<1> HIDE DEF entry
<1>4. ASSUME NEW n \in DOMAIN a
      PROVE  n \in DOMAIN b /\ a[n] = b[n] /\ NameIn(names, n) = NameIn(others, n)
  <2>1. PICK m \in DOMAIN b : entry(mine(n)) = entry(theirs(m))
    BY <1>1
  <2>2. QED
    BY <1>3, <2>1
<1>5. ASSUME NEW m \in DOMAIN b
      PROVE  m \in DOMAIN a
  <2>1. PICK n \in DOMAIN a : entry(mine(n)) = entry(theirs(m))
    BY <1>1
  <2>2. QED
    BY <1>3, <2>1
<1>6. QED
  BY <1>4, <1>5

LEMMA HealthcheckRead ==
  ASSUME NEW a, NEW b, IsHealthcheck(a), IsHealthcheck(b), encode_healthcheck(a) = encode_healthcheck(b)
  PROVE  a = b
<1>1. ASSUME NEW h, IsHealthcheck(h)
      PROVE  /\ h.present \in BOOLEAN
             /\ ~h.present => h = [present |-> FALSE] /\ encode_healthcheck(h) = <<atom("present", "false")>>
             /\ h.present =>
                  /\ h = [present |-> TRUE, test |-> h.test, interval |-> h.interval, timeout |-> h.timeout,
                          start_period |-> h.start_period, retries |-> h.retries, disable |-> h.disable]
                  /\ IsCommand(h.test) /\ "<absent>" \notin {h.interval, h.timeout, h.start_period, h.retries}
                  /\ encode_healthcheck(h) =
                       <<atom("present", "true"), encode_command(h.test), atom_opt("interval", h.interval),
                         atom_opt("timeout", h.timeout), atom_opt("start_period", h.start_period),
                         atom_opt("retries", h.retries), atom("disable", h.disable)>>
  <2>1. CASE h = [present |-> FALSE]
    <3>1. h.present = FALSE
      BY <2>1
    <3>2. QED
      BY <2>1, <3>1 DEF encode_healthcheck
  <2>2. CASE h # [present |-> FALSE]
    <3>1. /\ h = [present |-> TRUE, test |-> h.test, interval |-> h.interval, timeout |-> h.timeout,
                  start_period |-> h.start_period, retries |-> h.retries, disable |-> h.disable]
          /\ IsCommand(h.test) /\ "<absent>" \notin {h.interval, h.timeout, h.start_period, h.retries}
      BY <1>1, <2>2 DEF IsHealthcheck
    <3>2. h.present = TRUE
      BY <3>1
    <3>3. QED
      BY <3>1, <3>2 DEF encode_healthcheck
  <2>3. QED
    BY <2>1, <2>2
<1>2. a.present = b.present
  <2>1. /\ encode_healthcheck(a)[1] = atom("present", IF a.present THEN "true" ELSE "false")
        /\ encode_healthcheck(b)[1] = atom("present", IF b.present THEN "true" ELSE "false")
    BY DEF encode_healthcheck
  <2>2. a.present \in BOOLEAN /\ b.present \in BOOLEAN
    BY <1>1
  <2>3. QED
    BY <2>1, <2>2 DEF atom
<1>3. CASE ~a.present
  BY <1>1, <1>2, <1>3
<1>4. CASE a.present
  <2>0. b.present
    BY <1>2, <1>4
  <2>1. PICK x, y : x = encode_healthcheck(a) /\ y = encode_healthcheck(b) /\ x = y
    OBVIOUS
  <2>2. x = <<atom("present", "true"), encode_command(a.test), atom_opt("interval", a.interval),
              atom_opt("timeout", a.timeout), atom_opt("start_period", a.start_period),
              atom_opt("retries", a.retries), atom("disable", a.disable)>>
    BY <1>1, <1>4, <2>1
  <2>3. y = <<atom("present", "true"), encode_command(b.test), atom_opt("interval", b.interval),
              atom_opt("timeout", b.timeout), atom_opt("start_period", b.start_period),
              atom_opt("retries", b.retries), atom("disable", b.disable)>>
    BY <1>1, <2>0, <2>1
  <2>4. /\ encode_command(a.test) = encode_command(b.test)
        /\ atom_opt("interval", a.interval) = atom_opt("interval", b.interval)
        /\ atom_opt("timeout", a.timeout) = atom_opt("timeout", b.timeout)
        /\ atom_opt("start_period", a.start_period) = atom_opt("start_period", b.start_period)
        /\ atom_opt("retries", a.retries) = atom_opt("retries", b.retries)
        /\ atom("disable", a.disable) = atom("disable", b.disable)
    BY <2>1, <2>2, <2>3
  <2>5. /\ IsCommand(a.test) /\ "<absent>" \notin {a.interval, a.timeout, a.start_period, a.retries}
        /\ IsCommand(b.test) /\ "<absent>" \notin {b.interval, b.timeout, b.start_period, b.retries}
    BY <1>1, <1>4, <2>0
  <2>6. a.test = b.test
    BY <2>4, <2>5, CommandRead
  <2>7. a.interval = b.interval /\ a.timeout = b.timeout /\ a.start_period = b.start_period /\ a.retries = b.retries
    BY <2>4, <2>5, OptionRead
  <2>8. a.disable = b.disable
    BY <2>4 DEF atom
  <2>9. QED
    BY <1>1, <1>4, <2>0, <2>6, <2>7, <2>8
<1>5. QED
  BY <1>3, <1>4


(* A mount as it is encoded.                                               *)
EncodedMount(m) == <<m.source, atom_opt("runtime_name", m.runtime_name), atom_opt("target", m.target)>>

Mounts(s, names) == {CanonicalResourceMount(m, names) : m \in s}

LEMMA MountFields ==
  ASSUME NEW m, NEW names
  PROVE  LET c == CanonicalResourceMount(m, names)
         IN  c.source = m.source /\ c.target = m.target /\ c.owner = m.owner /\ c.runtime_name = NameIn(names, m.source)
BY DEF CanonicalResourceMount

LEMMA MountEncodings ==
  ASSUME NEW m, NEW k, NEW names, NEW others, AreTexts(names), AreTexts(others),
         m.target # "<absent>", k.target # "<absent>"
  PROVE  EncodedMount(CanonicalResourceMount(m, names)) = EncodedMount(CanonicalResourceMount(k, others))
           <=> m.source = k.source /\ m.target = k.target /\ NameIn(names, m.source) = NameIn(others, k.source)
<1>1. PICK a, b : a = CanonicalResourceMount(m, names) /\ b = CanonicalResourceMount(k, others)
  OBVIOUS
<1>2. /\ a.source = m.source /\ a.target = m.target /\ a.runtime_name = NameIn(names, m.source)
      /\ b.source = k.source /\ b.target = k.target /\ b.runtime_name = NameIn(others, k.source)
  BY <1>1, MountFields
<1>3. ASSUME EncodedMount(a) = EncodedMount(b)
      PROVE  a.source = b.source /\ a.runtime_name = b.runtime_name /\ a.target = b.target
  <2>1. /\ a.source = b.source
        /\ atom_opt("runtime_name", a.runtime_name) = atom_opt("runtime_name", b.runtime_name)
        /\ atom_opt("target", a.target) = atom_opt("target", b.target)
    BY <1>3 DEF EncodedMount
  <2>2. a.runtime_name = b.runtime_name
    BY <1>2, <2>1, NamesAreTexts, OptionRead
  <2>3. a.target = b.target
    BY <1>2, <2>1, OptionRead
  <2>4. QED
    BY <2>1, <2>2, <2>3
<1>4. ASSUME a.source = b.source, a.runtime_name = b.runtime_name, a.target = b.target
      PROVE  EncodedMount(a) = EncodedMount(b)
  BY <1>4 DEF EncodedMount
<1>5. EncodedMount(a) = EncodedMount(b)
        <=> a.source = b.source /\ a.runtime_name = b.runtime_name /\ a.target = b.target
  BY <1>3, <1>4
<1>6. QED
  BY <1>1, <1>2, <1>5

(* Mounts of the same source at the same target.                           *)
AlikeMounts(s, m) == {n \in s : n.source = m.source /\ n.target = m.target}

(* Mounts are encoded apart that differ, owner and all: as many as there   *)
(* are.                                                                    *)
LEMMA MountsApart ==
  ASSUME NEW s, AreMounts(s), NEW names, NEW part \in SUBSET s
  PROVE  /\ IsFiniteSet(part) /\ Cardinality(Mounts(part, names)) = Cardinality(part)
<1>1. IsFiniteSet(part)
  BY FS_Subset DEF AreMounts
<1> DEFINE F == [m \in part |-> CanonicalResourceMount(m, names)]
<1>2. \A m \in s : m = [source |-> m.source, target |-> m.target, owner |-> m.owner]
  BY DEF AreMounts
<1>3. ASSUME NEW m \in part, NEW k \in part, CanonicalResourceMount(m, names) = CanonicalResourceMount(k, names)
      PROVE  m = k
  <2>1. m.source = k.source /\ m.target = k.target /\ m.owner = k.owner
    BY <1>3, MountFields
  <2>2. m = [source |-> m.source, target |-> m.target, owner |-> m.owner]
    BY <1>2
  <2>3. k = [source |-> k.source, target |-> k.target, owner |-> k.owner]
    BY <1>2
  <2>4. QED
    BY <2>1, <2>2, <2>3
<1>4. F \in Bijection(part, Mounts(part, names))
  <2>1. F \in [part -> Mounts(part, names)]
    BY DEF Mounts
  <2>2. \A m \in part, k \in part : F[m] = F[k] => m = k
    BY <1>3
  <2>3. \A c \in Mounts(part, names) : \E m \in part : F[m] = c
    BY DEF Mounts
  <2> HIDE DEF F
  <2>4. F \in Injection(part, Mounts(part, names))
    BY <2>1, <2>2 DEF Injection, IsInjective
  <2>5. F \in Surjection(part, Mounts(part, names))
    BY <2>1, <2>3 DEF Surjection
  <2>6. QED
    BY <2>4, <2>5 DEF Bijection
<1> HIDE DEF F
<1>5. ExistsBijection(part, Mounts(part, names))
  BY <1>4 DEF ExistsBijection
<1>6. QED
  BY <1>1, <1>5, FS_Bijection

EncodedMounts(s, names) ==
  {<<EncodedMount(CanonicalResourceMount(m, names)), Cardinality(AlikeMounts(s, m))>> : m \in s}

(* A mount is encoded along with how many are encoded as it is.            *)
LEMMA MountsCounted ==
  ASSUME NEW s, AreMounts(s), NEW names, AreTexts(names)
  PROVE  encode_mounts(Mounts(s, names)) = <<Cardinality(s), EncodedMounts(s, names)>>
<1> DEFINE same(m) == {n \in Mounts(s, names) : EncodedMount(n) = EncodedMount(m)}
           c(m) == CanonicalResourceMount(m, names)
<1>1. encode_mounts(Mounts(s, names)) =
        <<Cardinality(Mounts(s, names)), {<<EncodedMount(m), Cardinality(same(m))>> : m \in Mounts(s, names)}>>
  BY Zenon DEF encode_mounts, EncodedMount
<1>2. Cardinality(Mounts(s, names)) = Cardinality(s)
  BY MountsApart
<1>3. ASSUME NEW m \in s
      PROVE  Cardinality(same(c(m))) = Cardinality(AlikeMounts(s, m))
  <2>1. \A n \in s : EncodedMount(c(n)) = EncodedMount(c(m)) <=> n.source = m.source /\ n.target = m.target
    <3> SUFFICES ASSUME NEW n \in s
                 PROVE  EncodedMount(c(n)) = EncodedMount(c(m)) <=> n.source = m.source /\ n.target = m.target
      OBVIOUS
    <3>1. n.target # "<absent>" /\ m.target # "<absent>"
      BY DEF AreMounts
    <3>2. QED
      BY <3>1, MountEncodings
  <2> HIDE DEF c
  <2>2. Mounts(s, names) = {c(n) : n \in s} /\ Mounts(AlikeMounts(s, m), names) = {c(n) : n \in AlikeMounts(s, m)}
    BY Zenon DEF Mounts, c
  <2>3. same(c(m)) = Mounts(AlikeMounts(s, m), names)
    <3>1. \A n : n \in AlikeMounts(s, m) <=> n \in s /\ n.source = m.source /\ n.target = m.target
      BY DEF AlikeMounts
    <3>2. QED
      BY <2>1, <2>2, <3>1
  <2>4. AlikeMounts(s, m) \in SUBSET s
    BY DEF AlikeMounts
  <2> HIDE DEF same
  <2>5. QED
    BY <2>3, <2>4, MountsApart
<1>4. Mounts(s, names) = {c(n) : n \in s}
  BY Zenon DEF Mounts
<1> HIDE DEF same, c
<1>5. {<<EncodedMount(m), Cardinality(same(m))>> : m \in Mounts(s, names)}
        = {<<EncodedMount(c(m)), Cardinality(AlikeMounts(s, m))>> : m \in s}
  BY <1>3, <1>4
<1>6. EncodedMounts(s, names) = {<<EncodedMount(c(m)), Cardinality(AlikeMounts(s, m))>> : m \in s}
  BY Zenon DEF EncodedMounts, c
<1>7. QED
  BY <1>1, <1>2, <1>5, <1>6

LEMMA MountsRead ==
  ASSUME NEW s, AreMounts(s), NEW names, AreTexts(names), NEW t, AreMounts(t), NEW others, AreTexts(others),
         encode_mounts(Mounts(s, names)) = encode_mounts(Mounts(t, others)), NEW m \in s
  PROVE  /\ Cardinality(AlikeMounts(s, m)) = Cardinality(AlikeMounts(t, m))
         /\ NameIn(names, m.source) = NameIn(others, m.source)
         /\ \E k \in t : k.source = m.source
<1>1. EncodedMounts(s, names) = EncodedMounts(t, others)
  BY MountsCounted
<1>2. <<EncodedMount(CanonicalResourceMount(m, names)), Cardinality(AlikeMounts(s, m))>> \in EncodedMounts(t, others)
  BY <1>1 DEF EncodedMounts
<1>3. PICK k \in t : <<EncodedMount(CanonicalResourceMount(m, names)), Cardinality(AlikeMounts(s, m))>>
                       = <<EncodedMount(CanonicalResourceMount(k, others)), Cardinality(AlikeMounts(t, k))>>
  BY <1>2 DEF EncodedMounts
<1>4. /\ EncodedMount(CanonicalResourceMount(m, names)) = EncodedMount(CanonicalResourceMount(k, others))
      /\ Cardinality(AlikeMounts(s, m)) = Cardinality(AlikeMounts(t, k))
  BY <1>3
<1>5. m.target # "<absent>" /\ k.target # "<absent>"
  BY DEF AreMounts
<1>6. m.source = k.source /\ m.target = k.target /\ NameIn(names, m.source) = NameIn(others, k.source)
  BY <1>4, <1>5, MountEncodings
<1>7. AlikeMounts(t, k) = AlikeMounts(t, m)
  BY <1>6 DEF AlikeMounts
<1>8. QED
  BY <1>4, <1>6, <1>7

(* As many of each are as many in all.                                     *)
LEMMA AsManyOfEach ==
  ASSUME NEW s, AreMounts(s), NEW t, AreMounts(t),
         \A m \in s \cup t : Cardinality(AlikeMounts(s, m)) = Cardinality(AlikeMounts(t, m))
  PROVE  Cardinality(s) = Cardinality(t)
<1>1. \A m : AlikeMounts(s, m) \subseteq s /\ AlikeMounts(t, m) \subseteq t
  BY DEF AlikeMounts
<1>2. IsFiniteSet(s) /\ IsFiniteSet(t)
  BY DEF AreMounts
<1> DEFINE pairing(m) == CHOOSE f : f \in Bijection(AlikeMounts(s, m), AlikeMounts(t, m))
           F == [m \in s |-> pairing(m)[m]]
<1>3. ASSUME NEW m \in s \cup t
      PROVE  /\ pairing(m) \in [AlikeMounts(s, m) -> AlikeMounts(t, m)]
             /\ \A a \in AlikeMounts(s, m), b \in AlikeMounts(s, m) : pairing(m)[a] = pairing(m)[b] => a = b
             /\ \A b \in AlikeMounts(t, m) : \E a \in AlikeMounts(s, m) : pairing(m)[a] = b
  <2>1. IsFiniteSet(AlikeMounts(s, m)) /\ IsFiniteSet(AlikeMounts(t, m))
    BY <1>1, <1>2, FS_Subset
  <2>2. ExistsBijection(AlikeMounts(s, m), AlikeMounts(t, m))
    BY <2>1, FS_SameCardinalityBij
  <2>3. pairing(m) \in Bijection(AlikeMounts(s, m), AlikeMounts(t, m))
    BY <2>2, Zenon DEF ExistsBijection
  <2> HIDE DEF pairing
  <2>4. QED
    BY <2>3 DEF Bijection, Injection, Surjection, IsInjective
<1>4. \A m, k : m.source = k.source /\ m.target = k.target =>
        AlikeMounts(s, m) = AlikeMounts(s, k) /\ AlikeMounts(t, m) = AlikeMounts(t, k)
  BY DEF AlikeMounts
<1>5. \A m, k : m.source = k.source /\ m.target = k.target => pairing(m) = pairing(k)
  <2> SUFFICES ASSUME NEW m, NEW k, m.source = k.source, m.target = k.target
               PROVE  pairing(m) = pairing(k)
    OBVIOUS
  <2>1. AlikeMounts(s, m) = AlikeMounts(s, k) /\ AlikeMounts(t, m) = AlikeMounts(t, k)
    BY <1>4
  <2>2. QED
    BY <2>1
<1> HIDE DEF pairing
<1>6. \A m \in s : m \in AlikeMounts(s, m) /\ F[m] = pairing(m)[m]
  BY DEF AlikeMounts
<1>7. \A m \in s : F[m] \in AlikeMounts(t, m)
  <2> SUFFICES ASSUME NEW m \in s
               PROVE  F[m] \in AlikeMounts(t, m)
    OBVIOUS
  <2>1. pairing(m) \in [AlikeMounts(s, m) -> AlikeMounts(t, m)]
    BY <1>3
  <2>2. QED
    BY <1>6, <2>1
<1>8. F \in [s -> t]
  <2>1. \A m \in s : pairing(m)[m] \in t
    BY <1>1, <1>6, <1>7
  <2>2. QED
    BY <2>1
<1> HIDE DEF F
<1>9. ASSUME NEW m \in s, NEW k \in s, F[m] = F[k]
      PROVE  m = k
  <2>1. m.source = k.source /\ m.target = k.target
    BY <1>7, <1>9 DEF AlikeMounts
  <2>2. pairing(m) = pairing(k) /\ k \in AlikeMounts(s, m)
    BY <1>5, <2>1 DEF AlikeMounts
  <2>3. pairing(m)[m] = pairing(m)[k]
    BY <1>6, <1>9, <2>2
  <2>4. QED
    BY <1>3, <1>6, <2>2, <2>3
<1>10. ASSUME NEW k \in t
       PROVE  \E m \in s : F[m] = k
  <2>1. k \in AlikeMounts(t, k)
    BY DEF AlikeMounts
  <2>2. PICK m \in AlikeMounts(s, k) : pairing(k)[m] = k
    BY <1>3, <2>1
  <2>3. m \in s /\ m.source = k.source /\ m.target = k.target
    BY DEF AlikeMounts
  <2>4. pairing(m) = pairing(k)
    BY <1>5, <2>3
  <2>5. F[m] = k
    BY <1>6, <2>2, <2>3, <2>4
  <2>6. QED
    BY <2>3, <2>5
<1>11. F \in Bijection(s, t)
  BY <1>8, <1>9, <1>10 DEF Bijection, Injection, Surjection, IsInjective
<1>12. ExistsBijection(s, t)
  BY <1>11 DEF ExistsBijection
<1>13. QED
  BY <1>2, <1>12, FS_Bijection

LEMMA MountsSame ==
  ASSUME NEW s, AreMounts(s), NEW names, AreTexts(names), NEW t, AreMounts(t), NEW others, AreTexts(others),
         \A m \in s \cup t : /\ Cardinality(AlikeMounts(s, m)) = Cardinality(AlikeMounts(t, m))
                             /\ NameIn(names, m.source) = NameIn(others, m.source)
  PROVE  encode_mounts(Mounts(s, names)) = encode_mounts(Mounts(t, others))
<1> DEFINE entry(n, u, m) == <<EncodedMount(CanonicalResourceMount(m, n)), Cardinality(AlikeMounts(u, m))>>
<1>1. ASSUME NEW u, AreMounts(u), NEW v, AreMounts(v), NEW m \in u,
             Cardinality(AlikeMounts(u, m)) = Cardinality(AlikeMounts(v, m))
      PROVE  \E k \in v : m.source = k.source /\ m.target = k.target
  <2>1. IsFiniteSet(AlikeMounts(u, m)) /\ IsFiniteSet(AlikeMounts(v, m))
    <3>1. AlikeMounts(u, m) \subseteq u /\ AlikeMounts(v, m) \subseteq v /\ IsFiniteSet(u) /\ IsFiniteSet(v)
      BY <1>1 DEF AlikeMounts, AreMounts
    <3>2. QED
      BY <3>1, FS_Subset
  <2>2. m \in AlikeMounts(u, m)
    BY DEF AlikeMounts
  <2>3. AlikeMounts(v, m) # {}
    BY <1>1, <2>1, <2>2, FS_EmptySet
  <2>4. QED
    BY <2>3 DEF AlikeMounts
<1>2. ASSUME NEW m \in s \cup t, NEW k \in s \cup t, m.source = k.source, m.target = k.target
      PROVE  entry(names, s, m) = entry(others, t, k) /\ entry(others, t, m) = entry(names, s, k)
  <2>1. m.target # "<absent>" /\ k.target # "<absent>"
    BY DEF AreMounts
  <2>2. NameIn(names, m.source) = NameIn(others, k.source) /\ NameIn(others, m.source) = NameIn(names, k.source)
    BY <1>2
  <2>3. EncodedMount(CanonicalResourceMount(m, names)) = EncodedMount(CanonicalResourceMount(k, others))
    BY <1>2, <2>1, <2>2, MountEncodings
  <2>4. EncodedMount(CanonicalResourceMount(m, others)) = EncodedMount(CanonicalResourceMount(k, names))
    BY <1>2, <2>1, <2>2, MountEncodings
  <2>5. AlikeMounts(t, k) = AlikeMounts(t, m) /\ AlikeMounts(s, k) = AlikeMounts(s, m)
    BY <1>2 DEF AlikeMounts
  <2>6. Cardinality(AlikeMounts(s, m)) = Cardinality(AlikeMounts(t, m))
    OBVIOUS
  <2>7. QED
    BY <2>3, <2>4, <2>5, <2>6
<1> HIDE DEF entry
<1>3. \A m \in s : \E k \in t : entry(names, s, m) = entry(others, t, k)
  BY <1>1, <1>2
<1>4. \A m \in t : \E k \in s : entry(others, t, m) = entry(names, s, k)
  BY <1>1, <1>2
<1>5. {entry(names, s, m) : m \in s} = {entry(others, t, m) : m \in t}
  BY <1>3, <1>4
<1>6. Cardinality(s) = Cardinality(t)
  BY AsManyOfEach
<1>7. EncodedMounts(s, names) = {entry(names, s, m) : m \in s}
  BY Zenon DEF EncodedMounts, entry
<1>8. EncodedMounts(t, others) = {entry(others, t, m) : m \in t}
  BY Zenon DEF EncodedMounts, entry
<1>9. encode_mounts(Mounts(s, names)) = <<Cardinality(s), EncodedMounts(s, names)>>
  BY MountsCounted
<1>10. encode_mounts(Mounts(t, others)) = <<Cardinality(t), EncodedMounts(t, others)>>
  BY MountsCounted
<1>11. QED
  BY <1>5, <1>6, <1>7, <1>8, <1>9, <1>10

CanonicalVolumes(in) == {CanonicalVolumeMount(v, in.names.volumes) : v \in in.service.volumes}

CanonicalNetworks(in) ==
  {CanonicalNetworkAttachment(n, in.service.networks, in.names.networks) : n \in DOMAIN in.service.networks}

RestartPolicy(in) == IF in.service.restart # None THEN in.service.restart ELSE in.defaults.restart_policy

(* What a digest is made of, of a configuration.                           *)
SameAtoms(a, b) ==
  /\ encode_image(a.image) = encode_image(b.image)
  /\ encode_command(a.service.command) = encode_command(b.service.command)
  /\ encode_command(a.service.entrypoint) = encode_command(b.service.entrypoint)
  /\ encode_environment(a.service.environment) = encode_environment(b.service.environment)
  /\ encode_pairs(a.service.labels) = encode_pairs(b.service.labels)
  /\ encode_ports(a.service.ports) = encode_ports(b.service.ports)
  /\ encode_volumes(CanonicalVolumes(a)) = encode_volumes(CanonicalVolumes(b))
  /\ encode_networks(CanonicalNetworks(a)) = encode_networks(CanonicalNetworks(b))
  /\ encode_mounts(Mounts(a.service.configs, a.names.configs))
       = encode_mounts(Mounts(b.service.configs, b.names.configs))
  /\ encode_mounts(Mounts(a.service.secrets, a.names.secrets))
       = encode_mounts(Mounts(b.service.secrets, b.names.secrets))
  /\ encode_healthcheck(a.service.healthcheck) = encode_healthcheck(b.service.healthcheck)
  /\ atom_opt("restart.policy", RestartPolicy(a)) = atom_opt("restart.policy", RestartPolicy(b))
  /\ atom_opt("default.restart_policy", a.defaults.restart_policy)
       = atom_opt("default.restart_policy", b.defaults.restart_policy)
  /\ atom_opt("default.network_driver", a.defaults.network_driver)
       = atom_opt("default.network_driver", b.defaults.network_driver)
  /\ atom_opt("default.pull_policy", a.defaults.pull_policy) = atom_opt("default.pull_policy", b.defaults.pull_policy)

LEMMA CanonicalFields ==
  ASSUME NEW in
  PROVE  LET c == CanonicalFingerprintInput(in)
         IN  /\ c.image = in.image /\ c.command = in.service.command /\ c.entrypoint = in.service.entrypoint
             /\ c.environment = in.service.environment /\ c.labels = in.service.labels /\ c.ports = in.service.ports
             /\ c.volumes = CanonicalVolumes(in) /\ c.networks = CanonicalNetworks(in)
             /\ c.configs = Mounts(in.service.configs, in.names.configs)
             /\ c.secrets = Mounts(in.service.secrets, in.names.secrets)
             /\ c.healthcheck = in.service.healthcheck /\ c.restart_policy = RestartPolicy(in)
             /\ c.defaults = in.defaults
<1>1. CanonicalFingerprintInput(in) =
        [image |-> in.image, command |-> in.service.command, entrypoint |-> in.service.entrypoint,
         environment |-> in.service.environment, labels |-> in.service.labels, ports |-> in.service.ports,
         volumes |-> CanonicalVolumes(in), networks |-> CanonicalNetworks(in),
         configs |-> Mounts(in.service.configs, in.names.configs),
         secrets |-> Mounts(in.service.secrets, in.names.secrets),
         healthcheck |-> in.service.healthcheck, restart_policy |-> RestartPolicy(in), defaults |-> in.defaults]
  BY Zenon DEF CanonicalFingerprintInput, CanonicalVolumes, CanonicalNetworks, Mounts, RestartPolicy
<1>2. QED
  BY <1>1

LEMMA DigestsCompared ==
  ASSUME NEW a, NEW b
  PROVE  compute_configuration_fingerprint(a) = compute_configuration_fingerprint(b) <=> SameAtoms(a, b)
<1>1. PICK x, y : x = CanonicalFingerprintInput(a) /\ y = CanonicalFingerprintInput(b)
  OBVIOUS
<1>2. compute_configuration_fingerprint(a) = compute_configuration_fingerprint(b)
        <=> digest_canonical_input(x) = digest_canonical_input(y)
  BY <1>1 DEF compute_configuration_fingerprint, Fingerprint
<1>3. digest_canonical_input(x) = digest_canonical_input(y) <=>
        /\ encode_image(x.image) = encode_image(y.image)
        /\ encode_command(x.command) = encode_command(y.command)
        /\ encode_command(x.entrypoint) = encode_command(y.entrypoint)
        /\ encode_environment(x.environment) = encode_environment(y.environment)
        /\ encode_pairs(x.labels) = encode_pairs(y.labels)
        /\ encode_ports(x.ports) = encode_ports(y.ports)
        /\ encode_volumes(x.volumes) = encode_volumes(y.volumes)
        /\ encode_networks(x.networks) = encode_networks(y.networks)
        /\ encode_mounts(x.configs) = encode_mounts(y.configs)
        /\ encode_mounts(x.secrets) = encode_mounts(y.secrets)
        /\ encode_healthcheck(x.healthcheck) = encode_healthcheck(y.healthcheck)
        /\ atom_opt("restart.policy", x.restart_policy) = atom_opt("restart.policy", y.restart_policy)
        /\ atom_opt("default.restart_policy", x.defaults.restart_policy)
             = atom_opt("default.restart_policy", y.defaults.restart_policy)
        /\ atom_opt("default.network_driver", x.defaults.network_driver)
             = atom_opt("default.network_driver", y.defaults.network_driver)
        /\ atom_opt("default.pull_policy", x.defaults.pull_policy)
             = atom_opt("default.pull_policy", y.defaults.pull_policy)
  BY DEF digest_canonical_input
<1>4. /\ x.image = a.image /\ x.command = a.service.command /\ x.entrypoint = a.service.entrypoint
      /\ x.environment = a.service.environment /\ x.labels = a.service.labels /\ x.ports = a.service.ports
      /\ x.volumes = CanonicalVolumes(a) /\ x.networks = CanonicalNetworks(a)
      /\ x.configs = Mounts(a.service.configs, a.names.configs)
      /\ x.secrets = Mounts(a.service.secrets, a.names.secrets)
      /\ x.healthcheck = a.service.healthcheck /\ x.restart_policy = RestartPolicy(a)
      /\ x.defaults = a.defaults
  BY <1>1, CanonicalFields, Zenon
<1>5. /\ y.image = b.image /\ y.command = b.service.command /\ y.entrypoint = b.service.entrypoint
      /\ y.environment = b.service.environment /\ y.labels = b.service.labels /\ y.ports = b.service.ports
      /\ y.volumes = CanonicalVolumes(b) /\ y.networks = CanonicalNetworks(b)
      /\ y.configs = Mounts(b.service.configs, b.names.configs)
      /\ y.secrets = Mounts(b.service.secrets, b.names.secrets)
      /\ y.healthcheck = b.service.healthcheck /\ y.restart_policy = RestartPolicy(b)
      /\ y.defaults = b.defaults
  BY <1>1, CanonicalFields, Zenon
<1>6. digest_canonical_input(x) = digest_canonical_input(y) <=> SameAtoms(a, b)
  BY <1>3, <1>4, <1>5, Zenon DEF SameAtoms
<1>7. QED
  BY <1>2, <1>6

LEMMA NamesCompared ==
  ASSUME NEW a, NEW b, a.service.networks = b.service.networks, a.service.volumes = b.service.volumes
  PROVE  NamesUsed(a) = NamesUsed(b) <=>
           /\ \A n \in DOMAIN a.service.networks : NameIn(a.names.networks, n) = NameIn(b.names.networks, n)
           /\ \A v \in a.service.volumes :
                v.kind = "Volume" => NameIn(a.names.volumes, v.source) = NameIn(b.names.volumes, v.source)
           /\ {m.source : m \in a.service.configs} = {m.source : m \in b.service.configs}
           /\ {m.source : m \in a.service.secrets} = {m.source : m \in b.service.secrets}
           /\ \A m \in a.service.configs : NameIn(a.names.configs, m.source) = NameIn(b.names.configs, m.source)
           /\ \A m \in a.service.secrets : NameIn(a.names.secrets, m.source) = NameIn(b.names.secrets, m.source)
<1> DEFINE networks(in) == [n \in DOMAIN in.service.networks |-> NameIn(in.names.networks, n)]
           used(in) == {v.source : v \in {v \in in.service.volumes : v.kind = "Volume"}}
           volumes(in) == [n \in used(in) |-> NameIn(in.names.volumes, n)]
           sources(s) == {m.source : m \in s}
           configs(in) == [n \in sources(in.service.configs) |-> NameIn(in.names.configs, n)]
           secrets(in) == [n \in sources(in.service.secrets) |-> NameIn(in.names.secrets, n)]
<1>1. \A in : NamesUsed(in) = [networks |-> networks(in), volumes |-> volumes(in),
                               configs |-> configs(in), secrets |-> secrets(in)]
  BY Zenon DEF NamesUsed
<1>2. networks(a) = networks(b)
        <=> \A n \in DOMAIN a.service.networks : NameIn(a.names.networks, n) = NameIn(b.names.networks, n)
  OBVIOUS
<1>3. used(a) = used(b)
  OBVIOUS
<1>4. \A n : n \in used(a) <=> \E v \in a.service.volumes : v.kind = "Volume" /\ v.source = n
  OBVIOUS
<1> HIDE DEF used
<1>5. volumes(a) = volumes(b) <=> \A n \in used(a) : NameIn(a.names.volumes, n) = NameIn(b.names.volumes, n)
  BY <1>3
<1>6. volumes(a) = volumes(b)
        <=> \A v \in a.service.volumes :
              v.kind = "Volume" => NameIn(a.names.volumes, v.source) = NameIn(b.names.volumes, v.source)
  BY <1>4, <1>5
<1>7. ASSUME NEW s, NEW t, NEW names, NEW others
      PROVE  [n \in sources(s) |-> NameIn(names, n)] = [n \in sources(t) |-> NameIn(others, n)]
               <=> sources(s) = sources(t) /\ \A m \in s : NameIn(names, m.source) = NameIn(others, m.source)
  <2>1. \A n : n \in sources(s) <=> \E m \in s : m.source = n
    OBVIOUS
  <2> HIDE DEF sources
  <2>2. [n \in sources(s) |-> NameIn(names, n)] = [n \in sources(t) |-> NameIn(others, n)]
          <=> sources(s) = sources(t) /\ \A n \in sources(s) : NameIn(names, n) = NameIn(others, n)
    OBVIOUS
  <2>3. QED
    BY <2>1, <2>2
<1> HIDE DEF sources
<1>8. configs(a) = configs(b)
        <=> /\ sources(a.service.configs) = sources(b.service.configs)
            /\ \A m \in a.service.configs : NameIn(a.names.configs, m.source) = NameIn(b.names.configs, m.source)
  BY <1>7
<1>9. secrets(a) = secrets(b)
        <=> /\ sources(a.service.secrets) = sources(b.service.secrets)
            /\ \A m \in a.service.secrets : NameIn(a.names.secrets, m.source) = NameIn(b.names.secrets, m.source)
  BY <1>7
<1> HIDE DEF networks, volumes, configs, secrets
<1>10. NamesUsed(a) = NamesUsed(b) <=> /\ networks(a) = networks(b) /\ volumes(a) = volumes(b)
                                      /\ configs(a) = configs(b) /\ secrets(a) = secrets(b)
  BY <1>1
<1>11. QED
  BY <1>2, <1>6, <1>8, <1>9, <1>10, Zenon DEF sources

(* The parts of a configuration, taken one by one.                         *)
LEMMA ConfigurationsCompared ==
  ASSUME NEW a, NEW b
  PROVE  SameConfiguration(a, b) <=>
           /\ a.image = b.image /\ a.defaults = b.defaults /\ NamesUsed(a) = NamesUsed(b)
           /\ \A m \in a.service.configs \cup b.service.configs :
                Cardinality(AlikeMounts(a.service.configs, m)) = Cardinality(AlikeMounts(b.service.configs, m))
           /\ \A m \in a.service.secrets \cup b.service.secrets :
                Cardinality(AlikeMounts(a.service.secrets, m)) = Cardinality(AlikeMounts(b.service.secrets, m))
           /\ RestartPolicy(a) = RestartPolicy(b)
           /\ a.service.command = b.service.command /\ a.service.entrypoint = b.service.entrypoint
           /\ a.service.environment = b.service.environment /\ a.service.labels = b.service.labels
           /\ a.service.ports = b.service.ports /\ a.service.volumes = b.service.volumes
           /\ a.service.networks = b.service.networks /\ a.service.healthcheck = b.service.healthcheck
<1> DEFINE same(s, t) == \A m \in s \cup t : Cardinality(AlikeMounts(s, m)) = Cardinality(AlikeMounts(t, m))
           restart(in) == IF in.service.restart = None THEN in.defaults.restart_policy ELSE in.service.restart
           parts == \A part \in {"command", "entrypoint", "environment", "labels", "ports", "volumes", "networks", "healthcheck"} :
                      a.service[part] = b.service[part]
<1>1. SameConfiguration(a, b) <=>
        /\ a.image = b.image /\ a.defaults = b.defaults /\ NamesUsed(a) = NamesUsed(b)
        /\ same(a.service.configs, b.service.configs) /\ same(a.service.secrets, b.service.secrets)
        /\ restart(a) = restart(b) /\ parts
  BY Zenon DEF SameConfiguration, AlikeMounts
<1>2. parts <=> /\ a.service.command = b.service.command /\ a.service.entrypoint = b.service.entrypoint
                /\ a.service.environment = b.service.environment /\ a.service.labels = b.service.labels
                /\ a.service.ports = b.service.ports /\ a.service.volumes = b.service.volumes
                /\ a.service.networks = b.service.networks /\ a.service.healthcheck = b.service.healthcheck
  OBVIOUS
<1>3. \A in : restart(in) = RestartPolicy(in)
  BY DEF RestartPolicy
<1> HIDE DEF restart, parts
<1>4. QED
  BY <1>1, <1>2, <1>3, Zenon

(* The texts of a configuration are there, or are None.                    *)
LEMMA ConfigurationTexts ==
  ASSUME NEW in, IsConfiguration(in)
  PROVE  /\ IsServiceConfiguration(in.service)
         /\ AreTexts(in.names.networks) /\ AreTexts(in.names.volumes)
         /\ AreTexts(in.names.configs) /\ AreTexts(in.names.secrets)
         /\ RestartPolicy(in) # "<absent>"
<1>1. IsServiceConfiguration(in.service)
  BY DEF IsConfiguration
<1>2. \A names \in {in.names.networks, in.names.volumes, in.names.configs, in.names.secrets} : AreTexts(names)
  BY DEF IsConfiguration, AreTexts
<1>3. in.service.restart # "<absent>" /\ in.defaults.restart_policy # "<absent>"
  BY <1>1 DEF IsConfiguration, IsServiceConfiguration
<1>4. RestartPolicy(in) # "<absent>"
  BY <1>3 DEF RestartPolicy
<1>5. QED
  BY <1>1, <1>2, <1>4

(* A configuration is told from its fingerprint, whatever it is made of:   *)
(* fingerprints are equal if and only if the configurations are, as far as *)
(* the fingerprint goes (compute_configuration_fingerprint).               *)
THEOREM FingerprintsTell ==
  ASSUME NEW a, IsConfiguration(a), NEW b, IsConfiguration(b)
  PROVE  compute_configuration_fingerprint(a) = compute_configuration_fingerprint(b) <=> SameConfiguration(a, b)
<1>1. /\ IsServiceConfiguration(a.service) /\ IsServiceConfiguration(b.service)
      /\ AreTexts(a.names.networks) /\ AreTexts(a.names.volumes) /\ AreTexts(a.names.configs) /\ AreTexts(a.names.secrets)
      /\ AreTexts(b.names.networks) /\ AreTexts(b.names.volumes) /\ AreTexts(b.names.configs) /\ AreTexts(b.names.secrets)
      /\ RestartPolicy(a) # "<absent>" /\ RestartPolicy(b) # "<absent>"
  BY ConfigurationTexts
<1>2. /\ AreMounts(a.service.configs) /\ AreMounts(a.service.secrets)
      /\ AreMounts(b.service.configs) /\ AreMounts(b.service.secrets)
  BY <1>1 DEF IsServiceConfiguration
<1>3. ASSUME SameAtoms(a, b)
      PROVE  SameConfiguration(a, b)
  <2>1. a.image = b.image
    BY <1>3, ImageRead DEF SameAtoms, IsConfiguration
  <2>2. a.defaults = b.defaults
    <3>1. /\ atom_opt("default.restart_policy", a.defaults.restart_policy)
               = atom_opt("default.restart_policy", b.defaults.restart_policy)
          /\ atom_opt("default.network_driver", a.defaults.network_driver)
               = atom_opt("default.network_driver", b.defaults.network_driver)
          /\ atom_opt("default.pull_policy", a.defaults.pull_policy)
               = atom_opt("default.pull_policy", b.defaults.pull_policy)
      BY <1>3 DEF SameAtoms
    <3>2. /\ "<absent>" \notin {a.defaults.restart_policy, a.defaults.network_driver, a.defaults.pull_policy}
          /\ "<absent>" \notin {b.defaults.restart_policy, b.defaults.network_driver, b.defaults.pull_policy}
          /\ a.defaults = [restart_policy |-> a.defaults.restart_policy, network_driver |-> a.defaults.network_driver,
                           pull_policy |-> a.defaults.pull_policy]
          /\ b.defaults = [restart_policy |-> b.defaults.restart_policy, network_driver |-> b.defaults.network_driver,
                           pull_policy |-> b.defaults.pull_policy]
      BY DEF IsConfiguration
    <3>3. /\ a.defaults.restart_policy = b.defaults.restart_policy
          /\ a.defaults.network_driver = b.defaults.network_driver
          /\ a.defaults.pull_policy = b.defaults.pull_policy
      BY <3>1, <3>2, OptionRead
    <3>4. QED
      BY <3>2, <3>3
  <2>3. a.service.command = b.service.command /\ a.service.entrypoint = b.service.entrypoint
    BY <1>1, <1>3, CommandRead DEF SameAtoms, IsServiceConfiguration
  <2>4. a.service.environment = b.service.environment
    BY <1>1, <1>3, EnvironmentRead DEF SameAtoms, IsServiceConfiguration
  <2>5. a.service.labels = b.service.labels
    BY <1>1, <1>3, PairsRead DEF SameAtoms, IsServiceConfiguration
  <2>6. a.service.ports = b.service.ports
    <3>1. \A p \in a.service.ports \cup b.service.ports :
            /\ p = [host_ip |-> p.host_ip, published |-> p.published, target |-> p.target, protocol |-> p.protocol]
            /\ IsPublished(p.published) /\ p.host_ip # "<absent>"
      BY <1>1 DEF IsServiceConfiguration
    <3>2. encode_ports(a.service.ports) = encode_ports(b.service.ports)
      BY <1>3 DEF SameAtoms
    <3>3. QED
      BY <3>1, <3>2, PortsRead
  <2>7. /\ a.service.volumes = b.service.volumes
        /\ \A v \in a.service.volumes :
             v.kind = "Volume" => NameIn(a.names.volumes, v.source) = NameIn(b.names.volumes, v.source)
    <3>1. \A v \in a.service.volumes \cup b.service.volumes :
            /\ v = [kind |-> v.kind, source |-> v.source, target |-> v.target, read_only |-> v.read_only]
            /\ v.source # "<absent>"
      BY <1>1 DEF IsServiceConfiguration
    <3>2. encode_volumes(CanonicalVolumes(a)) = encode_volumes(CanonicalVolumes(b))
      BY <1>3 DEF SameAtoms
    <3>3. PICK V, W, names, others : /\ V = a.service.volumes /\ W = b.service.volumes
                                     /\ names = a.names.volumes /\ others = b.names.volumes
      OBVIOUS
    <3>4. encode_volumes({CanonicalVolumeMount(v, names) : v \in V})
            = encode_volumes({CanonicalVolumeMount(v, others) : v \in W})
      BY <3>2, <3>3, Zenon DEF CanonicalVolumes
    <3>5. AreTexts(names) /\ AreTexts(others)
      BY <1>1, <3>3
    <3>6. \A v \in V \cup W :
            /\ v = [kind |-> v.kind, source |-> v.source, target |-> v.target, read_only |-> v.read_only]
            /\ v.source # "<absent>"
      BY <3>1, <3>3, Zenon
    <3>7. V = W /\ \A v \in V : v.kind = "Volume" => NameIn(names, v.source) = NameIn(others, v.source)
      BY <3>4, <3>5, <3>6, VolumesRead
    <3>8. QED
      BY <3>3, <3>7, Zenon
  <2>8. /\ a.service.networks = b.service.networks
        /\ \A n \in DOMAIN a.service.networks : NameIn(a.names.networks, n) = NameIn(b.names.networks, n)
    <3>1. PICK v, w, names, others : /\ v = a.service.networks /\ w = b.service.networks
                                     /\ names = a.names.networks /\ others = b.names.networks
      OBVIOUS
    <3>2. v = [n \in DOMAIN v |-> v[n]] /\ w = [n \in DOMAIN w |-> w[n]]
      BY <1>1, <3>1, Zenon DEF IsServiceConfiguration
    <3>3. encode_networks({CanonicalNetworkAttachment(n, v, names) : n \in DOMAIN v})
            = encode_networks({CanonicalNetworkAttachment(n, w, others) : n \in DOMAIN w})
      BY <1>3, <3>1, Zenon DEF SameAtoms, CanonicalNetworks
    <3>4. AreTexts(names) /\ AreTexts(others)
      BY <1>1, <3>1
    <3>5. v = w /\ \A n \in DOMAIN v : NameIn(names, n) = NameIn(others, n)
      BY <3>2, <3>3, <3>4, NetworksRead
    <3>6. QED
      BY <3>1, <3>5, Zenon
  <2>9. a.service.healthcheck = b.service.healthcheck
    BY <1>1, <1>3, HealthcheckRead DEF SameAtoms, IsServiceConfiguration
  <2>10. RestartPolicy(a) = RestartPolicy(b)
    BY <1>1, <1>3, OptionRead DEF SameAtoms
  <2>11. ASSUME NEW s, AreMounts(s), NEW names, AreTexts(names), NEW t, AreMounts(t), NEW others, AreTexts(others),
                encode_mounts(Mounts(s, names)) = encode_mounts(Mounts(t, others))
         PROVE  /\ \A m \in s \cup t : Cardinality(AlikeMounts(s, m)) = Cardinality(AlikeMounts(t, m))
                /\ \A m \in s : NameIn(names, m.source) = NameIn(others, m.source)
                /\ {m.source : m \in s} = {m.source : m \in t}
    <3>1. \A m \in s : /\ Cardinality(AlikeMounts(s, m)) = Cardinality(AlikeMounts(t, m))
                       /\ NameIn(names, m.source) = NameIn(others, m.source)
                       /\ \E k \in t : k.source = m.source
      BY <2>11, MountsRead
    <3>2. \A m \in t : /\ Cardinality(AlikeMounts(t, m)) = Cardinality(AlikeMounts(s, m))
                       /\ \E k \in s : k.source = m.source
      BY <2>11, MountsRead
    <3>3. {m.source : m \in s} = {m.source : m \in t}
      BY <3>1, <3>2
    <3>4. QED
      BY <3>1, <3>2, <3>3
  <2>12. /\ \A m \in a.service.configs \cup b.service.configs :
              Cardinality(AlikeMounts(a.service.configs, m)) = Cardinality(AlikeMounts(b.service.configs, m))
         /\ \A m \in a.service.configs : NameIn(a.names.configs, m.source) = NameIn(b.names.configs, m.source)
         /\ {m.source : m \in a.service.configs} = {m.source : m \in b.service.configs}
    <3>1. PICK s, t, names, others : /\ s = a.service.configs /\ t = b.service.configs
                                     /\ names = a.names.configs /\ others = b.names.configs
      OBVIOUS
    <3>2. encode_mounts(Mounts(s, names)) = encode_mounts(Mounts(t, others))
      BY <1>3, <3>1, Zenon DEF SameAtoms
    <3>3. AreMounts(s) /\ AreMounts(t) /\ AreTexts(names) /\ AreTexts(others)
      BY <1>1, <1>2, <3>1
    <3>4. /\ \A m \in s \cup t : Cardinality(AlikeMounts(s, m)) = Cardinality(AlikeMounts(t, m))
          /\ \A m \in s : NameIn(names, m.source) = NameIn(others, m.source)
          /\ {m.source : m \in s} = {m.source : m \in t}
      BY <2>11, <3>2, <3>3
    <3>5. QED
      BY <3>1, <3>4, Zenon
  <2>13. /\ \A m \in a.service.secrets \cup b.service.secrets :
              Cardinality(AlikeMounts(a.service.secrets, m)) = Cardinality(AlikeMounts(b.service.secrets, m))
         /\ \A m \in a.service.secrets : NameIn(a.names.secrets, m.source) = NameIn(b.names.secrets, m.source)
         /\ {m.source : m \in a.service.secrets} = {m.source : m \in b.service.secrets}
    <3>1. PICK s, t, names, others : /\ s = a.service.secrets /\ t = b.service.secrets
                                     /\ names = a.names.secrets /\ others = b.names.secrets
      OBVIOUS
    <3>2. encode_mounts(Mounts(s, names)) = encode_mounts(Mounts(t, others))
      BY <1>3, <3>1, Zenon DEF SameAtoms
    <3>3. AreMounts(s) /\ AreMounts(t) /\ AreTexts(names) /\ AreTexts(others)
      BY <1>1, <1>2, <3>1
    <3>4. /\ \A m \in s \cup t : Cardinality(AlikeMounts(s, m)) = Cardinality(AlikeMounts(t, m))
          /\ \A m \in s : NameIn(names, m.source) = NameIn(others, m.source)
          /\ {m.source : m \in s} = {m.source : m \in t}
      BY <2>11, <3>2, <3>3
    <3>5. QED
      BY <3>1, <3>4, Zenon
  <2>14. NamesUsed(a) = NamesUsed(b)
    BY <2>7, <2>8, <2>12, <2>13, NamesCompared, Zenon
  <2>15. QED
    BY <2>1, <2>2, <2>3, <2>4, <2>5, <2>6, <2>7, <2>8, <2>9, <2>10, <2>12, <2>13, <2>14, ConfigurationsCompared, Zenon
<1>4. ASSUME SameConfiguration(a, b)
      PROVE  SameAtoms(a, b)
  <2>1. /\ a.image = b.image /\ a.defaults = b.defaults /\ NamesUsed(a) = NamesUsed(b)
        /\ \A m \in a.service.configs \cup b.service.configs :
             Cardinality(AlikeMounts(a.service.configs, m)) = Cardinality(AlikeMounts(b.service.configs, m))
        /\ \A m \in a.service.secrets \cup b.service.secrets :
             Cardinality(AlikeMounts(a.service.secrets, m)) = Cardinality(AlikeMounts(b.service.secrets, m))
        /\ RestartPolicy(a) = RestartPolicy(b)
        /\ a.service.command = b.service.command /\ a.service.entrypoint = b.service.entrypoint
        /\ a.service.environment = b.service.environment /\ a.service.labels = b.service.labels
        /\ a.service.ports = b.service.ports /\ a.service.volumes = b.service.volumes
        /\ a.service.networks = b.service.networks /\ a.service.healthcheck = b.service.healthcheck
    BY <1>4, ConfigurationsCompared, Zenon
  <2>2. /\ \A n \in DOMAIN a.service.networks : NameIn(a.names.networks, n) = NameIn(b.names.networks, n)
        /\ \A v \in a.service.volumes :
             v.kind = "Volume" => NameIn(a.names.volumes, v.source) = NameIn(b.names.volumes, v.source)
        /\ {m.source : m \in a.service.configs} = {m.source : m \in b.service.configs}
        /\ {m.source : m \in a.service.secrets} = {m.source : m \in b.service.secrets}
        /\ \A m \in a.service.configs : NameIn(a.names.configs, m.source) = NameIn(b.names.configs, m.source)
        /\ \A m \in a.service.secrets : NameIn(a.names.secrets, m.source) = NameIn(b.names.secrets, m.source)
    <3>1. a.service.networks = b.service.networks /\ a.service.volumes = b.service.volumes /\ NamesUsed(a) = NamesUsed(b)
      BY <2>1
    <3>2. QED
      BY <3>1, NamesCompared
  <2>3. CanonicalVolumes(a) = CanonicalVolumes(b)
    <3>1. \A v \in a.service.volumes : CanonicalVolumeMount(v, a.names.volumes) = CanonicalVolumeMount(v, b.names.volumes)
      BY <2>2 DEF CanonicalVolumeMount
    <3>2. QED
      BY <2>1, <3>1 DEF CanonicalVolumes
  <2>4. CanonicalNetworks(a) = CanonicalNetworks(b)
    <3>1. \A n \in DOMAIN a.service.networks :
            CanonicalNetworkAttachment(n, a.service.networks, a.names.networks)
              = CanonicalNetworkAttachment(n, b.service.networks, b.names.networks)
      BY <2>1, <2>2 DEF CanonicalNetworkAttachment
    <3>2. QED
      BY <2>1, <3>1 DEF CanonicalNetworks
  <2>5. ASSUME NEW s, AreMounts(s), NEW names, AreTexts(names), NEW t, AreMounts(t), NEW others, AreTexts(others),
               \A m \in s \cup t : Cardinality(AlikeMounts(s, m)) = Cardinality(AlikeMounts(t, m)),
               \A m \in s : NameIn(names, m.source) = NameIn(others, m.source),
               {m.source : m \in s} = {m.source : m \in t}
        PROVE  encode_mounts(Mounts(s, names)) = encode_mounts(Mounts(t, others))
    <3>1. \A m \in s \cup t : NameIn(names, m.source) = NameIn(others, m.source)
      BY <2>5
    <3>2. QED
      BY <2>5, <3>1, MountsSame
  <2>6. encode_mounts(Mounts(a.service.configs, a.names.configs))
          = encode_mounts(Mounts(b.service.configs, b.names.configs))
    <3>1. PICK s, t, names, others : /\ s = a.service.configs /\ t = b.service.configs
                                     /\ names = a.names.configs /\ others = b.names.configs
      OBVIOUS
    <3>2. /\ \A m \in s \cup t : Cardinality(AlikeMounts(s, m)) = Cardinality(AlikeMounts(t, m))
          /\ \A m \in s : NameIn(names, m.source) = NameIn(others, m.source)
          /\ {m.source : m \in s} = {m.source : m \in t}
      BY <2>1, <2>2, <3>1, Zenon
    <3>3. AreMounts(s) /\ AreMounts(t) /\ AreTexts(names) /\ AreTexts(others)
      BY <1>1, <1>2, <3>1
    <3>4. encode_mounts(Mounts(s, names)) = encode_mounts(Mounts(t, others))
      BY <2>5, <3>2, <3>3
    <3>5. QED
      BY <3>1, <3>4, Zenon
  <2>7. encode_mounts(Mounts(a.service.secrets, a.names.secrets))
          = encode_mounts(Mounts(b.service.secrets, b.names.secrets))
    <3>1. PICK s, t, names, others : /\ s = a.service.secrets /\ t = b.service.secrets
                                     /\ names = a.names.secrets /\ others = b.names.secrets
      OBVIOUS
    <3>2. /\ \A m \in s \cup t : Cardinality(AlikeMounts(s, m)) = Cardinality(AlikeMounts(t, m))
          /\ \A m \in s : NameIn(names, m.source) = NameIn(others, m.source)
          /\ {m.source : m \in s} = {m.source : m \in t}
      BY <2>1, <2>2, <3>1, Zenon
    <3>3. AreMounts(s) /\ AreMounts(t) /\ AreTexts(names) /\ AreTexts(others)
      BY <1>1, <1>2, <3>1
    <3>4. encode_mounts(Mounts(s, names)) = encode_mounts(Mounts(t, others))
      BY <2>5, <3>2, <3>3
    <3>5. QED
      BY <3>1, <3>4, Zenon
  <2>8. QED
    BY <2>1, <2>3, <2>4, <2>6, <2>7, Zenon DEF SameAtoms
<1>5. QED
  BY <1>3, <1>4, DigestsCompared

(* The owner of an instance decides what is made of it.                    *)
LEMMA OwnerClassified ==
  ASSUME NEW desired, NEW containers, IsFiniteSet(containers), NEW i \in DesiredInstances(desired),
         i.service \in desired.services, NEW c \in Claiming(containers, i),
         i \notin ObservedDeployment(desired, containers).duplicate_claims
  PROVE  classify_deployment_differences(desired, containers)[i]
           = classify_container(c, DesiredFingerprint(desired, i.service))
<1> DEFINE index == ObservedDeployment(desired, containers)
           claims == Claiming(containers, i)
<1>1. Cardinality(claims) = 1 /\ i \in DOMAIN index.containers
  <2> DEFINE n == Cardinality(claims)
  <2>1. /\ n \in Nat /\ (n = 0 <=> claims = {})
        /\ i \in DOMAIN index.containers <=> n = 1 /\ i.service \in desired.services
        /\ n > 1 /\ i.service \in desired.services => i \in index.duplicate_claims
    BY WhoOwns
  <2> HIDE DEF n, claims, index
  <2>2. claims # {} /\ i \notin index.duplicate_claims
    BY DEF claims, index
  <2>3. n = 1
    BY <2>1, <2>2
  <2>4. QED
    BY <2>1, <2>3 DEF n
<1>2. claims = {c}
  <2>1. IsFiniteSet(claims)
    <3>1. claims \subseteq containers
      BY DEF Claiming
    <3>2. QED
      BY <3>1, FS_Subset
  <2>2. PICK o : claims = {o}
    <3> HIDE DEF claims
    <3>1. QED
      BY <1>1, <2>1, FS_Singleton
  <2>3. QED
    BY <2>2
<1>3. index.containers[i] = c
  <2>1. index.containers[i] = CHOOSE o \in claims : TRUE
    BY <1>1 DEF ObservedDeployment, OwnershipIndex
  <2> HIDE DEF claims
  <2>2. QED
    BY <1>2, <2>1
<1>4. classify_deployment_differences(desired, containers)[i]
        = classify_instance(i, index, DesiredFingerprint(desired, i.service))
  BY Zenon DEF classify_deployment_differences
<1>5. classify_instance(i, index, DesiredFingerprint(desired, i.service))
        = classify_container(index.containers[i], DesiredFingerprint(desired, i.service))
  <2> HIDE DEF index
  <2>1. i \notin index.duplicate_claims
    BY DEF index
  <2>2. QED
    BY <1>1, <2>1, Zenon DEF classify_instance
<1>6. QED
  BY <1>3, <1>4, <1>5

(* A container's label against the configuration that is wanted.           *)
LEMMA LabelsTell ==
  ASSUME NEW c, IsContainer(c), NEW desired, NEW s,
         \A t \in DOMAIN desired.input : IsConfiguration(desired.input[t])
  PROVE  LET f == DesiredFingerprint(desired, s)
         IN  f # NoFingerprint /\ c.fingerprint = f
               <=> /\ c.fingerprint.version = 1 /\ s \in DOMAIN desired.input
                   /\ SameConfiguration(c.made, desired.input[s])
<1>1. \A in : /\ compute_configuration_fingerprint(in).version = 1
              /\ compute_configuration_fingerprint(in) # NoFingerprint
  <2>1. NoFingerprint.version = 0
    BY DEF NoFingerprint, Fingerprint
  <2>2. \A in : compute_configuration_fingerprint(in).version = 1
    BY DEF compute_configuration_fingerprint, Fingerprint
  <2>3. QED
    BY <2>1, <2>2
<1>2. CASE s \notin DOMAIN desired.input
  BY <1>2 DEF DesiredFingerprint
<1>3. ASSUME s \in DOMAIN desired.input
      PROVE  LET f == DesiredFingerprint(desired, s)
             IN  f # NoFingerprint /\ c.fingerprint = f
                   <=> c.fingerprint.version = 1 /\ SameConfiguration(c.made, desired.input[s])
  <2>1. DesiredFingerprint(desired, s) = compute_configuration_fingerprint(desired.input[s])
    BY <1>3 DEF DesiredFingerprint
  <2>2. IsConfiguration(desired.input[s]) /\ IsConfiguration(c.made)
    BY <1>3 DEF IsContainer
  <2>3. compute_configuration_fingerprint(c.made) = compute_configuration_fingerprint(desired.input[s])
          <=> SameConfiguration(c.made, desired.input[s])
    BY <2>2, FingerprintsTell
  <2>4. c.fingerprint.version = 1 => c.fingerprint = compute_configuration_fingerprint(c.made)
    BY DEF IsContainer
  <2>5. QED
    BY <1>1, <2>1, <2>3, <2>4
<1>4. QED
  BY <1>2, <1>3

(* Whatever the containers were made from and whatever is wanted now: only *)
(* a container that was made from what is wanted is left as it is.         *)
THEOREM OnlyEqualKept == Spec => []OnlyEqualLeftAlone
<1>1. PlanningInv /\ AnswersFaultlessly => OnlyEqualLeftAlone
  <2> DEFINE desired == request.desired
             containers == request.containers
             differences == classify_deployment_differences(desired, containers)
             decision(i) == ConvergenceDecision(differences[i])
             wanted == DesiredInstances(desired)
             index == ObservedDeployment(desired, containers)
             delta == ScaleDelta(desired, containers)
  <2> SUFFICES ASSUME PlanningInv, AnswersFaultlessly, Planned, request.op = "converge",
                      NEW i \in wanted, NEW c \in Claiming(containers, i)
               PROVE  /\ ~decision(i).destructive <=>
                           /\ c.fingerprint.version = 1
                           /\ i.service \in DOMAIN desired.input
                           /\ SameConfiguration(c.made, desired.input[i.service])
                      /\ ActsOn(i) = IF decision(i).downtime_expected THEN {}
                                     ELSE IF decision(i).mutates THEN {"StartContainer"} ELSE {"NoOp"}
    BY Zenon DEF OnlyEqualLeftAlone
  <2>1. plan = ConvergencePlan(desired, containers)
    BY DEF PlanningInv, AnswersItsRequest
  <2>2. /\ IsFiniteSet(containers) /\ DOMAIN desired.given \subseteq desired.services
        /\ \A o \in containers : IsContainer(o)
        /\ \A s \in DOMAIN desired.input : IsConfiguration(desired.input[s])
    BY RequestsAssumption DEF PlanningInv
  <2>3. /\ DOMAIN differences = wanted
        /\ delta.scale_up = wanted \ DOMAIN index.containers
        /\ delta.scale_down = {j \in DOMAIN index.containers : j.ours} \ wanted
    BY DEF classify_deployment_differences, ScaleDelta
  <2>4. i.service \in desired.services
    <3>1. DOMAIN Replicas(desired) = desired.services \cup DOMAIN desired.given
      BY DEF Replicas
    <3>2. i.service \in DOMAIN Replicas(desired)
      BY DEF DesiredInstances
    <3>3. QED
      BY <2>2, <3>1, <3>2
  <2>5. DiagnosticSeverity(differences[i]) # "Error"
    <3>1. ASSUME DiagnosticSeverity(differences[i]) = "Error"
          PROVE  <<differences[i], i>> \in ConvergenceErrors(desired, containers)
      BY <2>3, <3>1 DEF ConvergenceErrors
    <3>2. ConvergenceErrors(desired, containers) = {}
      BY DEF AnswersFaultlessly
    <3>3. QED
      BY <3>1, <3>2
  <2>6. i \notin index.duplicate_claims
    <3> SUFFICES ASSUME i \in index.duplicate_claims
                 PROVE  FALSE
      OBVIOUS
    <3>1. differences[i] = "OwnershipAmbiguous"
      BY DEF classify_deployment_differences, classify_instance
    <3>2. QED
      BY <2>5, <3>1 DEF DiagnosticSeverity
  <2>7. c \in containers /\ Claiming(containers, i) # {}
    BY DEF Claiming
  <2>8. i \in DOMAIN index.containers
    <3>1. Cardinality(Claiming(containers, i)) \in Nat
      BY <2>2, WhoOwns
    <3>2. Cardinality(Claiming(containers, i)) = 1
      BY <2>2, <2>4, <2>6, <2>7, <3>1, WhoOwns
    <3>3. QED
      BY <2>2, <2>4, <3>2, WhoOwns
  <2>9. IsContainer(c)
    BY <2>2, <2>7
  <2> DEFINE f == DesiredFingerprint(desired, i.service)
  <2>10. differences[i] = classify_container(c, f)
    BY <2>2, <2>4, <2>6, OwnerClassified
  <2>11. f # NoFingerprint /\ c.fingerprint = f
           <=> /\ c.fingerprint.version = 1 /\ i.service \in DOMAIN desired.input
               /\ SameConfiguration(c.made, desired.input[i.service])
    BY <2>2, <2>9, LabelsTell
  <2>12. \A kind : kind \in ActsOn(i) <=>
           \/ kind = "NoOp" /\ i \in DOMAIN differences /\ differences[i] = "Unchanged"
           \/ kind = "StartContainer" /\ i \in DOMAIN differences /\ differences[i] = "StoppedButCompatible"
           \/ kind = "ScaleUpReplica" /\ i \in delta.scale_up
           \/ kind = "ScaleDownReplica" /\ i \in delta.scale_down
    BY <2>1, ConvergenceActs
  <2> HIDE DEF differences, delta, index, wanted, f, desired, containers
  <2>13. /\ ~(c.state = "unknown" \/ ~c.imageKnown)
         /\ differences[i] = IF f = NoFingerprint \/ c.fingerprint # f THEN "ConfigurationChanged"
                             ELSE IF c.state = "running" THEN "Unchanged"
                             ELSE IF c.state \in {"created", "exited"} THEN "StoppedButCompatible"
                             ELSE "RuntimeStateDrift"
    <3>1. ASSUME c.state = "unknown" \/ ~c.imageKnown
          PROVE  FALSE
      <4>1. classify_container(c, f) = "UnsupportedObservedState"
        BY <3>1, Zenon DEF classify_container
      <4>2. DiagnosticSeverity("UnsupportedObservedState") = "Error"
        BY DEF DiagnosticSeverity
      <4>3. QED
        BY <2>5, <2>10, <4>1, <4>2, Zenon
    <3>2. classify_container(c, f) = IF f = NoFingerprint \/ c.fingerprint # f THEN "ConfigurationChanged"
                                     ELSE IF c.state = "running" THEN "Unchanged"
                                     ELSE IF c.state \in {"created", "exited"} THEN "StoppedButCompatible"
                                     ELSE "RuntimeStateDrift"
      BY <3>1, Zenon DEF classify_container
    <3>3. QED
      BY <2>10, <3>1, <3>2, Zenon
  <2>14. \A d \in {"ConfigurationChanged", "Unchanged", "StoppedButCompatible", "RuntimeStateDrift"} :
           /\ ConvergenceDecision(d).destructive <=> d = "ConfigurationChanged"
           /\ ConvergenceDecision(d).downtime_expected <=> d \in {"ConfigurationChanged", "RuntimeStateDrift"}
           /\ ConvergenceDecision(d).mutates <=> d # "Unchanged"
    BY DEF ConvergenceDecision, decision_kind
  <2>15. differences[i] \in {"ConfigurationChanged", "Unchanged", "StoppedButCompatible", "RuntimeStateDrift"}
    BY <2>13
  <2>16. differences[i] = "ConfigurationChanged" <=> ~(f # NoFingerprint /\ c.fingerprint = f)
    BY <2>13
  <2>17. \A kind : kind \in ActsOn(i) <=>
           \/ kind = "NoOp" /\ differences[i] = "Unchanged"
           \/ kind = "StartContainer" /\ differences[i] = "StoppedButCompatible"
    BY <2>3, <2>8, <2>12
  <2>18. ActsOn(i) = IF decision(i).downtime_expected THEN {}
                     ELSE IF decision(i).mutates THEN {"StartContainer"} ELSE {"NoOp"}
    BY <2>14, <2>15, <2>17
  <2>19. QED
    BY <2>11, <2>14, <2>15, <2>16, <2>18
<1>2. QED
  BY <1>1, FaultlessInvariant, PTL
=============================================================================

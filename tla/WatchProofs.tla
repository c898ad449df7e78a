---------------------------- MODULE WatchProofs ----------------------------
(***************************************************************************)
(* Proofs about the watch session, for every number of keys, debounce      *)
(* window and amount of traffic, and about the `watch --sync` command that *)
(* owns one.                                                               *)
(***************************************************************************)
EXTENDS WatchSync, FiniteSetTheorems, SequenceTheorems, TLAPS

LEMMA TickType == Tick \in Nat \ {0} /\ Debounce \in Nat /\ Debounce <= Tick
BY WatchAssumption DEF Tick

LEMMA KeysCounted == \A S \in SUBSET Keys : Cardinality(S) \in Nat
<1> SUFFICES ASSUME NEW S \in SUBSET Keys
             PROVE  Cardinality(S) \in Nat
  OBVIOUS
<1>1. IsFiniteSet(Keys)
  BY WatchAssumption, FS_Interval DEF Keys
<1>2. IsFiniteSet(S)
  BY <1>1, FS_Subset
<1>3. QED
  BY <1>2, FS_CardinalityType

(* What a flush sends of the keys S: an event for each and no other, once, *)
(* with what is held for it.                                               *)
LEMMA EventsOfKeys ==
  ASSUME TypeOK, NEW S \in SUBSET Pending, NEW events \in InKeyOrder(S)
  PROVE  /\ events \in Seq(Event)
         /\ \A i \in 1..Len(events) :
              /\ events[i] = [key |-> events[i].key, read |-> held[events[i].key]]
              /\ events[i].read = held[events[i].key]
              /\ events[i].key \in S
              /\ \A j \in 1..Len(events) : events[i].key = events[j].key => i = j
         /\ \A k \in S : \E i \in 1..Len(events) : events[i].key = k
<1> DEFINE n == Cardinality(S)
<1>1. S \subseteq Keys /\ n \in Nat /\ Keys \subseteq Nat /\ 0 \notin Keys
  BY KeysCounted DEF Pending, Keys
<1>2. /\ events \in [1..n -> {[key |-> k, read |-> held[k]] : k \in S}]
      /\ \A i, j \in 1..n : i < j => events[i].key < events[j].key
      /\ \A k \in S : \E i \in 1..n : events[i].key = k
  BY DEF InKeyOrder
<1> HIDE DEF n
<1>3. \A i \in 1..n : /\ events[i] = [key |-> events[i].key, read |-> held[events[i].key]]
                      /\ events[i].read = held[events[i].key]
                      /\ events[i].key \in S
  <2> TAKE i \in 1..n
  <2>1. PICK k \in S : events[i] = [key |-> k, read |-> held[k]]
    BY <1>2
  <2>2. QED
    BY <2>1
<1>4. \A k \in S : [key |-> k, read |-> held[k]] \in Event
  BY <1>1 DEF Event, Pending, NotHeld, TypeOK
<1>5. {[key |-> k, read |-> held[k]] : k \in S} \subseteq Event
  BY <1>4
<1>6. events \in Seq(Event) /\ Len(events) = n
  <2>1. events \in [1..n -> Event]
    BY <1>2, <1>5
  <2>2. QED
    BY <1>1, <2>1
<1>7. \A i, j \in 1..n : events[i].key = events[j].key => i = j
  <2> TAKE i, j \in 1..n
  <2>1. events[i].key \in Nat /\ events[j].key \in Nat
    BY <1>1, <1>3
  <2>2. QED
    BY <1>1, <1>2, <2>1
<1>8. QED
  BY <1>2, <1>3, <1>6, <1>7

-----------------------------------------------------------------------------

LEMMA InitSession == Init => SessionInv
<1> SUFFICES ASSUME Init
             PROVE  SessionInv
  OBVIOUS
<1> USE DEF Init
<1>1. TypeOK
  <2>1. raw \in Seq(Messages \cup {Failure}) /\ out \in Seq(Event \cup {FailureEvent})
    OBVIOUS
  <2>2. sent \in 0..MaxMessages /\ waited \in 0..Tick /\ sinceCancel \in 0..(Tick + 1)
    BY TickType, WatchAssumption
  <2>3. quiet \in [Keys -> 0..(Debounce + Tick)]
    BY TickType
  <2>4. QED
    BY <2>1, <2>2, <2>3 DEF TypeOK, NotHeld
<1>2. HeldInv
  BY DEF HeldInv, Pending
<1>3. OrderInv
  BY DEF OrderInv, Pending
<1>4. LatestInv
  BY DEF LatestInv
<1>5. CancelInv /\ OwnerInv
  BY TickType DEF CancelInv, OwnerInv
<1>6. QED
  BY <1>1, <1>2, <1>3, <1>4, <1>5 DEF SessionInv

(* Steps that neither read, send nor receive an event.                     *)
LEMMA OtherSteps ==
  SessionInv /\ (\/ Native \/ LoopHead \/ TimeOut \/ Disconnected \/ CallRecv
                 \/ RecvClosed \/ DropSession \/ Cancel \/ UNCHANGED vars) => SessionInv'
<1> SUFFICES ASSUME SessionInv,
                    \/ Native \/ LoopHead \/ TimeOut \/ Disconnected \/ CallRecv
                    \/ RecvClosed \/ DropSession \/ Cancel \/ UNCHANGED vars
             PROVE  SessionInv'
  OBVIOUS
<1> USE TickType DEF SessionInv
<1>1. CASE Native
  <2>1. UNCHANGED <<workerVars, out, cancelled, client, history>>
    BY <1>1 DEF Native, Notify, NativeEnds
  <2>2. TypeOK'
    <3>1. CASE NativeEnds
      BY <2>1, <3>1 DEF NativeEnds, TypeOK, workerVars, history
    <3>2. CASE \E message \in Messages \cup {Failure} : Notify(message)
      BY <2>1, <3>2, WatchAssumption DEF Notify, TypeOK, workerVars, history
    <3>3. QED
      BY <1>1, <3>1, <3>2 DEF Native
  <2>3. HeldInv' /\ OrderInv' /\ LatestInv' /\ CancelInv' /\ OwnerInv'
    BY <2>1 DEF HeldInv, OrderInv, LatestInv, CancelInv, OwnerInv, Pending, workerVars, history
  <2>4. QED
    BY <2>2, <2>3
<1>2. CASE LoopHead \/ TimeOut \/ Disconnected
  <2>1. UNCHANGED <<nativeVars, held, age, out, cancelled, client, history>>
    BY <1>2 DEF LoopHead, TimeOut, Disconnected
  <2>2. /\ worker \notin {"Ended", "Drain"} /\ worker' \in {"Recv", "Flush", "Drain"}
        /\ waited' \in 0..Tick
        /\ worker' = "Recv" => worker = "Loop" /\ ~cancelled
        /\ worker' = "Flush" => waited' = waited
    BY <1>2 DEF LoopHead, TimeOut, Disconnected, TypeOK
  <2>3. TypeOK'
    BY <2>1, <2>2 DEF TypeOK, nativeVars, history
  <2>4. HeldInv'
    BY <2>1, <2>2 DEF HeldInv, Pending, TypeOK, history
  <2>5. OrderInv' /\ LatestInv'
    BY <2>1 DEF OrderInv, LatestInv, Pending, history
  <2>6. CancelInv' /\ OwnerInv'
    BY <2>1, <2>2 DEF CancelInv, OwnerInv, TypeOK, history
  <2>7. QED
    BY <2>3, <2>4, <2>5, <2>6
<1>3. CASE CallRecv \/ RecvClosed \/ DropSession \/ Cancel
  <2>1. UNCHANGED <<nativeVars, workerVars, out, history>>
    BY <1>3 DEF CallRecv, RecvClosed, DropSession, Cancel
  <2>2. /\ client' = "Dropped" <=> client = "Dropped"
        /\ client' \in {"Idle", "Receiving", "Closed", "Joining", "Dropped"}
        /\ client' = "Closed" => worker = "Ended" /\ out = <<>>
        /\ client' = "Joining" => cancelled'
        /\ cancelled' \in BOOLEAN
        /\ cancelled => cancelled'
    BY <1>3 DEF CallRecv, RecvClosed, DropSession, Cancel, TypeOK, OwnerInv
  <2>3. TypeOK'
    BY <2>1, <2>2 DEF TypeOK, nativeVars, workerVars, history
  <2>4. HeldInv' /\ OrderInv' /\ LatestInv'
    BY <2>1, <2>2 DEF HeldInv, OrderInv, LatestInv, Pending, workerVars, history
  <2>5. CancelInv' /\ OwnerInv'
    BY <2>1, <2>2 DEF CancelInv, OwnerInv, workerVars, history
  <2>6. QED
    BY <2>3, <2>4, <2>5
<1>4. CASE UNCHANGED vars
  BY <1>4 DEF vars, nativeVars, workerVars, history, TypeOK, HeldInv, OrderInv, LatestInv,
              CancelInv, OwnerInv, Pending
<1>5. QED
  BY <1>1, <1>2, <1>3, <1>4

LEMMA TakeEventKeeps == SessionInv /\ TakeEvent => SessionInv'
<1> SUFFICES ASSUME SessionInv, TakeEvent
             PROVE  SessionInv'
  OBVIOUS
<1> USE TickType DEF SessionInv
<1> DEFINE m == Head(raw)
<1>1. /\ worker = "Recv" /\ worker' = "Flush"
      /\ raw # <<>> /\ raw' = Tail(raw) /\ m \in SUBSET Keys
      /\ held' = [k \in Keys |-> IF k \in m THEN reads[k] + 1 ELSE held[k]]
      /\ age' = [k \in Keys |-> IF k \in m THEN 0 ELSE age[k]]
      /\ reads' = [k \in Keys |-> IF k \in m THEN reads[k] + 1 ELSE reads[k]]
      /\ quiet' = [k \in Keys |-> IF k \in m THEN 0 ELSE quiet[k]]
      /\ UNCHANGED <<native, sent, waited, out, cancelled, client, got, sinceCancel>>
  BY WatchAssumption, HeadTailProperties DEF TakeEvent, Insert, TypeOK
<1>2. raw' \in Seq(Messages \cup {Failure})
  BY <1>1, HeadTailProperties DEF TypeOK
<1> HIDE DEF m
<1>3. TypeOK'
  BY <1>1, <1>2 DEF TypeOK
<1>4. Pending' = Pending \cup m
  BY <1>1 DEF Pending, NotHeld, TypeOK
<1>5. HeldInv'
  <2>1. \A k \in Pending' : /\ held'[k] = reads'[k]
                            /\ age'[k] = quiet'[k]
                            /\ age'[k] < Debounce + Tick
    BY <1>1, <1>4 DEF HeldInv, Pending, TypeOK
  <2>2. QED
    BY <1>1, <2>1 DEF HeldInv
<1>6. \A i \in 1..Len(out) : out[i].key # 0 => out[i].key \in Keys /\ out[i].read \in Nat
  BY DEF TypeOK, Event, FailureEvent
<1>7. OrderInv'
  <2> SUFFICES /\ \A i \in 1..Len(out) : out[i].key # 0 =>
                    /\ got[out[i].key] < out[i].read
                    /\ out[i].read <= reads'[out[i].key]
                    /\ out[i].key \in Pending' => out[i].read < held'[out[i].key]
                    /\ \A j \in 1..Len(out) : i < j /\ out[j].key = out[i].key => out[i].read < out[j].read
               /\ \A k \in Keys : got[k] <= reads'[k]
               /\ \A k \in Pending' : got[k] < held'[k]
    BY <1>1 DEF OrderInv
  <2>1. ASSUME NEW i \in 1..Len(out), out[i].key # 0
        PROVE  /\ got[out[i].key] < out[i].read
               /\ out[i].read <= reads'[out[i].key]
               /\ out[i].key \in Pending' => out[i].read < held'[out[i].key]
               /\ \A j \in 1..Len(out) : i < j /\ out[j].key = out[i].key => out[i].read < out[j].read
    <3> DEFINE k == out[i].key
    <3>1. /\ k \in Keys /\ out[i].read \in Nat /\ reads[k] \in Nat /\ held[k] \in Nat
          /\ reads'[k] = IF k \in m THEN reads[k] + 1 ELSE reads[k]
          /\ held'[k] = IF k \in m THEN reads[k] + 1 ELSE held[k]
      BY <1>1, <1>6, <2>1 DEF TypeOK
    <3>2. /\ got[k] < out[i].read /\ out[i].read <= reads[k]
          /\ k \in Pending => out[i].read < held[k]
          /\ \A j \in 1..Len(out) : i < j /\ out[j].key = k => out[i].read < out[j].read
      BY <2>1 DEF OrderInv
    <3> HIDE DEF k
    <3>3. out[i].read <= reads'[k] /\ (k \in Pending' => out[i].read < held'[k])
      BY <1>4, <3>1, <3>2
    <3>4. QED
      BY <3>2, <3>3 DEF k
  <2>2. \A k \in Keys : got[k] <= reads'[k]
    BY <1>1 DEF OrderInv, TypeOK
  <2>3. \A k \in Pending' : got[k] < held'[k]
    BY <1>1, <1>4 DEF OrderInv, TypeOK, Pending
  <2>4. QED
    BY <2>1, <2>2, <2>3
<1>8. LatestInv'
  BY <1>1, <1>4 DEF LatestInv
<1>9. CancelInv' /\ OwnerInv'
  BY <1>1 DEF CancelInv, OwnerInv
<1>10. QED
  BY <1>3, <1>5, <1>7, <1>8, <1>9

LEMMA TakeFailureKeeps == SessionInv /\ TakeFailure => SessionInv'
<1> SUFFICES ASSUME SessionInv, TakeFailure
             PROVE  SessionInv'
  OBVIOUS
<1> USE TickType DEF SessionInv
<1>1. /\ worker = "Recv" /\ worker' = "Flush"
      /\ raw # <<>> /\ raw' = Tail(raw) /\ out' = Append(out, FailureEvent)
      /\ UNCHANGED <<native, sent, waited, held, age, cancelled, client, history>>
  BY DEF TakeFailure
<1>2. raw' \in Seq(Messages \cup {Failure})
  BY <1>1, HeadTailProperties DEF TypeOK
<1>3. /\ out' \in Seq(Event \cup {FailureEvent}) /\ Len(out) \in Nat /\ Len(out') = Len(out) + 1
      /\ \A i \in 1..Len(out) : out'[i] = out[i]
      /\ out'[Len(out) + 1] = FailureEvent
  BY <1>1, AppendProperties, LenProperties DEF TypeOK
<1>4. FailureEvent.key = 0
  BY DEF FailureEvent
<1>5. TypeOK'
  BY <1>1, <1>2, <1>3 DEF TypeOK, history
<1>6. HeldInv' /\ CancelInv' /\ OwnerInv'
  BY <1>1 DEF HeldInv, CancelInv, OwnerInv, Pending, TypeOK, history
<1>7. OrderInv'
  <2>1. \A i \in 1..Len(out') : out'[i].key # 0 => i \in 1..Len(out) /\ out'[i] = out[i]
    BY <1>3, <1>4
  <2>2. QED
    BY <1>1, <2>1 DEF OrderInv, Pending, history
<1>8. LatestInv'
  BY <1>1, <1>3 DEF LatestInv, Pending, history
<1>9. QED
  BY <1>5, <1>6, <1>7, <1>8

LEMMA PassKeeps == SessionInv /\ Pass => SessionInv'
<1> SUFFICES ASSUME SessionInv, Pass
             PROVE  SessionInv'
  OBVIOUS
<1> USE TickType DEF SessionInv
<1>1. /\ worker = "Recv" /\ waited < Tick /\ waited' = waited + 1
      /\ age' = [k \in Keys |-> IF k \in Pending THEN age[k] + 1 ELSE 0]
      /\ quiet' = [k \in Keys |-> IF quiet[k] < Debounce + Tick THEN quiet[k] + 1 ELSE quiet[k]]
      /\ sinceCancel' = IF cancelled /\ sinceCancel <= Tick THEN sinceCancel + 1 ELSE sinceCancel
      /\ UNCHANGED <<nativeVars, worker, held, out, cancelled, client, got, reads>>
  BY DEF Pass
<1>2. waited' \in 0..Tick /\ sinceCancel' \in 0..(Tick + 1)
  BY <1>1 DEF TypeOK, CancelInv
<1>3. TypeOK'
  BY <1>1, <1>2 DEF TypeOK, nativeVars
<1>4. HeldInv'
  <2>1. ASSUME NEW k \in Pending
        PROVE  /\ held'[k] = reads'[k]
               /\ age'[k] = quiet'[k]
               /\ age'[k] < Debounce + waited'
               /\ age'[k] < Debounce + Tick
    <3>1. /\ k \in Keys /\ age[k] \in Nat /\ quiet[k] = age[k] /\ held[k] = reads[k]
          /\ age[k] < Debounce + waited /\ waited \in Nat
      BY <1>1 DEF HeldInv, TypeOK, Pending
    <3>2. age[k] < Debounce + Tick /\ age[k] + 1 < Debounce + (waited + 1)
          /\ age[k] + 1 < Debounce + Tick
      BY <1>1, <3>1
    <3>3. age'[k] = age[k] + 1 /\ quiet'[k] = quiet[k] + 1
      BY <1>1, <3>1, <3>2
    <3>4. QED
      BY <1>1, <3>1, <3>2, <3>3
  <2>2. QED
    BY <1>1, <2>1 DEF HeldInv, Pending
<1>5. OrderInv' /\ LatestInv'
  BY <1>1 DEF OrderInv, LatestInv, Pending
<1>6. CancelInv' /\ OwnerInv'
  BY <1>1 DEF CancelInv, OwnerInv, TypeOK
<1>7. QED
  BY <1>3, <1>4, <1>5, <1>6

(* Sending held events keeps the channel in order and loses nothing.       *)
LEMMA SendHeldKeeps ==
  ASSUME SessionInv, NEW S \in SUBSET Pending, SendHeld(S),
         UNCHANGED <<client, got, reads, quiet>>
  PROVE  /\ out' \in Seq(Event \cup {FailureEvent})
         /\ held' \in [Keys -> Nat] /\ age' \in [Keys -> Nat]
         /\ Pending' = Pending \ S
         /\ OrderInv' /\ LatestInv'
<1> USE DEF SessionInv
<1>1. PICK events \in InKeyOrder(S) : out' = out \o events
  BY DEF SendHeld
<1>2. /\ held' = [k \in Keys |-> IF k \in S THEN NotHeld ELSE held[k]]
      /\ age' = [k \in Keys |-> IF k \in S THEN 0 ELSE age[k]]
      /\ client' = client /\ got' = got /\ reads' = reads /\ quiet' = quiet
  BY DEF SendHeld
<1>3. held' \in [Keys -> Nat] /\ age' \in [Keys -> Nat] /\ Pending' = Pending \ S
  BY <1>2 DEF TypeOK, Pending, NotHeld
<1> DEFINE n == Len(out)
           e == Len(events)
<1>4. /\ events \in Seq(Event)
      /\ \A i \in 1..e :
           /\ events[i] = [key |-> events[i].key, read |-> held[events[i].key]]
           /\ events[i].read = held[events[i].key]
           /\ events[i].key \in S
           /\ \A j \in 1..e : events[i].key = events[j].key => i = j
      /\ \A k \in S : \E i \in 1..e : events[i].key = k
  BY EventsOfKeys
<1>5. /\ out' \in Seq(Event \cup {FailureEvent})
      /\ n \in Nat /\ e \in Nat /\ Len(out') = n + e
      /\ \A i \in 1..n : out'[i] = out[i]
      /\ \A i \in 1..e : out'[n + i] = events[i]
  <2>1. out \in Seq(Event \cup {FailureEvent}) /\ events \in Seq(Event \cup {FailureEvent})
    BY <1>4 DEF TypeOK
  <2>2. /\ n \in Nat /\ e \in Nat /\ out' \in Seq(Event \cup {FailureEvent})
        /\ Len(out') = n + e
        /\ \A i \in 1..(n + e) : out'[i] = IF i <= n THEN out[i] ELSE events[i - n]
    BY <1>1, <2>1, ConcatProperties, LenProperties
  <2> HIDE DEF n, e
  <2>3. \A i \in 1..e : n + i \in 1..(n + e) /\ ~(n + i <= n) /\ (n + i) - n = i
    BY <2>2
  <2>4. \A i \in 1..e : out'[n + i] = events[i]
    BY <2>2, <2>3
  <2>5. \A i \in 1..n : i \in 1..(n + e) /\ i <= n
    BY <2>2
  <2>6. \A i \in 1..n : out'[i] = out[i]
    BY <2>2, <2>5
  <2>7. QED
    BY <2>2, <2>4, <2>6
<1> HIDE DEF n, e
<1>6. \A i \in 1..Len(out') : i \in 1..n \/ \E j \in 1..e : i = n + j
  <2> TAKE i \in 1..Len(out')
  <2>1. i \in 1..n \/ (i - n \in 1..e /\ i = n + (i - n))
    BY <1>5
  <2>2. QED
    BY <2>1
<1>7. \A k \in S : k \in Pending /\ held[k] \in Nat /\ held[k] = reads[k] /\ got[k] < held[k]
  BY DEF TypeOK, HeldInv, OrderInv, Pending
<1>8. OrderInv'
  <2>1. ASSUME NEW i \in 1..n, out[i].key # 0
        PROVE  /\ got[out[i].key] < out[i].read
               /\ out[i].read <= reads[out[i].key]
               /\ out[i].key \in Pending' => out[i].read < held'[out[i].key]
               /\ \A j \in 1..Len(out') : i < j /\ out'[j].key = out[i].key => out[i].read < out'[j].read
    <3>1. /\ got[out[i].key] < out[i].read
          /\ out[i].read <= reads[out[i].key]
          /\ out[i].key \in Pending => out[i].read < held[out[i].key]
          /\ \A j \in 1..n : i < j /\ out[j].key = out[i].key => out[i].read < out[j].read
      BY <2>1 DEF OrderInv, n
    <3>2. out[i].key \in Pending' => out[i].read < held'[out[i].key]
      BY <1>2, <1>3, <3>1 DEF Pending
    <3>3. ASSUME NEW j \in 1..Len(out'), i < j, out'[j].key = out[i].key
          PROVE  out[i].read < out'[j].read
      <4>1. CASE j \in 1..n
        BY <1>5, <3>1, <3>3, <4>1
      <4>2. CASE \E l \in 1..e : j = n + l
        <5>1. PICK l \in 1..e : j = n + l
          BY <4>2
        <5>2. out'[j] = events[l]
          BY <1>5, <5>1
        <5>3. events[l].key \in S /\ events[l].read = held[events[l].key]
          BY <1>4
        <5>4. out[i].key \in Pending /\ out[i].read < held[out[i].key]
          BY <1>7, <3>1, <3>3, <5>2, <5>3
        <5>5. QED
          BY <3>3, <5>2, <5>3, <5>4
      <4>3. QED
        BY <1>6, <4>1, <4>2
    <3>4. QED
      BY <3>1, <3>2, <3>3
  <2>2. ASSUME NEW l \in 1..e
        PROVE  /\ got[events[l].key] < events[l].read
               /\ events[l].read <= reads[events[l].key]
               /\ events[l].key \notin Pending'
               /\ \A j \in 1..Len(out') : n + l < j => out'[j].key # events[l].key
    <3>1. /\ events[l].key \in S /\ events[l].read = held[events[l].key]
          /\ \A j \in 1..e : events[l].key = events[j].key => l = j
      BY <1>4
    <3>2. got[events[l].key] < events[l].read /\ events[l].read <= reads[events[l].key]
      BY <1>7, <3>1
    <3>3. ASSUME NEW j \in 1..Len(out'), n + l < j
          PROVE  out'[j].key # events[l].key
      <4>1. j \notin 1..n
        BY <1>5, <3>3
      <4>2. PICK q \in 1..e : j = n + q
        BY <1>6, <4>1
      <4>3. l # q /\ out'[j] = events[q]
        BY <1>5, <3>3, <4>2
      <4>4. QED
        BY <3>1, <4>3
    <3>4. QED
      BY <1>3, <3>1, <3>2, <3>3
  <2>3. ASSUME NEW i \in 1..Len(out'), out'[i].key # 0
        PROVE  /\ got[out'[i].key] < out'[i].read
               /\ out'[i].read <= reads[out'[i].key]
               /\ out'[i].key \in Pending' => out'[i].read < held'[out'[i].key]
               /\ \A j \in 1..Len(out') : i < j /\ out'[j].key = out'[i].key => out'[i].read < out'[j].read
    <3>1. CASE i \in 1..n
      BY <1>5, <2>1, <2>3, <3>1
    <3>2. CASE \E l \in 1..e : i = n + l
      <4>1. PICK l \in 1..e : i = n + l
        BY <3>2
      <4>2. out'[i] = events[l]
        BY <1>5, <4>1
      <4>3. QED
        BY <2>2, <4>1, <4>2
    <3>3. QED
      BY <1>6, <3>1, <3>2
  <2>4. \A k \in Pending' : got[k] < held'[k]
    BY <1>2, <1>3 DEF OrderInv, Pending
  <2>5. \A k \in Keys : got[k] <= reads[k]
    BY DEF OrderInv
  <2>6. QED
    BY <1>2, <2>3, <2>4, <2>5 DEF OrderInv
<1>9. LatestInv'
  <2> SUFFICES ASSUME client # "Dropped", NEW k \in Keys \ Pending'
               PROVE  got[k] = reads[k] \/ \E i \in 1..Len(out') : out'[i] = [key |-> k, read |-> reads[k]]
    BY <1>2 DEF LatestInv
  <2>1. CASE k \in S
    <3>1. PICK l \in 1..e : events[l].key = k
      BY <1>4, <2>1
    <3>2. events[l] = [key |-> k, read |-> reads[k]]
      BY <1>4, <1>7, <2>1, <3>1
    <3>3. n + l \in 1..Len(out') /\ out'[n + l] = events[l]
      BY <1>5
    <3>4. QED
      BY <3>2, <3>3
  <2>2. CASE k \notin Pending
    <3>1. CASE got[k] = reads[k]
      BY <3>1
    <3>2. CASE \E i \in 1..n : out[i] = [key |-> k, read |-> reads[k]]
      <4>1. PICK i \in 1..n : out[i] = [key |-> k, read |-> reads[k]]
        BY <3>2
      <4>2. i \in 1..Len(out') /\ out'[i] = out[i]
        BY <1>5
      <4>3. QED
        BY <4>1, <4>2
    <3>3. QED
      BY <2>2, <3>1, <3>2 DEF LatestInv, n
  <2>3. QED
    BY <1>3, <2>1, <2>2
<1>10. QED
  BY <1>3, <1>5, <1>8, <1>9

LEMMA FlushReadyKeeps == SessionInv /\ FlushReady => SessionInv'
<1> SUFFICES ASSUME SessionInv, FlushReady
             PROVE  SessionInv'
  OBVIOUS
<1> DEFINE S == {k \in Pending : age[k] >= Debounce}
<1>1. /\ worker = "Flush" /\ worker' = "Loop" /\ SendHeld(S)
      /\ UNCHANGED <<nativeVars, waited, cancelled, client, history>>
  BY DEF FlushReady
<1>2. \A k \in Pending \ S : age[k] < Debounce
  BY TickType DEF SessionInv, TypeOK, Pending
<1>3. S \in SUBSET Pending
  OBVIOUS
<1> HIDE DEF S
<1>4. /\ out' \in Seq(Event \cup {FailureEvent})
      /\ held' \in [Keys -> Nat] /\ age' \in [Keys -> Nat]
      /\ Pending' = Pending \ S
      /\ OrderInv' /\ LatestInv'
  BY <1>1, <1>3, SendHeldKeeps DEF history
<1> USE TickType DEF SessionInv
<1>5. TypeOK'
  BY <1>1, <1>4 DEF TypeOK, nativeVars, history
<1>6. HeldInv'
  <2>1. \A k \in Pending' : held'[k] = held[k] /\ age'[k] = age[k] /\ k \in Pending \ S
    BY <1>1, <1>4 DEF SendHeld, Pending
  <2>2. QED
    BY <1>1, <1>2, <2>1 DEF HeldInv, history
<1>7. CancelInv' /\ OwnerInv'
  BY <1>1 DEF CancelInv, OwnerInv, history
<1>8. QED
  BY <1>4, <1>5, <1>6, <1>7

LEMMA FlushAllKeeps == SessionInv /\ FlushAll => SessionInv'
<1> SUFFICES ASSUME SessionInv, FlushAll
             PROVE  SessionInv'
  OBVIOUS
<1>1. /\ worker = "Drain" /\ worker' = "Ended" /\ SendHeld(Pending)
      /\ UNCHANGED <<nativeVars, waited, cancelled, client, history>>
  BY DEF FlushAll
<1>2. /\ out' \in Seq(Event \cup {FailureEvent})
      /\ held' \in [Keys -> Nat] /\ age' \in [Keys -> Nat]
      /\ Pending' = Pending \ Pending
      /\ OrderInv' /\ LatestInv'
  BY <1>1, SendHeldKeeps DEF history
<1> USE TickType DEF SessionInv
<1>3. TypeOK'
  BY <1>1, <1>2 DEF TypeOK, nativeVars, history
<1>4. HeldInv'
  BY <1>2 DEF HeldInv
<1>5. CancelInv' /\ OwnerInv'
  BY <1>1 DEF CancelInv, OwnerInv, history
<1>6. QED
  BY <1>2, <1>3, <1>4, <1>5

LEMMA JoinedKeeps == SessionInv /\ Joined => SessionInv'
<1> SUFFICES ASSUME SessionInv, Joined
             PROVE  SessionInv'
  OBVIOUS
<1> USE TickType DEF SessionInv
<1>1. /\ client = "Joining" /\ worker = "Ended"
      /\ client' = "Dropped" /\ out' = <<>> /\ native' = FALSE
      /\ UNCHANGED <<raw, sent, workerVars, cancelled, history>>
  BY DEF Joined
<1>2. out' \in Seq(Event \cup {FailureEvent}) /\ Len(out') = 0
  BY <1>1
<1>3. TypeOK'
  BY <1>1, <1>2 DEF TypeOK, workerVars, history
<1>4. HeldInv' /\ CancelInv' /\ OwnerInv' /\ LatestInv'
  BY <1>1 DEF HeldInv, CancelInv, OwnerInv, LatestInv, Pending, workerVars, history
<1>5. OrderInv'
  BY <1>1, <1>2 DEF OrderInv, Pending, workerVars, history
<1>6. QED
  BY <1>3, <1>4, <1>5

LEMMA RecvKeeps == SessionInv /\ RecvReturns => SessionInv'
<1> SUFFICES ASSUME SessionInv, RecvReturns
             PROVE  SessionInv'
  OBVIOUS
<1> USE TickType DEF SessionInv
<1> DEFINE x == out[1]
           n == Len(out)
<1>1. /\ client = "Receiving" /\ client' = "Idle" /\ out # <<>> /\ out' = Tail(out)
      /\ got' = IF x = FailureEvent THEN got ELSE [got EXCEPT ![x.key] = x.read]
      /\ UNCHANGED <<nativeVars, workerVars, cancelled, reads, quiet, sinceCancel>>
  <2>1. Head(out) = x
    BY DEF RecvReturns, TypeOK
  <2>2. QED
    BY <2>1 DEF RecvReturns
<1>2. /\ n \in Nat \ {0} /\ out' \in Seq(Event \cup {FailureEvent}) /\ Len(out') = n - 1
      /\ \A i \in 1..(n - 1) : out'[i] = out[i + 1]
      /\ x \in Event \cup {FailureEvent}
  <2>1. out \in Seq(Event \cup {FailureEvent}) /\ out # <<>>
    BY <1>1 DEF TypeOK
  <2>2. /\ n \in Nat \ {0} /\ Tail(out) \in Seq(Event \cup {FailureEvent}) /\ Len(Tail(out)) = n - 1
        /\ \A i \in 1..(n - 1) : Tail(out)[i] = out[i + 1]
    BY <2>1, HeadTailProperties, EmptySeq, LenProperties
  <2>3. x \in Event \cup {FailureEvent}
    BY <2>1, <2>2, ElementOfSeq
  <2>4. QED
    BY <1>1, <2>2, <2>3
<1>3. \A i \in 1..(n - 1) : i + 1 \in 1..n /\ 1 < i + 1
  BY <1>2
<1>4. 1 \in 1..n
  BY <1>2
<1>5. x # FailureEvent => /\ x.key \in Keys /\ x.key # 0 /\ x.read \in Nat
                          /\ x = [key |-> x.key, read |-> x.read]
  BY <1>2 DEF Event, Keys
<1>6. x = FailureEvent => x.key = 0
  BY DEF FailureEvent
<1>7. \A k \in Keys : got'[k] = IF x # FailureEvent /\ k = x.key THEN x.read ELSE got[k]
  BY <1>1, <1>5 DEF TypeOK
<1>8. \A i \in 1..n : out[i].key # 0 =>
        /\ out[i].key \in Keys
        /\ got[out[i].key] < out[i].read
        /\ out[i].read <= reads[out[i].key]
        /\ out[i].key \in Pending => out[i].read < held[out[i].key]
        /\ \A j \in 1..n : i < j /\ out[j].key = out[i].key => out[i].read < out[j].read
  BY DEF OrderInv, TypeOK, Event, FailureEvent
<1> HIDE DEF n, x
<1>9. got' \in [Keys -> Nat]
  BY <1>1, <1>5 DEF TypeOK
<1>10. TypeOK'
  BY <1>1, <1>2, <1>9 DEF TypeOK, nativeVars, workerVars
<1>11. HeldInv' /\ CancelInv' /\ OwnerInv'
  BY <1>1 DEF HeldInv, CancelInv, OwnerInv, Pending, workerVars
<1>12. \A i \in 1..n : 1 < i /\ out[i].key # 0 => got'[out[i].key] < out[i].read
  <2> SUFFICES ASSUME NEW i \in 1..n, 1 < i, out[i].key # 0
               PROVE  got'[out[i].key] < out[i].read
    OBVIOUS
  <2>1. CASE x # FailureEvent /\ out[i].key = x.key
    BY <1>4, <1>5, <1>7, <1>8, <2>1 DEF x
  <2>2. CASE ~(x # FailureEvent /\ out[i].key = x.key)
    BY <1>7, <1>8, <2>2
  <2>3. QED
    BY <2>1, <2>2
<1>13. OrderInv'
  <2>1. ASSUME NEW i \in 1..(n - 1), out'[i].key # 0
        PROVE  /\ got'[out'[i].key] < out'[i].read
               /\ out'[i].read <= reads[out'[i].key]
               /\ out'[i].key \in Pending => out'[i].read < held[out'[i].key]
               /\ \A j \in 1..(n - 1) : i < j /\ out'[j].key = out'[i].key => out'[i].read < out'[j].read
    <3>1. i + 1 \in 1..n /\ 1 < i + 1 /\ out'[i] = out[i + 1]
      BY <1>2, <1>3
    <3>2. \A j \in 1..(n - 1) : j + 1 \in 1..n /\ out'[j] = out[j + 1] /\ (i < j => i + 1 < j + 1)
      BY <1>2, <1>3
    <3>3. \A j \in 1..(n - 1) : i < j /\ out'[j].key = out'[i].key => out'[i].read < out'[j].read
      BY <1>8, <2>1, <3>1, <3>2
    <3>4. QED
      BY <1>8, <1>12, <2>1, <3>1, <3>3
  <2>2. \A k \in Keys : got'[k] <= reads[k]
    BY <1>4, <1>5, <1>7, <1>8 DEF OrderInv, x
  <2>3. \A k \in Pending : got'[k] < held[k]
    BY <1>4, <1>5, <1>7, <1>8 DEF OrderInv, Pending, x
  <2>4. UNCHANGED <<held, reads>> /\ Pending' = Pending
    BY <1>1 DEF Pending, workerVars
  <2>5. QED
    BY <1>2, <2>1, <2>2, <2>3, <2>4 DEF OrderInv
<1>14. LatestInv'
  <2> SUFFICES ASSUME NEW k \in Keys \ Pending
               PROVE  got'[k] = reads[k] \/ \E i \in 1..(n - 1) : out'[i] = [key |-> k, read |-> reads[k]]
    BY <1>1, <1>2 DEF LatestInv, Pending, workerVars
  <2>1. CASE got[k] = reads[k]
    <3>1. ~(x # FailureEvent /\ k = x.key)
      BY <1>4, <1>5, <1>8, <2>1 DEF x, TypeOK
    <3>2. QED
      BY <1>7, <2>1, <3>1
  <2>2. CASE \E i \in 1..n : out[i] = [key |-> k, read |-> reads[k]]
    <3>1. PICK i \in 1..n : out[i] = [key |-> k, read |-> reads[k]]
      BY <2>2
    <3>2. CASE i = 1
      <4>1. x.key = k /\ x.read = reads[k] /\ x # FailureEvent
        BY <3>1, <3>2, <1>6 DEF x, Keys
      <4>2. QED
        BY <1>7, <4>1
    <3>3. CASE i # 1
      <4>1. i - 1 \in 1..(n - 1) /\ (i - 1) + 1 = i
        BY <1>2, <3>3
      <4>2. out'[i - 1] = out[i]
        BY <1>2, <4>1
      <4>3. QED
        BY <3>1, <4>1, <4>2
    <3>4. QED
      BY <3>2, <3>3
  <2>3. QED
    BY <1>1, <2>1, <2>2 DEF LatestInv, n
<1>15. QED
  BY <1>10, <1>11, <1>13, <1>14

-----------------------------------------------------------------------------

LEMMA StepKeeps == SessionInv /\ [Next]_vars => SessionInv'
<1>1. Gone => UNCHANGED vars
  BY DEF Gone
<1>2. QED
  BY <1>1, OtherSteps, TakeEventKeeps, TakeFailureKeeps, PassKeeps, FlushReadyKeeps,
     FlushAllKeeps, JoinedKeeps, RecvKeeps DEF Next, Round, Owner

(* The invariant of a watch session holds, whatever the number of keys,    *)
(* the window and the traffic.                                             *)
THEOREM SessionInvariant == Spec => []SessionInv
<1>1. SessionInv /\ [Next]_vars => SessionInv'
  BY StepKeeps
<1>2. QED
  BY InitSession, <1>1, PTL DEF Spec

(* An owner told that the session is closed was given the latest event of  *)
(* every key (run_debouncer, recv).                                        *)
THEOREM NoEventLost == Spec => []ClosedAfterLatest
<1>1. SessionInv => ClosedAfterLatest
  <2> SUFFICES ASSUME SessionInv, client = "Closed", NEW k \in Keys
               PROVE  got[k] = reads[k]
    BY DEF ClosedAfterLatest
  <2>1. out = <<>> /\ Pending = {} /\ Len(out) = 0
    BY DEF SessionInv, OwnerInv, HeldInv
  <2>2. QED
    BY <2>1 DEF SessionInv, LatestInv
<1>2. QED
  BY <1>1, SessionInvariant, PTL

(* No event is held, and no cancelled worker goes on, for longer than the  *)
(* window and a tick (the loop of run_debouncer).                          *)
THEOREM DelayBound == Spec => []DelaysBounded
<1>1. SessionInv => DelaysBounded
  BY DEF SessionInv, HeldInv, CancelInv, DelaysBounded
<1>2. QED
  BY <1>1, SessionInvariant, PTL

(* A running session sends an event only after its key was quiet for the   *)
(* debounce window (insert, flush_ready).                                  *)
THEOREM Debounces == Spec => QuietBeforeSent
<1> DEFINE Quiet == \A k \in Keys :
             worker = "Flush" /\ held[k] # NotHeld /\ held'[k] = NotHeld => quiet[k] >= Debounce
<1>1. SessionInv /\ [Next]_vars => [Quiet]_vars
  <2> SUFFICES ASSUME SessionInv, Next, NEW k \in Keys,
                      worker = "Flush", held[k] # NotHeld, held'[k] = NotHeld
               PROVE  quiet[k] >= Debounce
    OBVIOUS
  <2>1. FlushReady
    BY DEF Next, Native, Notify, NativeEnds, Round, LoopHead, TakeEvent, TakeFailure, TimeOut,
           Disconnected, FlushAll, Pass, Owner, RecvReturns, RecvClosed, Joined, CallRecv,
           DropSession, Cancel, Gone, vars, workerVars
  <2>2. k \in Pending /\ age[k] >= Debounce
    BY <2>1 DEF FlushReady, SendHeld, Pending
  <2>3. QED
    BY <2>2 DEF SessionInv, HeldInv
<1>2. QED
  BY <1>1, SessionInvariant, PTL DEF Spec, QuietBeforeSent


-----------------------------------------------------------------------------
\* The command that owns the session.

LEMMA KeysOfFiles ==
  \A p \in Paths, kind \in 1..4 :
    /\ KeyOf(p, kind) \in Keys
    /\ KindOf(KeyOf(p, kind)) = kind
    /\ PathOf(KeyOf(p, kind)) = p
BY SyncAssumption DEF Paths, Keys, KeyOf, KindOf, PathOf

(* The keys whose events make the command copy file p.                     *)
Telling(p) == {KeyOf(p, kind) : kind \in {Created, Modified, Renamed}}

LEMMA TellingKeys ==
  \A p \in Paths : \A k \in Telling(p) : k \in Keys /\ k # 0 /\ KindOf(k) # Removed /\ PathOf(k) = p
BY KeysOfFiles DEF Telling, Created, Modified, Renamed, Removed, Keys

(* An event that will make it do so is on its way.                         *)
Told(p) ==
  \/ \E i \in 1..Len(raw) : raw[i] \cap Telling(p) # {}
  \/ Pending \cap Telling(p) # {}
  \/ \E i \in 1..Len(out) : out[i].key \in Telling(p)

SyncTypes ==
  /\ host \in [Paths -> Nat] /\ target \in [Paths -> Nat] /\ writes \in Nat
  /\ step \in {"Waiting", "Archiving", "Copying", "Exiting"}
  /\ path \in Paths \cup {0} /\ archive \in Nat

(* What the container's file will be once the command is through with what *)
(* it does.                                                                *)
WillHave(p) ==
  IF path = p /\ step = "Archiving" THEN host[p]
  ELSE IF path = p /\ step = "Copying" THEN archive
  ELSE target[p]

(* Every file of the host will be in the container as it is once the       *)
(* command is through, or an event that will make it read the file again   *)
(* is on its way.  Of a file that is being copied the container's content  *)
(* does not matter: it is about to be overwritten, maybe by an older one.  *)
SyncInv ==
  /\ SyncTypes
  /\ client = "Receiving" => step = "Waiting"
  /\ step \in {"Archiving", "Copying"} => path \in Paths
  /\ step # "Exiting" =>
       \A p \in Paths : host[p] = 0 \/ Told(p) \/ WillHave(p) = host[p]

(* What the native watcher reports is on its way.                          *)
LEMMA NotifyTells ==
  ASSUME SessionInv, NEW message \in Messages \cup {Failure}, Notify(message), NEW p \in Paths
  PROVE  /\ Told(p) => Told(p)'
         /\ message \cap Telling(p) # {} => Told(p)'
<1>1. /\ raw \in Seq(Messages \cup {Failure}) /\ raw' = Append(raw, message)
      /\ UNCHANGED <<held, out>>
  BY DEF SessionInv, TypeOK, Notify, workerVars
<1>2. /\ Len(raw) \in Nat /\ Len(raw') = Len(raw) + 1
      /\ \A i \in 1..Len(raw) : raw'[i] = raw[i]
      /\ raw'[Len(raw) + 1] = message
  BY <1>1, AppendProperties, LenProperties
<1>3. 1..Len(raw) \subseteq 1..Len(raw') /\ Len(raw) + 1 \in 1..Len(raw')
  BY <1>2
<1>4. QED
  BY <1>1, <1>2, <1>3 DEF Told, Pending

(* The worker and the time do not lose what is on its way.                 *)
LEMMA RoundKeepsTold ==
  ASSUME SessionInv, Round \/ Pass, NEW p \in Paths, Told(p)
  PROVE  Told(p)'
<1> USE DEF SessionInv
<1>1. CASE LoopHead \/ TimeOut \/ Disconnected \/ Pass
  BY <1>1 DEF LoopHead, TimeOut, Disconnected, Pass, Told, Pending, nativeVars
<1>2. ASSUME raw # <<>>, raw' = Tail(raw)
      PROVE  \A i \in 1..Len(raw) : i = 1 \/ (i - 1 \in 1..Len(raw') /\ raw'[i - 1] = raw[i])
  <2>1. /\ Len(raw) \in Nat \ {0} /\ Len(raw') = Len(raw) - 1
        /\ \A i \in 1..(Len(raw) - 1) : raw'[i] = raw[i + 1]
    BY <1>2, HeadTailProperties, EmptySeq, LenProperties DEF TypeOK
  <2>2. QED
    BY <2>1
<1>3. CASE TakeEvent
  <2>1. /\ raw # <<>> /\ raw' = Tail(raw) /\ out' = out
        /\ held' = [k \in Keys |-> IF k \in raw[1] THEN reads[k] + 1 ELSE held[k]]
    BY <1>3 DEF TakeEvent, Insert, TypeOK
  <2>2. Pending' = Pending \cup (Keys \cap raw[1])
    BY <2>1 DEF Pending, NotHeld, TypeOK
  <2>3. Telling(p) \subseteq Keys
    BY TellingKeys
  <2>4. ASSUME NEW i \in 1..Len(raw), raw[i] \cap Telling(p) # {}
        PROVE  Told(p)'
    <3>1. CASE i = 1
      BY <2>2, <2>3, <2>4, <3>1 DEF Told
    <3>2. CASE i # 1
      BY <1>2, <2>1, <2>4, <3>2 DEF Told
    <3>3. QED
      BY <3>1, <3>2
  <2>5. QED
    BY <2>1, <2>2, <2>4 DEF Told
<1>4. CASE TakeFailure
  <2>1. /\ raw # <<>> /\ raw' = Tail(raw) /\ raw[1] = Failure /\ held' = held
        /\ out' = Append(out, FailureEvent)
    BY <1>4 DEF TakeFailure, TypeOK
  <2>2. /\ Len(out) \in Nat /\ Len(out') = Len(out) + 1
        /\ \A i \in 1..Len(out) : out'[i] = out[i]
    BY <2>1, AppendProperties, LenProperties DEF TypeOK, FailureEvent
  <2>3. 1..Len(out) \subseteq 1..Len(out')
    BY <2>2
  <2>4. Failure \cap Telling(p) = {}
    BY TellingKeys DEF Failure
  <2>5. ASSUME NEW i \in 1..Len(raw), raw[i] \cap Telling(p) # {}
        PROVE  Told(p)'
    BY <1>2, <2>1, <2>4, <2>5 DEF Told
  <2>6. QED
    BY <2>1, <2>2, <2>3, <2>5 DEF Told, Pending
<1>5. ASSUME NEW S \in SUBSET Pending, SendHeld(S), raw' = raw
      PROVE  Told(p)'
  <2>1. PICK events \in InKeyOrder(S) : out' = out \o events
    BY <1>5 DEF SendHeld
  <2>2. /\ events \in Seq(Event)
        /\ \A k \in S : \E i \in 1..Len(events) : events[i].key = k
    BY EventsOfKeys
  <2>3. out \in Seq(Event \cup {FailureEvent}) /\ events \in Seq(Event \cup {FailureEvent})
    BY <2>2 DEF TypeOK
  <2> DEFINE n == Len(out)
             e == Len(events)
  <2>4. /\ n \in Nat /\ e \in Nat /\ Len(out') = n + e
        /\ \A i \in 1..(n + e) : out'[i] = IF i <= n THEN out[i] ELSE events[i - n]
    BY <2>1, <2>3, ConcatProperties, LenProperties
  <2> HIDE DEF n, e
  <2>5. \A i \in 1..n : i \in 1..(n + e) /\ out'[i] = out[i]
    BY <2>4
  <2>6. \A i \in 1..e : n + i \in 1..(n + e) /\ ~(n + i <= n) /\ (n + i) - n = i
    BY <2>4
  <2>7. \A i \in 1..e : out'[n + i] = events[i]
    BY <2>4, <2>6
  <2>8. Pending' = Pending \ S
    BY <1>5 DEF SendHeld, Pending, NotHeld, TypeOK
  <2>9. \A k \in S : \E i \in 1..Len(out') : out'[i].key = k
    <3> TAKE k \in S
    <3>1. PICK i \in 1..e : events[i].key = k
      BY <2>2 DEF e
    <3>2. n + i \in 1..Len(out') /\ out'[n + i].key = k
      BY <2>4, <2>6, <2>7, <3>1
    <3>3. QED
      BY <3>2
  <2>10. ASSUME NEW i \in 1..n, out[i].key \in Telling(p)
         PROVE  Told(p)'
    BY <2>4, <2>5, <2>10 DEF Told
  <2>11. ASSUME NEW k \in S \cap Telling(p)
         PROVE  Told(p)'
    BY <2>9 DEF Told
  <2>12. QED
    BY <1>5, <2>8, <2>10, <2>11 DEF Told, n
<1>6. CASE FlushReady
  <2> DEFINE S == {k \in Pending : age[k] >= Debounce}
  <2>1. SendHeld(S) /\ raw' = raw /\ S \in SUBSET Pending
    BY <1>6 DEF FlushReady, nativeVars
  <2> HIDE DEF S
  <2>2. QED
    BY <1>5, <2>1
<1>7. CASE FlushAll
  <2>1. SendHeld(Pending) /\ raw' = raw
    BY <1>7 DEF FlushAll, nativeVars
  <2>2. QED
    BY <1>5, <2>1
<1>8. QED
  BY <1>1, <1>3, <1>4, <1>6, <1>7 DEF Round

(* Only the event that recv returns is no longer on its way.               *)
LEMMA RecvKeepsTold ==
  ASSUME SessionInv, RecvReturns, NEW p \in Paths, Told(p), Head(out).key \notin Telling(p)
  PROVE  Told(p)'
<1>1. out \in Seq(Event \cup {FailureEvent}) /\ out # <<>> /\ out' = Tail(out) /\ UNCHANGED <<raw, held>>
  BY DEF SessionInv, TypeOK, RecvReturns, nativeVars, workerVars
<1>2. /\ Len(out) \in Nat \ {0} /\ Len(out') = Len(out) - 1 /\ Head(out) = out[1]
      /\ \A i \in 1..(Len(out) - 1) : out'[i] = out[i + 1]
  BY <1>1, HeadTailProperties, EmptySeq, LenProperties
<1>3. \A i \in 1..Len(out) : i = 1 \/ (i - 1 \in 1..Len(out') /\ out'[i - 1] = out[i])
  BY <1>2
<1>4. \A i \in 1..Len(out) : out[i].key \in Telling(p) => i # 1
  BY <1>2
<1>5. QED
  BY <1>1, <1>3, <1>4 DEF Told, Pending


LEMMA SyncInitInv == SyncInit => SyncInv
BY DEF SyncInit, Init, SyncInv, SyncTypes, WillHave

(* The session sees only steps of its own.                                 *)
LEMMA SyncStepsAreSteps == [SyncNext]_syncVars => [Next]_vars
<1>1. \A p \in Paths, kind \in 1..4 : KeyOf(p, kind) \in Keys
  BY KeysOfFiles
<1>2. ASSUME NEW p \in Paths, Write(p) \/ Remove(p)
      PROVE  Native
  <2>1. {KeyOf(p, Created)} \in Messages /\ {KeyOf(p, Modified)} \in Messages
        /\ {KeyOf(p, Removed)} \in Messages
    BY SyncAssumption DEF Changes
  <2>2. QED
    BY <1>2, <2>1 DEF Write, Remove, Native
<1>3. ASSUME NEW p \in Paths, NEW q \in Paths, Rename(p, q)
      PROVE  Native
  <2>1. {KeyOf(p, Renamed), KeyOf(q, Renamed)} \in Messages
    BY SyncAssumption DEF Changes
  <2>2. QED
    BY <1>3, <2>1 DEF Rename, Native
<1>4. Host => Native
  BY <1>2, <1>3 DEF Host, NativeTrouble, Native
<1>5. Debouncer \/ Wait => Round \/ Pass
  BY DEF Debouncer, Wait
<1>6. Command \/ EngineFails =>
        CallRecv \/ RecvReturns \/ RecvClosed \/ DropSession \/ Joined \/ UNCHANGED vars
  BY DEF Command, EngineFails, NextEvent, Receive, ReceiveClosed, BuildArchive, CopyToContainer,
         Exit, Gone
<1>7. UNCHANGED syncVars => UNCHANGED vars
  BY DEF syncVars
<1>8. QED
  BY <1>4, <1>5, <1>6, <1>7 DEF SyncNext, Next, Owner

LEMMA HostKeepsSync == SessionInv /\ SyncInv /\ Host => SyncInv'
<1> SUFFICES ASSUME SessionInv, SyncInv, Host
             PROVE  SyncInv'
  OBVIOUS
<1>1. step # "Exiting" /\ UNCHANGED <<cliVars, client>>
  BY DEF Host, Write, Remove, Rename, NativeTrouble, Notify, NativeEnds, workerVars, history
<1>2. ASSUME NEW r \in Paths, Told(r)' \/ (host'[r] = host[r] /\ (Told(r) => Told(r)'))
             \/ host'[r] = 0
      PROVE  host'[r] = 0 \/ Told(r)' \/ WillHave(r)' = host'[r]
  BY <1>1, <1>2 DEF SyncInv, WillHave, cliVars
<1>3. SUFFICES /\ host' \in [Paths -> Nat] /\ writes' \in Nat
               /\ \A r \in Paths : \/ Told(r)' \/ (host'[r] = host[r] /\ (Told(r) => Told(r)'))
                                   \/ host'[r] = 0
  BY <1>1, <1>2 DEF SyncInv, SyncTypes, cliVars
<1>4. /\ Created \in 1..4 /\ Modified \in 1..4 /\ Removed \in 1..4 /\ Renamed \in 1..4
      /\ \A p \in Paths : /\ KeyOf(p, Created) \in Telling(p)
                          /\ KeyOf(p, Modified) \in Telling(p)
                          /\ KeyOf(p, Renamed) \in Telling(p)
      /\ host \in [Paths -> Nat] /\ writes \in Nat
  BY DEF Created, Modified, Removed, Renamed, Telling, SyncInv, SyncTypes
<1>5. ASSUME NEW p \in Paths, Write(p)
      PROVE  <1>3!1
  <2> DEFINE m == {KeyOf(p, IF host[p] = 0 THEN Created ELSE Modified)}
  <2>1. m \in Messages /\ m \cap Telling(p) # {}
    BY <1>4, SyncAssumption DEF Changes
  <2>2. Notify(m)
    BY <1>5 DEF Write
  <2> HIDE DEF m
  <2>3. \A r \in Paths : (Told(r) => Told(r)') /\ (m \cap Telling(r) # {} => Told(r)')
    BY <2>1, <2>2, NotifyTells
  <2>4. host' = [host EXCEPT ![p] = writes + 1] /\ writes' = writes + 1
    BY <1>5 DEF Write
  <2>5. QED
    BY <1>4, <2>1, <2>3, <2>4
<1>6. ASSUME NEW p \in Paths, Remove(p)
      PROVE  <1>3!1
  <2> DEFINE m == {KeyOf(p, Removed)}
  <2>1. m \in Messages
    BY SyncAssumption DEF Changes
  <2>2. Notify(m)
    BY <1>6 DEF Remove
  <2> HIDE DEF m
  <2>3. \A r \in Paths : Told(r) => Told(r)'
    BY <2>1, <2>2, NotifyTells
  <2>4. host' = [host EXCEPT ![p] = 0] /\ writes' = writes
    BY <1>6 DEF Remove
  <2>5. QED
    BY <1>4, <2>3, <2>4
<1>7. ASSUME NEW p \in Paths, NEW q \in Paths, Rename(p, q)
      PROVE  <1>3!1
  <2> DEFINE m == {KeyOf(p, Renamed), KeyOf(q, Renamed)}
  <2>1. m \in Messages /\ m \cap Telling(q) # {}
    BY <1>4, SyncAssumption DEF Changes
  <2>2. Notify(m)
    BY <1>7 DEF Rename
  <2> HIDE DEF m
  <2>3. \A r \in Paths : (Told(r) => Told(r)') /\ (m \cap Telling(r) # {} => Told(r)')
    BY <2>1, <2>2, NotifyTells
  <2>4. host' = [host EXCEPT ![p] = 0, ![q] = host[p]] /\ writes' = writes
    BY <1>7 DEF Rename
  <2>5. QED
    BY <1>4, <2>1, <2>3, <2>4
<1>8. CASE NativeTrouble
  <2>1. host' = host /\ writes' = writes
    BY <1>8 DEF NativeTrouble, hostVars
  <2>2. \A r \in Paths : Told(r) => Told(r)'
    <3>1. CASE Notify(Failure)
      BY <3>1, NotifyTells
    <3>2. CASE NativeEnds
      BY <3>2 DEF NativeEnds, Told, Pending, workerVars
    <3>3. QED
      BY <1>8, <3>1, <3>2 DEF NativeTrouble
  <2>3. QED
    BY <1>4, <2>1, <2>2
<1>9. QED
  BY <1>5, <1>6, <1>7, <1>8 DEF Host

LEMMA ReceiveKeepsSync == SessionInv /\ SyncInv /\ Receive => SyncInv'
<1> SUFFICES ASSUME SessionInv, SyncInv, Receive
             PROVE  SyncInv'
  OBVIOUS
<1> DEFINE event == Head(out)
<1>1. /\ RecvReturns /\ client = "Receiving" /\ client' = "Idle" /\ step = "Waiting"
      /\ UNCHANGED <<hostVars, target, archive>>
      /\ IF event = FailureEvent
         THEN step' = "Exiting" /\ path' = path
         ELSE IF KindOf(event.key) = Removed
              THEN step' = "Waiting" /\ path' = path
              ELSE step' = "Archiving" /\ path' = PathOf(event.key)
  BY DEF Receive, RecvReturns, SyncInv
<1>2. event # FailureEvent => event.key \in Keys
  <2>1. out \in Seq(Event \cup {FailureEvent}) /\ out # <<>>
    BY DEF SessionInv, TypeOK, Receive, RecvReturns
  <2>2. event \in Event \cup {FailureEvent}
    BY <2>1, HeadTailProperties
  <2>3. QED
    BY <2>2 DEF Event
<1>3. \A p \in Paths : Told(p) /\ event.key \notin Telling(p) => Told(p)'
  BY <1>1, RecvKeepsTold
<1>4. \A p \in Paths : event.key \in Telling(p) => KindOf(event.key) # Removed /\ PathOf(event.key) = p
  BY TellingKeys
<1>5. event # FailureEvent => PathOf(event.key) \in Paths
  BY <1>2, SyncAssumption DEF Keys, Paths, PathOf
<1> HIDE DEF event
<1>6. SyncTypes'
  BY <1>1, <1>5 DEF SyncInv, SyncTypes, hostVars
<1>7. ASSUME step' # "Exiting", NEW p \in Paths
      PROVE  host'[p] = 0 \/ Told(p)' \/ WillHave(p)' = host'[p]
  BY <1>1, <1>3, <1>4, <1>7 DEF SyncInv, WillHave, hostVars
<1>8. QED
  BY <1>1, <1>5, <1>6, <1>7 DEF SyncInv

LEMMA CommandKeepsSync ==
  SessionInv /\ SyncInv /\ [Debouncer \/ Wait \/ Command \/ EngineFails]_syncVars => SyncInv'
<1> SUFFICES ASSUME SessionInv, SyncInv, [Debouncer \/ Wait \/ Command \/ EngineFails]_syncVars
             PROVE  SyncInv'
  OBVIOUS
<1>1. CASE Debouncer \/ Wait
  <2>1. \A p \in Paths : Told(p) => Told(p)'
    BY <1>1, RoundKeepsTold DEF Debouncer, Wait
  <2>2. UNCHANGED <<hostVars, cliVars, client>>
    BY <1>1 DEF Debouncer, Wait, Round, LoopHead, TakeEvent, TakeFailure, TimeOut, Disconnected,
                FlushReady, FlushAll, Pass
  <2>3. QED
    BY <2>1, <2>2 DEF SyncInv, SyncTypes, WillHave, hostVars, cliVars
<1>2. CASE NextEvent
  <2>1. /\ step = "Waiting"
        /\ UNCHANGED <<hostVars, cliVars, nativeVars, workerVars, out>>
    BY <1>2 DEF NextEvent, CallRecv
  <2>2. \A p \in Paths : Told(p)' <=> Told(p)
    BY <2>1 DEF Told, Pending, nativeVars, workerVars
  <2>3. QED
    BY <2>1, <2>2 DEF SyncInv, SyncTypes, WillHave, hostVars, cliVars
<1>3. CASE Receive
  BY <1>3, ReceiveKeepsSync
<1>4. CASE BuildArchive \/ CopyToContainer \/ EngineFails
  <2>1. /\ step \in {"Archiving", "Copying"} /\ path \in Paths /\ path' = path
        /\ UNCHANGED <<vars, hostVars>>
    BY <1>4 DEF BuildArchive, CopyToContainer, EngineFails, SyncInv
  <2>2. client' = client /\ \A p \in Paths : Told(p)' <=> Told(p)
    BY <2>1 DEF Told, Pending, vars, nativeVars, workerVars
  <2>3. SyncTypes'
    BY <1>4, <2>1 DEF BuildArchive, CopyToContainer, EngineFails, SyncInv, SyncTypes, hostVars
  <2>4. client' # "Receiving"
    BY <2>1, <2>2 DEF SyncInv
  <2>5. CASE BuildArchive
    BY <2>1, <2>2, <2>3, <2>4, <2>5 DEF BuildArchive, SyncInv, WillHave, hostVars
  <2>6. CASE CopyToContainer
    <3>1. /\ step = "Copying" /\ step' = "Waiting" /\ archive' = archive
          /\ target' = [target EXCEPT ![path] = archive]
      BY <2>6 DEF CopyToContainer
    <3>2. \A p \in Paths : target'[p] = IF p = path THEN archive ELSE target[p]
      BY <3>1 DEF SyncInv, SyncTypes
    <3>3. \A p \in Paths : WillHave(p)' = WillHave(p) /\ host'[p] = host[p]
      BY <2>1, <3>1, <3>2 DEF WillHave, hostVars
    <3>4. QED
      BY <2>1, <2>2, <2>3, <2>4, <3>1, <3>3 DEF SyncInv
  <2>7. CASE EngineFails
    BY <2>3, <2>4, <2>7 DEF EngineFails, SyncInv
  <2>8. QED
    BY <1>4, <2>5, <2>6, <2>7
<1>5. CASE ReceiveClosed \/ Exit
  <2>1. /\ step' = "Exiting" /\ UNCHANGED <<hostVars, target, path, archive>>
        /\ client' # "Receiving"
    BY <1>5 DEF ReceiveClosed, RecvClosed, Exit, cliVars, SyncInv, DropSession, Joined, Gone, vars
  <2>2. QED
    BY <2>1 DEF SyncInv, SyncTypes, hostVars
<1>6. CASE UNCHANGED syncVars
  <2>1. UNCHANGED <<hostVars, cliVars, client, raw, held, out>>
    BY <1>6 DEF syncVars, vars, nativeVars, workerVars
  <2>2. \A p \in Paths : Told(p)' <=> Told(p)
    BY <2>1 DEF Told, Pending
  <2>3. QED
    BY <2>1, <2>2 DEF SyncInv, SyncTypes, WillHave, hostVars, cliVars
<1>7. QED
  BY <1>1, <1>2, <1>3, <1>4, <1>5, <1>6 DEF Command

(* The session keeps its invariant when the command owns it, and so does   *)
(* the command its own.                                                    *)
THEOREM SyncInvariant == SyncSpec => [](SessionInv /\ SyncInv)
<1>1. SyncInit => SessionInv /\ SyncInv
  BY InitSession, SyncInitInv DEF SyncInit
<1>2. SessionInv /\ SyncInv /\ [SyncNext]_syncVars => (SessionInv /\ SyncInv)'
  <2>1. SessionInv /\ [SyncNext]_syncVars => SessionInv'
    BY SyncStepsAreSteps, StepKeeps
  <2>2. SessionInv /\ SyncInv /\ [SyncNext]_syncVars => SyncInv'
    BY HostKeepsSync, CommandKeepsSync DEF SyncNext
  <2>3. QED
    BY <2>1, <2>2
<1>3. QED
  BY <1>1, <1>2, PTL DEF SyncSpec

(* Whenever the command waits and nothing is on its way to it, every file  *)
(* of the host is in the container as it is (run_debouncer, runtime_watch, *)
(* sync_watch_event).                                                      *)
THEOREM SyncSafe == SyncSpec => []SyncedAtRest
<1>1. SyncInv => SyncedAtRest
  BY DEF SyncInv, SyncedAtRest, Synced, Told, WillHave
<1>2. QED
  BY <1>1, SyncInvariant, PTL
=============================================================================

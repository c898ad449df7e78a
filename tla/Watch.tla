------------------------------- MODULE Watch -------------------------------
(***************************************************************************)
(* A watch session of crates/susun-watch: the native watcher sends raw     *)
(* events into a channel, a worker thread debounces them (run_debouncer)   *)
(* and sends normalized events into another, from which the owner of the   *)
(* session receives.  The session may be cancelled through its token from  *)
(* any thread; dropping it cancels it and joins the worker.                *)
(*                                                                         *)
(* A normalized event is its key in the worker's BTreeMap, the pair of     *)
(* relative path and kind; keys are numbered in the map's order.  What the *)
(* event carries besides (is_dir, the absolute path) is how often its key  *)
(* had been read, which tells a fresh event from a stale one.  Time passes *)
(* in units and only where the worker waits: its own steps take none.      *)
(***************************************************************************)
EXTENDS Naturals, Sequences, FiniteSets

CONSTANTS
  NumKeys,      \* the keys are 1..NumKeys
  Messages,     \* the keys one raw event may normalize into, ignored paths left out
  Debounce,     \* WatchOptions.debounce, which may be 0
  MinTick,      \* the 25 ms the worker waits at least
  MaxMessages   \* bound: the raw events sent in a behaviour

Keys == 1..NumKeys

ASSUME WatchAssumption ==
  /\ NumKeys \in Nat
  /\ Messages \subseteq SUBSET Keys
  /\ Debounce \in Nat
  /\ MinTick \in Nat \ {0}
  /\ MaxMessages \in Nat

Tick == IF Debounce > MinTick THEN Debounce ELSE MinTick

NotHeld == 0    \* the key is not in the map

\* An error of the native watcher, as it is received and as it is passed on.
Failure == {0}
FailureEvent == [key |-> 0, read |-> 0]

VARIABLES
  raw,         \* the raw channel
  native,      \* the native watcher holds the raw channel's sender
  sent,        \* how many raw events were sent
  worker,      \* the worker's location
  waited,      \* how long it has waited in recv_timeout
  held,        \* the map: what the event held for a key carries, or NotHeld
  age,         \* how long ago a held event was inserted
  out,         \* the channel of normalized events
  cancelled,   \* the token
  client,      \* where the session's owner is
  got,         \* history: what the last event received for a key carried
  reads,       \* history: how often an event with the key was read
  quiet,       \* history: how long ago the last one was, up to Debounce + Tick
  sinceCancel  \* history: how long ago the token was cancelled, up to Tick + 1

nativeVars == <<raw, native, sent>>
workerVars == <<worker, waited, held, age>>
history    == <<got, reads, quiet, sinceCancel>>
vars == <<nativeVars, workerVars, out, cancelled, client, history>>

Init ==
  /\ raw = <<>> /\ native = TRUE /\ sent = 0
  /\ worker = "Loop" /\ waited = 0
  /\ held = [k \in Keys |-> NotHeld]
  /\ age = [k \in Keys |-> 0]
  /\ out = <<>>
  /\ cancelled = FALSE
  /\ client = "Idle"
  /\ got = [k \in Keys |-> 0]
  /\ reads = [k \in Keys |-> 0]
  /\ quiet = [k \in Keys |-> 0]
  /\ sinceCancel = 0

-----------------------------------------------------------------------------
\* The native watcher.

(* It reports something, or fails.                                           *)
Notify(message) ==
  /\ native
  /\ sent < MaxMessages
  /\ sent' = sent + 1
  /\ raw' = Append(raw, message)
  /\ UNCHANGED <<native, workerVars, out, cancelled, client, history>>

(* Its thread ends and drops the sender.                                     *)
NativeEnds ==
  /\ native
  /\ native' = FALSE
  /\ UNCHANGED <<raw, sent, workerVars, out, cancelled, client, history>>

-----------------------------------------------------------------------------
\* The worker.

(* Variant: the token is not read.                                           *)
LoopForever ==
  /\ worker = "Loop"
  /\ worker' = "Recv"
  /\ waited' = 0
  /\ UNCHANGED <<nativeVars, held, age, out, cancelled, client, history>>

(* Variant: the token is read only after a round that timed out.             *)
LoopAfterTimeout ==
  /\ worker = "Loop"
  /\ worker' = IF cancelled /\ waited = Tick THEN "Drain" ELSE "Recv"
  /\ waited' = 0
  /\ UNCHANGED <<nativeVars, held, age, out, cancelled, client, history>>

(* The head of the loop: the token is read.                                  *)
LoopHead ==
  /\ worker = "Loop"
  /\ worker' = IF cancelled THEN "Drain" ELSE "Recv"
  /\ waited' = 0
  /\ UNCHANGED <<nativeVars, held, age, out, cancelled, client, history>>

(* Variant: an event already held is left as it is.                          *)
InsertIfAbsent(message) ==
  /\ held' = [k \in Keys |-> IF k \in message /\ held[k] = NotHeld THEN reads[k] + 1 ELSE held[k]]
  /\ age' = [k \in Keys |-> IF k \in message THEN 0 ELSE age[k]]

(* Variant: the time of the first insertion is kept.                         *)
InsertKeepingTime(message) ==
  /\ held' = [k \in Keys |-> IF k \in message THEN reads[k] + 1 ELSE held[k]]
  /\ age' = age

(* pending.insert, for everything a raw event normalizes into.               *)
Insert(message) ==
  /\ held' = [k \in Keys |-> IF k \in message THEN reads[k] + 1 ELSE held[k]]
  /\ age' = [k \in Keys |-> IF k \in message THEN 0 ELSE age[k]]

(* recv_timeout returns a raw event.                                         *)
TakeEvent ==
  /\ worker = "Recv"
  /\ raw # <<>> /\ Head(raw) # Failure
  /\ raw' = Tail(raw)
  /\ Insert(Head(raw))
  /\ reads' = [k \in Keys |-> IF k \in Head(raw) THEN reads[k] + 1 ELSE reads[k]]
  /\ quiet' = [k \in Keys |-> IF k \in Head(raw) THEN 0 ELSE quiet[k]]
  /\ worker' = "Flush"
  /\ UNCHANGED <<native, sent, waited, out, cancelled, client, got, sinceCancel>>

(* recv_timeout returns an error of the native watcher: it is passed on at   *)
(* once, ahead of the events held.                                           *)
TakeFailure ==
  /\ worker = "Recv"
  /\ raw # <<>> /\ Head(raw) = Failure
  /\ raw' = Tail(raw)
  /\ out' = Append(out, FailureEvent)
  /\ worker' = "Flush"
  /\ UNCHANGED <<native, sent, waited, held, age, cancelled, client, history>>

(* recv_timeout returns Timeout.                                             *)
TimeOut ==
  /\ worker = "Recv"
  /\ raw = <<>> /\ native
  /\ waited = Tick
  /\ worker' = "Flush"
  /\ UNCHANGED <<nativeVars, waited, held, age, out, cancelled, client, history>>

(* recv_timeout returns Disconnected: the loop is left.                      *)
Disconnected ==
  /\ worker = "Recv"
  /\ raw = <<>> /\ ~native
  /\ worker' = "Drain"
  /\ UNCHANGED <<nativeVars, waited, held, age, out, cancelled, client, history>>

Event == [key : Keys, read : Nat \ {0}]

(* The events held for a set of keys, in key order.                          *)
InKeyOrder(S) ==
  {s \in [1..Cardinality(S) -> {[key |-> k, read |-> held[k]] : k \in S}] :
     /\ \A i, j \in 1..Cardinality(S) : i < j => s[i].key < s[j].key
     /\ \A k \in S : \E i \in 1..Cardinality(S) : s[i].key = k}

(* The events of S are sent and leave the map.                               *)
SendHeld(S) ==
  /\ \E events \in InKeyOrder(S) : out' = out \o events
  /\ held' = [k \in Keys |-> IF k \in S THEN NotHeld ELSE held[k]]
  /\ age' = [k \in Keys |-> IF k \in S THEN 0 ELSE age[k]]

Pending == {k \in Keys : held[k] # NotHeld}

(* Variant: the map is flushed only where no raw event is waiting.           *)
FlushWhenCalm ==
  /\ worker = "Flush"
  /\ SendHeld(IF waited < Tick THEN {} ELSE {k \in Pending : age[k] >= Debounce})
  /\ worker' = "Loop"
  /\ UNCHANGED <<nativeVars, waited, cancelled, client, history>>

(* Variant: what is not ready is forgotten with what is sent.                *)
FlushAndClear ==
  /\ worker = "Flush"
  /\ LET ready == {k \in Pending : age[k] >= Debounce}
     IN  /\ \E events \in InKeyOrder(ready) : out' = out \o events
         /\ held' = IF ready = {} THEN held ELSE [k \in Keys |-> NotHeld]
         /\ age' = IF ready = {} THEN age ELSE [k \in Keys |-> 0]
  /\ worker' = "Loop"
  /\ UNCHANGED <<nativeVars, waited, cancelled, client, history>>

(* flush_ready, at the end of every round: what has been held for the        *)
(* debounce window is sent.                                                  *)
FlushReady ==
  /\ worker = "Flush"
  /\ SendHeld({k \in Pending : age[k] >= Debounce})
  /\ worker' = "Loop"
  /\ UNCHANGED <<nativeVars, waited, cancelled, client, history>>

(* Variant: the worker ends with events in the map.                          *)
EndWithoutFlush ==
  /\ worker = "Drain"
  /\ worker' = "Ended"
  /\ UNCHANGED <<nativeVars, waited, held, age, out, cancelled, client, history>>

(* flush_all, after the loop: what is still held is sent, and the worker     *)
(* ends.                                                                     *)
FlushAll ==
  /\ worker = "Drain"
  /\ SendHeld(Pending)
  /\ worker' = "Ended"
  /\ UNCHANGED <<nativeVars, waited, cancelled, client, history>>

(* Time passes while the worker is blocked in recv_timeout.                  *)
Pass ==
  /\ worker = "Recv"
  /\ raw = <<>> /\ native
  /\ waited < Tick
  /\ waited' = waited + 1
  /\ age' = [k \in Keys |-> IF k \in Pending THEN age[k] + 1 ELSE 0]
  /\ quiet' = [k \in Keys |-> IF quiet[k] < Debounce + Tick THEN quiet[k] + 1 ELSE quiet[k]]
  /\ sinceCancel' = IF cancelled /\ sinceCancel <= Tick THEN sinceCancel + 1 ELSE sinceCancel
  /\ UNCHANGED <<nativeVars, worker, held, out, cancelled, client, got, reads>>

-----------------------------------------------------------------------------
\* The owner of the session, and the token.

(* It calls recv and is blocked in it.                                       *)
CallRecv ==
  /\ client = "Idle"
  /\ client' = "Receiving"
  /\ UNCHANGED <<nativeVars, workerVars, out, cancelled, history>>

(* recv returns an event or an error of the native watcher.                  *)
RecvReturns ==
  /\ client = "Receiving"
  /\ out # <<>>
  /\ out' = Tail(out)
  /\ got' = IF Head(out) = FailureEvent THEN got ELSE [got EXCEPT ![Head(out).key] = Head(out).read]
  /\ client' = "Idle"
  /\ UNCHANGED <<nativeVars, workerVars, cancelled, reads, quiet, sinceCancel>>

(* recv returns Closed: the worker dropped its sender, nothing is left.      *)
RecvClosed ==
  /\ client = "Receiving"
  /\ out = <<>> /\ worker = "Ended"
  /\ client' = "Closed"
  /\ UNCHANGED <<nativeVars, workerVars, out, cancelled, history>>

(* WatchSession::drop cancels the token and joins the worker.                *)
DropSession ==
  /\ client \in {"Idle", "Closed"}
  /\ client' = "Joining"
  /\ cancelled' = TRUE
  /\ UNCHANGED <<nativeVars, workerVars, out, history>>

(* The join returns and the fields are dropped.                              *)
Joined ==
  /\ client = "Joining"
  /\ worker = "Ended"
  /\ client' = "Dropped"
  /\ out' = <<>>
  /\ native' = FALSE
  /\ UNCHANGED <<raw, sent, workerVars, cancelled, history>>

(* WatchCancellationToken::cancel.                                           *)
Cancel ==
  /\ ~cancelled
  /\ client # "Dropped"
  /\ cancelled' = TRUE
  /\ UNCHANGED <<nativeVars, workerVars, out, client, history>>

(* The session is gone.                                                      *)
Gone ==
  /\ client = "Dropped"
  /\ UNCHANGED vars

-----------------------------------------------------------------------------
Native == NativeEnds \/ \E message \in Messages \cup {Failure} : Notify(message)

Round ==
  LoopHead \/ TakeEvent \/ TakeFailure \/ TimeOut \/ Disconnected \/ FlushReady \/ FlushAll

Owner == RecvReturns \/ RecvClosed \/ Joined

Next == Native \/ Round \/ Pass \/ Owner \/ CallRecv \/ DropSession \/ Cancel \/ Gone

(* The worker thread is scheduled, time passes, and a blocked owner wakes up *)
(* when what it waits for is there.  Nobody has to call recv or cancel.      *)
Fairness == WF_vars(Round) /\ WF_vars(Pass) /\ WF_vars(Owner)

Spec == Init /\ [][Next]_vars /\ Fairness

-----------------------------------------------------------------------------
TypeOK ==
  /\ raw \in Seq(Messages \cup {Failure})
  /\ native \in BOOLEAN
  /\ sent \in 0..MaxMessages
  /\ worker \in {"Loop", "Recv", "Flush", "Drain", "Ended"}
  /\ waited \in 0..Tick
  /\ held \in [Keys -> Nat]
  /\ age \in [Keys -> Nat]
  /\ out \in Seq(Event \cup {FailureEvent})
  /\ cancelled \in BOOLEAN
  /\ client \in {"Idle", "Receiving", "Closed", "Joining", "Dropped"}
  /\ got \in [Keys -> Nat]
  /\ reads \in [Keys -> Nat]
  /\ quiet \in [Keys -> 0..(Debounce + Tick)]
  /\ sinceCancel \in 0..(Tick + 1)

(* An owner that receives until recv says Closed has been given, for every *)
(* key, what the worker read last: however the session ends, no event that *)
(* was read is lost or replaced by an older one (run_debouncer's insert,   *)
(* flush_ready and the final flush_all).                                   *)
ClosedAfterLatest ==
  client = "Closed" => \A k \in Keys : got[k] = reads[k]

(* While the session runs, an event is sent only when nothing with its key *)
(* was read for the whole debounce window: each new one restarts it.       *)
QuietBeforeSent ==
  [][\A k \in Keys :
       worker = "Flush" /\ held[k] # NotHeld /\ held'[k] = NotHeld => quiet[k] >= Debounce]_vars

(* Nothing waits longer than the window and a tick, however many raw       *)
(* events of other keys are waiting or still coming in: an event is held   *)
(* for less than that once its key is quiet (flush_ready runs every        *)
(* round), and the worker ends within a tick of the token's cancellation.  *)
DelaysBounded ==
  /\ \A k \in Pending : quiet[k] < Debounce + Tick
  /\ sinceCancel <= Tick

(* Once the token is cancelled nobody stays blocked: recv returns, and so  *)
(* does the drop of the session that joins the worker.                     *)
NobodyStaysBlocked ==
  cancelled /\ client \in {"Receiving", "Joining"} ~> client \notin {"Receiving", "Joining"}

-----------------------------------------------------------------------------
\* The inductive invariant behind these, in named parts.

(* What is held is the latest of its key, inserted when it was read, and   *)
(* what no longer waits for its turn has left the map.                     *)
HeldInv ==
  /\ \A k \in Pending :
       /\ held[k] = reads[k]
       /\ age[k] = quiet[k]
       /\ worker = "Loop" => age[k] < Debounce
       /\ worker = "Recv" => age[k] < Debounce + waited
       /\ age[k] < Debounce + Tick
  /\ worker = "Ended" => Pending = {}

(* The channel holds the events of a key from older to newer, all newer    *)
(* than what was received and older than what is held; the latest is held, *)
(* in the channel or received.                                             *)
OrderInv ==
  /\ \A i \in 1..Len(out) :
       out[i].key # 0 =>
         /\ got[out[i].key] < out[i].read
         /\ out[i].read <= reads[out[i].key]
         /\ out[i].key \in Pending => out[i].read < held[out[i].key]
         /\ \A j \in 1..Len(out) : i < j /\ out[j].key = out[i].key => out[i].read < out[j].read
  /\ \A k \in Keys : got[k] <= reads[k]
  /\ \A k \in Pending : got[k] < held[k]

LatestInv ==
  client # "Dropped" =>
    \A k \in Keys \ Pending :
      got[k] = reads[k] \/ \E i \in 1..Len(out) : out[i] = [key |-> k, read |-> reads[k]]

(* The worker is never longer past the cancellation than it has waited.    *)
CancelInv ==
  /\ ~cancelled => sinceCancel = 0
  /\ sinceCancel <= Tick
  /\ worker \notin {"Drain", "Ended"} => sinceCancel <= waited

OwnerInv ==
  /\ client = "Closed" => worker = "Ended" /\ out = <<>>
  /\ client \in {"Joining", "Dropped"} => cancelled

(* Everything the proofs rest on: every step preserves it                  *)
(* (WatchProofs.tla).                                                      *)
SessionInv == TypeOK /\ HeldInv /\ OrderInv /\ LatestInv /\ CancelInv /\ OwnerInv
=============================================================================

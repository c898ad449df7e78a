----------------------------- MODULE WatchSync -----------------------------
(***************************************************************************)
(* `susun watch` with the sync action (runtime_watch, sync_watch_event of  *)
(* crates/susun-cli): a host directory that changes, the watch session of  *)
(* Watch, and the command's loop, which copies the file an event names, as *)
(* it is when the command gets to it, into the container.                  *)
(*                                                                         *)
(* Every file matches a --sync mapping.  What a file contains is the       *)
(* number of the write it comes from.                                      *)
(***************************************************************************)
EXTENDS Watch

CONSTANTS
  NumPaths,  \* the files are 1..NumPaths
  Existing   \* the files there are when the command starts

Paths == 1..NumPaths

\* WatchEventKind, in its derived order.  Other events are not produced here.
Created == 1
Modified == 2
Removed == 3
Renamed == 4

\* The worker's map is ordered by path, then by kind.
KeyOf(p, kind) == 4 * (p - 1) + kind
KindOf(key) == ((key - 1) % 4) + 1
PathOf(key) == ((key - 1) \div 4) + 1

\* What one change of the directory normalizes into.
Changes ==
  {{KeyOf(p, kind)} : p \in Paths, kind \in {Created, Modified, Removed}}
    \cup {{KeyOf(p, Renamed), KeyOf(q, Renamed)} : p, q \in Paths}

ASSUME SyncAssumption ==
  /\ NumPaths \in Nat /\ NumKeys = 4 * NumPaths
  /\ Changes \subseteq Messages
  /\ Existing \subseteq Paths

VARIABLES
  host,      \* the write each file's content comes from, 0 if there is no file
  writes,    \* how many writes there were
  target,    \* the same of the container's files
  step,      \* where the command is
  path,      \* the file it is syncing
  archive    \* the content in the archive it built

hostVars == <<host, writes>>
cliVars  == <<target, step, path, archive>>
syncVars == <<vars, hostVars, cliVars>>

SyncInit ==
  /\ Init
  /\ host = [p \in Paths |-> IF p \in Existing THEN 1 ELSE 0]
  /\ writes = 1
  /\ target = host
  /\ step = "Waiting" /\ path = 0 /\ archive = 0

-----------------------------------------------------------------------------
\* The host's files.  The native watcher reports every change after it.

(* A file is created or written to.                                          *)
Write(p) ==
  /\ host' = [host EXCEPT ![p] = writes + 1]
  /\ writes' = writes + 1
  /\ Notify({KeyOf(p, IF host[p] = 0 THEN Created ELSE Modified)})
  /\ UNCHANGED cliVars

Remove(p) ==
  /\ host[p] # 0
  /\ host' = [host EXCEPT ![p] = 0]
  /\ Notify({KeyOf(p, Removed)})
  /\ UNCHANGED <<writes, cliVars>>

(* One event names both files.                                               *)
Rename(p, q) ==
  /\ p # q /\ host[p] # 0
  /\ host' = [host EXCEPT ![p] = 0, ![q] = host[p]]
  /\ Notify({KeyOf(p, Renamed), KeyOf(q, Renamed)})
  /\ UNCHANGED <<writes, cliVars>>

(* The native watcher fails, or ends.                                        *)
NativeTrouble ==
  /\ Notify(Failure) \/ NativeEnds
  /\ UNCHANGED <<hostVars, cliVars>>

-----------------------------------------------------------------------------
\* The command.

(* It calls recv again.                                                      *)
NextEvent ==
  /\ step = "Waiting"
  /\ CallRecv
  /\ UNCHANGED <<hostVars, cliVars>>

(* Variant: renames are only reported too.                                   *)
ReceiveIgnoringRenames ==
  /\ RecvReturns
  /\ LET event == Head(out)
     IN  IF event = FailureEvent
         THEN step' = "Exiting" /\ path' = path
         ELSE IF KindOf(event.key) \in {Removed, Renamed}
              THEN step' = "Waiting" /\ path' = path
              ELSE step' = "Archiving" /\ path' = PathOf(event.key)
  /\ UNCHANGED <<hostVars, target, archive>>

(* recv returns.  An error ends the command, a removal is only reported, and *)
(* for any other event the file it names is to be copied.                    *)
Receive ==
  /\ RecvReturns
  /\ LET event == Head(out)
     IN  IF event = FailureEvent
         THEN step' = "Exiting" /\ path' = path
         ELSE IF KindOf(event.key) = Removed
              THEN step' = "Waiting" /\ path' = path
              ELSE step' = "Archiving" /\ path' = PathOf(event.key)
  /\ UNCHANGED <<hostVars, target, archive>>

(* recv returns Closed.                                                      *)
ReceiveClosed ==
  /\ RecvClosed
  /\ step' = "Exiting"
  /\ UNCHANGED <<hostVars, target, path, archive>>

(* build_host_archive reads the file, or fails because it is gone.           *)
BuildArchive ==
  /\ step = "Archiving"
  /\ archive' = host[path]
  /\ step' = IF host[path] = 0 THEN "Exiting" ELSE "Copying"
  /\ UNCHANGED <<vars, hostVars, target, path>>

(* copy_to_container succeeds.                                               *)
CopyToContainer ==
  /\ step = "Copying"
  /\ target' = [target EXCEPT ![path] = archive]
  /\ step' = "Waiting"
  /\ UNCHANGED <<vars, hostVars, path, archive>>

(* The engine, its snapshot or the copy fails, or no container of the        *)
(* service is running.                                                       *)
EngineFails ==
  /\ step \in {"Archiving", "Copying"}
  /\ step' = "Exiting"
  /\ UNCHANGED <<vars, hostVars, target, path, archive>>

(* The command returns; the session is dropped on the way out.               *)
Exit ==
  /\ step = "Exiting"
  /\ DropSession \/ Joined \/ Gone
  /\ UNCHANGED <<hostVars, cliVars>>

-----------------------------------------------------------------------------
(* What becomes of the host once the command is to exit is of no interest. *)
Host ==
  /\ step # "Exiting"
  /\ \/ \E p \in Paths : Write(p) \/ Remove(p) \/ \E q \in Paths : Rename(p, q)
     \/ NativeTrouble

Debouncer == Round /\ UNCHANGED <<hostVars, cliVars>>

Wait == Pass /\ UNCHANGED <<hostVars, cliVars>>

Command == NextEvent \/ Receive \/ ReceiveClosed \/ BuildArchive \/ CopyToContainer \/ Exit

SyncNext == Host \/ Debouncer \/ Wait \/ Command \/ EngineFails

(* The worker and the command are scheduled, and time passes.  The host need *)
(* not do anything, nor need anything fail.                                  *)
SyncSpec ==
  /\ SyncInit /\ [][SyncNext]_syncVars
  /\ WF_syncVars(Debouncer) /\ WF_syncVars(Wait) /\ WF_syncVars(Command)

-----------------------------------------------------------------------------
Synced == \A p \in Paths : host[p] # 0 => target[p] = host[p]

(* When the command waits and nothing is on its way to it, every file on   *)
(* the host is in the container as it is, although changes are coalesced,  *)
(* kinds are delivered out of order and a file may change while it is      *)
(* being copied (sync_watch_event reads the file when it gets to it).      *)
SyncedAtRest ==
  /\ client = "Receiving" /\ raw = <<>> /\ out = <<>> /\ Pending = {}
    => Synced

(* After the host's last change the container catches up for good, unless  *)
(* the command has ended.                                                  *)
CatchesUp == <>[](step = "Exiting" \/ Synced)
=============================================================================

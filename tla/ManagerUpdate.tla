----------------------------- MODULE ManagerUpdate -----------------------------
(***************************************************************************)
(* Manager replaces its own release.  A worker outside the installation    *)
(* drains the running work, stops Manager, renames the items of the release*)
(* one by one, starts it again and checks it; any failure puts the old     *)
(* items back.  A power loss may come between any two effects on disk: the *)
(* recovery task starts a worker every minute, and the boot task runs one  *)
(* on the files alone before PM2 starts Manager.                           *)
(*                                                                         *)
(* One update job, prepared and verified.  The processes Manager, pgweb and*)
(* phpMyAdmin are one process; saves that only add a message, the backup's *)
(* contents and the runner's own files are left out.                       *)
(***************************************************************************)
EXTENDS Naturals, FiniteSets

CONSTANTS
    Count,          \* ITEMS that the staged release has, in order
    Original,       \* those the installed release has too
    Directories,    \* those that are directories
    Workers,        \* processes that run the worker's main
    Leased,         \* operations under updateProtected
    Requests,       \* operations a request enters in a busy table
    NoLock, Gone,
    MaxCrashes, MaxFaults, MaxRollbacks

Items == 1..Count
Operations == Leased \cup Requests

ASSUME UpdateConstants ==
    /\ Count \in Nat \ {0}
    /\ Original \subseteq Items /\ Directories \subseteq Items
    /\ Original # {}
    /\ Leased \cap Requests = {}
    /\ Gone \notin Workers
    /\ NoLock \notin [by: Workers \cup {Gone}, written: BOOLEAN]
    /\ MaxCrashes \in Nat /\ MaxFaults \in Nat /\ MaxRollbacks \in Nat

VARIABLES
    disk,           \* state.json
    marker,         \* .manager-maintenance.json exists
    lock,           \* worker.lock: none, or by whom, and whether it is written
    at,             \* which release's copy of an item a place holds
    running,        \* the release PM2 runs as Manager
    pm2,            \* the PM2 daemon
    pc, mode, mem,  \* a worker: its step, its argument, its copy of the state
    todo,           \* items left in its loop
    ui,             \* a rollback request between its two writes
    op, trace,      \* an operation; those with a lease or a busy row
    crashes, faults, rollbacks

manager == <<running, pm2, ui, op, trace>>
bounds  == <<crashes, faults, rollbacks>>
vars    == <<disk, marker, lock, at, manager, pc, mode, mem, todo, bounds>>

Terminal == {"succeeded", "rolled_back", "failed"}
Phases == Terminal \cup {"ready", "queued", "draining", "stopping", "activating",
    "checking", "rollback_requested", "rolling_back", "recovery_failed"}
Applying == {"verify", "idle", "mark", "drain", "drained", "stopping", "stop",
    "backup", "plan", "replace", "install", "check", "restart", "health", "succeed"}
Recovering == {"preflight", "prestart", "rollback", "rstop", "restore", "putback",
    "totarget", "rrestart", "rhealth", "rolledback"}
Steps == Applying \cup Recovering \cup {"off", "look", "lock", "inspect", "unlink",
    "relock", "write", "caught", "broken", "unmark", "unlock", "unlockError"}
Places == {"stage", "target", "previous", "failed"}

State == [phase: Phases, stopped: BOOLEAN, items: SUBSET Items,
          manual: BOOLEAN, started: BOOLEAN]

TypeOK ==
    /\ disk \in State
    /\ marker \in BOOLEAN
    /\ lock \in {NoLock} \cup [by: Workers \cup {Gone}, written: BOOLEAN]
    /\ at \in [Places -> [Items -> {"none", "old", "new"}]]
    /\ running \in {"off", "old", "new", "mixed"}
    /\ pm2 \in {"up", "booting", "down"}
    /\ pc \in [Workers -> Steps]
    /\ mode \in [Workers -> {"run", "files-only"}]
    /\ mem \in [Workers -> State]
    /\ todo \in [Workers -> SUBSET Items]
    /\ ui \in {NoLock} \cup State
    /\ op \in [Operations -> {"off", "checked", "leased", "working"}]
    /\ trace \subseteq Operations
    /\ crashes \in 0..MaxCrashes
    /\ faults \in 0..MaxFaults
    /\ rollbacks \in 0..MaxRollbacks

Fresh == [phase |-> "ready", stopped |-> FALSE, items |-> {},
          manual |-> FALSE, started |-> FALSE]

Init ==
    /\ disk = Fresh /\ marker = FALSE /\ lock = NoLock
    /\ at = [p \in Places |-> [i \in Items |->
                CASE p = "stage" -> "new"
                  [] p = "target" /\ i \in Original -> "old"
                  [] OTHER -> "none"]]
    /\ running = "old" /\ pm2 = "up"
    /\ pc = [w \in Workers |-> "off"] /\ mode = [w \in Workers |-> "run"]
    /\ mem = [w \in Workers |-> Fresh] /\ todo = [w \in Workers |-> {}]
    /\ ui = NoLock
    /\ op = [o \in Operations |-> "off"] /\ trace = {}
    /\ crashes = 0 /\ faults = 0 /\ rollbacks = 0

\* What Manager would be if it were started from the files as they are.
IsOld == \A i \in Items : at["target"][i] = IF i \in Original THEN "old" ELSE "none"
IsNew == \A i \in Items : at["target"][i] = "new"
Installed == IF IsOld THEN "old" ELSE IF IsNew THEN "new" ELSE "mixed"

---------------------------------------------------------------------------
(* What a worker's step does: in general it is at one step, goes to another *)
(* and leaves the rest alone.                                               *)

Loop(w, step) == pc[w] = step /\ UNCHANGED <<lock, mode, bounds>>
At(w, step)   == Loop(w, step) /\ UNCHANGED todo
Goto(w, step) == pc' = [pc EXCEPT ![w] = step]
NotSaved      == UNCHANGED <<disk, mem>>
NoMove(w, next) == Goto(w, next) /\ NotSaved /\ UNCHANGED <<marker, at, manager>>

\* S.save: state.json becomes the worker's own copy with some fields changed.
Save(w, s, next) ==
    /\ disk' = s /\ mem' = [mem EXCEPT ![w] = s]
    /\ Goto(w, next)
    /\ UNCHANGED <<marker, at, manager>>
SavePhase(w, phase, next) == Save(w, [mem[w] EXCEPT !.phase = phase], next)

\* An exception in apply is caught by main; elsewhere it ends the recovery.
Throw(w) == NoMove(w, IF pc[w] \in Applying THEN "caught" ELSE "broken")
Check(w, step, ok, next) == At(w, step) /\ IF ok THEN NoMove(w, next) ELSE Throw(w)

Move(w, i, from, to, next) ==
    IF at[from][i] # "none" /\ (at[to][i] = "none" \/ i \notin Directories)
    THEN /\ at' = [at EXCEPT ![from][i] = "none", ![to][i] = at[from][i]]
         /\ Goto(w, next) /\ NotSaved /\ UNCHANGED <<marker, manager>>
    ELSE Throw(w)

\* Manager's process ends, and with it everything it was doing.
StopManager ==
    /\ running' = "off"
    /\ op' = [o \in Operations |-> "off"]
    /\ ui' = NoLock
PM2Stop(w, step, next) ==
    /\ At(w, step)
    /\ IF pm2 = "up"
       THEN StopManager /\ Goto(w, next) /\ NotSaved /\ UNCHANGED <<marker, at, pm2, trace>>
       ELSE Throw(w)
PM2Restart(w, step, next) ==
    /\ At(w, step)
    /\ IF pm2 = "up"
       THEN /\ running' = Installed
            /\ Goto(w, next) /\ NotSaved /\ UNCHANGED <<marker, at, pm2, ui, op, trace>>
       ELSE Throw(w)

---------------------------------------------------------------------------
(* main *)

\* The worker ends.  When it ran for the boot task, PM2 starts Manager unless
\* it failed.
End(w, ok) ==
    /\ Goto(w, "off")
    /\ pm2' = IF mode[w] = "run" THEN pm2 ELSE IF ok THEN "up" ELSE "down"
    /\ running' = IF mode[w] = "files-only" /\ ok THEN Installed ELSE running
    /\ UNCHANGED <<disk, mem, at, todo, mode, ui, op, trace, bounds>>

\* The recovery task, startWorker, or the boot task: the state is read first.
Start(w, m) ==
    /\ pc[w] = "off"
    /\ m = "files-only" => pm2 # "up" /\ \A v \in Workers : pc[v] # "off" => mode[v] = "run"
    /\ Goto(w, "look")
    /\ mode' = [mode EXCEPT ![w] = m] /\ mem' = [mem EXCEPT ![w] = disk]
    /\ UNCHANGED <<disk, marker, lock, at, manager, todo, bounds>>

\* Nothing to do for an update that is over; the marker it left is removed.
NothingToDo(w) ==
    /\ pc[w] = "look" /\ mem[w].phase \in Terminal \cup {"ready"}
    /\ marker' = (marker /\ mem[w].phase \notin {"succeeded", "rolled_back"})
    /\ End(w, TRUE) /\ UNCHANGED lock

SetLock(w, value, next) ==
    lock' = value /\ NoMove(w, next) /\ UNCHANGED <<mode, todo, bounds>>
Created(w) == [by |-> w, written |-> FALSE]

TryLock(w) ==
    /\ pc[w] = "look" /\ mem[w].phase \notin Terminal \cup {"ready"}
    /\ IF lock = NoLock THEN SetLock(w, Created(w), "write") ELSE SetLock(w, lock, "inspect")

\* A vanished or empty lock file is no JSON; a live holder is left alone.
LeaveLocked(w) ==
    /\ pc[w] = "inspect"
    /\ (lock # NoLock /\ lock.written) => lock.by # Gone
    /\ End(w, lock # NoLock /\ lock.written) /\ UNCHANGED <<marker, lock>>

JudgeStale(w) ==
    /\ pc[w] = "inspect"
    /\ lock # NoLock /\ lock.written /\ lock.by = Gone
    /\ SetLock(w, lock, "unlink")

\* The stale lock is removed by name, whoever's it is by then.
RemoveLock(w) ==
    /\ pc[w] = "unlink"
    /\ IF lock = NoLock THEN End(w, FALSE) /\ UNCHANGED <<marker, lock>>
       ELSE SetLock(w, NoLock, "relock")

LockAgain(w) ==
    /\ pc[w] = "relock"
    /\ IF lock # NoLock THEN End(w, FALSE) /\ UNCHANGED <<marker, lock>>
       ELSE SetLock(w, Created(w), "write")

Dispatch(w) ==
    IF mem[w].phase = "queued" /\ mode[w] = "run" THEN "verify"
    ELSE IF mem[w].manual /\ ~mem[w].started /\ mode[w] = "run" THEN "preflight"
    ELSE "rollback"

\* Written through the open file, which another worker may have unlinked.
WriteLock(w) ==
    /\ pc[w] = "write"
    /\ SetLock(w, IF lock # NoLock /\ lock.by = w THEN [lock EXCEPT !.written = TRUE] ELSE lock,
               Dispatch(w))

\* finally { unlinkSync(lock) }, by name.
Unlock(w) ==
    /\ pc[w] \in {"unlock", "unlockError"}
    /\ lock' = NoLock
    /\ End(w, pc[w] = "unlock" /\ lock # NoLock) /\ UNCHANGED marker

\* Mutant: a failed update leaves the marker.
CaughtKeepsMarker(w) == At(w, "caught") /\
    IF mem[w].stopped THEN NoMove(w, "rollback") ELSE SavePhase(w, "failed", "unlock")

\* The handler of apply's errors.
Caught(w) == At(w, "caught") /\
    IF mem[w].stopped THEN NoMove(w, "rollback") ELSE SavePhase(w, "failed", "unmark")

\* Mutant: a failed recovery opens Manager again.
BrokenUnmarked(w) ==
    /\ At(w, "broken") /\ marker' = FALSE
    /\ disk' = [mem[w] EXCEPT !.phase = "recovery_failed"] /\ mem' = [mem EXCEPT ![w] = disk']
    /\ Goto(w, "unlockError") /\ UNCHANGED <<at, manager>>

Broken(w) == At(w, "broken") /\ SavePhase(w, "recovery_failed", "unlockError")

\* After succeeded, rolled_back or failed was saved.
Unmark(w) ==
    /\ At(w, "unmark")
    /\ marker' = FALSE
    /\ Goto(w, "unlock") /\ NotSaved /\ UNCHANGED <<at, manager>>

---------------------------------------------------------------------------
(* apply *)

Idle == trace = {}
\* Requests that passed the middleware before the marker was there have their
\* row, or were refused, when the 15 seconds are over.
Drained == marker => \A o \in Requests : op[o] # "checked"

\* Manager must be online, and the staged files as inventoried.
Verify(w)     == Check(w, "verify", pm2 = "up" /\ running # "off", "idle")
AssertIdle(w) == Check(w, "idle", Idle, "mark")
Mark(w) ==
    /\ At(w, "mark")
    /\ marker' = TRUE
    /\ Goto(w, "drain") /\ NotSaved /\ UNCHANGED <<at, manager>>
SaveDraining(w)  == At(w, "drain") /\ SavePhase(w, "draining", "drained")
AssertDrained(w) == Drained /\ Check(w, "drained", Idle, "stopping")
SaveStopping(w)  == At(w, "stopping") /\
    Save(w, [mem[w] EXCEPT !.phase = "stopping", !.stopped = TRUE], "stop")
Stop(w)   == PM2Stop(w, "stop", "backup")
Backup(w) == Check(w, "backup", Idle, "plan")

\* The items are journaled before the first rename.
Staged == {i \in Items : at["stage"][i] # "none"}

Plan(w) ==
    /\ Loop(w, "plan")
    /\ Save(w, [mem[w] EXCEPT !.phase = "activating", !.items = Staged], "replace")
    /\ todo' = [todo EXCEPT ![w] = Staged]

First(S, i) == i \in S /\ \A j \in S : i <= j
Last(S, i)  == i \in S /\ \A j \in S : j <= i

\* The installed item is kept, if there was one; then the staged one takes its place.
Replace(w) == \E i \in Items :
    /\ At(w, "replace") /\ First(todo[w], i)
    /\ IF i \in Original THEN Move(w, i, "target", "previous", "install")
       ELSE NoMove(w, "install")
Install(w) == \E i \in Items :
    /\ Loop(w, "install") /\ First(todo[w], i)
    /\ Move(w, i, "stage", "target", "replace")
    /\ todo' = [todo EXCEPT ![w] = @ \ {i}]

SaveChecking(w) ==
    /\ At(w, "replace") /\ todo[w] = {}
    /\ SavePhase(w, "checking", "restart")
Restart(w) == PM2Restart(w, "restart", "health")
Health(w)  == Check(w, "health", running = "new", "succeed")
Succeed(w) == At(w, "succeed") /\ SavePhase(w, "succeeded", "unmark")

---------------------------------------------------------------------------
(* recover, and a rollback an administrator asked for *)

\* Running work puts a requested rollback off.
Preflight(w) == At(w, "preflight") /\ Drained /\
    IF Idle THEN NoMove(w, "prestart") ELSE SavePhase(w, "succeeded", "unmark")
Prestart(w) == At(w, "prestart") /\
    IF pm2 = "up"
    THEN Save(w, [mem[w] EXCEPT !.phase = "rolling_back", !.stopped = TRUE, !.started = TRUE], "rollback")
    ELSE Throw(w)

Rollback(w) == At(w, "rollback") /\
    SavePhase(w, "rolling_back", IF mode[w] = "run" THEN "rstop" ELSE "restore")

\* Mutant: Manager runs on.
RestoreWithoutStop(w) == At(w, "rstop") /\ NoMove(w, "restore")

StopForRestore(w) == PM2Stop(w, "rstop", "restore")

Restore(w) ==
    /\ Loop(w, "restore")
    /\ SavePhase(w, "rolling_back", "putback")
    /\ todo' = [todo EXCEPT ![w] = mem[w].items]

\* In reverse order; an item whose old copy is back already is left alone.
SkipRestored(w) == \E i \in Items :
    /\ Loop(w, "putback") /\ Last(todo[w], i)
    /\ i \in Original /\ at["previous"][i] = "none"
    /\ NoMove(w, "putback")
    /\ todo' = [todo EXCEPT ![w] = @ \ {i}]

\* Mutant: an item that is back already is moved again.
PutAsideAlways(w) == \E i \in Items :
    /\ At(w, "putback") /\ Last(todo[w], i)
    /\ IF at["target"][i] # "none" THEN Move(w, i, "target", "failed", "totarget")
       ELSE NoMove(w, "totarget")

PutAside(w) == \E i \in Items :
    /\ At(w, "putback") /\ Last(todo[w], i)
    /\ i \in Original => at["previous"][i] # "none"
    /\ IF at["target"][i] # "none" THEN Move(w, i, "target", "failed", "totarget")
       ELSE NoMove(w, "totarget")
PutBack(w) == \E i \in Items :
    /\ Loop(w, "totarget") /\ Last(todo[w], i)
    /\ IF i \in Original THEN Move(w, i, "previous", "target", "putback")
       ELSE NoMove(w, "putback")
    /\ todo' = [todo EXCEPT ![w] = @ \ {i}]

Restored(w) == At(w, "putback") /\ todo[w] = {} /\
    NoMove(w, IF mode[w] = "run" THEN "rrestart" ELSE "unlock")
RestartOld(w) == PM2Restart(w, "rrestart", "rhealth")

HealthOld(w)  == Check(w, "rhealth", running = "old", "rolledback")
RolledBack(w) == At(w, "rolledback") /\ SavePhase(w, "rolled_back", "unmark")

---------------------------------------------------------------------------
(* The dashboard. *)

Online == running # "off"
Nothing == UNCHANGED <<pc, mode, mem, todo, lock, at, running, pm2>>

\* install, cancel and recover: read and saved in one turn of Manager's loop.
Request(from, to) ==
    /\ Online /\ ui = NoLock /\ disk.phase \in from
    /\ disk' = [disk EXCEPT !.phase = to]
    /\ UNCHANGED <<marker, ui, op, trace, bounds>> /\ Nothing
InstallUpdate == Request({"ready"}, "queued")
CancelUpdate  == Request({"ready"}, "failed")
RetryRecovery == Request({"recovery_failed"}, "rollback_requested")

\* rollback sets the marker first, and then saves what it had read.
RequestRollback ==
    /\ Online /\ ui = NoLock /\ disk.phase = "succeeded"
    /\ rollbacks < MaxRollbacks /\ rollbacks' = rollbacks + 1
    /\ ui' = [disk EXCEPT !.phase = "rollback_requested", !.manual = TRUE, !.started = FALSE]
    /\ marker' = TRUE
    /\ UNCHANGED <<disk, op, trace, crashes, faults>> /\ Nothing
SaveRollback ==
    /\ ui # NoLock
    /\ disk' = ui /\ ui' = NoLock
    /\ UNCHANGED <<marker, op, trace, bounds>> /\ Nothing

---------------------------------------------------------------------------
(* Operations an update must not interrupt. *)

Becomes(o, step) == op' = [op EXCEPT ![o] = step]
Others == UNCHANGED <<disk, marker, ui, bounds>> /\ Nothing

Begin(o) ==     \* the middleware, or updateProtected's first look
    /\ Online /\ ~marker /\ op[o] = "off" /\ o \notin trace
    /\ Becomes(o, "checked") /\ UNCHANGED trace /\ Others
Enter(o) ==     \* the request's row in a busy table
    /\ o \in Requests /\ op[o] = "checked"
    /\ Becomes(o, "working") /\ trace' = trace \cup {o} /\ Others
Lease(o) ==
    /\ o \in Leased /\ op[o] = "checked"
    /\ Becomes(o, "leased") /\ trace' = trace \cup {o} /\ Others
\* Mutant: no second look at the marker.
LookOnce(o) ==
    /\ op[o] = "leased"
    /\ Becomes(o, "working") /\ UNCHANGED trace /\ Others

LookAgain(o) ==
    /\ op[o] = "leased" /\ ~marker
    /\ Becomes(o, "working") /\ UNCHANGED trace /\ Others
Finish(o) ==    \* done, or refused at the second look
    /\ op[o] = "working" \/ (op[o] = "leased" /\ marker)
    /\ Becomes(o, "off") /\ trace' = trace \ {o} /\ Others
ClearRow(o) ==  \* initialize, or the recovery of the job's own kind
    /\ Online /\ ~marker /\ o \in Requests /\ op[o] = "off" /\ o \in trace
    /\ trace' = trace \ {o} /\ UNCHANGED op /\ Others

---------------------------------------------------------------------------
(* Failures. *)

\* A service the step calls fails: PM2, the database, the disk, a check.
Fault(w) ==
    /\ pc[w] \in Applying \cup Recovering
    /\ faults < MaxFaults /\ faults' = faults + 1
    /\ Throw(w) /\ UNCHANGED <<lock, mode, todo, crashes, rollbacks>>

\* A power loss.  What is on disk and in the database stays.
Crash ==
    /\ crashes < MaxCrashes /\ crashes' = crashes + 1
    /\ StopManager /\ pm2' = "booting"
    /\ pc' = [w \in Workers |-> "off"]
    /\ lock' = IF lock = NoLock THEN NoLock ELSE [lock EXCEPT !.by = Gone]
    /\ UNCHANGED <<disk, marker, at, trace, mode, mem, todo, faults, rollbacks>>

---------------------------------------------------------------------------
Main(w) == NothingToDo(w) \/ TryLock(w) \/ LeaveLocked(w) \/ JudgeStale(w)
    \/ RemoveLock(w) \/ LockAgain(w) \/ WriteLock(w) \/ Unlock(w)
    \/ Caught(w) \/ Broken(w) \/ Unmark(w)
Apply(w) == Verify(w) \/ AssertIdle(w) \/ Mark(w) \/ SaveDraining(w)
    \/ AssertDrained(w) \/ SaveStopping(w) \/ Stop(w) \/ Backup(w) \/ Plan(w)
    \/ Replace(w) \/ Install(w) \/ SaveChecking(w) \/ Restart(w) \/ Health(w)
    \/ Succeed(w)
Recover(w) == Preflight(w) \/ Prestart(w) \/ Rollback(w) \/ StopForRestore(w)
    \/ Restore(w) \/ PutAside(w) \/ SkipRestored(w) \/ PutBack(w) \/ Restored(w)
    \/ RestartOld(w) \/ HealthOld(w) \/ RolledBack(w)
Dashboard == InstallUpdate \/ CancelUpdate \/ RetryRecovery \/ RequestRollback \/ SaveRollback
Operation(o) == Begin(o) \/ Enter(o) \/ Lease(o) \/ LookAgain(o) \/ Finish(o) \/ ClearRow(o)

Next ==
    \/ \E w \in Workers : Start(w, "run") \/ Start(w, "files-only")
                       \/ Main(w) \/ Apply(w) \/ Recover(w) \/ Fault(w)
    \/ Dashboard
    \/ \E o \in Operations : Operation(o)
    \/ Crash

Spec == Init /\ [][Next]_vars

\* The recovery task comes every minute, the boot task after every power loss
\* (strongly fair, since both run in the one worker of an instance), and a worker
\* that started goes on; what Manager does for its users ends too.
FairSpec == Spec
    /\ \A w \in Workers : WF_vars(Start(w, "run")) /\ SF_vars(Start(w, "files-only")) /\ WF_vars(Main(w) \/ Apply(w) \/ Recover(w))
    /\ \A o \in Operations : WF_vars(Enter(o) \/ Lease(o) \/ LookAgain(o) \/ Finish(o))
    /\ WF_vars(SaveRollback)

---------------------------------------------------------------------------
(* Properties. *)

\* The old copy of an item is never lost: it is installed or set aside in
\* `previous`, whatever is interrupted (activate, restore).
OriginalKept == \A i \in Original : at["target"][i] = "old" \/ at["previous"][i] = "old"

\* PM2 never runs a release of which only some items are replaced (boot.ps1,
\* restart): files are renamed while Manager is stopped.
WholeRelease == running # "mixed"

\* An update by one worker, without a power loss and before a rollback is requested,
\* stops Manager only when no operation runs in it (updateProtected, middleware,
\* assertIdle).  A second worker can stop it beside one (README, section 6).
OperationsFinish ==
    [][running' = "off" /\ crashes' = 0 /\ rollbacks = 0
          => \A o \in Operations : op[o] # "working"]_vars

\* With one worker: no new work from the drain to the verdict, and on while a
\* recovery has failed.  A second worker can go on without the marker (README,
\* section 6); a rollback requested while the worker ends may lose the marker to
\* it; and after a power loss a job that was only queued is rolled back without one.
MarkerCoversUpdate == rollbacks = 0 /\ crashes = 0 /\ disk.phase \in
    {"draining", "stopping", "activating", "checking", "rolling_back", "recovery_failed"}
        => marker

\* The lock file lets one worker at a time past main:203.
OneWorker == \A v, w \in Workers :
    pc[v] \in Applying \cup Recovering /\ pc[w] \in Applying \cup Recovering => v = w

\* A lock file whose writer lost power before it had its content: JSON.parse
\* throws in every later worker, which takes the lock for held.
Unreadable == lock # NoLock /\ lock.by = Gone /\ ~lock.written

\* An update that was started, and a rollback, end with a verdict and an open
\* Manager, whatever fails and however often power is lost, unless a power loss
\* leaves an unreadable lock or the marker of a failed update (main:181 removes
\* only those of the others), or the boot task failed and PM2 was not started.
Over == disk.phase \in Terminal /\ (marker => crashes > 0 /\ disk.phase = "failed")
UpdateEnds == disk.phase \notin Terminal \cup {"ready"} ~> Over \/ Unreadable \/ pm2 = "down"

\* Files change only under a stopped Manager, which only ever runs a whole
\* release, and the verdict names the installed one (UpdatePromise).
Verdict == IF disk.phase = "succeeded" THEN "new"
           ELSE IF disk.phase \in Terminal THEN "old" ELSE "open"
Promise == INSTANCE UpdatePromise WITH
    installed <- Installed, serving <- running, verdict <- Verdict
KeepsPromise == Promise!Spec
=============================================================================

--------------------------- MODULE DeployAdmission ---------------------------
(***************************************************************************)
(* Admission of deployments and of other project operations (console,      *)
(* checkout, start method, cleanup) for ONE application, and the life of   *)
(* the in-process deployment loop as far as admission can see it.          *)
(*                                                                         *)
(* The durable state is the `deployments` table and the session advisory   *)
(* lock ('manager-project', id); the volatile state is the two in-memory   *)
(* sets activeDeployments and cancelledDeployments and the JavaScript      *)
(* continuations (pc).  Every await of the code is a step of its own.      *)
(***************************************************************************)
EXTENDS Naturals, FiniteSets

CONSTANTS
    Deployments,    \* calls of createDeployment, each the row it may insert
    Operations,     \* other callers of acquireProjectOperation
    NoOne,          \* the advisory lock is free
    MaxRestarts,    \* bound on Manager restarts
    MaxFaults       \* bound on failing database writes

ASSUME AdmissionConstants ==
    /\ Deployments \cap Operations = {}
    /\ NoOne \notin Deployments \cup Operations
    /\ MaxRestarts \in Nat
    /\ MaxFaults \in Nat

VARIABLES
    status,     \* deployments.status of the row of each call ("none": no row)
    overdue,    \* rows whose started_at is more than 30 minutes ago
    active,     \* activeDeployments
    cancelled,  \* cancelledDeployments
    holder,     \* session that holds pg_try_advisory_lock('manager-project')
    pc,         \* where each createDeployment / runDeployAsync call is
    found,      \* rows isDeployRunning read for each call
    stale,      \* staleDeployments of each call, not updated yet
    op,         \* where each other operation is
    request,    \* where the cancel request of each row is
    boot,       \* startup of the Manager process
    orphans,    \* ids cleanupOrphanedDeployments selected at startup
    restarts, faults

vars == <<status, overdue, active, cancelled, holder, pc, found, stale, op,
          request, boot, orphans, restarts, faults>>

Admitting == {"select", "filter", "expire", "acquire", "check", "insert", "unlock"}
Live      == {"register", "building", "activating", "accepted"}
Unwinding == {"rollback", "warning", "closing"}
Ended     == {"skipped", "refused", "done", "dead"}
PCs       == {"idle"} \cup Admitting \cup Live \cup Unwinding \cup Ended

Running == {d \in Deployments : status[d] = "running"}

\* Requests reach the handlers: at a normal boot only after the orphan cleanup,
\* after a self-update (instrumentation.ts polls for the end of maintenance)
\* also while it is still to come.
Serving == boot \in {"serving", "initLate", "sweepLate"}

TypeOK ==
    /\ status \in [Deployments -> {"none", "running", "success", "failed"}]
    /\ overdue \subseteq Deployments
    /\ active \subseteq Deployments
    /\ cancelled \subseteq Deployments
    /\ holder \in Deployments \cup Operations \cup {NoOne}
    /\ pc \in [Deployments -> PCs]
    /\ found \in [Deployments -> SUBSET Deployments]
    /\ stale \in [Deployments -> SUBSET Deployments]
    /\ op \in [Operations -> {"idle", "check", "working"}]
    /\ request \in [Deployments -> {"none", "seen", "flagged"}]
    /\ boot \in {"serving", "init", "sweep", "initLate", "sweepLate"}
    /\ orphans \subseteq Deployments
    /\ restarts \in 0..MaxRestarts
    /\ faults \in 0..MaxFaults

Init ==
    /\ status = [d \in Deployments |-> "none"]
    /\ overdue = {} /\ active = {} /\ cancelled = {}
    /\ holder = NoOne
    /\ pc = [d \in Deployments |-> "idle"]
    /\ found = [d \in Deployments |-> {}]
    /\ stale = [d \in Deployments |-> {}]
    /\ op = [o \in Operations |-> "idle"]
    /\ request = [d \in Deployments |-> "none"]
    /\ boot = "serving" /\ orphans = {}
    /\ restarts = 0 /\ faults = 0

Goto(d, place) == pc' = [pc EXCEPT ![d] = place]

\* A database write of the loop fails.
Fault == faults < MaxFaults /\ faults' = faults + 1

-----------------------------------------------------------------------------
(* createDeployment: isDeployRunning, then the advisory lock, then INSERT. *)

Request(d) ==
    /\ Serving /\ pc[d] = "idle"
    /\ Goto(d, "select")
    /\ UNCHANGED <<status, overdue, active, cancelled, holder, found, stale, op,
                   request, boot, orphans, restarts, faults>>

\* SELECT id, started_at ... WHERE status = 'running'
SelectRunning(d) ==
    /\ pc[d] = "select"
    /\ found' = [found EXCEPT ![d] = Running]
    /\ Goto(d, IF Running = {} THEN "acquire" ELSE "filter")
    /\ UNCHANGED <<status, overdue, active, cancelled, holder, stale, op,
                   request, boot, orphans, restarts, faults>>

\* Mutant: the activeDeployments test is dropped.
StaleRowsByAge(rows) == {r \in rows : r \in overdue}

StaleRows(rows) == {r \in rows : r \notin active /\ r \in overdue}

\* The filter runs when the SELECT's answer reaches the event loop.
FilterStale(d) ==
    /\ pc[d] = "filter"
    /\ stale' = [stale EXCEPT ![d] = StaleRows(found[d])]
    /\ Goto(d, "expire")
    /\ UNCHANGED <<status, overdue, active, cancelled, holder, found, op,
                   request, boot, orphans, restarts, faults>>

\* One UPDATE per stale row, by id and whatever its status is by now.
FailStale(d) ==
    /\ pc[d] = "expire"
    /\ \E r \in stale[d] :
          /\ status' = [status EXCEPT ![r] = "failed"]
          /\ stale' = [stale EXCEPT ![d] = @ \ {r}]
          /\ found' = [found EXCEPT ![d] = @ \ {r}]
    /\ UNCHANGED <<overdue, active, cancelled, holder, pc, op,
                   request, boot, orphans, restarts, faults>>

\* return rows.length > staleDeployments.length
DecideRunning(d) ==
    /\ pc[d] = "expire" /\ stale[d] = {}
    /\ Goto(d, IF found[d] # {} THEN "skipped" ELSE "acquire")
    /\ found' = [found EXCEPT ![d] = {}]
    /\ UNCHANGED <<status, overdue, active, cancelled, holder, stale, op,
                   request, boot, orphans, restarts, faults>>

\* assertProjectSetupComplete throws.
SetupIncomplete(d) ==
    /\ pc[d] = "acquire"
    /\ Goto(d, "refused")
    /\ UNCHANGED <<status, overdue, active, cancelled, holder, found, stale, op,
                   request, boot, orphans, restarts, faults>>

TryLock(d) ==
    /\ pc[d] = "acquire"
    /\ IF holder = NoOne
          THEN holder' = d /\ Goto(d, "check")
          ELSE UNCHANGED holder /\ Goto(d, "refused")
    /\ UNCHANGED <<status, overdue, active, cancelled, found, stale, op,
                   request, boot, orphans, restarts, faults>>

\* Mutant: only isDeployRunning looks at the rows.
NoActiveRowUnchecked == TRUE

\* select id from deployments where status in ('queued','running'), under the
\* lock: a row refuses the operation and unlocks.
NoActiveRow == Running = {}

\* Mutant: the error path forgets pg_advisory_unlock.
HolderAfterRefusalLeaked == holder

HolderAfterRefusal == NoOne

CheckUnderLock(d) ==
    /\ pc[d] = "check"
    /\ IF NoActiveRow
          THEN Goto(d, "insert") /\ UNCHANGED holder
          ELSE Goto(d, "refused") /\ holder' = HolderAfterRefusal
    /\ UNCHANGED <<status, overdue, active, cancelled, found, stale, op,
                   request, boot, orphans, restarts, faults>>

InsertRow(d) ==
    /\ pc[d] = "insert"
    /\ status' = [status EXCEPT ![d] = "running"]
    /\ Goto(d, "unlock")
    /\ UNCHANGED <<overdue, active, cancelled, holder, found, stale, op,
                   request, boot, orphans, restarts, faults>>

\* finally { await release() }, then runDeployAsync is called.
Unlock(d) ==
    /\ pc[d] = "unlock"
    /\ holder' = NoOne
    /\ Goto(d, "register")
    /\ UNCHANGED <<status, overdue, active, cancelled, found, stale, op,
                   request, boot, orphans, restarts, faults>>

Admission(d) ==
    \/ Request(d) \/ SelectRunning(d) \/ FilterStale(d) \/ FailStale(d)
    \/ DecideRunning(d) \/ SetupIncomplete(d) \/ TryLock(d)
    \/ CheckUnderLock(d) \/ InsertRow(d) \/ Unlock(d)

-----------------------------------------------------------------------------
(* runDeployAsync, as its row and the in-memory sets see it.               *)

\* activeDeployments.add, after the await of appStartSettings.
Register(d) ==
    /\ pc[d] = "register"
    /\ active' = active \cup {d}
    /\ Goto(d, "building")
    /\ UNCHANGED <<status, overdue, cancelled, holder, found, stale, op,
                   request, boot, orphans, restarts, faults>>

\* Mutant: no check() before the activation.
CheckPassesAlways(d) == TRUE

\* throwIfCancelled
CheckPasses(d) == d \notin cancelled

\* check() passes and beginReleaseActivation commits.
Activate(d) ==
    /\ pc[d] = "building" /\ CheckPasses(d)
    /\ Goto(d, "activating")
    /\ UNCHANGED <<status, overdue, active, cancelled, holder, found, stale, op,
                   request, boot, orphans, restarts, faults>>

\* accepted = true; nothing between the last health poll and this line checks
\* for cancellation.
Accept(d) ==
    /\ pc[d] = "activating"
    /\ Goto(d, "accepted")
    /\ UNCHANGED <<status, overdue, active, cancelled, holder, found, stale, op,
                   request, boot, orphans, restarts, faults>>

\* A command, a health check or check() throws; the catch block first drops
\* the cancellation flag.
Throw(d) ==
    /\ pc[d] \in {"building", "activating", "accepted"}
    /\ cancelled' = cancelled \ {d}
    /\ Goto(d, IF pc[d] = "accepted" THEN "warning" ELSE "rollback")
    /\ UNCHANGED <<status, overdue, active, holder, found, stale, op,
                   request, boot, orphans, restarts, faults>>

\* The last UPDATE of the try block or of the catch block, by id alone.
FinalStatus(d) == IF pc[d] = "rollback" THEN "failed" ELSE "success"

Finish(d) ==
    /\ pc[d] \in {"accepted", "rollback", "warning"}
    /\ status' = [status EXCEPT ![d] = FinalStatus(d)]
    /\ Goto(d, "closing")
    /\ UNCHANGED <<overdue, active, cancelled, holder, found, stale, op,
                   request, boot, orphans, restarts, faults>>

\* The catch block's UPDATE fails: the row stays as it is.
FinishFails(d) ==
    /\ pc[d] \in {"rollback", "warning"} /\ Fault
    /\ Goto(d, "closing")
    /\ UNCHANGED <<status, overdue, active, cancelled, holder, found, stale, op,
                   request, boot, orphans, restarts>>

\* finally { activeDeployments.delete; cancelledDeployments.delete }
Close(d) ==
    /\ pc[d] = "closing"
    /\ active' = active \ {d}
    /\ cancelled' = cancelled \ {d}
    /\ Goto(d, "done")
    /\ UNCHANGED <<status, overdue, holder, found, stale, op,
                   request, boot, orphans, restarts, faults>>

Loop(d) ==
    \/ Register(d) \/ Activate(d) \/ Accept(d) \/ Throw(d)
    \/ Finish(d) \/ FinishFails(d) \/ Close(d)

-----------------------------------------------------------------------------
(* POST /api/deployments/[id]/cancel                                       *)

CancelRead(d) ==
    /\ Serving /\ request[d] = "none" /\ status[d] = "running"
    /\ request' = [request EXCEPT ![d] = "seen"]
    /\ UNCHANGED <<status, overdue, active, cancelled, holder, pc, found, stale,
                   op, boot, orphans, restarts, faults>>

CancelFlag(d) ==
    /\ request[d] = "seen"
    /\ cancelled' = cancelled \cup {d}
    /\ request' = [request EXCEPT ![d] = "flagged"]
    /\ UNCHANGED <<status, overdue, active, holder, pc, found, stale,
                   op, boot, orphans, restarts, faults>>

\* UPDATE ... SET status='failed' WHERE id=$2 AND status='running'
CancelRow(d) ==
    /\ request[d] = "flagged"
    /\ status' = [status EXCEPT ![d] = IF @ = "running" THEN "failed" ELSE @]
    /\ request' = [request EXCEPT ![d] = "none"]
    /\ UNCHANGED <<overdue, active, cancelled, holder, pc, found, stale,
                   op, boot, orphans, restarts, faults>>

Cancel(d) == CancelRead(d) \/ CancelFlag(d) \/ CancelRow(d)

-----------------------------------------------------------------------------
(* Other holders of the project operation lock.                            *)

OpTryLock(o) ==
    /\ Serving /\ op[o] = "idle" /\ holder = NoOne
    /\ holder' = o
    /\ op' = [op EXCEPT ![o] = "check"]
    /\ UNCHANGED <<status, overdue, active, cancelled, pc, found, stale,
                   request, boot, orphans, restarts, faults>>

OpCheck(o) ==
    /\ op[o] = "check"
    /\ IF NoActiveRow
          THEN op' = [op EXCEPT ![o] = "working"] /\ UNCHANGED holder
          ELSE op' = [op EXCEPT ![o] = "idle"] /\ holder' = HolderAfterRefusal
    /\ UNCHANGED <<status, overdue, active, cancelled, pc, found, stale,
                   request, boot, orphans, restarts, faults>>

OpRelease(o) ==
    /\ op[o] = "working"
    /\ holder' = NoOne
    /\ op' = [op EXCEPT ![o] = "idle"]
    /\ UNCHANGED <<status, overdue, active, cancelled, pc, found, stale,
                   request, boot, orphans, restarts, faults>>

Operate(o) == OpTryLock(o) \/ OpCheck(o) \/ OpRelease(o)

-----------------------------------------------------------------------------
(* Time, and restarts of the Manager process.                              *)

\* Thirty minutes pass since the INSERT.  The call between INSERT and
\* activeDeployments.add is a single query: it is not that slow.
Age(d) ==
    /\ status[d] = "running" /\ d \notin overdue
    /\ pc[d] \notin {"unlock", "register"}
    /\ overdue' = overdue \cup {d}
    /\ UNCHANGED <<status, active, cancelled, holder, pc, found, stale, op,
                   request, boot, orphans, restarts, faults>>

\* The process dies: its memory, its continuations and its database sessions
\* (hence the advisory lock) are gone.  `late`: it comes back under update
\* maintenance and initializes up to two seconds after that ends.
Restart(late) ==
    /\ boot = "serving" /\ restarts < MaxRestarts
    /\ restarts' = restarts + 1
    /\ active' = {} /\ cancelled' = {} /\ holder' = NoOne
    /\ pc' = [d \in Deployments |->
                IF pc[d] \in {"idle"} \cup Ended THEN pc[d] ELSE "dead"]
    /\ found' = [d \in Deployments |-> {}]
    /\ stale' = [d \in Deployments |-> {}]
    /\ op' = [o \in Operations |-> "idle"]
    /\ request' = [d \in Deployments |-> "none"]
    /\ boot' = IF late THEN "initLate" ELSE "init"
    /\ orphans' = {}
    /\ UNCHANGED <<status, overdue, faults>>

\* cleanupOrphanedDeployments: SELECT id ... WHERE status='running'
SweepSelect ==
    /\ boot \in {"init", "initLate"}
    /\ orphans' = Running
    /\ boot' = IF boot = "init" THEN "sweep" ELSE "sweepLate"
    /\ UNCHANGED <<status, overdue, active, cancelled, holder, pc, found, stale,
                   op, request, restarts, faults>>

\* Mutant: the sweep forgets the UPDATE.
SweptNothing == status

\* UPDATE ... SET status='failed' WHERE id = ANY($2)
Swept == [d \in Deployments |-> IF d \in orphans THEN "failed" ELSE status[d]]

SweepUpdate ==
    /\ boot \in {"sweep", "sweepLate"}
    /\ status' = Swept
    /\ boot' = "serving"
    /\ UNCHANGED <<overdue, active, cancelled, holder, pc, found, stale,
                   op, request, orphans, restarts, faults>>

\* Its errors are logged and swallowed; the server serves all the same.
SweepFails ==
    /\ boot \in {"init", "sweep", "initLate", "sweepLate"} /\ Fault
    /\ boot' = "serving"
    /\ UNCHANGED <<status, overdue, active, cancelled, holder, pc, found, stale,
                   op, request, orphans, restarts>>

System ==
    \/ \E d \in Deployments : Age(d)
    \/ \E late \in BOOLEAN : Restart(late)
    \/ SweepSelect \/ SweepUpdate \/ SweepFails

Next ==
    \/ \E d \in Deployments : Admission(d) \/ Loop(d) \/ Cancel(d)
    \/ \E o \in Operations : Operate(o)
    \/ System

Spec == Init /\ [][Next]_vars

\* The event loop keeps running every continuation it has, the database
\* answers, and startup goes on.  Requests, cancellations, faults, ageing and
\* restarts are the environment's.
Fairness ==
    /\ \A d \in Deployments :
          /\ WF_vars(SelectRunning(d) \/ FilterStale(d) \/ FailStale(d)
                     \/ DecideRunning(d) \/ TryLock(d) \/ CheckUnderLock(d)
                     \/ InsertRow(d) \/ Unlock(d))
          /\ WF_vars(Loop(d))
          /\ WF_vars(CancelFlag(d) \/ CancelRow(d))
    /\ \A o \in Operations : WF_vars(OpCheck(o) \/ OpRelease(o))
    /\ WF_vars(SweepSelect \/ SweepUpdate)

FairSpec == Spec /\ Fairness

-----------------------------------------------------------------------------
(* Properties.                                                             *)

\* No interleaving of callers, stale rows, cancellations and restarts leaves
\* the application with two rows in status 'running': the row check has to be
\* repeated under the lock, the first one of isDeployRunning is not enough.
AtMostOneRunning ==
    \A d, e \in Deployments :
        status[d] = "running" /\ status[e] = "running" => d = e

\* While a console command, a checkout or another operation works under the
\* lock, no deployment row is running and none can be inserted.
OperationExcludesRunningRow ==
    (\E o \in Operations : op[o] = "working") => Running = {}

\* The two together, for all who work on the application: one running row, or
\* one operation under the lock, and never anything else beside it.
Working == {o \in Operations : op[o] = "working"}
OneAtWork == \A x, y \in Running \cup Working : x = y

\* The session lock never outlives the call that took it: whoever holds it is
\* at a step that goes on to release it, an error path included.
LockHasItsUser ==
    /\ \A d \in Deployments : holder = d => pc[d] \in {"check", "insert", "unlock"}
    /\ \A o \in Operations : holder = o => op[o] \in {"check", "working"}

\* A loop that may still change the live release has a row in status
\* 'running', unless somebody took the row from it: a cancel request, or the
\* orphan cleanup of a late initialization.  In particular the 30-minute
\* auto-fail never hits a loop that is still working.
LoopOwnsItsRow ==
    \A d \in Deployments :
        pc[d] \in Live =>
            \/ status[d] = "running"
            \/ d \in cancelled \/ d \in orphans

\* A cancellation that reaches the loop while it still builds has the last
\* word: the loop ends and its row stays 'failed' (a later one may be
\* overwritten by the success of a release that is already live).
CancelHasTheLastWord ==
    \A d \in Deployments :
        (pc[d] = "building" /\ d \in cancelled)
            ~> \/ pc[d] \in Ended /\ status[d] = "failed"
               \/ faults > 0

\* Every loop ends and gives its row a final status, restarts included, as
\* long as no write of the database fails: one failing UPDATE of the catch
\* block or of the sweep leaves the row to the next restart or request.
RowSettles ==
    \A d \in Deployments :
        status[d] = "running" ~> (status[d] # "running" \/ faults > 0)

\* docs/release-pipeline.md:31, "A project admission lock prevents
\* deployment/console/checkout races": no operation works while a deployment
\* loop can still replace files of the application.
\* The code does not keep this (README, section 6); no run checks it.
NoConsoleDuringDeployment ==
    \A d \in Deployments, o \in Operations :
        ~(op[o] = "working" /\ pc[d] \in Live \cup {"rollback"})

=============================================================================

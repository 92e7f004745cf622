----------------------------- MODULE DeployPipeline -----------------------------
(***************************************************************************)
(* The second half of runDeployAsync: a built candidate is tried out on a  *)
(* temporary port, takes the place of the running release, is accepted, or *)
(* everything is put back.  The loop moves four things that outlive it: the*)
(* files at the project's root, the PM2 processes (application, candidate, *)
(* workers), Caddy's routes and the rows in the database.                  *)
(*                                                                         *)
(* One deployment of an application with a port.  A call that fails may    *)
(* have had its effect.  What the moves of files do in detail is in        *)
(* ReleaseContents, the wait for scheduled jobs in CronActivation, and the *)
(* life of the row before and beside the loop in DeployAdmission.          *)
(***************************************************************************)
EXTENDS Naturals, FiniteSets

CONSTANTS
    Workers,        \* workers whose directory is the project's root
    MaxFaults,      \* bound on failing calls
    MaxHands        \* bound on starts and stops by an operator or the sleep tick

ASSUME PipelineConstants == MaxFaults \in Nat /\ MaxHands \in Nat

VARIABLES
    setup,      \* how it is done, and the processes there were before it
    pc, left,   \* the loop's step, and the workers left in its `for`
    flags,      \* the loop's Boolean variables that are true
    paused,     \* pausedWorkers
    before,     \* previousStatus
    root,       \* the release at the project's root
    app,        \* the application's process in PM2: the release it runs
    preview,    \* the candidate's process exists
    proxy,      \* where Caddy sends the managed domains
    online,     \* workers that run
    active,     \* projects.active_deployment_id is this deployment
    row,        \* deployments.status
    cancelled,  \* in cancelledDeployments
    warned,     \* what the log says requires attention
    overlooked, \* history: workers of which PM2 did not tell whether they run
    faults, hands

program == <<pc, left, flags, paused, before, warned>>
pm2     == <<app, preview, online>>
rows    == <<active, row, cancelled>>
vars    == <<setup, overlooked, program, root, pm2, proxy, rows, faults, hands>>

Trying  == {"preview", "previewHealth", "previewDone", "snapshot", "cron", "pause",
            "handoff"}
Placing == {"delete", "activate", "start", "stage", "health", "return", "unpreview",
            "active"}
Closing == {"complete", "workers", "save", "push", "finish"}
Undoing == {"stop", "rollback", "restart", "restop", "rehealth", "resave"}
Caught  == {"catch"} \cup Undoing \cup {"reworkers", "reproxy", "cleanup", "final"}
Ended   == {"closed", "dead"}
Flags   == {"previewRunning", "caddyOnPreview", "activating", "accepted", "unrecoverable"}
Up      == {"old", "new", "torn"}
Apps    == {"missing", "stopped", "errored"} \cup Up

\* A candidate whose domains are handed over, one that is stopped after its test,
\* none at all, and a deployment without any HTTP check.
Kinds   == {"handoff", "tested", "untested", "unchecked"}

\* What the loop knows, and what it acts on.
LoopTypes ==
    /\ setup \in [kind : Kinds, app : Apps \ {"new", "torn"}, online : SUBSET Workers]
    /\ pc \in Trying \cup Placing \cup Closing \cup Caught \cup Ended
    /\ left \subseteq Workers
    /\ flags \subseteq Flags
    /\ paused \subseteq Workers
    /\ before \in {"unknown", "missing", "stopped", "errored", "online"}
    /\ warned \subseteq {"recovery", "worker", "proxy", "preview"}
    /\ faults \in 0..MaxFaults
    /\ hands \in 0..MaxHands
WorldTypes ==
    /\ root \in Up
    /\ app \in Apps
    /\ preview \in BOOLEAN
    /\ proxy \in {"stable", "preview"}
    /\ online \subseteq Workers
    /\ active \in BOOLEAN
    /\ row \in {"running", "success", "failed"}
    /\ cancelled \in BOOLEAN
    /\ overlooked \subseteq Workers
TypeOK == LoopTypes /\ WorldTypes

Init ==
    /\ setup \in [kind : Kinds, app : Apps \ {"new", "torn"}, online : SUBSET Workers]
    /\ pc = IF setup.kind \in {"handoff", "tested"} THEN "preview" ELSE "snapshot"
    /\ left = {} /\ flags = {} /\ paused = {} /\ before = "unknown" /\ warned = {}
    /\ root = "old" /\ app = setup.app /\ preview = FALSE /\ proxy = "stable"
    /\ online = setup.online
    /\ active = FALSE /\ row = "running" /\ cancelled = FALSE
    /\ overlooked = {} /\ faults = 0 /\ hands = 0

---------------------------------------------------------------------------
(* A step ends well, or it throws; the effect of a call that failed may have *)
(* happened or not.                                                         *)

Handler == IF pc \in Undoing THEN "reworkers" ELSE "catch"
Leads(step, next) ==
    /\ pc = step
    /\ \/ pc' = next /\ faults' = faults
       \/ faults < MaxFaults /\ faults' = faults + 1 /\ pc' = Handler
    /\ UNCHANGED <<setup, overlooked, hands>>
Failed == faults' # faults
Applied(value, new) == IF Failed THEN {value, new} ELSE {new}
Flag(set) == flags' = IF Failed THEN flags ELSE set
FilesKept == UNCHANGED root
RowsKept  == UNCHANGED rows
Kept      == UNCHANGED <<left, paused, before, warned>>

\* No call fails here.
Throw(step) ==
    /\ pc = step /\ pc' = "catch"
    /\ UNCHANGED <<setup, overlooked, left, flags, paused, before, warned, root, pm2, proxy, rows,
                   faults, hands>>
Pass(step, next) ==
    /\ pc = step /\ pc' = next
    /\ UNCHANGED <<setup, overlooked, left, flags, paused, before, warned, root, pm2, proxy, rows,
                   faults, hands>>

\* throwIfCancelled; before the files move only if a lock on the root has to be
\* recovered, before the application's start and after the workers' only if a
\* command runs there (Laravel's caches, post_deploy_cmd).
Checked == {"preview", "cron", "activate", "start", "stage", "save", "push"}
Check   == cancelled /\ \E step \in Checked : Throw(step)

\* A release that does not answer, or whose wait finds the cancellation.
Unhealthy ==
    \/ Throw("previewHealth")
    \/ setup.kind # "unchecked" /\ Throw("health")

---------------------------------------------------------------------------
(* The candidate is tried out. *)

StartPreview ==
    /\ ~cancelled /\ Leads("preview", "previewHealth")
    /\ preview' \in Applied(preview, TRUE) /\ Flag(flags \cup {"previewRunning"})
    /\ Kept /\ FilesKept /\ RowsKept /\ UNCHANGED <<app, online, proxy>>
PreviewHealthy ==
    Pass("previewHealth", IF setup.kind = "handoff" THEN "snapshot" ELSE "previewDone")

\* pm2 delete, here and after the handoff.
DeletePreview(step, next) ==
    /\ Leads(step, next)
    /\ preview' \in Applied(preview, FALSE) /\ Flag(flags \ {"previewRunning"})
    /\ Kept /\ FilesKept /\ RowsKept /\ UNCHANGED <<app, online, proxy>>
StopPreview == DeletePreview("previewDone", "snapshot")

\* What PM2 runs now is what a rollback brings back.
Snapshot ==
    /\ Leads("snapshot", "cron")
    /\ before' = IF Failed THEN before ELSE IF app \in Up THEN "online" ELSE app
    /\ FilesKept /\ RowsKept
    /\ UNCHANGED <<left, paused, warned, flags, pm2, proxy>>

\* beginReleaseActivation admits it, or the loop gives up after five minutes.
WaitForCron ==
    /\ ~cancelled /\ pc = "cron" /\ pc' = "pause" /\ left' = Workers
    /\ FilesKept /\ RowsKept
    /\ UNCHANGED <<setup, overlooked, paused, before, warned, flags, pm2, proxy, faults, hands>>
GiveUp == Throw("cron")

\* Mutant: remembered only when the stop succeeded.
PauseThenRemember(w) ==
    /\ w \in left /\ Leads("pause", "pause") /\ left' = left \ {w}
    /\ paused' = IF w \in online /\ ~Failed THEN paused \cup {w} ELSE paused
    /\ online' \in Applied(online, online \ {w})
    /\ FilesKept /\ RowsKept /\ UNCHANGED <<before, warned, flags, app, preview, proxy>>

\* A worker that runs is remembered, then stopped.
Pause(w) ==
    /\ w \in left /\ Leads("pause", "pause") /\ left' = left \ {w}
    /\ paused' = IF w \in online THEN paused \cup {w} ELSE paused
    /\ online' \in Applied(online, online \ {w})
    /\ FilesKept /\ RowsKept /\ UNCHANGED <<before, warned, flags, app, preview, proxy>>
\* A process list that fails or cannot be parsed is taken for a worker that does
\* not run.
Overlook(w) ==
    /\ pc = "pause" /\ w \in left /\ left' = left \ {w} /\ overlooked' = overlooked \cup {w}
    /\ faults < MaxFaults /\ faults' = faults + 1
    /\ FilesKept /\ RowsKept
    /\ UNCHANGED <<setup, pc, paused, before, warned, flags, pm2, proxy, hands>>
Paused == left = {} /\ Pass("pause",
    IF setup.kind = "handoff" THEN "handoff" ELSE "delete")

\* updateCaddyDomainsStrict writes the Caddyfile and reloads.
Route(step, next, to, set) ==
    /\ Leads(step, next) /\ proxy' \in Applied(proxy, to) /\ Flag(set)
    /\ Kept /\ FilesKept /\ RowsKept /\ UNCHANGED pm2
Handoff == Route("handoff", "delete", "preview", flags \cup {"caddyOnPreview"})

---------------------------------------------------------------------------
(* The candidate takes the place of the running release. *)

\* `activating` is set before the first thing that has to be undone.
DeleteApp ==
    /\ Leads("delete", "activate")
    /\ flags' = flags \cup {"activating"} /\ app' \in Applied(app, "missing")
    /\ Kept /\ FilesKept /\ RowsKept /\ UNCHANGED <<preview, online, proxy>>

Activate ==
    /\ Leads("activate", "start")
    /\ root' \in IF Failed THEN {"old", "torn", "new"} ELSE {"new"}
    /\ Kept /\ RowsKept /\ UNCHANGED <<flags, pm2, proxy>>

StartNew ==
    /\ Leads("start", "stage")
    /\ app' \in Applied(app, "new")
    /\ Kept /\ FilesKept /\ RowsKept /\ UNCHANGED <<flags, preview, online, proxy>>
Stage   == ~cancelled /\ Pass("stage", "health")
Healthy == Pass("health", IF setup.kind = "handoff" THEN "return" ELSE "active")

Return  == Route("return", "unpreview", "stable", flags \ {"caddyOnPreview"})
Remove  == DeletePreview("unpreview", "active")

Accept ==
    /\ Leads("active", "complete") /\ active' \in Applied(active, TRUE)
    /\ Flag(flags \cup {"accepted"})
    /\ Kept /\ FilesKept /\ UNCHANGED <<pm2, proxy, row, cancelled>>

---------------------------------------------------------------------------
(* Accepted: nothing is put back any more. *)

\* Mutant: the workers are left stopped.
CompleteOnly ==
    /\ Leads("complete", "workers") /\ left' = {}
    /\ FilesKept /\ RowsKept /\ UNCHANGED <<paused, before, warned, flags, pm2, proxy>>

Complete ==
    /\ Leads("complete", "workers") /\ left' = IF Failed THEN left ELSE paused
    /\ FilesKept /\ RowsKept /\ UNCHANGED <<paused, before, warned, flags, pm2, proxy>>
RestartWorker(w) ==
    /\ w \in left /\ Leads("workers", "workers") /\ left' = left \ {w}
    /\ online' \in Applied(online, online \cup {w})
    /\ FilesKept /\ RowsKept
    /\ UNCHANGED <<paused, before, warned, flags, app, preview, proxy>>
WorkersBack ==
    /\ pc = "workers" /\ left = {} /\ pc' = "save" /\ paused' = {}
    /\ FilesKept /\ RowsKept
    /\ UNCHANGED <<setup, overlooked, left, before, warned, flags, pm2, proxy, faults, hands>>
Nothing == Kept /\ FilesKept /\ RowsKept /\ UNCHANGED <<flags, pm2, proxy>>
SaveList == Leads("save", "push") /\ Nothing
\* Only a promotion pushes; git() looks at the flag.
Push     == Pass("push", "finish")
Finish ==
    /\ Leads("finish", "closed") /\ row' = IF Failed THEN row ELSE "success"
    /\ cancelled' = (Failed /\ cancelled)
    /\ Kept /\ FilesKept /\ UNCHANGED <<flags, pm2, proxy, active>>

---------------------------------------------------------------------------
(* catch *)

\* Mutant: an accepted release is rolled back too.
CatchAccepted ==
    /\ pc = "catch" /\ cancelled' = FALSE
    /\ IF "activating" \in flags
       THEN pc' = "stop" /\ left' = left ELSE pc' = "reworkers" /\ left' = paused
    /\ FilesKept
    /\ UNCHANGED <<setup, overlooked, paused, before, warned, flags, pm2, proxy, active, row,
                   faults, hands>>

Catch ==
    /\ pc = "catch" /\ cancelled' = FALSE
    /\ IF "activating" \in flags /\ "accepted" \notin flags
       THEN pc' = "stop" /\ left' = left ELSE pc' = "reworkers" /\ left' = paused
    /\ FilesKept
    /\ UNCHANGED <<setup, overlooked, paused, before, warned, flags, pm2, proxy, active, row,
                   faults, hands>>

\* A step of the rollback; when it throws, the rest is left for the operator.
Undo(step, next) ==
    /\ Leads(step, next)
    /\ flags' = IF Failed THEN flags \cup {"unrecoverable"} ELSE flags
    /\ warned' = IF Failed THEN warned \cup {"recovery"} ELSE warned
    /\ left' = IF pc' = "reworkers" /\ ~Failed THEN paused ELSE left
    /\ RowsKept /\ UNCHANGED <<paused, before, preview, online, proxy>>

\* Mutant: the rollback starts under the running process.
StopAgainNot == Undo("stop", "rollback") /\ UNCHANGED <<root, app>>

StopAgain ==
    /\ Undo("stop", "rollback")
    /\ app' \in Applied(app, "missing") /\ FilesKept
RollBack ==
    /\ Undo("rollback", IF before = "missing" THEN "resave" ELSE "restart")
    /\ root' \in IF Failed THEN {root, "torn", "old"} ELSE {"old"}
    /\ UNCHANGED app
RestartOld ==
    /\ Undo("restart", CASE before = "stopped" -> "restop"
                        [] before = "online" -> "rehealth"
                        [] OTHER -> "resave")
    /\ app' \in Applied(app, root) /\ FilesKept
StopOld   == Undo("restop", "resave") /\ FilesKept
    /\ app' \in Applied(app, "stopped")
OldHealth == Undo("rehealth", "resave") /\ FilesKept /\ UNCHANGED app
SaveOld   == Undo("resave", "reworkers") /\ FilesKept /\ UNCHANGED app

---------------------------------------------------------------------------
(* What is tidied up after any error; each has its own try. *)

Tries(step, next) ==
    /\ pc = step /\ pc' = next
    /\ \/ faults' = faults
       \/ faults < MaxFaults /\ faults' = faults + 1
    /\ UNCHANGED <<setup, overlooked, hands>>
Recoverable == "unrecoverable" \notin flags
Warn(what) == warned' = IF Failed THEN warned \cup {what} ELSE warned

ReviveWorker(w) ==
    /\ w \in left /\ Tries("reworkers", "reworkers") /\ left' = left \ {w}
    /\ online' \in Applied(online, online \cup {w}) /\ Warn("worker")
    /\ FilesKept /\ RowsKept
    /\ UNCHANGED <<paused, before, flags, app, preview, proxy>>
Revived == left = {} /\ Pass("reworkers",
    IF "caddyOnPreview" \in flags /\ Recoverable THEN "reproxy" ELSE "cleanup")

ReturnProxy ==
    /\ Tries("reproxy", "cleanup") /\ proxy' \in Applied(proxy, "stable")
    /\ flags' = IF Failed THEN flags \cup {"unrecoverable"} ELSE flags \ {"caddyOnPreview"}
    /\ Warn("proxy") /\ FilesKept /\ RowsKept
    /\ UNCHANGED <<left, paused, before, pm2>>

\* Mutant: the candidate's process is deleted wherever the domains go.
CleanupAlways ==
    /\ Tries("cleanup", "final") /\ preview' \in Applied(preview, FALSE)
    /\ flags' = flags \ {"previewRunning"} /\ Warn("preview")
    /\ FilesKept /\ RowsKept
    /\ UNCHANGED <<left, paused, before, app, online, proxy>>

\* A candidate the domains still go to is left running.
Cleanup ==
    /\ "previewRunning" \in flags /\ "caddyOnPreview" \notin flags
    /\ Tries("cleanup", "final") /\ preview' \in Applied(preview, FALSE)
    /\ flags' = flags \ {"previewRunning"} /\ Warn("preview")
    /\ FilesKept /\ RowsKept
    /\ UNCHANGED <<left, paused, before, app, online, proxy>>
KeepCandidate ==
    /\ "previewRunning" \notin flags \/ "caddyOnPreview" \in flags
    /\ Pass("cleanup", "final")

\* The last UPDATE, whoever has written the row in between.
Final ==
    /\ Tries("final", "closed")
    /\ row' = IF Failed THEN row
              ELSE IF "accepted" \in flags THEN "success" ELSE "failed"
    /\ cancelled' = FALSE
    /\ Kept /\ FilesKept /\ UNCHANGED <<flags, pm2, proxy, active>>

---------------------------------------------------------------------------
(* Around the loop. *)

\* The cancel route: the flag, and at once the row.
Cancel ==
    /\ pc \notin Ended /\ row = "running"
    /\ cancelled' = TRUE /\ row' = "failed"
    /\ FilesKept /\ UNCHANGED <<setup, overlooked, program, pm2, proxy, active, faults, hands>>

\* Manager ends; PM2, Caddy and the files stay as they are, and the next start
\* fails the row.
Crash ==
    /\ pc \notin Ended /\ pc' = "dead"
    /\ row' = IF row = "running" THEN "failed" ELSE row
    /\ cancelled' = FALSE /\ FilesKept
    /\ UNCHANGED <<setup, overlooked, left, flags, paused, before, warned, pm2, proxy, active,
                   faults, hands>>

\* The services page, or the sleep tick that saw no deployment a moment ago; and
\* the workers page.  None of them asks for the deployment.
Hand ==
    /\ hands < MaxHands /\ hands' = hands + 1
    /\ FilesKept /\ RowsKept /\ UNCHANGED <<setup, overlooked, program, preview, proxy, faults>>
OperateApp ==
    /\ Hand /\ app # "missing"
    /\ app' \in {"stopped", root} /\ UNCHANGED online
OperateWorker(w) ==
    /\ Hand /\ UNCHANGED app
    /\ online' = IF w \in online THEN online \ {w} ELSE online \cup {w}

---------------------------------------------------------------------------
Try == StartPreview \/ PreviewHealthy \/ StopPreview \/ Snapshot \/ WaitForCron
    \/ GiveUp \/ (\E w \in Workers : Pause(w) \/ Overlook(w)) \/ Paused \/ Handoff
Place == DeleteApp \/ Activate \/ StartNew \/ Stage \/ Healthy \/ Return \/ Remove
    \/ Accept
Close == Complete \/ (\E w \in Workers : RestartWorker(w)) \/ WorkersBack
    \/ SaveList \/ Push \/ Finish
PutBack == Catch \/ StopAgain \/ RollBack \/ RestartOld \/ StopOld \/ OldHealth
    \/ SaveOld \/ (\E w \in Workers : ReviveWorker(w)) \/ Revived \/ ReturnProxy
    \/ Cleanup \/ KeepCandidate \/ Final
Loop == Check \/ Unhealthy \/ Try \/ Place \/ Close \/ PutBack

Next == Loop \/ Cancel \/ Crash \/ OperateApp \/ \E w \in Workers : OperateWorker(w)

Spec == Init /\ [][Next]_vars
\* Every call of the loop has a timeout, so each step is taken.
FairSpec == Spec /\ WF_vars(Loop)

---------------------------------------------------------------------------
(* Properties. *)

\* A deployment that failed and could be rolled back leaves what it found: the
\* files, the application in the state it was in, and the workers it stopped,
\* except those the log names (catch), unless somebody else touched these.
FailureRestores ==
    pc = "closed" /\ "accepted" \notin flags /\ Recoverable =>
        /\ root = "old"
        /\ hands = 0 =>
            /\ app = setup.app \/ (setup.app = "errored" /\ app = "old")
            /\ "worker" \in warned \/ setup.online \subseteq online

\* Nothing accepted is undone: the files, the marker of the active release and,
\* in the end, the row agree (accepted, the last UPDATE).
AcceptedStays == "accepted" \in flags =>
    /\ root = "new" /\ active
    /\ pc = "closed" /\ faults = 0 => row = "success"
    /\ hands = 0 => app = "new"

\* Domains that are handed over always reach a process: the candidate's, until it
\* is accepted or rolled back, after a failed recovery and the end of Manager too;
\* only a rollback after their return leaves them without one.  As long as Caddy
\* does what the loop thinks it does (handoff).
Tracked == (proxy = "preview") = ("caddyOnPreview" \in flags)
PutsBack == pc \in Caught \cup Ended /\ "activating" \in flags /\ "accepted" \notin flags
DomainsReached ==
    setup.kind = "handoff" /\ setup.app = "old" /\ hands = 0 /\ Tracked =>
        IF proxy = "preview" THEN preview ELSE app \in Up \/ PutsBack

\* Files are replaced, and put back, only under stopped processes (activate,
\* rollback), but for workers of which PM2 did not tell whether they run.
FilesChangeAlone ==
    [][root' # root /\ hands = 0 => app \notin Up /\ online \subseteq overlooked]_vars

\* The loop ends, with a row that is settled unless its last write failed, and
\* the workers it stopped run again, unless the log says otherwise, Manager ended
\* or somebody stopped them (finally, startWorkers).
LoopEnds ==
    <>(/\ pc \in Ended
       /\ row # "running" \/ faults > 0
       /\ setup.online \subseteq online \/ "worker" \in warned \/ ~Recoverable \/ hands > 0 \/ pc = "dead")
=============================================================================

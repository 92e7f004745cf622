---------------------------- MODULE CronActivation ----------------------------
(***************************************************************************)
(* How a deployment's activation and the scheduled jobs of an application  *)
(* keep out of each other's way: beginReleaseActivation on one side,       *)
(* executeCronJob on the other, each a transaction under the advisory lock *)
(* 'manager-activation' of a project.  Around them: cancellation, edits of *)
(* a job, a restart of Manager and its recovery.                           *)
(*                                                                         *)
(* A deployment enters with its candidate verified; phases before          *)
(* 'activate' are one phase "build".  A project keeps its directory.       *)
(***************************************************************************)
EXTENDS Naturals

CONSTANTS
    Projects, Deployments, Jobs,
    Callers,        \* concurrent calls of executeCronJob
    ProjectOf,      \* the project of a deployment
    RootOf,         \* its directory; projects may share one
    FirstProject,   \* cron_jobs.project_id at first, or NoProject
    LegacyRoot,     \* working_directory of a job without a project
    NoProject, Nobody, NoJob,
    MaxRestarts, MaxFaults

ASSUME CronConstants ==
    /\ Projects \subseteq Nat
    /\ ProjectOf \in [Deployments -> Projects]
    /\ FirstProject \in [Jobs -> Projects \cup {NoProject}]
    /\ NoProject \notin Projects /\ NoJob \notin Jobs
    /\ Nobody \notin Deployments \cup Callers
    /\ Deployments \cap Callers = {}
    /\ MaxRestarts \in Nat /\ MaxFaults \in Nat

VARIABLES
    status, phase,      \* row of a deployment
    loop,               \* where runDeployAsync is
    cancelled,          \* cancelledDeployments
    holder,             \* session that has a project's activation lock
    project, last,      \* cron_jobs.project_id and .last_status
    pc, mine,           \* a caller and its job
    owners, waiting,    \* projects it has to lock, and those still to lock
    root,               \* directory the command runs in
    ousted,             \* history: callers whose job row was edited or taken
    recovery, maintenance, restarts, faults

deployment == <<status, phase, loop, cancelled>>
cron       == <<project, last, pc, mine, owners, waiting, root, ousted>>
process    == <<recovery, maintenance, restarts>>
vars       == <<deployment, holder, cron, process, faults>>

Loops == {"idle", "verified", "waiting", "locked", "busy", "clear",
          "activating", "health", "accepted", "restoring", "over"}

\* The live directory is being replaced, checked or put back.
Window == {"activating", "health", "restoring"}

TypeOK ==
    /\ status \in [Deployments -> {"none", "running", "failed", "success"}]
    /\ phase \in [Deployments -> {"build", "activate", "health", "complete", "failed"}]
    /\ loop \in [Deployments -> Loops]
    /\ cancelled \in [Deployments -> BOOLEAN]
    /\ holder \in [Projects -> Deployments \cup Callers \cup {Nobody}]
    /\ project \in [Jobs -> Projects \cup {NoProject}]
    /\ last \in [Jobs -> {"idle", "running", "over", "interrupted"}]
    /\ pc \in [Callers -> {"idle", "locking", "claimed", "executing"}]
    /\ mine \in [Callers -> Jobs \cup {NoJob}]
    /\ owners \in [Callers -> SUBSET Projects]
    /\ waiting \in [Callers -> SUBSET Projects]
    /\ ousted \subseteq Callers
    /\ recovery \in {"sweep", "cron", "done"}
    /\ maintenance \in BOOLEAN
    /\ restarts \in 0..MaxRestarts
    /\ faults \in 0..MaxFaults

Init ==
    /\ status = [d \in Deployments |-> "none"]
    /\ phase = [d \in Deployments |-> "build"]
    /\ loop = [d \in Deployments |-> "idle"]
    /\ cancelled = [d \in Deployments |-> FALSE]
    /\ holder = [p \in Projects |-> Nobody]
    /\ project = FirstProject
    /\ last = [j \in Jobs |-> "idle"]
    /\ pc = [c \in Callers |-> "idle"]
    /\ mine = [c \in Callers |-> NoJob]
    /\ owners = [c \in Callers |-> {}]
    /\ waiting = [c \in Callers |-> {}]
    /\ root = [c \in Callers |-> LegacyRoot]
    /\ ousted = {}
    /\ recovery = "done" /\ maintenance = FALSE
    /\ restarts = 0 /\ faults = 0

Rows(j) == IF project[j] = NoProject THEN LegacyRoot ELSE RootOf[project[j]]

\* project_id = p or lower(working_directory) = lower(root_path)
Concerns(j, p) == project[j] = p \/ Rows(j) = RootOf[p]

Serving == recovery = "done" \/ maintenance

Freed(who) == [p \in Projects |-> IF holder[p] = who THEN Nobody ELSE holder[p]]

\* executeCronJob is over for c; it takes the row from those in out.
Returns(c, out) ==
    /\ pc' = [pc EXCEPT ![c] = "idle"]
    /\ mine' = [mine EXCEPT ![c] = NoJob]
    /\ owners' = [owners EXCEPT ![c] = {}]
    /\ waiting' = [waiting EXCEPT ![c] = {}]
    /\ root' = [root EXCEPT ![c] = LegacyRoot]
    /\ ousted' = (ousted \cup out) \ {c}

Fault == faults < MaxFaults /\ faults' = faults + 1

-----------------------------------------------------------------------------
(* The deployment                                                          *)

\* Admission leaves one running row per project (see DeployAdmission).
Verify(d) ==
    /\ Serving /\ loop[d] = "idle"
    /\ \A e \in Deployments : ProjectOf[e] = ProjectOf[d] => status[e] # "running"
    /\ status' = [status EXCEPT ![d] = "running"]
    /\ loop' = [loop EXCEPT ![d] = "verified"]
    /\ UNCHANGED <<phase, cancelled, holder, cron, process, faults>>

Cancel(d) ==
    /\ Serving /\ status[d] = "running" /\ loop[d] # "over"
    /\ cancelled' = [cancelled EXCEPT ![d] = TRUE]
    /\ status' = [status EXCEPT ![d] = "failed"]
    /\ UNCHANGED <<phase, loop, holder, cron, process, faults>>

\* The catch block's final UPDATE, and the end of the loop.
Fails(d) ==
    /\ status' = [status EXCEPT ![d] = "failed"]
    /\ phase' = [phase EXCEPT ![d] = "failed"]
    /\ loop' = [loop EXCEPT ![d] = "over"]
    /\ cancelled' = [cancelled EXCEPT ![d] = FALSE]

\* check() at the head of the cron wait.
Check(d) ==
    /\ loop[d] = "verified"
    /\ \/ cancelled[d] /\ Fails(d)
       \/ ~cancelled[d] /\ loop' = [loop EXCEPT ![d] = "waiting"]
          /\ UNCHANGED <<status, phase, cancelled>>
    /\ UNCHANGED <<holder, cron, process, faults>>

LockActivation(d) ==
    /\ loop[d] = "waiting" /\ holder[ProjectOf[d]] = Nobody
    /\ holder' = [holder EXCEPT ![ProjectOf[d]] = d]
    /\ loop' = [loop EXCEPT ![d] = "locked"]
    /\ UNCHANGED <<status, phase, cancelled, cron, process, faults>>

Blocking(d) == \E j \in Jobs : Concerns(j, ProjectOf[d]) /\ last[j] = "running"

SelectRunningJobs(d) ==
    /\ loop[d] = "locked"
    /\ IF Blocking(d)
       THEN holder' = Freed(d) /\ loop' = [loop EXCEPT ![d] = "busy"]
       ELSE holder' = holder /\ loop' = [loop EXCEPT ![d] = "clear"]
    /\ UNCHANGED <<status, phase, cancelled, cron, process, faults>>

CommitActivation(d) ==
    /\ loop[d] = "clear"
    /\ phase' = [phase EXCEPT ![d] = "activate"]
    /\ holder' = Freed(d)
    /\ loop' = [loop EXCEPT ![d] = "activating"]
    /\ UNCHANGED <<status, cancelled, cron, process, faults>>

\* Lost connection in the transaction: rollback, and the deployment fails.
ActivationQueryFails(d) ==
    /\ loop[d] \in {"waiting", "locked", "clear"} /\ Fault
    /\ holder' = Freed(d)
    /\ Fails(d)
    /\ UNCHANGED <<cron, process>>

TryAgain(d) ==
    /\ loop[d] = "busy"
    /\ loop' = [loop EXCEPT ![d] = "verified"]
    /\ UNCHANGED <<status, phase, cancelled, holder, cron, process, faults>>

\* Mutant: no limit.
GiveUpNever(d) == FALSE /\ UNCHANGED vars

\* After five minutes.
GiveUp(d) ==
    /\ loop[d] = "busy"
    /\ Fails(d)
    /\ UNCHANGED <<holder, cron, process, faults>>

\* stage('health'); a cancellation is noticed here.
Started(d) ==
    /\ loop[d] = "activating"
    /\ \/ /\ ~cancelled[d]
          /\ phase' = [phase EXCEPT ![d] = "health"]
          /\ loop' = [loop EXCEPT ![d] = "health"]
       \/ phase' = phase /\ loop' = [loop EXCEPT ![d] = "restoring"]
    /\ UNCHANGED <<status, cancelled, holder, cron, process, faults>>

Healthy(d) ==
    /\ loop[d] = "health"
    /\ loop' = [loop EXCEPT ![d] = "accepted"]
    /\ UNCHANGED <<status, phase, cancelled, holder, cron, process, faults>>

Unhealthy(d) ==
    /\ loop[d] = "health"
    /\ loop' = [loop EXCEPT ![d] = "restoring"]
    /\ UNCHANGED <<status, phase, cancelled, holder, cron, process, faults>>

\* The final UPDATE of an accepted release does not look at the row's status.
Finish(d) ==
    /\ loop[d] = "accepted"
    /\ status' = [status EXCEPT ![d] = "success"]
    /\ phase' = [phase EXCEPT ![d] = "complete"]
    /\ loop' = [loop EXCEPT ![d] = "over"]
    /\ cancelled' = [cancelled EXCEPT ![d] = FALSE]
    /\ UNCHANGED <<holder, cron, process, faults>>

Restored(d) ==
    /\ loop[d] = "restoring"
    /\ Fails(d)
    /\ UNCHANGED <<holder, cron, process, faults>>

-----------------------------------------------------------------------------
(* executeCronJob                                                          *)

OwnersOf(j) ==
    IF project[j] = NoProject THEN {p \in Projects : RootOf[p] = LegacyRoot}
                              ELSE {project[j]}

Call(c, j) ==
    /\ Serving /\ pc[c] = "idle"
    /\ pc' = [pc EXCEPT ![c] = "locking"]
    /\ mine' = [mine EXCEPT ![c] = j]
    /\ owners' = [owners EXCEPT ![c] = OwnersOf(j)]
    /\ waiting' = [waiting EXCEPT ![c] = OwnersOf(j)]
    /\ UNCHANGED <<deployment, holder, project, last, root, ousted, process, faults>>

\* Mutant: the locks are taken in the order the rows come.
InOrderOfRows(p, c) == p \in waiting[c]

\* "order by id"
InOrder(p, c) == p \in waiting[c] /\ \A q \in waiting[c] : p <= q

LockOwner(c, p) ==
    /\ pc[c] = "locking" /\ InOrder(p, c) /\ holder[p] = Nobody
    /\ holder' = [holder EXCEPT ![p] = c]
    /\ waiting' = [waiting EXCEPT ![c] = @ \ {p}]
    /\ UNCHANGED <<deployment, project, last, pc, mine, owners, root, ousted, process, faults>>

\* Mutant: the phase 'health' is forgotten.
InActivationOnly(d) == status[d] = "running" /\ phase[d] = "activate"

InActivation(d) == status[d] = "running" /\ phase[d] \in {"activate", "health"}

\* Mutant: a job that is running may be claimed again.
ClaimableAgain(j) ==
    ~\E d \in Deployments : InActivation(d) /\ Concerns(j, ProjectOf[d])

Claimable(j) ==
    /\ last[j] # "running"
    /\ ~\E d \in Deployments : InActivation(d) /\ Concerns(j, ProjectOf[d])

\* An UPDATE waits for whoever has an uncommitted change of the row.
RowFree(j) == \A c \in Callers : pc[c] = "claimed" => mine[c] # j

Claim(c) ==
    /\ pc[c] = "locking" /\ waiting[c] = {} /\ RowFree(mine[c])
    /\ \/ /\ Claimable(mine[c])
          /\ pc' = [pc EXCEPT ![c] = "claimed"]
          /\ root' = [root EXCEPT ![c] = Rows(mine[c])]
          /\ UNCHANGED <<holder, mine, owners, waiting, ousted>>
       \/ /\ ~Claimable(mine[c])
          /\ holder' = Freed(c)
          /\ Returns(c, {})
    /\ UNCHANGED <<deployment, project, last, process, faults>>

CommitClaim(c) ==
    /\ pc[c] = "claimed"
    /\ last' = [last EXCEPT ![mine[c]] = "running"]
    /\ pc' = [pc EXCEPT ![c] = "executing"]
    /\ holder' = Freed(c)
    /\ UNCHANGED <<deployment, project, mine, owners, waiting, root, ousted, process, faults>>

ClaimFails(c) ==
    /\ pc[c] \in {"locking", "claimed"} /\ Fault
    /\ holder' = Freed(c)
    /\ Returns(c, {})
    /\ UNCHANGED <<deployment, project, last, process>>

\* The command ends.  Its UPDATE is by id: it also ends the row of another run.
Record(c) ==
    /\ pc[c] = "executing" /\ RowFree(mine[c])
    /\ last' = [last EXCEPT ![mine[c]] = "over"]
    /\ Returns(c, {k \in Callers : mine[k] = mine[c]})
    /\ UNCHANGED <<deployment, holder, project, process, faults>>

\* The result cannot be written, or the command cannot be launched: only logged.
RecordFails(c) ==
    /\ pc[c] = "executing" /\ Fault
    /\ Returns(c, {})
    /\ UNCHANGED <<deployment, holder, project, last, process>>

\* PATCH of the job: it gets a project and that project's directory, even while it runs.
Reassign(j, p) ==
    /\ Serving /\ RowFree(j) /\ project[j] # p
    /\ project' = [project EXCEPT ![j] = p]
    /\ ousted' = ousted \cup {k \in Callers : mine[k] = j}
    /\ UNCHANGED <<deployment, holder, last, pc, mine, owners, waiting, root, process, faults>>

-----------------------------------------------------------------------------
(* Manager restarts; loops and commands die with the process.  Under update *)
(* maintenance requests are served before recovery.                         *)

Restart(m) ==
    /\ restarts < MaxRestarts
    /\ restarts' = restarts + 1
    /\ maintenance' = m /\ recovery' = "sweep"
    /\ loop' = [d \in Deployments |-> IF loop[d] = "idle" THEN "idle" ELSE "over"]
    /\ cancelled' = [d \in Deployments |-> FALSE]
    /\ holder' = [p \in Projects |-> Nobody]
    /\ pc' = [c \in Callers |-> "idle"]
    /\ mine' = [c \in Callers |-> NoJob]
    /\ owners' = [c \in Callers |-> {}] /\ waiting' = [c \in Callers |-> {}]
    /\ root' = [c \in Callers |-> LegacyRoot]
    /\ ousted' = {}
    /\ UNCHANGED <<status, phase, project, last, faults>>

SweepDeployments ==
    /\ recovery = "sweep"
    /\ status' = [d \in Deployments |-> IF status[d] = "running" THEN "failed" ELSE status[d]]
    /\ recovery' = "cron"
    /\ UNCHANGED <<phase, loop, cancelled, holder, cron, maintenance, restarts, faults>>

RecoverCron ==
    /\ recovery = "cron"
    /\ \A j \in Jobs : RowFree(j)
    /\ last' = [j \in Jobs |-> IF last[j] = "running" THEN "interrupted" ELSE last[j]]
    /\ ousted' = ousted \cup {c \in Callers : pc[c] = "executing"}
    /\ recovery' = "done"
    /\ UNCHANGED <<deployment, holder, project, pc, mine, owners, waiting, root, maintenance,
                   restarts, faults>>

DeploymentStep(d) ==
    \/ Verify(d) \/ Cancel(d) \/ Check(d) \/ LockActivation(d) \/ SelectRunningJobs(d)
    \/ CommitActivation(d) \/ ActivationQueryFails(d) \/ TryAgain(d) \/ GiveUp(d)
    \/ Started(d) \/ Healthy(d) \/ Unhealthy(d) \/ Finish(d) \/ Restored(d)

CallerStep(c) ==
    \/ \E j \in Jobs : Call(c, j)
    \/ \E p \in Projects : LockOwner(c, p)
    \/ Claim(c) \/ CommitClaim(c) \/ ClaimFails(c) \/ Record(c) \/ RecordFails(c)

Next ==
    \/ \E d \in Deployments : DeploymentStep(d)
    \/ \E c \in Callers : CallerStep(c)
    \/ \E j \in Jobs, p \in Projects : Reassign(j, p)
    \/ \E m \in BOOLEAN : Restart(m)
    \/ SweepDeployments \/ RecoverCron

Spec == Init /\ [][Next]_vars

\* Transactions, commands and the loop go on; the five minutes pass; an advisory
\* lock is granted to every waiter in turn.
Fairness ==
    /\ \A d \in Deployments :
          /\ WF_vars(\/ Check(d) \/ SelectRunningJobs(d) \/ CommitActivation(d) \/ TryAgain(d)
                     \/ Started(d) \/ Healthy(d) \/ Finish(d) \/ Restored(d))
          /\ SF_vars(LockActivation(d))
          /\ SF_vars(GiveUp(d))
    /\ \A c \in Callers :
          /\ WF_vars(CommitClaim(c) \/ Record(c))
          /\ SF_vars(Claim(c) \/ \E p \in Projects : LockOwner(c, p))
    /\ WF_vars(SweepDeployments \/ RecoverCron)

FairSpec == Spec /\ Fairness

-----------------------------------------------------------------------------
(* Properties.                                                             *)

\* No job of a project works while the project's live directory is replaced,
\* checked or put back, as long as the deployment's row is still running (not
\* cancelled, not swept) and nobody edited or recovered the job's row.
ActivationExcludesJobs ==
    \A d \in Deployments, c \in Callers :
        ~ /\ loop[d] \in Window /\ status[d] = "running"
          /\ pc[c] = "executing" /\ c \notin ousted
          /\ ProjectOf[d] \in owners[c]

\* A job runs once at a time, unless its row was edited or taken by recovery.
JobRunsOnce ==
    \A c, k \in Callers :
        /\ c # k /\ pc[c] = "executing" /\ pc[k] = "executing" /\ mine[c] = mine[k]
        => c \in ousted \/ k \in ousted

\* Two claims never wait for each other's locks ("order by id"): a job without
\* project locks every project of its directory.
WaitsFor(c, k) == pc[c] = "locking" /\ \E p \in waiting[c] : InOrder(p, c) /\ holder[p] = k
NoLockCycle == \A c, k \in Callers : c # k => ~(WaitsFor(c, k) /\ WaitsFor(k, c))

\* Jobs never keep a deployment running for ever: not jobs that start again
\* and again, not a row that stays 'running' because its result was lost.
DeploymentEnds ==
    \A d \in Deployments : (status[d] = "running") ~> (status[d] # "running")

\* docs/release-pipeline.md:11, "Scheduled project jobs cannot start during activation".
\* The code does not keep this (README, section 6); no run checks it.
NoJobStartsInActivation ==
    [][\A c \in Callers, d \in Deployments :
          pc[c] # "executing" /\ pc'[c] = "executing" /\ root[c] = RootOf[ProjectOf[d]]
          => loop[d] \notin Window]_vars

\* docs/release-pipeline.md:11, "an already running job blocks activation".
\* The code does not keep this (README, section 6); no run checks it.
RunningJobBlocksActivation ==
    [][\A c \in Callers, d \in Deployments :
          loop[d] = "clear" /\ loop'[d] = "activating" /\ root[c] = RootOf[ProjectOf[d]]
          => pc[c] # "executing"]_vars

=============================================================================

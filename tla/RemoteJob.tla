------------------------------ MODULE RemoteJob ------------------------------
(***************************************************************************)
(* Deployments of one application on a managed server: the rows of         *)
(* remote_jobs (lib/managed-servers.ts), the agent that claims, journals,  *)
(* executes and reports them (scripts/manager-agent.cjs), and the requests *)
(* between the two, which can be lost or arrive late.  A release is named  *)
(* by the job that made it.                                                *)
(***************************************************************************)
EXTENDS Integers, FiniteSets

CONSTANTS Jobs,
          First,       \* what runs before the first job; Nothing for a first deployment
          Nothing,     \* no release
          Off,         \* the host has rebooted, PM2 is not running
          NotYet,      \* a journal without activation
          NoJournal, NoReport,
          MaxFaults,   \* lost requests and failing writes of the journal
          MaxCrashes,  \* ends of the agent's process or of its host
          MaxTimer     \* progress reports sent by the timer

Releases == Jobs \cup {First, Nothing}
Journals == [job : Jobs, status : {"running", "success", "failed"}, act : Releases \cup {NotYet}, seq : Nat]
Reports == [job : Jobs, status : {"running", "success", "failed"}, seq : Nat]

ASSUME Names ==
    /\ Nothing \notin Jobs /\ First \notin Jobs /\ Off \notin Releases /\ NotYet \notin Releases
    /\ NoJournal \notin Journals /\ NoReport \notin Reports
    /\ MaxFaults \in Nat /\ MaxCrashes \in Nat /\ MaxTimer \in Nat

VARIABLES
    status, seen,      \* remote_jobs: status and report_sequence
    wire,              \* reports sent and not processed
    w,                 \* where the agent is
    mem, disk,         \* the journal in memory and in current-job.json
    broken,            \* the chain of journal writes holds a rejected promise
    resuming,          \* the agent is still starting
    waiting,           \* the report whose answer the agent waits for (reportBusy)
    live,              \* the release under the application's PM2 name
    saved,             \* the one in PM2's dump
    apps,              \* the one in apps.json
    begun,             \* history: jobs whose execution has begun
    unrestored,        \* history: a restoration has failed and nothing was activated since
    faults, crashes, timer

manager == <<status, seen>>
journal == <<mem, disk, broken>>
server == <<live, saved, apps>>
history == <<begun, unrestored>>
bounds == <<faults, crashes, timer>>
vars == <<manager, wire, w, journal, resuming, waiting, server, history, bounds>>

Init ==
    /\ status = [j \in Jobs |-> "none"] /\ seen = [j \in Jobs |-> 0]
    /\ wire = {} /\ waiting = NoReport
    /\ w = "loop" /\ mem = NoJournal /\ disk = NoJournal /\ broken = FALSE
    /\ live = First /\ saved = First /\ apps = First
    /\ begun = {} /\ unrestored = FALSE /\ resuming = FALSE
    /\ faults = 0 /\ crashes = 0 /\ timer = 0

(***************************************************************************)
(* Manager.                                                                *)
(***************************************************************************)

QueueRemoteDeploy(j) ==
    /\ status[j] = "none" /\ \A k \in Jobs : status[k] \notin {"queued", "running"}
    /\ status' = [status EXCEPT ![j] = "queued"]
    /\ UNCHANGED <<seen, wire, w, journal, resuming, waiting, server, history, bounds>>

CancelQueuedJob(j) ==
    /\ status[j] = "queued"
    /\ status' = [status EXCEPT ![j] = "cancelled"]
    /\ UNCHANGED <<seen, wire, w, journal, resuming, waiting, server, history, bounds>>

\* claimJob hands out the running job again before it looks at the queue.
ClaimableOnce(j) == status[j] = "queued"
Claimable(j) == \/ status[j] = "running"
                \/ status[j] = "queued" /\ \A k \in Jobs : status[k] # "running"

\* reportJob.
FreshByNumber(m) == m.seq # seen[m.job]
Fresh(m) == status[m.job] = "running" /\ m.seq > seen[m.job]
Deliver(m) ==
    /\ m \in wire /\ wire' = wire \ {m}
    /\ status' = IF Fresh(m) THEN [status EXCEPT ![m.job] = m.status] ELSE status
    /\ seen' = IF Fresh(m) THEN [seen EXCEPT ![m.job] = m.seq] ELSE seen
    /\ UNCHANGED <<w, journal, resuming, waiting, server, history, bounds>>

(***************************************************************************)
(* The agent: loop, claim, journal, execution, report.                     *)
(***************************************************************************)

Idle == w = "loop" /\ mem = NoJournal
Working == w \notin {"down", "loop"}
Quiet == UNCHANGED <<manager, wire, waiting, crashes, timer>>

Claim ==
    /\ Idle
    /\ \E j \in Jobs :
          /\ Claimable(j)
          /\ status' = [status EXCEPT ![j] = "running"]
          /\ mem' = [job |-> j, status |-> "running", act |-> NotYet, seq |-> 0]
    /\ w' = "journal"
    /\ UNCHANGED <<seen, wire, disk, broken, resuming, waiting, server, history, bounds>>

\* A claim whose answer does not arrive, or that the agent has given up.
ClaimLost ==
    /\ faults < MaxFaults /\ faults' = faults + 1
    /\ \E j \in Jobs : Claimable(j) /\ status' = [status EXCEPT ![j] = "running"]
    /\ UNCHANGED <<seen, wire, w, journal, resuming, waiting, server, history, crashes, timer>>

\* persist: once a write has failed no later one is tried.
Persist(record, next, otherwise) ==
    /\ mem' = record
    /\ \/ ~ broken /\ disk' = record /\ w' = next /\ UNCHANGED <<broken, faults>>
       \/ /\ w' = otherwise /\ broken' = (otherwise # "down") /\ UNCHANGED disk
          /\ broken \/ faults < MaxFaults
          /\ faults' = IF broken THEN faults ELSE faults + 1

Journal ==
    /\ w = "journal"
    /\ Persist(mem, "checkout", "loop")
    /\ begun' = IF w' = "checkout" THEN begun \cup {mem.job} ELSE begun
    /\ UNCHANGED <<server, unrestored, resuming>> /\ Quiet

\* Clone, install and build touch nothing that is live.
Build ==
    /\ w = "checkout" /\ w' \in {"activate", "failed"}
    /\ UNCHANGED <<journal, resuming, server, history, faults>> /\ Quiet

JournalActivationLater ==
    /\ w = "activate" /\ w' = "delete"
    /\ mem' = [mem EXCEPT !.act = apps]
    /\ UNCHANGED <<disk, broken, faults, resuming, server, history>> /\ Quiet
JournalActivation ==
    /\ w = "activate"
    /\ Persist([mem EXCEPT !.act = apps], "delete", "failed")
    /\ UNCHANGED <<resuming, server, history>> /\ Quiet

\* A step of the activation is done, or throws and the activation is restored.
Done(from, to) == w = from /\ w' = to
Throws(from) == w = from /\ w' = "undo" /\ UNCHANGED server
Rest == UNCHANGED <<journal, resuming, history, faults>> /\ Quiet

DeleteOld ==
    /\ \/ Done("delete", "start") /\ live' = Nothing /\ UNCHANGED <<saved, apps>>
       \/ Throws("delete")
    /\ Rest
StartNew ==
    /\ \/ Done("start", "health") /\ live' = mem.job /\ UNCHANGED <<saved, apps>>
       \/ Throws("start")
    /\ Rest
CheckHealth ==
    /\ \/ Done("health", "routes") /\ UNCHANGED server
       \/ Throws("health")
    /\ Rest
\* proxyConfig also saves PM2's list, and may do so before it fails.
ConfigureProxy ==
    /\ \/ Done("routes", "registry") /\ saved' = live
       \/ Done("routes", "undo") /\ saved' \in {saved, live}
    /\ UNCHANGED <<live, apps>> /\ Rest
SaveApps ==
    /\ \/ Done("registry", "save") /\ apps' = mem.job /\ UNCHANGED <<live, saved>>
       \/ Throws("registry")
    /\ Rest
SaveList ==
    /\ \/ Done("save", "succeeded") /\ saved' = live /\ UNCHANGED <<live, apps>>
       \/ Throws("save")
    /\ unrestored' = (unrestored /\ w' = "undo")
    /\ UNCHANGED <<journal, resuming, begun, faults>> /\ Quiet

Activate == DeleteOld \/ StartNew \/ CheckHealth \/ ConfigureProxy \/ SaveApps \/ SaveList

\* restoreActivation, in the same order; a failure ends it.
Undone(from, to) == w = from /\ w' = to /\ UNCHANGED unrestored
Gives(from) == w = from /\ w' = "failed" /\ unrestored' = TRUE
Unwound == UNCHANGED <<journal, resuming, begun, faults>> /\ Quiet

UndoStart ==
    /\ \/ Undone("undo", "unhealth") /\ live' = mem.act
       \/ Gives("undo") /\ live' \in {live, Nothing}
    /\ UNCHANGED <<saved, apps>> /\ Unwound
UndoHealth ==
    /\ Undone("unhealth", "unroute") \/ Gives("unhealth")
    /\ UNCHANGED server /\ Unwound
UndoRoutes ==
    /\ \/ Undone("unroute", "unregister") /\ saved' = live
       \/ Gives("unroute") /\ saved' \in {saved, live}
    /\ UNCHANGED <<live, apps>> /\ Unwound
UndoApps ==
    /\ \/ Undone("unregister", "unsave") /\ apps' = mem.act
       \/ Gives("unregister") /\ UNCHANGED apps
    /\ UNCHANGED <<live, saved>> /\ Unwound
UndoSave ==
    /\ \/ Undone("unsave", "failed") /\ saved' = live
       \/ Gives("unsave") /\ UNCHANGED saved
    /\ UNCHANGED <<live, apps>> /\ Unwound

RestoreActivation == UndoStart \/ UndoHealth \/ UndoRoutes \/ UndoApps \/ UndoSave

OutcomeEarly == IF resuming THEN "failed" ELSE "success"
Outcome == IF w = "succeeded" THEN "success" ELSE "failed"
\* While the agent starts, a failing write ends it.
Verdict ==
    /\ w \in {"succeeded", "failed"}
    /\ Persist([mem EXCEPT !.status = Outcome], "loop", IF resuming THEN "down" ELSE "loop")
    /\ resuming' = FALSE
    /\ UNCHANGED <<server, history>> /\ Quiet

\* report: the number is written before it is used.
SendReport ==
    /\ waiting = NoReport
    /\ \E next \in {[mem EXCEPT !.seq = @ + 1]} :
          /\ Persist(next, w, w)
          /\ IF broken' THEN UNCHANGED <<wire, waiting>>
             ELSE /\ waiting' = [job |-> mem.job, status |-> mem.status, seq |-> next.seq]
                  /\ wire' = wire \cup {waiting'}
    /\ UNCHANGED <<manager, resuming, server, history, crashes>>
Report == w = "loop" /\ mem # NoJournal /\ ~ broken /\ SendReport /\ UNCHANGED timer
TimerReport ==
    /\ Working /\ ~ resuming /\ mem.status = "running" /\ ~ broken
    /\ timer < MaxTimer /\ timer' = timer + 1 /\ SendReport

\* The answer: after a final report the journal goes.
Unlink(m) == m.status # "running"
Answer ==
    /\ waiting # NoReport /\ waiting \notin wire
    /\ waiting' = NoReport
    /\ IF Unlink(waiting) THEN mem' = NoJournal /\ disk' = NoJournal ELSE UNCHANGED <<mem, disk>>
    /\ UNCHANGED <<manager, wire, w, broken, resuming, server, history, bounds>>

\* The agent gives up; the report may be lost or still be processed.
GiveUp ==
    /\ waiting # NoReport /\ faults < MaxFaults /\ faults' = faults + 1
    /\ waiting' = NoReport
    /\ wire' \in {wire, wire \ {waiting}}
    /\ UNCHANGED <<manager, w, journal, resuming, server, history, crashes, timer>>

(***************************************************************************)
(* Ends and starts of the agent.                                           *)
(***************************************************************************)

Crash ==
    /\ w # "down" /\ crashes < MaxCrashes /\ crashes' = crashes + 1
    /\ w' = "down" /\ mem' = NoJournal /\ broken' = FALSE /\ waiting' = NoReport /\ resuming' = FALSE
    /\ live' \in {live, Off}
    /\ UNCHANGED <<manager, wire, disk, saved, apps, history, faults, timer>>

Resume ==
    CASE disk = NoJournal \/ disk.status # "running" -> "loop"
      [] disk # NoJournal /\ disk.status = "running" /\ disk.act = NotYet -> "failed"
      [] OTHER -> "undo"
Boot ==
    /\ w = "down" /\ w' = Resume
    /\ mem' = disk /\ resuming' = (w' # "loop")
    /\ live' = IF live = Off THEN saved ELSE live
    /\ UNCHANGED <<disk, broken, saved, apps, history, faults>> /\ Quiet

AgentStep == Journal \/ Build \/ JournalActivation \/ Activate \/ RestoreActivation \/ Verdict \/ Report \/ Answer \/ Boot

Next ==
    \/ \E j \in Jobs : QueueRemoteDeploy(j) \/ CancelQueuedJob(j)
    \/ \E m \in wire : Deliver(m)
    \/ Claim \/ ClaimLost
    \/ AgentStep \/ TimerReport \/ GiveUp \/ Crash

Spec == Init /\ [][Next]_vars

\* The agent's process runs on and is started again, its claims and the reports it waits for arrive.
FairSpec == Spec /\ WF_vars(Claim) /\ WF_vars(AgentStep) /\ WF_vars(waiting \in wire /\ Deliver(waiting))

(***************************************************************************)
(* Properties.                                                             *)
(***************************************************************************)

\* The values the rows, the journal and the server can have.
Places == {"down", "loop", "journal", "checkout", "activate", "delete", "start", "health", "routes", "registry", "save",
           "succeeded", "undo", "unhealth", "unroute", "unregister", "unsave", "failed"}
TypeOK ==
    /\ status \in [Jobs -> {"none", "queued", "running", "success", "failed", "cancelled"}]
    /\ seen \in [Jobs -> Nat] /\ wire \subseteq Reports /\ waiting \in Reports \cup {NoReport}
    /\ w \in Places /\ mem \in Journals \cup {NoJournal} /\ disk \in Journals \cup {NoJournal}
    /\ broken \in BOOLEAN /\ resuming \in BOOLEAN
    /\ live \in Releases \cup {Off} /\ saved \in Releases /\ apps \in Releases
    /\ begun \subseteq Jobs /\ unrestored \in BOOLEAN
    /\ faults \in 0..MaxFaults /\ crashes \in 0..MaxCrashes /\ timer \in 0..MaxTimer

Running(r) == live = r \/ (live = Off /\ saved = r)

\* What Manager has claimed is executed once at most, whatever is lost, repeated or restarted.
NeverReplayed == [][w # "checkout" /\ w' = "checkout" => mem.job \notin begun]_vars

\* Between jobs the application runs the release that apps.json names, which PM2 also starts
\* after a reboot, unless a restoration has failed.
RegistryIsTrue == w = "loop" /\ ~ unrestored => Running(apps) /\ saved = apps

\* A job is reported successful only when its release is the registered one, and failed only
\* when it is not, unless a restoration has failed.
VerdictIsTrue ==
    [][\A j \in Jobs : status'[j] # status[j] =>
          /\ status'[j] = "success" => apps = j
          /\ status'[j] = "failed" => apps # j \/ unrestored]_vars

\* A claimed job ends, though reports are lost and the agent dies, unless the journal cannot be written.
JobSettles == \A j \in Jobs : status[j] = "running" ~> status[j] # "running" \/ broken
=============================================================================

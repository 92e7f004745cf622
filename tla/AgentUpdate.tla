----------------------------- MODULE AgentUpdate -----------------------------
(***************************************************************************)
(* Updates of the agent of a managed server: the rows of                   *)
(* remote_agent_updates and the running remote job on Manager              *)
(* (lib/remote-agent-updates.ts, claimJob of lib/managed-servers.ts), the  *)
(* supervisor that installs an update or restores the agent it replaced    *)
(* (scripts/manager-agent-supervisor.cjs), and its child, the agent, which *)
(* executes deployments.  Update u installs version u.                     *)
(***************************************************************************)
EXTENDS Integers, FiniteSets

CONSTANTS MaxUpdate,   \* the number of updates, and the last version
          MaxLosses,   \* lost requests, failing writes and failing restorations
          MaxEnds,     \* ends of the supervisor, the agent or the host
          MaxSequence  \* reports of one update that ask for attention

Updates == 1..MaxUpdate
Versions == 0..MaxUpdate

ASSUME Bounds == MaxUpdate \in Nat /\ MaxLosses \in Nat /\ MaxEnds \in Nat /\ MaxSequence \in Nat

VARIABLES
    upd, from, counted, \* remote_agent_updates: status, from_version, report_sequence
    job,                \* the server's remote job: none, queued or running
    beat,               \* the version in the last heartbeat
    late,               \* update reports whose sender no longer waits
    file,               \* the version of manager-agent.cjs
    backup,             \* the updates whose previous.cjs is written
    stored, held,       \* state.json and the supervisor's copy of it
    pc,                 \* where the supervisor is
    wk, wv,             \* the agent: off, idle or busy, and its version
    child,              \* it belongs to the running supervisor
    leaving,            \* it was asked to stop
    pulsed, told,       \* the supervisor has its heartbeat, and believes it idle
    jobFile,            \* current-job.json: none, running or final
    losses, ends

rows == <<upd, from, counted, job, beat, late>>
record == <<stored, held>>
agent == <<wk, wv, child, leaving, pulsed, told, jobFile>>
update == <<rows, file, backup, record, pc, agent, losses, ends>>

NoState == [u |-> 0, phase |-> "none", restored |-> FALSE, reported |-> TRUE, seq |-> 0]
UpdateInit ==
    /\ upd = [u \in Updates |-> "none"] /\ from = [u \in Updates |-> 0] /\ counted = [u \in Updates |-> 0]
    /\ job = "none" /\ beat = 0 /\ late = {}
    /\ file = 0 /\ backup = {} /\ stored = NoState /\ held = NoState /\ pc = "loop"
    /\ wk = "idle" /\ wv = 0 /\ child = TRUE /\ leaving = FALSE
    /\ pulsed = TRUE /\ told = TRUE /\ jobFile = "none"
    /\ losses = 0 /\ ends = 0

Fault == losses < MaxLosses /\ losses' = losses + 1
Active == {u \in Updates : upd[u] \in {"queued", "installing", "recovery_required"}}
Open == {u \in Updates : upd[u] \in {"installing", "recovery_required"}}

(***************************************************************************)
(* Manager.                                                                *)
(***************************************************************************)

QueueAgentUpdate(u) ==
    /\ Active = {} /\ \A v \in Updates : upd[v] = "none" <=> v >= u
    /\ upd' = [upd EXCEPT ![u] = "queued"] /\ from' = [from EXCEPT ![u] = beat]
    /\ UNCHANGED <<counted, job, beat, late, file, backup, record, pc, agent, losses, ends>>

CancelAgentUpdate(u) ==
    /\ upd[u] = "queued" /\ upd' = [upd EXCEPT ![u] = "cancelled"]
    /\ UNCHANGED <<from, counted, job, beat, late, file, backup, record, pc, agent, losses, ends>>

QueueDeploy ==
    /\ job = "none" /\ job' = "queued"
    /\ UNCHANGED <<upd, from, counted, beat, late, file, backup, record, pc, agent, losses, ends>>

\* claimJob gives out the running job again, and a queued one unless an update is active.
JobClaimableAfterSuccess ==
    job = "running" \/ (job = "queued" /\ \A u \in Updates : upd[u] \in {"none", "cancelled", "success"})
JobClaimable == job = "running" \/ (job = "queued" /\ Active = {})

\* claimAgentUpdate gives out the update in progress again, and a queued one unless a job runs.
UpdateClaimableOnce(u) == upd[u] = "queued" /\ job # "running" /\ wv = from[u]
UpdateClaimable(u) == u \in Open \/ (upd[u] = "queued" /\ job # "running" /\ wv = from[u])
Offer(u) == upd' = [upd EXCEPT ![u] = IF @ = "queued" THEN "installing" ELSE @]

\* reportAgentUpdate; a refusal is an error for the supervisor.
Refused(m) ==
    /\ m.u \in Open /\ m.seq > counted[m.u]
    /\ \/ m.phase = "success" /\ beat # m.u
       \/ m.phase = "rolled_back" /\ beat # from[m.u]
FreshReport(m) == m.u \in Open /\ m.seq > counted[m.u]
Record(m) ==
    IF FreshReport(m) /\ ~ Refused(m)
    THEN upd' = [upd EXCEPT ![m.u] = m.phase] /\ counted' = [counted EXCEPT ![m.u] = m.seq]
    ELSE UNCHANGED <<upd, counted>>

Late(m) ==
    /\ m \in late /\ late' = late \ {m} /\ Record(m)
    /\ UNCHANGED <<from, job, beat, file, backup, record, pc, agent, losses, ends>>

(***************************************************************************)
(* The agent.                                                              *)
(***************************************************************************)

host == <<file, backup, record, pc>>

Heartbeat ==
    /\ wk # "off" /\ beat' = wv /\ pulsed' = child
    /\ UNCHANGED <<upd, from, counted, job, late, host, wk, wv, child, leaving, told, jobFile, losses, ends>>

\* Its messages about being idle arrive later than they are true.
Tell ==
    /\ wk # "off" /\ child /\ told' = (wk = "idle" /\ jobFile = "none")
    /\ UNCHANGED <<rows, host, wk, wv, child, leaving, pulsed, jobFile, losses, ends>>

ClaimJob ==
    /\ wk = "idle" /\ jobFile = "none" /\ JobClaimable /\ job' = "running"
    /\ \/ wk' = "busy" /\ jobFile' = "running" /\ UNCHANGED losses
       \/ Fault /\ UNCHANGED <<wk, jobFile>>
    /\ UNCHANGED <<upd, from, counted, beat, late, host, wv, child, leaving, pulsed, told, ends>>

FinishJob ==
    /\ wk = "busy" /\ wk' = "idle" /\ jobFile' = "final"
    /\ UNCHANGED <<rows, host, wv, child, leaving, pulsed, told, losses, ends>>

\* Manager has the result; the journal goes when its answer arrives.
ReportJob ==
    /\ wk = "idle" /\ jobFile = "final" /\ job' = "none"
    /\ \/ jobFile' = "none" /\ UNCHANGED losses
       \/ Fault /\ UNCHANGED jobFile
    /\ UNCHANGED <<upd, from, counted, beat, late, host, wk, wv, child, leaving, pulsed, told, ends>>

Leave ==
    /\ wk = "idle" /\ leaving /\ wk' = "off"
    /\ UNCHANGED <<rows, host, wv, child, leaving, pulsed, told, jobFile, losses, ends>>

(***************************************************************************)
(* The supervisor.                                                         *)
(***************************************************************************)

Spawn ==
    /\ wk = "off" /\ wk' = "idle" /\ wv' = file /\ child' = TRUE /\ leaving' = FALSE
    /\ pulsed' = FALSE /\ told' = FALSE
    /\ jobFile' = IF jobFile = "running" THEN "final" ELSE jobFile

\* persist, where a failing write throws.
Save(state, next, otherwise) ==
    /\ held' = state
    /\ \/ stored' = state /\ pc' = next /\ UNCHANGED losses
       \/ pc' = otherwise /\ Fault /\ UNCHANGED stored
Phase(p) == [held EXCEPT !.phase = p]

Unsettled == {"activating", "testing", "restoring", "recovery_required"}

\* The start restores an update that was under way and gives up one in preparation.
Begin ==
    /\ pc = "off"
    /\ \/ /\ stored.phase \in Unsettled /\ pc' = "rollback"
          /\ held' = stored /\ UNCHANGED <<stored, agent, losses>>
       \/ /\ stored.phase \notin Unsettled /\ wk = "off"
          /\ \E s \in {IF stored.phase = "preparing" THEN [stored EXCEPT !.phase = "failed"] ELSE stored} :
                Save(s, "loop", "off")
          /\ IF pc' = "loop" THEN Spawn ELSE UNCHANGED agent
    /\ UNCHANGED <<rows, file, backup, ends>>

Respawn ==
    /\ pc = "loop" /\ held.phase # "recovery_required" /\ Spawn
    /\ UNCHANGED <<rows, host, losses, ends>>

Connected(v) == wk # "off" /\ child /\ pulsed /\ wv = v

\* After an outage the restored agent is confirmed.
ResumeConfirmation ==
    /\ pc = "loop" /\ held.phase = "recovery_required" /\ held.restored
    /\ Connected(from[held.u]) /\ told
    /\ Save(Phase("rolled_back"), "loop", "loop")
    /\ UNCHANGED <<rows, file, backup, agent, ends>>

Reportable ==
    /\ ~ held.reported
    /\ \/ held.phase = "failed"
       \/ held.phase = "recovery_required" /\ held.seq < MaxSequence
       \/ held.phase = "success" /\ Connected(held.u)
       \/ held.phase = "rolled_back" /\ Connected(from[held.u])

\* The number is written first; the answer to the last report is written too.
ReportUpdate ==
    /\ pc = "loop" /\ Reportable
    /\ \E s \in {[held EXCEPT !.seq = @ + 1]} : Save(s, "send", "loop")
    /\ UNCHANGED <<rows, file, backup, agent, ends>>
Send ==
    /\ pc = "send"
    /\ \E m \in {[u |-> held.u, seq |-> held.seq, phase |-> held.phase]} :
          \/ /\ Record(m) /\ UNCHANGED late
             /\ IF Refused(m) \/ held.phase = "recovery_required"
                THEN pc' = "loop" /\ UNCHANGED <<record, losses>>
                ELSE Save([held EXCEPT !.reported = TRUE], "loop", "loop")
          \/ /\ pc' = "loop" /\ Fault /\ UNCHANGED record
             /\ \/ Record(m) /\ UNCHANGED late
                \/ late' \in {late, late \cup {m}} /\ UNCHANGED <<upd, counted>>
    /\ UNCHANGED <<from, job, beat, file, backup, agent, ends>>

\* The claim, and the checks of apply that come before its record.
ReadyTold == told
Ready == told /\ jobFile = "none"
ClaimUpdate ==
    /\ pc = "loop" /\ held.reported /\ told /\ wk # "off" /\ child /\ pulsed
    /\ \E u \in Updates :
          /\ UpdateClaimable(u) /\ Offer(u)
          /\ IF Ready
             THEN Save([NoState EXCEPT !.u = u, !.phase = "preparing", !.reported = FALSE], "backup", "loop")
             ELSE pc' = pc /\ UNCHANGED <<record, losses>>
    /\ UNCHANGED <<from, counted, job, beat, late, file, backup, agent, ends>>
ClaimUpdateLost ==
    /\ pc = "loop" /\ held.reported /\ Fault
    /\ \E u \in Updates : UpdateClaimable(u) /\ Offer(u)
    /\ UNCHANGED <<from, counted, job, beat, late, host, agent, ends>>

\* A step of apply, or its catch.
CatchActivating == IF held.phase \in {"preparing", "activating"} THEN "abort" ELSE "rollback"
Catch == IF held.phase = "preparing" THEN "abort" ELSE "rollback"
Throw(p) == pc = p /\ pc' = Catch
Frame == UNCHANGED <<rows, ends>>

Backup ==
    /\ \/ pc = "backup" /\ pc' = "candidate" /\ backup' = backup \cup {held.u}
       \/ Throw("backup") /\ UNCHANGED backup
    /\ UNCHANGED <<file, record, agent, losses>> /\ Frame
Candidate ==
    /\ \/ pc = "candidate" /\ pc' = "stop" /\ leaving' = TRUE
       \/ Throw("candidate") /\ UNCHANGED leaving
    /\ UNCHANGED <<file, backup, record, wk, wv, child, pulsed, told, jobFile, losses>> /\ Frame
StopWorker ==
    /\ pc = "stop"
    /\ \/ wk = "off" /\ pc' = "activate"
       \/ wk # "off" /\ pc' = Catch
    /\ UNCHANGED <<file, backup, record, agent, losses>> /\ Frame
ActivateUpdateLater ==
    /\ pc = "activate" /\ pc' = "replace" /\ held' = Phase("activating")
    /\ UNCHANGED <<stored, file, backup, agent, losses>> /\ Frame
ActivateUpdate ==
    /\ pc = "activate" /\ Save(Phase("activating"), "replace", "rollback")
    /\ UNCHANGED <<file, backup, agent>> /\ Frame
Replace ==
    /\ \/ pc = "replace" /\ pc' = "testing" /\ file' = held.u
       \/ Throw("replace") /\ file' \in {file, held.u}
    /\ UNCHANGED <<backup, record, agent, losses>> /\ Frame
Testing ==
    /\ pc = "testing" /\ Save(Phase("testing"), "start", "rollback")
    /\ UNCHANGED <<file, backup, agent>> /\ Frame
Start ==
    /\ pc = "start" /\ pc' = "confirm" /\ Spawn
    /\ UNCHANGED <<file, backup, record, losses>> /\ Frame
\* The observation period; what is wrong with a candidate shows here.
Confirm ==
    /\ \/ pc = "confirm" /\ Connected(held.u) /\ told /\ Save(Phase("success"), "loop", "rollback")
       \/ Throw("confirm") /\ UNCHANGED <<record, losses>>
    /\ UNCHANGED <<file, backup, agent>> /\ Frame
Abort ==
    /\ pc = "abort" /\ Save(Phase("failed"), "loop", "loop")
    /\ UNCHANGED <<file, backup, agent>> /\ Frame

Apply == Backup \/ Candidate \/ StopWorker \/ ActivateUpdate \/ Replace \/ Testing \/ Start \/ Confirm \/ Abort

\* restore; what fails in it asks for attention.
Attention(p) == pc = p /\ pc' = "attention" /\ Fault
RollBack ==
    /\ \/ pc = "rollback" /\ pc' = "restoring" /\ wk' = (IF child THEN "off" ELSE wk) /\ UNCHANGED losses
       \/ Attention("rollback") /\ UNCHANGED wk
    /\ UNCHANGED <<file, backup, record, wv, child, leaving, pulsed, told, jobFile>> /\ Frame
Restoring ==
    /\ pc = "restoring" /\ held.u \in backup /\ Save(Phase("restoring"), "rewrite", "attention")
    /\ UNCHANGED <<file, backup, agent>> /\ Frame
Rewrite ==
    /\ \/ pc = "rewrite" /\ pc' = "restored" /\ file' = from[held.u] /\ UNCHANGED losses
       \/ Attention("rewrite") /\ file' \in {file, from[held.u]}
    /\ UNCHANGED <<backup, record, agent>> /\ Frame
Restored ==
    /\ pc = "restored" /\ Save([held EXCEPT !.restored = TRUE], "restart", "attention")
    /\ UNCHANGED <<file, backup, agent>> /\ Frame
Restart ==
    /\ \/ pc = "restart" /\ pc' = "reconfirm" /\ Spawn /\ UNCHANGED losses
       \/ Attention("restart") /\ UNCHANGED agent
    /\ UNCHANGED <<file, backup, record>> /\ Frame
Reconfirm ==
    /\ \/ pc = "reconfirm" /\ Connected(from[held.u]) /\ told /\ Save(Phase("rolled_back"), "loop", "attention")
       \/ pc = "reconfirm" /\ wk = "off" /\ pc' = "attention" /\ UNCHANGED <<record, losses>>
       \/ Attention("reconfirm") /\ UNCHANGED record
    /\ UNCHANGED <<file, backup, agent>> /\ Frame
AskForAttention ==
    /\ pc = "attention" /\ Save(Phase("recovery_required"), "loop", "loop")
    /\ UNCHANGED <<file, backup, agent>> /\ Frame

Restore == RollBack \/ Restoring \/ Rewrite \/ Restored \/ Restart \/ Reconfirm \/ AskForAttention

\* The supervisor's service is started again; its child leaves when it is alone.
SupervisorEnds ==
    /\ pc # "off" /\ pc' = "off" /\ held' = NoState
    /\ \/ child' = FALSE /\ leaving' = TRUE /\ UNCHANGED wk
       \/ wk' = "off" /\ UNCHANGED <<child, leaving>>
    /\ ends < MaxEnds /\ ends' = ends + 1
    /\ UNCHANGED <<rows, file, backup, stored, wv, pulsed, told, jobFile, losses>>

AgentEnds ==
    /\ wk # "off" /\ wk' = "off"
    /\ ends < MaxEnds /\ ends' = ends + 1
    /\ UNCHANGED <<rows, host, wv, child, leaving, pulsed, told, jobFile, losses>>

Loop == Respawn \/ ResumeConfirmation \/ ReportUpdate \/ Send \/ ClaimUpdate
UpdateNext ==
    \/ \E u \in Updates : QueueAgentUpdate(u) \/ CancelAgentUpdate(u)
    \/ QueueDeploy \/ \E m \in late : Late(m)
    \/ Heartbeat \/ Tell \/ ClaimJob \/ FinishJob \/ ReportJob \/ Leave
    \/ Begin \/ Loop \/ ClaimUpdateLost \/ Apply \/ Restore
    \/ SupervisorEnds \/ AgentEnds

UpdateSpec == UpdateInit /\ [][UpdateNext]_update

\* The service starts the supervisor again, its loop and the agent's run on, commands end.  An
\* agent that is asked to stop takes one more job at most.
FairUpdateSpec ==
    /\ UpdateSpec /\ WF_update(Begin \/ Loop \/ Apply \/ Restore)
    /\ WF_update(Heartbeat) /\ WF_update(Tell)
    /\ WF_update(ClaimJob) /\ WF_update(FinishJob) /\ WF_update(ReportJob) /\ SF_update(Leave)

(***************************************************************************)
(* Properties.                                                             *)
(***************************************************************************)

\* The values the rows, the files and the processes can have.
Phases == {"none", "preparing", "activating", "testing", "success", "failed", "restoring", "rolled_back", "recovery_required"}
States == [u : 0..MaxUpdate, phase : Phases, restored : BOOLEAN, reported : BOOLEAN, seq : Nat]
Stages == {"off", "loop", "send", "backup", "candidate", "stop", "activate", "replace", "testing", "start", "confirm", "abort",
           "rollback", "restoring", "rewrite", "restored", "restart", "reconfirm", "attention"}
RowTypes ==
    /\ upd \in [Updates -> {"none", "queued", "cancelled", "installing", "success", "failed", "rolled_back", "recovery_required"}]
    /\ from \in [Updates -> Versions] /\ counted \in [Updates -> Nat]
    /\ job \in {"none", "queued", "running"} /\ beat \in Versions
    /\ late \subseteq [u : Updates, seq : Nat, phase : Phases]
RecordTypes == file \in Versions /\ backup \subseteq Updates /\ stored \in States /\ held \in States /\ pc \in Stages
AgentTypes ==
    /\ wk \in {"off", "idle", "busy"} /\ wv \in Versions /\ jobFile \in {"none", "running", "final"}
    /\ child \in BOOLEAN /\ leaving \in BOOLEAN /\ pulsed \in BOOLEAN /\ told \in BOOLEAN
    /\ losses \in 0..MaxLosses /\ ends \in 0..MaxEnds
UpdateTypeOK == RowTypes /\ RecordTypes /\ AgentTypes

\* While the agent's file is replaced, tried or restored no deployment runs on the server or is
\* left unreported in its journal, and Manager has none running.
UpdateExcludesJob ==
    stored.phase \in Unsettled => wk # "busy" /\ jobFile = "none" /\ job # "running"

\* Whenever the supervisor or the host ends, what is on disk is enough to put the previous agent
\* back: the record, its backup, and a file that is one of the two.
Recoverable ==
    /\ wk # "off" /\ file # wv => stored.phase \in Unsettled
    /\ stored.phase \in Unsettled => stored.u \in backup /\ file \in {stored.u, from[stored.u]}
    /\ stored.phase = "preparing" => file = from[stored.u]

\* Manager records an update as successful only when its version is installed, and as failed or
\* rolled back only when the version before it is.
VerdictIsInstalled ==
    [][\A u \in Updates : upd'[u] # upd[u] =>
          /\ upd'[u] = "success" => file = u
          /\ upd'[u] \in {"failed", "rolled_back"} => file = from[u]]_update

\* An update that has begun ends or asks for attention, unless its first record could not be written.
Stalled == pc = "loop" /\ held.phase = "preparing"

\* The deployments an update holds back are claimed in the end, unless one needs attention.
WorkResumes == job = "queued" ~> job # "queued" \/ Stalled \/ \E u \in Updates : upd[u] = "recovery_required"

=============================================================================

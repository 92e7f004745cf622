-------------------------- MODULE ManagedServer_proofs --------------------------
(***************************************************************************)
(* Managed servers.  Of a server's deployments: that a claimed job is      *)
(* executed once, that the registered release is the one that runs and     *)
(* that Manager's verdict is true.  Of the updates of its agent: that they *)
(* exclude deployments, that the previous agent can always be put back and *)
(* that Manager's verdict is true.  For any numbers of jobs, updates, lost *)
(* messages, failing writes and ends of the agent and its supervisor.      *)
(***************************************************************************)
EXTENDS RemoteJob, AgentUpdate, TLAPS

(***************************************************************************)
(* Deployments: the inductive invariant.                                   *)
(***************************************************************************)

Started(j) == status[j] \in {"running", "success", "failed"}
Ended(j) == status[j] \in {"success", "failed"}
Activating == {"delete", "start", "health", "routes", "registry", "save"}
Undoing == {"undo", "unhealth", "unroute", "unregister", "unsave"}

\* Nothing is known of a job before Manager has handed it out.
JobsStarted ==
    /\ \A j \in begun : Started(j)
    /\ \A m \in wire : Started(m.job)
    /\ mem # NoJournal => Started(mem.job)
    /\ disk # NoJournal => Started(disk.job)

\* A job that was begun or reported has ended or is the one in current-job.json, so that what the
\* agent claims without a journal is new to it.
Touched(j) == j \in begun \/ seen[j] # 0 \/ \E m \in wire : m.job = j
Recorded == \A j \in Jobs : Touched(j) => Ended(j) \/ (disk # NoJournal /\ disk.job = j)

\* What the journal in memory and on disk say at each place.
JournalTells ==
    /\ w # "down" /\ disk # NoJournal => mem # NoJournal /\ mem.job = disk.job
    /\ Working => mem # NoJournal /\ mem.status = "running" /\ (disk # NoJournal => disk.status = "running")
    /\ w \in Activating \cup Undoing \cup {"succeeded"} =>
          disk # NoJournal /\ disk.act # NotYet /\ mem.act = disk.act
    /\ w \in {"journal", "checkout", "activate"} => mem.act = NotYet
    /\ w = "loop" /\ disk # NoJournal /\ disk.status # "running" => mem.status = disk.status
    /\ resuming => w \in Undoing \cup {"failed"}

\* The number in a journal is that of the last report of its job.
Covers(x) == x # NoJournal => seen[x.job] <= x.seq /\ \A m \in wire : m.job = x.job => m.seq <= x.seq
Numbered == Covers(mem) /\ Covers(disk)

\* The report whose answer is awaited is the newest one, and its processing cannot be skipped.
WaitingTells ==
    waiting # NoReport =>
        /\ w # "down" /\ ~ resuming /\ mem # NoJournal
        /\ waiting.job = mem.job /\ waiting.seq = mem.seq
        /\ waiting.status # "running" => w = "loop"
        /\ waiting \in wire => seen[waiting.job] < waiting.seq
        /\ \A m \in wire : m.job = waiting.job => m = waiting \/ m.seq < waiting.seq
        /\ waiting \notin wire /\ waiting.status # "running" => Ended(waiting.job)

\* A final report that can still count is what current-job.json says.
ReportsTell ==
    \A m \in wire : m.status # "running" /\ ~ Ended(m.job) =>
        disk # NoJournal /\ disk.job = m.job /\ disk.status = m.status

\* A job is begun behind its first write, and only releases of begun jobs are registered.
Old(r) == r \in Jobs => r \in begun
BegunTells ==
    /\ w = "journal" => mem.job \notin begun
    /\ w \in {"checkout", "activate"} \cup Activating => mem.job \in begun
    /\ Old(apps) /\ (mem # NoJournal => Old(mem.act)) /\ (disk # NoJournal => Old(disk.act))

\* A job's own release is never the one to restore, and registered only by its activation.
Apart(x) ==
    x # NoJournal => /\ x.act # x.job
                     /\ x.status = "running" /\ x.act = NotYet => apps # x.job
ReleasesApart == Apart(mem) /\ Apart(disk)

\* What runs, what is registered and what PM2 has saved at each place.
Settled == unrestored \/ (live = apps /\ saved = apps)
ServerTells ==
    /\ w # "down" => live # Off
    /\ w \in {"loop", "journal", "checkout", "activate", "failed"} => Settled
    /\ w \in {"delete", "start", "health", "routes", "registry"} => apps = mem.act
    /\ w \in {"health", "routes", "registry", "save", "succeeded"} => live = mem.job
    /\ w \in {"save", "succeeded"} => apps = mem.job
    /\ w = "succeeded" => saved = mem.job
    /\ w \in {"unhealth", "unroute", "unregister", "unsave"} => live = mem.act
    /\ w = "unsave" => apps = mem.act
    /\ w = "failed" => apps # mem.job \/ unrestored

\* Verdicts in a journal are true.
True(x) ==
    x # NoJournal => /\ x.status = "success" => apps = x.job
                     /\ x.status = "failed" => apps # x.job \/ unrestored
\* What the agent finds when it starts and has nothing to restore.
DownTells ==
    w = "down" /\ (disk = NoJournal \/ disk.status # "running" \/ disk.act = NotYet) =>
        unrestored \/ (live \in {apps, Off} /\ saved = apps)
VerdictsTell ==
    /\ w = "loop" => True(mem)
    /\ w = "down" => True(disk)
    /\ DownTells

IInv ==
    /\ TypeOK /\ JobsStarted /\ Recorded /\ JournalTells /\ Numbered /\ WaitingTells
    /\ ReportsTell /\ BegunTells /\ ReleasesApart /\ ServerTells /\ VerdictsTell

(***************************************************************************)
(* Journals and reports.                                                   *)
(***************************************************************************)

LEMMA JournalFields ==
    \A x \in Journals : /\ x # NoJournal /\ x.job \in Jobs /\ x.status \in {"running", "success", "failed"}
                       /\ x.act \in Releases \cup {NotYet} /\ x.seq \in Nat
  BY Names DEF Journals

LEMMA ReportFields ==
    \A m \in Reports : m # NoReport /\ m.job \in Jobs /\ m.status \in {"running", "success", "failed"} /\ m.seq \in Nat
  BY Names DEF Reports

LEMMA Activated ==
    ASSUME NEW x \in Journals, NEW r \in Releases, NEW y, y = [x EXCEPT !.act = r]
    PROVE  y \in Journals /\ y.job = x.job /\ y.status = x.status /\ y.act = r /\ y.seq = x.seq
  BY DEF Journals

LEMMA Concluded ==
    ASSUME NEW x \in Journals, NEW s \in {"running", "success", "failed"}, NEW y, y = [x EXCEPT !.status = s]
    PROVE  y \in Journals /\ y.job = x.job /\ y.status = s /\ y.act = x.act /\ y.seq = x.seq
  BY DEF Journals

LEMMA Counted ==
    ASSUME NEW x \in Journals, NEW y, y = [x EXCEPT !.seq = @ + 1]
    PROVE  y \in Journals /\ y.job = x.job /\ y.status = x.status /\ y.act = x.act /\ y.seq = x.seq + 1
  BY DEF Journals

LEMMA Begun ==
    ASSUME NEW j \in Jobs, NEW y, y = [job |-> j, status |-> "running", act |-> NotYet, seq |-> 0]
    PROVE  y \in Journals /\ y.job = j /\ y.status = "running" /\ y.act = NotYet /\ y.seq = 0
  BY DEF Journals

\* What a job's execution does to the server leaves Manager and the journal alone.
LEMMA ServerFrame ==
    ASSUME IInv, Working, w' \notin {"down", "loop"},
           UNCHANGED <<status, seen, wire, waiting, mem, disk, broken, resuming, begun>>
    PROVE  JobsStarted' /\ Recorded' /\ Numbered' /\ WaitingTells' /\ ReportsTell'
<1>1. JobsStarted' /\ Recorded'
  BY DEF IInv, JobsStarted, Recorded, Touched, Started, Ended
<1>2. Numbered' /\ ReportsTell'
  BY DEF IInv, Numbered, Covers, ReportsTell, Ended
<1>3. WaitingTells'
  BY DEF IInv, WaitingTells, Ended, Working
<1> QED BY <1>1, <1>2, <1>3

LEMMA InitIInv == Init => IInv
<1> SUFFICES ASSUME Init PROVE IInv
  OBVIOUS
<1>1. TypeOK
  <2>1. status \in [Jobs -> {"none", "queued", "running", "success", "failed", "cancelled"}] /\ seen \in [Jobs -> Nat]
    BY DEF Init
  <2>2. faults \in 0..MaxFaults /\ crashes \in 0..MaxCrashes /\ timer \in 0..MaxTimer
    BY Names DEF Init
  <2>3. wire \subseteq Reports /\ waiting = NoReport /\ w \in Places /\ mem = NoJournal /\ disk = NoJournal
    BY DEF Init, Places
  <2>4. broken \in BOOLEAN /\ resuming \in BOOLEAN /\ unrestored \in BOOLEAN /\ begun \subseteq Jobs
    BY DEF Init
  <2>5. live \in Releases \cup {Off} /\ saved \in Releases /\ apps \in Releases
    BY DEF Init, Releases
  <2> QED BY <2>1, <2>2, <2>3, <2>4, <2>5 DEF TypeOK
<1>2. JobsStarted /\ Recorded /\ JournalTells /\ Numbered /\ WaitingTells /\ ReportsTell
  BY
     DEF Init, JobsStarted, Recorded, Touched, JournalTells, Working, Activating, Undoing, Numbered, Covers,
         WaitingTells, ReportsTell
<1>3. BegunTells /\ ReleasesApart /\ ServerTells /\ VerdictsTell
  BY Names
     DEF Init, BegunTells, Old, Activating, ReleasesApart, Apart, ServerTells, Settled, VerdictsTell, True,
         DownTells, Releases
<1> QED BY <1>1, <1>2, <1>3 DEF IInv

(***************************************************************************)
(* Every step keeps the invariant.                                         *)
(***************************************************************************)

LEMMA QueueStep == ASSUME IInv, NEW j \in Jobs, QueueRemoteDeploy(j) PROVE IInv'
<1>1. TypeOK'
  BY JournalFields, ReportFields, Names
     DEF IInv, TypeOK, Places, QueueRemoteDeploy, manager, journal, server, history, bounds
<1>2. JobsStarted'
  BY JournalFields, ReportFields, Names
     DEF IInv, TypeOK, Places, JobsStarted, Started, JournalTells, Working, Activating, Undoing, QueueRemoteDeploy,
         manager, journal, server, history, bounds
<1>3. Recorded'
  BY JournalFields, ReportFields, Names
     DEF IInv, TypeOK, Places, Recorded, Touched, Ended, JobsStarted, Started, JournalTells, Working, Activating,
         Undoing, WaitingTells, QueueRemoteDeploy, manager, journal, server, history, bounds
<1>4. JournalTells'
  BY JournalFields, ReportFields, Names
     DEF IInv, TypeOK, Places, JournalTells, Working, Activating, Undoing, QueueRemoteDeploy, manager, journal,
         server, history, bounds
<1>5. Numbered'
  BY JournalFields, ReportFields, Names
     DEF IInv, TypeOK, Places, Numbered, Covers, JournalTells, Working, Activating, Undoing, QueueRemoteDeploy,
         manager, journal, server, history, bounds
<1>6. WaitingTells'
  BY JournalFields, ReportFields, Names
     DEF IInv, TypeOK, Places, WaitingTells, Ended, JobsStarted, Started, JournalTells, Working, Activating,
         Undoing, Numbered, Covers, QueueRemoteDeploy, manager, journal, server, history, bounds
<1>7. ReportsTell'
  BY JournalFields, ReportFields, Names
     DEF IInv, TypeOK, Places, ReportsTell, Ended, JournalTells, Working, Activating, Undoing, WaitingTells,
         QueueRemoteDeploy, manager, journal, server, history, bounds
<1>8. BegunTells'
  BY JournalFields, ReportFields, Names
     DEF IInv, TypeOK, Places, BegunTells, Old, Activating, JournalTells, Working, Undoing, QueueRemoteDeploy,
         manager, journal, server, history, bounds
<1>9. ReleasesApart'
  BY JournalFields, ReportFields, Names
     DEF IInv, TypeOK, Places, ReleasesApart, Apart, JournalTells, Working, Activating, Undoing, BegunTells, Old,
         ServerTells, Settled, Releases, QueueRemoteDeploy, manager, journal, server, history, bounds
<1>10. ServerTells'
  BY JournalFields, ReportFields, Names
     DEF IInv, TypeOK, Places, ServerTells, Settled, Releases, JournalTells, Working, Activating, Undoing,
         ReleasesApart, Apart, QueueRemoteDeploy, manager, journal, server, history, bounds
<1>11. VerdictsTell'
  BY JournalFields, ReportFields, Names
     DEF IInv, TypeOK, Places, VerdictsTell, True, DownTells, JournalTells, Working, Activating, Undoing,
         ServerTells, Settled, Releases, ReleasesApart, Apart, QueueRemoteDeploy, manager, journal, server, history,
         bounds
<1> QED BY <1>1, <1>2, <1>3, <1>4, <1>5, <1>6, <1>7, <1>8, <1>9, <1>10, <1>11 DEF IInv

LEMMA CancelStep == ASSUME IInv, NEW j \in Jobs, CancelQueuedJob(j) PROVE IInv'
<1>1. TypeOK'
  BY JournalFields, ReportFields, Names
     DEF IInv, TypeOK, Places, CancelQueuedJob, manager, journal, server, history, bounds
<1>2. JobsStarted'
  BY JournalFields, ReportFields, Names
     DEF IInv, TypeOK, Places, JobsStarted, Started, JournalTells, Working, Activating, Undoing, CancelQueuedJob,
         manager, journal, server, history, bounds
<1>3. Recorded'
  BY JournalFields, ReportFields, Names
     DEF IInv, TypeOK, Places, Recorded, Touched, Ended, JobsStarted, Started, JournalTells, Working, Activating,
         Undoing, WaitingTells, CancelQueuedJob, manager, journal, server, history, bounds
<1>4. JournalTells'
  BY JournalFields, ReportFields, Names
     DEF IInv, TypeOK, Places, JournalTells, Working, Activating, Undoing, CancelQueuedJob, manager, journal,
         server, history, bounds
<1>5. Numbered'
  BY JournalFields, ReportFields, Names
     DEF IInv, TypeOK, Places, Numbered, Covers, JournalTells, Working, Activating, Undoing, CancelQueuedJob,
         manager, journal, server, history, bounds
<1>6. WaitingTells'
  BY JournalFields, ReportFields, Names
     DEF IInv, TypeOK, Places, WaitingTells, Ended, JobsStarted, Started, JournalTells, Working, Activating,
         Undoing, Numbered, Covers, CancelQueuedJob, manager, journal, server, history, bounds
<1>7. ReportsTell'
  BY JournalFields, ReportFields, Names
     DEF IInv, TypeOK, Places, ReportsTell, Ended, JournalTells, Working, Activating, Undoing, WaitingTells,
         CancelQueuedJob, manager, journal, server, history, bounds
<1>8. BegunTells'
  BY JournalFields, ReportFields, Names
     DEF IInv, TypeOK, Places, BegunTells, Old, Activating, JournalTells, Working, Undoing, CancelQueuedJob,
         manager, journal, server, history, bounds
<1>9. ReleasesApart'
  BY JournalFields, ReportFields, Names
     DEF IInv, TypeOK, Places, ReleasesApart, Apart, JournalTells, Working, Activating, Undoing, BegunTells, Old,
         ServerTells, Settled, Releases, CancelQueuedJob, manager, journal, server, history, bounds
<1>10. ServerTells'
  BY JournalFields, ReportFields, Names
     DEF IInv, TypeOK, Places, ServerTells, Settled, Releases, JournalTells, Working, Activating, Undoing,
         ReleasesApart, Apart, CancelQueuedJob, manager, journal, server, history, bounds
<1>11. VerdictsTell'
  BY JournalFields, ReportFields, Names
     DEF IInv, TypeOK, Places, VerdictsTell, True, DownTells, JournalTells, Working, Activating, Undoing,
         ServerTells, Settled, Releases, ReleasesApart, Apart, CancelQueuedJob, manager, journal, server, history,
         bounds
<1> QED BY <1>1, <1>2, <1>3, <1>4, <1>5, <1>6, <1>7, <1>8, <1>9, <1>10, <1>11 DEF IInv

LEMMA DeliverStep == ASSUME IInv, NEW m \in wire, Deliver(m) PROVE IInv'
<1>1. TypeOK'
  BY JournalFields, ReportFields, Names
     DEF IInv, TypeOK, Places, Deliver, Fresh, manager, journal, server, history, bounds
<1>2. JobsStarted'
  BY JournalFields, ReportFields, Names
     DEF IInv, TypeOK, Places, JobsStarted, Started, JournalTells, Working, Activating, Undoing, Deliver, Fresh,
         manager, journal, server, history, bounds
<1>3. Recorded'
  BY JournalFields, ReportFields, Names
     DEF IInv, TypeOK, Places, Recorded, Touched, Ended, JobsStarted, Started, JournalTells, Working, Activating,
         Undoing, WaitingTells, Deliver, Fresh, manager, journal, server, history, bounds
<1>4. JournalTells'
  BY JournalFields, ReportFields, Names
     DEF IInv, TypeOK, Places, JournalTells, Working, Activating, Undoing, Deliver, Fresh, manager, journal, server,
         history, bounds
<1>5. Numbered'
  BY JournalFields, ReportFields, Names
     DEF IInv, TypeOK, Places, Numbered, Covers, JournalTells, Working, Activating, Undoing, Deliver, Fresh,
         manager, journal, server, history, bounds
<1>6. WaitingTells'
  BY JournalFields, ReportFields, Names
     DEF IInv, TypeOK, Places, WaitingTells, Ended, JobsStarted, Started, JournalTells, Working, Activating,
         Undoing, Numbered, Covers, Deliver, Fresh, manager, journal, server, history, bounds
<1>7. ReportsTell'
  BY JournalFields, ReportFields, Names
     DEF IInv, TypeOK, Places, ReportsTell, Ended, JournalTells, Working, Activating, Undoing, WaitingTells,
         Deliver, Fresh, manager, journal, server, history, bounds
<1>8. BegunTells'
  BY JournalFields, ReportFields, Names
     DEF IInv, TypeOK, Places, BegunTells, Old, Activating, JournalTells, Working, Undoing, Deliver, Fresh, manager,
         journal, server, history, bounds
<1>9. ReleasesApart'
  BY JournalFields, ReportFields, Names
     DEF IInv, TypeOK, Places, ReleasesApart, Apart, JournalTells, Working, Activating, Undoing, BegunTells, Old,
         ServerTells, Settled, Releases, Deliver, Fresh, manager, journal, server, history, bounds
<1>10. ServerTells'
  BY JournalFields, ReportFields, Names
     DEF IInv, TypeOK, Places, ServerTells, Settled, Releases, JournalTells, Working, Activating, Undoing,
         ReleasesApart, Apart, Deliver, Fresh, manager, journal, server, history, bounds
<1>11. VerdictsTell'
  BY JournalFields, ReportFields, Names
     DEF IInv, TypeOK, Places, VerdictsTell, True, DownTells, JournalTells, Working, Activating, Undoing,
         ServerTells, Settled, Releases, ReleasesApart, Apart, Deliver, Fresh, manager, journal, server, history,
         bounds
<1> QED BY <1>1, <1>2, <1>3, <1>4, <1>5, <1>6, <1>7, <1>8, <1>9, <1>10, <1>11 DEF IInv

LEMMA ClaimStep == ASSUME IInv, Claim PROVE IInv'
<1>p. PICK j \in Jobs :
           /\ Claimable(j) /\ status' = [status EXCEPT ![j] = "running"]
           /\ mem' = [job |-> j, status |-> "running", act |-> NotYet, seq |-> 0]
  BY DEF Claim
<1>y. mem' \in Journals /\ mem'.job = j /\ mem'.status = "running" /\ mem'.act = NotYet /\ mem'.seq = 0
  BY <1>p, Begun
<1>e. Idle /\ w' = "journal" /\ UNCHANGED <<seen, wire, disk, broken, resuming, waiting, server, history, bounds>>
  BY DEF Claim
<1>n. disk = NoJournal /\ ~ Touched(j)
  BY <1>p, <1>e, JournalFields DEF IInv, Recorded, Ended, Claimable, JournalTells, Idle, TypeOK
<1>q. status[j] \in {"queued", "running"} /\ status' = [status EXCEPT ![j] = "running"]
  BY <1>p DEF Claimable
<1>1. TypeOK'
  BY <1>q, <1>y, <1>e, <1>n, JournalFields, ReportFields, Names
     DEF IInv, TypeOK, Places, Idle, server, history, bounds, Touched
<1>2. JobsStarted'
  BY <1>q, <1>y, <1>e, <1>n, JournalFields, ReportFields, Names
     DEF IInv, TypeOK, Places, JobsStarted, Started, JournalTells, Working, Activating, Undoing, Idle, server,
         history, bounds, Touched
<1>3. Recorded'
  BY <1>q, <1>y, <1>e, <1>n, JournalFields, ReportFields, Names
     DEF IInv, TypeOK, Places, Recorded, Touched, Ended, JobsStarted, Started, JournalTells, Working, Activating,
         Undoing, WaitingTells, Idle, server, history, bounds, Touched
<1>4. JournalTells'
  BY <1>q, <1>y, <1>e, <1>n, JournalFields, ReportFields, Names
     DEF IInv, TypeOK, Places, JournalTells, Working, Activating, Undoing, Idle, server, history, bounds, Touched
<1>5. Numbered'
  BY <1>q, <1>y, <1>e, <1>n, JournalFields, ReportFields, Names
     DEF IInv, TypeOK, Places, Numbered, Covers, JournalTells, Working, Activating, Undoing, Idle, server, history,
         bounds, Touched
<1>6. WaitingTells'
  BY <1>q, <1>y, <1>e, <1>n, JournalFields, ReportFields, Names
     DEF IInv, TypeOK, Places, WaitingTells, Ended, JobsStarted, Started, JournalTells, Working, Activating,
         Undoing, Numbered, Covers, Idle, server, history, bounds, Touched
<1>7. ReportsTell'
  BY <1>q, <1>y, <1>e, <1>n, JournalFields, ReportFields, Names
     DEF IInv, TypeOK, Places, ReportsTell, Ended, JournalTells, Working, Activating, Undoing, WaitingTells, Idle,
         server, history, bounds, Touched
<1>8. BegunTells'
  BY <1>q, <1>y, <1>e, <1>n, JournalFields, ReportFields, Names
     DEF IInv, TypeOK, Places, BegunTells, Old, Activating, JournalTells, Working, Undoing, Idle, server, history,
         bounds, Touched, Releases
<1>9. ReleasesApart'
  BY <1>q, <1>y, <1>e, <1>n, JournalFields, ReportFields, Names
     DEF IInv, TypeOK, Places, ReleasesApart, Apart, JournalTells, Working, Activating, Undoing, BegunTells, Old,
         ServerTells, Settled, Releases, Idle, server, history, bounds, Touched, Releases
<1>10. ServerTells'
  BY <1>q, <1>y, <1>e, <1>n, JournalFields, ReportFields, Names
     DEF IInv, TypeOK, Places, ServerTells, Settled, Releases, JournalTells, Working, Activating, Undoing,
         ReleasesApart, Apart, Idle, server, history, bounds, Touched
<1>11. VerdictsTell'
  BY <1>q, <1>y, <1>e, <1>n, JournalFields, ReportFields, Names
     DEF IInv, TypeOK, Places, VerdictsTell, True, DownTells, JournalTells, Working, Activating, Undoing,
         ServerTells, Settled, Releases, ReleasesApart, Apart, Idle, server, history, bounds, Touched
<1> QED BY <1>1, <1>2, <1>3, <1>4, <1>5, <1>6, <1>7, <1>8, <1>9, <1>10, <1>11 DEF IInv

LEMMA ClaimLostStep == ASSUME IInv, ClaimLost PROVE IInv'
<1>p. PICK j \in Jobs : Claimable(j) /\ status' = [status EXCEPT ![j] = "running"]
  BY DEF ClaimLost
<1>q. status[j] \in {"queued", "running"} /\ status' = [status EXCEPT ![j] = "running"]
  BY <1>p DEF Claimable
<1>1. TypeOK'
  BY <1>q, JournalFields, ReportFields, Names
     DEF IInv, TypeOK, Places, ClaimLost, manager, journal, server, history, bounds
<1>2. JobsStarted'
  BY <1>q, JournalFields, ReportFields, Names
     DEF IInv, TypeOK, Places, JobsStarted, Started, JournalTells, Working, Activating, Undoing, ClaimLost, manager,
         journal, server, history, bounds
<1>3. Recorded'
  BY <1>q, JournalFields, ReportFields, Names
     DEF IInv, TypeOK, Places, Recorded, Touched, Ended, JobsStarted, Started, JournalTells, Working, Activating,
         Undoing, WaitingTells, ClaimLost, manager, journal, server, history, bounds
<1>4. JournalTells'
  BY <1>q, JournalFields, ReportFields, Names
     DEF IInv, TypeOK, Places, JournalTells, Working, Activating, Undoing, ClaimLost, manager, journal, server,
         history, bounds
<1>5. Numbered'
  BY <1>q, JournalFields, ReportFields, Names
     DEF IInv, TypeOK, Places, Numbered, Covers, JournalTells, Working, Activating, Undoing, ClaimLost, manager,
         journal, server, history, bounds
<1>6. WaitingTells'
  BY <1>q, JournalFields, ReportFields, Names
     DEF IInv, TypeOK, Places, WaitingTells, Ended, JobsStarted, Started, JournalTells, Working, Activating,
         Undoing, Numbered, Covers, ClaimLost, manager, journal, server, history, bounds
<1>7. ReportsTell'
  BY <1>q, JournalFields, ReportFields, Names
     DEF IInv, TypeOK, Places, ReportsTell, Ended, JournalTells, Working, Activating, Undoing, WaitingTells,
         ClaimLost, manager, journal, server, history, bounds
<1>8. BegunTells'
  BY <1>q, JournalFields, ReportFields, Names
     DEF IInv, TypeOK, Places, BegunTells, Old, Activating, JournalTells, Working, Undoing, ClaimLost, manager,
         journal, server, history, bounds
<1>9. ReleasesApart'
  BY <1>q, JournalFields, ReportFields, Names
     DEF IInv, TypeOK, Places, ReleasesApart, Apart, JournalTells, Working, Activating, Undoing, BegunTells, Old,
         ServerTells, Settled, Releases, ClaimLost, manager, journal, server, history, bounds
<1>10. ServerTells'
  BY <1>q, JournalFields, ReportFields, Names
     DEF IInv, TypeOK, Places, ServerTells, Settled, Releases, JournalTells, Working, Activating, Undoing,
         ReleasesApart, Apart, ClaimLost, manager, journal, server, history, bounds
<1>11. VerdictsTell'
  BY <1>q, JournalFields, ReportFields, Names
     DEF IInv, TypeOK, Places, VerdictsTell, True, DownTells, JournalTells, Working, Activating, Undoing,
         ServerTells, Settled, Releases, ReleasesApart, Apart, ClaimLost, manager, journal, server, history, bounds
<1> QED BY <1>1, <1>2, <1>3, <1>4, <1>5, <1>6, <1>7, <1>8, <1>9, <1>10, <1>11 DEF IInv

LEMMA JournalStep == ASSUME IInv, Journal PROVE IInv'
<1>e. /\ w = "journal" /\ mem' = mem
      /\ \/ w' = "checkout" /\ disk' = mem /\ ~ broken /\ broken' = broken /\ begun' = begun \cup {mem.job}
         \/ w' = "loop" /\ disk' = disk /\ broken' = TRUE /\ begun' = begun
      /\ faults' \in 0..MaxFaults
      /\ UNCHANGED <<status, seen, wire, waiting, crashes, timer, live, saved, apps, unrestored, resuming>>
  <2>1. Persist(mem, "checkout", "loop") /\ w = "journal" /\ begun' = IF w' = "checkout" THEN begun \cup {mem.job} ELSE begun
    BY DEF Journal
  <2>2. faults' \in 0..MaxFaults
    BY <2>1, Names DEF IInv, TypeOK, Persist
  <2>3. UNCHANGED <<status, seen, wire, waiting, crashes, timer, live, saved, apps, unrestored, resuming>>
    BY DEF Journal, Quiet, manager, server
  <2>4. faults \in Nat /\ broken \in BOOLEAN
    BY Names DEF IInv, TypeOK
  <2> QED BY <2>1, <2>2, <2>3, <2>4 DEF Persist
<1>m. mem \in Journals /\ mem.status = "running" /\ mem.act = NotYet
  BY <1>e DEF IInv, TypeOK, JournalTells, Working
<1>1. TypeOK'
  BY <1>e, <1>m, JournalFields, ReportFields, Names DEF IInv, TypeOK, Places, Working
<1>2. JobsStarted'
  BY <1>e, <1>m, JournalFields, ReportFields, Names
     DEF IInv, TypeOK, Places, JobsStarted, Started, JournalTells, Working, Activating, Undoing, Working
<1>3. Recorded'
  BY <1>e, <1>m, JournalFields, ReportFields, Names
     DEF IInv, TypeOK, Places, Recorded, Touched, Ended, JobsStarted, Started, JournalTells, Working, Activating,
         Undoing, WaitingTells, Working
<1>4. JournalTells'
  BY <1>e, <1>m, JournalFields, ReportFields, Names
     DEF IInv, TypeOK, Places, JournalTells, Working, Activating, Undoing, Working
<1>5. Numbered'
  BY <1>e, <1>m, JournalFields, ReportFields, Names
     DEF IInv, TypeOK, Places, Numbered, Covers, JournalTells, Working, Activating, Undoing, Working
<1>6. WaitingTells'
  BY <1>e, <1>m, JournalFields, ReportFields, Names
     DEF IInv, TypeOK, Places, WaitingTells, Ended, JobsStarted, Started, JournalTells, Working, Activating,
         Undoing, Numbered, Covers, Working
<1>7. ReportsTell'
  BY <1>e, <1>m, JournalFields, ReportFields, Names
     DEF IInv, TypeOK, Places, ReportsTell, Ended, JournalTells, Working, Activating, Undoing, WaitingTells, Working
<1>8. BegunTells'
  BY <1>e, <1>m, JournalFields, ReportFields, Names
     DEF IInv, TypeOK, Places, BegunTells, Old, Activating, JournalTells, Working, Undoing, Working
<1>9. ReleasesApart'
  BY <1>e, <1>m, JournalFields, ReportFields, Names
     DEF IInv, TypeOK, Places, ReleasesApart, Apart, JournalTells, Working, Activating, Undoing, BegunTells, Old,
         ServerTells, Settled, Releases, Working
<1>10. ServerTells'
  BY <1>e, <1>m, JournalFields, ReportFields, Names
     DEF IInv, TypeOK, Places, ServerTells, Settled, Releases, JournalTells, Working, Activating, Undoing,
         ReleasesApart, Apart, Working
<1>11. VerdictsTell'
  BY <1>e, <1>m, JournalFields, ReportFields, Names
     DEF IInv, TypeOK, Places, VerdictsTell, True, DownTells, JournalTells, Working, Activating, Undoing,
         ServerTells, Settled, Releases, ReleasesApart, Apart, Working
<1> QED BY <1>1, <1>2, <1>3, <1>4, <1>5, <1>6, <1>7, <1>8, <1>9, <1>10, <1>11 DEF IInv

LEMMA BuildStep == ASSUME IInv, Build PROVE IInv'
<1>f. JobsStarted' /\ Recorded' /\ Numbered' /\ WaitingTells' /\ ReportsTell'
  BY ServerFrame DEF IInv, Working, Build, Quiet, manager, journal, server, history
<1>1. TypeOK'
  BY JournalFields, ReportFields, Names DEF IInv, TypeOK, Places, Build, Quiet, manager, journal, server, history
<1>2. JournalTells'
  BY JournalFields, ReportFields, Names
     DEF IInv, TypeOK, Places, JournalTells, Working, Activating, Undoing, Build, Quiet, manager, journal, server,
         history
<1>3. BegunTells'
  BY JournalFields, ReportFields, Names
     DEF IInv, TypeOK, Places, BegunTells, Old, Activating, JournalTells, Working, Undoing, Build, Quiet, manager,
         journal, server, history
<1>4. ReleasesApart'
  BY JournalFields, ReportFields, Names
     DEF IInv, TypeOK, Places, ReleasesApart, Apart, JournalTells, Working, Activating, Undoing, BegunTells, Old,
         ServerTells, Settled, Releases, Build, Quiet, manager, journal, server, history
<1>5. ServerTells'
  BY JournalFields, ReportFields, Names
     DEF IInv, TypeOK, Places, ServerTells, Settled, Releases, JournalTells, Working, Activating, Undoing,
         ReleasesApart, Apart, Build, Quiet, manager, journal, server, history
<1>6. VerdictsTell'
  BY JournalFields, ReportFields, Names
     DEF IInv, TypeOK, Places, VerdictsTell, True, DownTells, JournalTells, Working, Activating, Undoing,
         ServerTells, Settled, Releases, ReleasesApart, Apart, Build, Quiet, manager, journal, server, history
<1> QED BY <1>f, <1>1, <1>2, <1>3, <1>4, <1>5, <1>6 DEF IInv

LEMMA JournalActivationStep == ASSUME IInv, JournalActivation PROVE IInv'
<1>m. mem \in Journals /\ apps \in Releases /\ mem.status = "running"
  BY DEF IInv, TypeOK, JournalActivation, JournalTells, Working
<1> DEFINE y == [mem EXCEPT !.act = apps]
<1>y. y \in Journals /\ y.job = mem.job /\ y.status = mem.status /\ y.act = apps /\ y.seq = mem.seq
  BY <1>m, Activated
<1>e. /\ w = "activate" /\ mem' = y
      /\ \/ w' = "delete" /\ disk' = y /\ ~ broken /\ broken' = broken
         \/ w' = "failed" /\ disk' = disk /\ broken' = TRUE
      /\ faults' \in 0..MaxFaults
      /\ UNCHANGED <<status, seen, wire, waiting, crashes, timer, live, saved, apps, begun, unrestored, resuming>>
  <2>1. Persist(y, "delete", "failed") /\ w = "activate"
    BY DEF JournalActivation
  <2>2. faults' \in 0..MaxFaults
    BY <2>1, Names DEF IInv, TypeOK, Persist
  <2>3. UNCHANGED <<status, seen, wire, waiting, crashes, timer, live, saved, apps, begun, unrestored, resuming>>
    BY DEF JournalActivation, Quiet, manager, server, history
  <2> QED BY <2>1, <2>2, <2>3 DEF Persist
<1> HIDE DEF y
<1>1. TypeOK'
  BY <1>e, <1>m, <1>y, JournalFields, ReportFields, Names DEF IInv, TypeOK, Places, Working
<1>2. JobsStarted'
  BY <1>e, <1>m, <1>y, JournalFields, ReportFields, Names
     DEF IInv, TypeOK, Places, JobsStarted, Started, JournalTells, Working, Activating, Undoing, Working
<1>3. Recorded'
  BY <1>e, <1>m, <1>y, JournalFields, ReportFields, Names
     DEF IInv, TypeOK, Places, Recorded, Touched, Ended, JobsStarted, Started, JournalTells, Working, Activating,
         Undoing, WaitingTells, Working
<1>4. JournalTells'
  BY <1>e, <1>m, <1>y, JournalFields, ReportFields, Names
     DEF IInv, TypeOK, Places, JournalTells, Working, Activating, Undoing, Working
<1>5. Numbered'
  BY <1>e, <1>m, <1>y, JournalFields, ReportFields, Names
     DEF IInv, TypeOK, Places, Numbered, Covers, JournalTells, Working, Activating, Undoing, Working
<1>6. WaitingTells'
  BY <1>e, <1>m, <1>y, JournalFields, ReportFields, Names
     DEF IInv, TypeOK, Places, WaitingTells, Ended, JobsStarted, Started, JournalTells, Working, Activating,
         Undoing, Numbered, Covers, Working
<1>7. ReportsTell'
  BY <1>e, <1>m, <1>y, JournalFields, ReportFields, Names
     DEF IInv, TypeOK, Places, ReportsTell, Ended, JournalTells, Working, Activating, Undoing, WaitingTells, Working
<1>8. BegunTells'
  BY <1>e, <1>m, <1>y, JournalFields, ReportFields, Names
     DEF IInv, TypeOK, Places, BegunTells, Old, Activating, JournalTells, Working, Undoing, Working
<1>9. ReleasesApart'
  BY <1>e, <1>m, <1>y, JournalFields, ReportFields, Names
     DEF IInv, TypeOK, Places, ReleasesApart, Apart, JournalTells, Working, Activating, Undoing, BegunTells, Old,
         ServerTells, Settled, Releases, Working
<1>10. ServerTells'
  BY <1>e, <1>m, <1>y, JournalFields, ReportFields, Names
     DEF IInv, TypeOK, Places, ServerTells, Settled, Releases, JournalTells, Working, Activating, Undoing,
         ReleasesApart, Apart, Working
<1>11. VerdictsTell'
  BY <1>e, <1>m, <1>y, JournalFields, ReportFields, Names
     DEF IInv, TypeOK, Places, VerdictsTell, True, DownTells, JournalTells, Working, Activating, Undoing,
         ServerTells, Settled, Releases, ReleasesApart, Apart, Working
<1> QED BY <1>1, <1>2, <1>3, <1>4, <1>5, <1>6, <1>7, <1>8, <1>9, <1>10, <1>11 DEF IInv

LEMMA DeleteOldStep == ASSUME IInv, DeleteOld PROVE IInv'
<1>f. JobsStarted' /\ Recorded' /\ Numbered' /\ WaitingTells' /\ ReportsTell'
  BY ServerFrame DEF IInv, Working, DeleteOld, Done, Throws, Rest, Quiet, manager, journal, server, history
<1>1. TypeOK'
  BY JournalFields, ReportFields, Names
     DEF IInv, TypeOK, Places, DeleteOld, Done, Throws, Rest, Quiet, manager, journal, server, history,
         JournalTells, Working, Activating, Undoing, Working, Releases, ServerTells, Settled, Releases
<1>2. JournalTells'
  BY JournalFields, ReportFields, Names
     DEF IInv, TypeOK, Places, JournalTells, Working, Activating, Undoing, DeleteOld, Done, Throws, Rest, Quiet,
         manager, journal, server, history
<1>3. BegunTells'
  BY JournalFields, ReportFields, Names
     DEF IInv, TypeOK, Places, BegunTells, Old, Activating, JournalTells, Working, Undoing, DeleteOld, Done, Throws,
         Rest, Quiet, manager, journal, server, history
<1>4. ReleasesApart'
  BY JournalFields, ReportFields, Names
     DEF IInv, TypeOK, Places, ReleasesApart, Apart, JournalTells, Working, Activating, Undoing, BegunTells, Old,
         ServerTells, Settled, Releases, DeleteOld, Done, Throws, Rest, Quiet, manager, journal, server, history
<1>5. ServerTells'
  BY JournalFields, ReportFields, Names
     DEF IInv, TypeOK, Places, ServerTells, Settled, Releases, JournalTells, Working, Activating, Undoing,
         ReleasesApart, Apart, DeleteOld, Done, Throws, Rest, Quiet, manager, journal, server, history
<1>6. VerdictsTell'
  BY JournalFields, ReportFields, Names
     DEF IInv, TypeOK, Places, VerdictsTell, True, DownTells, JournalTells, Working, Activating, Undoing,
         ServerTells, Settled, Releases, ReleasesApart, Apart, DeleteOld, Done, Throws, Rest, Quiet, manager,
         journal, server, history
<1> QED BY <1>f, <1>1, <1>2, <1>3, <1>4, <1>5, <1>6 DEF IInv

LEMMA StartNewStep == ASSUME IInv, StartNew PROVE IInv'
<1>f. JobsStarted' /\ Recorded' /\ Numbered' /\ WaitingTells' /\ ReportsTell'
  BY ServerFrame DEF IInv, Working, StartNew, Done, Throws, Rest, Quiet, manager, journal, server, history
<1>1. TypeOK'
  BY JournalFields, ReportFields, Names
     DEF IInv, TypeOK, Places, StartNew, Done, Throws, Rest, Quiet, manager, journal, server, history, JournalTells,
         Working, Activating, Undoing, Working, Releases, ServerTells, Settled, Releases
<1>2. JournalTells'
  BY JournalFields, ReportFields, Names
     DEF IInv, TypeOK, Places, JournalTells, Working, Activating, Undoing, StartNew, Done, Throws, Rest, Quiet,
         manager, journal, server, history
<1>3. BegunTells'
  BY JournalFields, ReportFields, Names
     DEF IInv, TypeOK, Places, BegunTells, Old, Activating, JournalTells, Working, Undoing, StartNew, Done, Throws,
         Rest, Quiet, manager, journal, server, history
<1>4. ReleasesApart'
  BY JournalFields, ReportFields, Names
     DEF IInv, TypeOK, Places, ReleasesApart, Apart, JournalTells, Working, Activating, Undoing, BegunTells, Old,
         ServerTells, Settled, Releases, StartNew, Done, Throws, Rest, Quiet, manager, journal, server, history
<1>5. ServerTells'
  BY JournalFields, ReportFields, Names
     DEF IInv, TypeOK, Places, ServerTells, Settled, Releases, JournalTells, Working, Activating, Undoing,
         ReleasesApart, Apart, StartNew, Done, Throws, Rest, Quiet, manager, journal, server, history
<1>6. VerdictsTell'
  BY JournalFields, ReportFields, Names
     DEF IInv, TypeOK, Places, VerdictsTell, True, DownTells, JournalTells, Working, Activating, Undoing,
         ServerTells, Settled, Releases, ReleasesApart, Apart, StartNew, Done, Throws, Rest, Quiet, manager,
         journal, server, history
<1> QED BY <1>f, <1>1, <1>2, <1>3, <1>4, <1>5, <1>6 DEF IInv

LEMMA CheckHealthStep == ASSUME IInv, CheckHealth PROVE IInv'
<1>f. JobsStarted' /\ Recorded' /\ Numbered' /\ WaitingTells' /\ ReportsTell'
  BY ServerFrame DEF IInv, Working, CheckHealth, Done, Throws, Rest, Quiet, manager, journal, server, history
<1>1. TypeOK'
  BY JournalFields, ReportFields, Names
     DEF IInv, TypeOK, Places, CheckHealth, Done, Throws, Rest, Quiet, manager, journal, server, history,
         JournalTells, Working, Activating, Undoing, Working, Releases, ServerTells, Settled, Releases
<1>2. JournalTells'
  BY JournalFields, ReportFields, Names
     DEF IInv, TypeOK, Places, JournalTells, Working, Activating, Undoing, CheckHealth, Done, Throws, Rest, Quiet,
         manager, journal, server, history
<1>3. BegunTells'
  BY JournalFields, ReportFields, Names
     DEF IInv, TypeOK, Places, BegunTells, Old, Activating, JournalTells, Working, Undoing, CheckHealth, Done,
         Throws, Rest, Quiet, manager, journal, server, history
<1>4. ReleasesApart'
  BY JournalFields, ReportFields, Names
     DEF IInv, TypeOK, Places, ReleasesApart, Apart, JournalTells, Working, Activating, Undoing, BegunTells, Old,
         ServerTells, Settled, Releases, CheckHealth, Done, Throws, Rest, Quiet, manager, journal, server, history
<1>5. ServerTells'
  BY JournalFields, ReportFields, Names
     DEF IInv, TypeOK, Places, ServerTells, Settled, Releases, JournalTells, Working, Activating, Undoing,
         ReleasesApart, Apart, CheckHealth, Done, Throws, Rest, Quiet, manager, journal, server, history
<1>6. VerdictsTell'
  BY JournalFields, ReportFields, Names
     DEF IInv, TypeOK, Places, VerdictsTell, True, DownTells, JournalTells, Working, Activating, Undoing,
         ServerTells, Settled, Releases, ReleasesApart, Apart, CheckHealth, Done, Throws, Rest, Quiet, manager,
         journal, server, history
<1> QED BY <1>f, <1>1, <1>2, <1>3, <1>4, <1>5, <1>6 DEF IInv

LEMMA ConfigureProxyStep == ASSUME IInv, ConfigureProxy PROVE IInv'
<1>f. JobsStarted' /\ Recorded' /\ Numbered' /\ WaitingTells' /\ ReportsTell'
  BY ServerFrame DEF IInv, Working, ConfigureProxy, Done, Throws, Rest, Quiet, manager, journal, server, history
<1>1. TypeOK'
  BY JournalFields, ReportFields, Names
     DEF IInv, TypeOK, Places, ConfigureProxy, Done, Throws, Rest, Quiet, manager, journal, server, history,
         JournalTells, Working, Activating, Undoing, Working, Releases, ServerTells, Settled, Releases
<1>2. JournalTells'
  BY JournalFields, ReportFields, Names
     DEF IInv, TypeOK, Places, JournalTells, Working, Activating, Undoing, ConfigureProxy, Done, Throws, Rest,
         Quiet, manager, journal, server, history
<1>3. BegunTells'
  BY JournalFields, ReportFields, Names
     DEF IInv, TypeOK, Places, BegunTells, Old, Activating, JournalTells, Working, Undoing, ConfigureProxy, Done,
         Throws, Rest, Quiet, manager, journal, server, history
<1>4. ReleasesApart'
  BY JournalFields, ReportFields, Names
     DEF IInv, TypeOK, Places, ReleasesApart, Apart, JournalTells, Working, Activating, Undoing, BegunTells, Old,
         ServerTells, Settled, Releases, ConfigureProxy, Done, Throws, Rest, Quiet, manager, journal, server,
         history
<1>5. ServerTells'
  BY JournalFields, ReportFields, Names
     DEF IInv, TypeOK, Places, ServerTells, Settled, Releases, JournalTells, Working, Activating, Undoing,
         ReleasesApart, Apart, ConfigureProxy, Done, Throws, Rest, Quiet, manager, journal, server, history
<1>6. VerdictsTell'
  BY JournalFields, ReportFields, Names
     DEF IInv, TypeOK, Places, VerdictsTell, True, DownTells, JournalTells, Working, Activating, Undoing,
         ServerTells, Settled, Releases, ReleasesApart, Apart, ConfigureProxy, Done, Throws, Rest, Quiet, manager,
         journal, server, history
<1> QED BY <1>f, <1>1, <1>2, <1>3, <1>4, <1>5, <1>6 DEF IInv

LEMMA SaveAppsStep == ASSUME IInv, SaveApps PROVE IInv'
<1>f. JobsStarted' /\ Recorded' /\ Numbered' /\ WaitingTells' /\ ReportsTell'
  BY ServerFrame DEF IInv, Working, SaveApps, Done, Throws, Rest, Quiet, manager, journal, server, history
<1>1. TypeOK'
  BY JournalFields, ReportFields, Names
     DEF IInv, TypeOK, Places, SaveApps, Done, Throws, Rest, Quiet, manager, journal, server, history, JournalTells,
         Working, Activating, Undoing, Working, Releases, ServerTells, Settled, Releases
<1>2. JournalTells'
  BY JournalFields, ReportFields, Names
     DEF IInv, TypeOK, Places, JournalTells, Working, Activating, Undoing, SaveApps, Done, Throws, Rest, Quiet,
         manager, journal, server, history
<1>3. BegunTells'
  BY JournalFields, ReportFields, Names
     DEF IInv, TypeOK, Places, BegunTells, Old, Activating, JournalTells, Working, Undoing, SaveApps, Done, Throws,
         Rest, Quiet, manager, journal, server, history
<1>4. ReleasesApart'
  BY JournalFields, ReportFields, Names
     DEF IInv, TypeOK, Places, ReleasesApart, Apart, JournalTells, Working, Activating, Undoing, BegunTells, Old,
         ServerTells, Settled, Releases, SaveApps, Done, Throws, Rest, Quiet, manager, journal, server, history
<1>5. ServerTells'
  BY JournalFields, ReportFields, Names
     DEF IInv, TypeOK, Places, ServerTells, Settled, Releases, JournalTells, Working, Activating, Undoing,
         ReleasesApart, Apart, SaveApps, Done, Throws, Rest, Quiet, manager, journal, server, history
<1>6. VerdictsTell'
  BY JournalFields, ReportFields, Names
     DEF IInv, TypeOK, Places, VerdictsTell, True, DownTells, JournalTells, Working, Activating, Undoing,
         ServerTells, Settled, Releases, ReleasesApart, Apart, SaveApps, Done, Throws, Rest, Quiet, manager,
         journal, server, history
<1> QED BY <1>f, <1>1, <1>2, <1>3, <1>4, <1>5, <1>6 DEF IInv

LEMMA SaveListStep == ASSUME IInv, SaveList PROVE IInv'
<1>f. JobsStarted' /\ Recorded' /\ Numbered' /\ WaitingTells' /\ ReportsTell'
  BY ServerFrame DEF IInv, Working, SaveList, Done, Throws, Quiet, manager, journal, server
<1>1. TypeOK'
  BY JournalFields, ReportFields, Names
     DEF IInv, TypeOK, Places, SaveList, Done, Throws, Quiet, manager, journal, server, ServerTells, Settled,
         Releases
<1>2. JournalTells'
  BY JournalFields, ReportFields, Names
     DEF IInv, TypeOK, Places, JournalTells, Working, Activating, Undoing, SaveList, Done, Throws, Quiet, manager,
         journal, server
<1>3. BegunTells'
  BY JournalFields, ReportFields, Names
     DEF IInv, TypeOK, Places, BegunTells, Old, Activating, JournalTells, Working, Undoing, SaveList, Done, Throws,
         Quiet, manager, journal, server
<1>4. ReleasesApart'
  BY JournalFields, ReportFields, Names
     DEF IInv, TypeOK, Places, ReleasesApart, Apart, JournalTells, Working, Activating, Undoing, BegunTells, Old,
         ServerTells, Settled, Releases, SaveList, Done, Throws, Quiet, manager, journal, server
<1>5. ServerTells'
  BY JournalFields, ReportFields, Names
     DEF IInv, TypeOK, Places, ServerTells, Settled, Releases, JournalTells, Working, Activating, Undoing,
         ReleasesApart, Apart, SaveList, Done, Throws, Quiet, manager, journal, server
<1>6. VerdictsTell'
  BY JournalFields, ReportFields, Names
     DEF IInv, TypeOK, Places, VerdictsTell, True, DownTells, JournalTells, Working, Activating, Undoing,
         ServerTells, Settled, Releases, ReleasesApart, Apart, SaveList, Done, Throws, Quiet, manager, journal,
         server
<1> QED BY <1>f, <1>1, <1>2, <1>3, <1>4, <1>5, <1>6 DEF IInv

LEMMA UndoStartStep == ASSUME IInv, UndoStart PROVE IInv'
<1>f. JobsStarted' /\ Recorded' /\ Numbered' /\ WaitingTells' /\ ReportsTell'
  BY ServerFrame DEF IInv, Working, UndoStart, Undone, Gives, Unwound, Quiet, manager, journal, server
<1>1. TypeOK'
  BY JournalFields, ReportFields, Names
     DEF IInv, TypeOK, Places, UndoStart, Undone, Gives, Unwound, Quiet, manager, journal, server, JournalTells,
         Working, Activating, Undoing, Working, Undoing, Releases, ServerTells, Settled, Releases
<1>2. JournalTells'
  BY JournalFields, ReportFields, Names
     DEF IInv, TypeOK, Places, JournalTells, Working, Activating, Undoing, UndoStart, Undone, Gives, Unwound, Quiet,
         manager, journal, server
<1>3. BegunTells'
  BY JournalFields, ReportFields, Names
     DEF IInv, TypeOK, Places, BegunTells, Old, Activating, JournalTells, Working, Undoing, UndoStart, Undone,
         Gives, Unwound, Quiet, manager, journal, server
<1>4. ReleasesApart'
  BY JournalFields, ReportFields, Names
     DEF IInv, TypeOK, Places, ReleasesApart, Apart, JournalTells, Working, Activating, Undoing, BegunTells, Old,
         ServerTells, Settled, Releases, UndoStart, Undone, Gives, Unwound, Quiet, manager, journal, server
<1>5. ServerTells'
  BY JournalFields, ReportFields, Names
     DEF IInv, TypeOK, Places, ServerTells, Settled, Releases, JournalTells, Working, Activating, Undoing,
         ReleasesApart, Apart, UndoStart, Undone, Gives, Unwound, Quiet, manager, journal, server
<1>6. VerdictsTell'
  BY JournalFields, ReportFields, Names
     DEF IInv, TypeOK, Places, VerdictsTell, True, DownTells, JournalTells, Working, Activating, Undoing,
         ServerTells, Settled, Releases, ReleasesApart, Apart, UndoStart, Undone, Gives, Unwound, Quiet, manager,
         journal, server
<1> QED BY <1>f, <1>1, <1>2, <1>3, <1>4, <1>5, <1>6 DEF IInv

LEMMA UndoHealthStep == ASSUME IInv, UndoHealth PROVE IInv'
<1>f. JobsStarted' /\ Recorded' /\ Numbered' /\ WaitingTells' /\ ReportsTell'
  BY ServerFrame DEF IInv, Working, UndoHealth, Undone, Gives, Unwound, Quiet, manager, journal, server
<1>1. TypeOK'
  BY JournalFields, ReportFields, Names
     DEF IInv, TypeOK, Places, UndoHealth, Undone, Gives, Unwound, Quiet, manager, journal, server, JournalTells,
         Working, Activating, Undoing, Working, Undoing, Releases, ServerTells, Settled, Releases
<1>2. JournalTells'
  BY JournalFields, ReportFields, Names
     DEF IInv, TypeOK, Places, JournalTells, Working, Activating, Undoing, UndoHealth, Undone, Gives, Unwound,
         Quiet, manager, journal, server
<1>3. BegunTells'
  BY JournalFields, ReportFields, Names
     DEF IInv, TypeOK, Places, BegunTells, Old, Activating, JournalTells, Working, Undoing, UndoHealth, Undone,
         Gives, Unwound, Quiet, manager, journal, server
<1>4. ReleasesApart'
  BY JournalFields, ReportFields, Names
     DEF IInv, TypeOK, Places, ReleasesApart, Apart, JournalTells, Working, Activating, Undoing, BegunTells, Old,
         ServerTells, Settled, Releases, UndoHealth, Undone, Gives, Unwound, Quiet, manager, journal, server
<1>5. ServerTells'
  BY JournalFields, ReportFields, Names
     DEF IInv, TypeOK, Places, ServerTells, Settled, Releases, JournalTells, Working, Activating, Undoing,
         ReleasesApart, Apart, UndoHealth, Undone, Gives, Unwound, Quiet, manager, journal, server
<1>6. VerdictsTell'
  BY JournalFields, ReportFields, Names
     DEF IInv, TypeOK, Places, VerdictsTell, True, DownTells, JournalTells, Working, Activating, Undoing,
         ServerTells, Settled, Releases, ReleasesApart, Apart, UndoHealth, Undone, Gives, Unwound, Quiet, manager,
         journal, server
<1> QED BY <1>f, <1>1, <1>2, <1>3, <1>4, <1>5, <1>6 DEF IInv

LEMMA UndoRoutesStep == ASSUME IInv, UndoRoutes PROVE IInv'
<1>f. JobsStarted' /\ Recorded' /\ Numbered' /\ WaitingTells' /\ ReportsTell'
  BY ServerFrame DEF IInv, Working, UndoRoutes, Undone, Gives, Unwound, Quiet, manager, journal, server
<1>1. TypeOK'
  BY JournalFields, ReportFields, Names
     DEF IInv, TypeOK, Places, UndoRoutes, Undone, Gives, Unwound, Quiet, manager, journal, server, JournalTells,
         Working, Activating, Undoing, Working, Undoing, Releases, ServerTells, Settled, Releases
<1>2. JournalTells'
  BY JournalFields, ReportFields, Names
     DEF IInv, TypeOK, Places, JournalTells, Working, Activating, Undoing, UndoRoutes, Undone, Gives, Unwound,
         Quiet, manager, journal, server
<1>3. BegunTells'
  BY JournalFields, ReportFields, Names
     DEF IInv, TypeOK, Places, BegunTells, Old, Activating, JournalTells, Working, Undoing, UndoRoutes, Undone,
         Gives, Unwound, Quiet, manager, journal, server
<1>4. ReleasesApart'
  BY JournalFields, ReportFields, Names
     DEF IInv, TypeOK, Places, ReleasesApart, Apart, JournalTells, Working, Activating, Undoing, BegunTells, Old,
         ServerTells, Settled, Releases, UndoRoutes, Undone, Gives, Unwound, Quiet, manager, journal, server
<1>5. ServerTells'
  BY JournalFields, ReportFields, Names
     DEF IInv, TypeOK, Places, ServerTells, Settled, Releases, JournalTells, Working, Activating, Undoing,
         ReleasesApart, Apart, UndoRoutes, Undone, Gives, Unwound, Quiet, manager, journal, server
<1>6. VerdictsTell'
  BY JournalFields, ReportFields, Names
     DEF IInv, TypeOK, Places, VerdictsTell, True, DownTells, JournalTells, Working, Activating, Undoing,
         ServerTells, Settled, Releases, ReleasesApart, Apart, UndoRoutes, Undone, Gives, Unwound, Quiet, manager,
         journal, server
<1> QED BY <1>f, <1>1, <1>2, <1>3, <1>4, <1>5, <1>6 DEF IInv

LEMMA UndoAppsStep == ASSUME IInv, UndoApps PROVE IInv'
<1>f. JobsStarted' /\ Recorded' /\ Numbered' /\ WaitingTells' /\ ReportsTell'
  BY ServerFrame DEF IInv, Working, UndoApps, Undone, Gives, Unwound, Quiet, manager, journal, server
<1>1. TypeOK'
  BY JournalFields, ReportFields, Names
     DEF IInv, TypeOK, Places, UndoApps, Undone, Gives, Unwound, Quiet, manager, journal, server, JournalTells,
         Working, Activating, Undoing, Working, Undoing, Releases, ServerTells, Settled, Releases
<1>2. JournalTells'
  BY JournalFields, ReportFields, Names
     DEF IInv, TypeOK, Places, JournalTells, Working, Activating, Undoing, UndoApps, Undone, Gives, Unwound, Quiet,
         manager, journal, server
<1>3. BegunTells'
  BY JournalFields, ReportFields, Names
     DEF IInv, TypeOK, Places, BegunTells, Old, Activating, JournalTells, Working, Undoing, UndoApps, Undone, Gives,
         Unwound, Quiet, manager, journal, server
<1>4. ReleasesApart'
  BY JournalFields, ReportFields, Names
     DEF IInv, TypeOK, Places, ReleasesApart, Apart, JournalTells, Working, Activating, Undoing, BegunTells, Old,
         ServerTells, Settled, Releases, UndoApps, Undone, Gives, Unwound, Quiet, manager, journal, server
<1>5. ServerTells'
  BY JournalFields, ReportFields, Names
     DEF IInv, TypeOK, Places, ServerTells, Settled, Releases, JournalTells, Working, Activating, Undoing,
         ReleasesApart, Apart, UndoApps, Undone, Gives, Unwound, Quiet, manager, journal, server
<1>6. VerdictsTell'
  BY JournalFields, ReportFields, Names
     DEF IInv, TypeOK, Places, VerdictsTell, True, DownTells, JournalTells, Working, Activating, Undoing,
         ServerTells, Settled, Releases, ReleasesApart, Apart, UndoApps, Undone, Gives, Unwound, Quiet, manager,
         journal, server
<1> QED BY <1>f, <1>1, <1>2, <1>3, <1>4, <1>5, <1>6 DEF IInv

LEMMA UndoSaveStep == ASSUME IInv, UndoSave PROVE IInv'
<1>f. JobsStarted' /\ Recorded' /\ Numbered' /\ WaitingTells' /\ ReportsTell'
  BY ServerFrame DEF IInv, Working, UndoSave, Undone, Gives, Unwound, Quiet, manager, journal, server
<1>1. TypeOK'
  BY JournalFields, ReportFields, Names
     DEF IInv, TypeOK, Places, UndoSave, Undone, Gives, Unwound, Quiet, manager, journal, server, JournalTells,
         Working, Activating, Undoing, Working, Undoing, Releases, ServerTells, Settled, Releases
<1>2. JournalTells'
  BY JournalFields, ReportFields, Names
     DEF IInv, TypeOK, Places, JournalTells, Working, Activating, Undoing, UndoSave, Undone, Gives, Unwound, Quiet,
         manager, journal, server
<1>3. BegunTells'
  BY JournalFields, ReportFields, Names
     DEF IInv, TypeOK, Places, BegunTells, Old, Activating, JournalTells, Working, Undoing, UndoSave, Undone, Gives,
         Unwound, Quiet, manager, journal, server
<1>4. ReleasesApart'
  BY JournalFields, ReportFields, Names
     DEF IInv, TypeOK, Places, ReleasesApart, Apart, JournalTells, Working, Activating, Undoing, BegunTells, Old,
         ServerTells, Settled, Releases, UndoSave, Undone, Gives, Unwound, Quiet, manager, journal, server
<1>5. ServerTells'
  BY JournalFields, ReportFields, Names
     DEF IInv, TypeOK, Places, ServerTells, Settled, Releases, JournalTells, Working, Activating, Undoing,
         ReleasesApart, Apart, UndoSave, Undone, Gives, Unwound, Quiet, manager, journal, server
<1>6. VerdictsTell'
  BY JournalFields, ReportFields, Names
     DEF IInv, TypeOK, Places, VerdictsTell, True, DownTells, JournalTells, Working, Activating, Undoing,
         ServerTells, Settled, Releases, ReleasesApart, Apart, UndoSave, Undone, Gives, Unwound, Quiet, manager,
         journal, server
<1> QED BY <1>f, <1>1, <1>2, <1>3, <1>4, <1>5, <1>6 DEF IInv

LEMMA VerdictStep == ASSUME IInv, Verdict PROVE IInv'
<1>m. mem \in Journals /\ mem.status = "running"
  BY DEF IInv, TypeOK, Verdict, JournalTells, Working
<1> DEFINE y == [mem EXCEPT !.status = Outcome]
<1>y. y \in Journals /\ y.job = mem.job /\ y.status = Outcome /\ y.act = mem.act /\ y.seq = mem.seq
  BY <1>m, Concluded DEF Outcome
<1>e. /\ w \in {"succeeded", "failed"} /\ mem' = y /\ resuming' = FALSE
      /\ \/ w' = "loop" /\ disk' = y /\ ~ broken /\ broken' = broken
         \/ w' \in {"loop", "down"} /\ disk' = disk /\ broken' \in BOOLEAN
      /\ faults' \in 0..MaxFaults
      /\ UNCHANGED <<status, seen, wire, waiting, crashes, timer, live, saved, apps, begun, unrestored>>
  <2>1. /\ w \in {"succeeded", "failed"} /\ resuming' = FALSE
        /\ Persist(y, "loop", IF resuming THEN "down" ELSE "loop")
    BY DEF Verdict
  <2>2. faults' \in 0..MaxFaults
    BY <2>1, Names DEF IInv, TypeOK, Persist
  <2>3. UNCHANGED <<status, seen, wire, waiting, crashes, timer, live, saved, apps, begun, unrestored>>
    BY DEF Verdict, Quiet, manager, server, history
  <2>4. CASE ~ broken /\ disk' = y /\ w' = "loop" /\ UNCHANGED <<broken, faults>>
    BY <2>1, <2>2, <2>3, <2>4 DEF Persist
  <2>5. CASE w' = (IF resuming THEN "down" ELSE "loop") /\ broken' = (w' # "down") /\ UNCHANGED disk
    BY <2>1, <2>2, <2>3, <2>5 DEF Persist
  <2> QED BY <2>1, <2>4, <2>5 DEF Persist
<1>d. w' = "down" => resuming
  BY DEF Verdict, Persist
<1> HIDE DEF y
<1>1. TypeOK'
  BY <1>e, <1>d, <1>m, <1>y, JournalFields, ReportFields, Names DEF IInv, TypeOK, Places, Working, Outcome
<1>2. JobsStarted'
  BY <1>e, <1>d, <1>m, <1>y, JournalFields, ReportFields, Names
     DEF IInv, TypeOK, Places, JobsStarted, Started, JournalTells, Working, Activating, Undoing, Working, Outcome
<1>3. Recorded'
  BY <1>e, <1>d, <1>m, <1>y, JournalFields, ReportFields, Names
     DEF IInv, TypeOK, Places, Recorded, Touched, Ended, JobsStarted, Started, JournalTells, Working, Activating,
         Undoing, WaitingTells, Working, Outcome
<1>4. JournalTells'
  BY <1>e, <1>d, <1>m, <1>y, JournalFields, ReportFields, Names
     DEF IInv, TypeOK, Places, JournalTells, Working, Activating, Undoing, Working, Outcome
<1>5. Numbered'
  BY <1>e, <1>d, <1>m, <1>y, JournalFields, ReportFields, Names
     DEF IInv, TypeOK, Places, Numbered, Covers, JournalTells, Working, Activating, Undoing, Working, Outcome
<1>6. WaitingTells'
  BY <1>e, <1>d, <1>m, <1>y, JournalFields, ReportFields, Names
     DEF IInv, TypeOK, Places, WaitingTells, Ended, JobsStarted, Started, JournalTells, Working, Activating,
         Undoing, Numbered, Covers, Working, Outcome
<1>7. ReportsTell'
  BY <1>e, <1>d, <1>m, <1>y, JournalFields, ReportFields, Names
     DEF IInv, TypeOK, Places, ReportsTell, Ended, JournalTells, Working, Activating, Undoing, WaitingTells,
         Working, Outcome
<1>8. BegunTells'
  BY <1>e, <1>d, <1>m, <1>y, JournalFields, ReportFields, Names
     DEF IInv, TypeOK, Places, BegunTells, Old, Activating, JournalTells, Working, Undoing, Working, Outcome
<1>9. ReleasesApart'
  BY <1>e, <1>d, <1>m, <1>y, JournalFields, ReportFields, Names
     DEF IInv, TypeOK, Places, ReleasesApart, Apart, JournalTells, Working, Activating, Undoing, BegunTells, Old,
         ServerTells, Settled, Releases, Working, Outcome
<1>10. ServerTells'
  BY <1>e, <1>d, <1>m, <1>y, JournalFields, ReportFields, Names
     DEF IInv, TypeOK, Places, ServerTells, Settled, Releases, JournalTells, Working, Activating, Undoing,
         ReleasesApart, Apart, Working, Outcome
<1>11. VerdictsTell'
  BY <1>e, <1>d, <1>m, <1>y, JournalFields, ReportFields, Names
     DEF IInv, TypeOK, Places, VerdictsTell, True, DownTells, JournalTells, Working, Activating, Undoing,
         ServerTells, Settled, Releases, ReleasesApart, Apart, Working, Outcome
<1> QED BY <1>1, <1>2, <1>3, <1>4, <1>5, <1>6, <1>7, <1>8, <1>9, <1>10, <1>11 DEF IInv

LEMMA ReportStep == ASSUME IInv, Report PROVE IInv'
<1>m. mem \in Journals /\ ~ broken /\ waiting = NoReport /\ w # "down" /\ ~ resuming /\ (mem.status # "running" => w = "loop")
  BY DEF IInv, TypeOK, Report, SendReport, Working, JournalTells, Undoing
<1> DEFINE y == [mem EXCEPT !.seq = @ + 1]
           r == [job |-> mem.job, status |-> mem.status, seq |-> y.seq]
<1>y. y \in Journals /\ y.job = mem.job /\ y.status = mem.status /\ y.act = mem.act /\ y.seq = mem.seq + 1
  BY <1>m, Counted
<1>r. r \in Reports /\ r # NoReport /\ r.job = mem.job /\ r.status = mem.status /\ r.seq = y.seq
  BY <1>m, <1>y, JournalFields, Names DEF Reports
<1>e. /\ mem' = y /\ w' = w
      /\ \/ disk' = y /\ broken' = broken /\ waiting' = r /\ wire' = wire \cup {r}
         \/ disk' = disk /\ broken' = TRUE /\ waiting' = waiting /\ wire' = wire
      /\ faults' \in 0..MaxFaults /\ timer' \in 0..MaxTimer
      /\ UNCHANGED <<status, seen, crashes, live, saved, apps, begun, unrestored, resuming>>
  <2>1. SendReport /\ timer' \in 0..MaxTimer
    BY Names DEF IInv, TypeOK, Report
  <2>2. /\ Persist(y, w, w)
        /\ IF broken' THEN UNCHANGED <<wire, waiting>>
           ELSE waiting' = r /\ wire' = wire \cup {r}
    BY <2>1 DEF SendReport
  <2>3. faults' \in 0..MaxFaults
    BY <2>2, Names DEF IInv, TypeOK, Persist
  <2>4. UNCHANGED <<status, seen, crashes, live, saved, apps, begun, unrestored, resuming>>
    BY <2>1 DEF SendReport, manager, server, history
  <2> HIDE DEF y, r
  <2>5. CASE disk' = y /\ w' = w /\ UNCHANGED <<broken, faults>>
    BY <2>5, <1>m, <2>1, <2>2, <2>3, <2>4 DEF Persist
  <2>6. CASE w' = w /\ broken' = (w # "down") /\ UNCHANGED disk
    <3>1. broken' = TRUE
      BY <2>6, <1>m
    <3> QED BY <3>1, <2>6, <2>1, <2>2, <2>3, <2>4 DEF Persist
  <2> QED BY <2>2, <2>5, <2>6 DEF Persist
<1> HIDE DEF y, r
<1>1. TypeOK'
  BY <1>e, <1>m, <1>y, <1>r, JournalFields, ReportFields, Names DEF IInv, TypeOK, Places, Report, Working
<1>2. JobsStarted'
  BY <1>e, <1>m, <1>y, <1>r, JournalFields, ReportFields, Names
     DEF IInv, TypeOK, Places, JobsStarted, Started, JournalTells, Working, Activating, Undoing, Report, Working
<1>3. Recorded'
  BY <1>e, <1>m, <1>y, <1>r, JournalFields, ReportFields, Names
     DEF IInv, TypeOK, Places, Recorded, Touched, Ended, JobsStarted, Started, JournalTells, Working, Activating,
         Undoing, WaitingTells, Report, Working
<1>4. JournalTells'
  BY <1>e, <1>m, <1>y, <1>r, JournalFields, ReportFields, Names
     DEF IInv, TypeOK, Places, JournalTells, Working, Activating, Undoing, Report, Working
<1>5. Numbered'
  BY <1>e, <1>m, <1>y, <1>r, JournalFields, ReportFields, Names
     DEF IInv, TypeOK, Places, Numbered, Covers, JournalTells, Working, Activating, Undoing, Report, Working
<1>6. WaitingTells'
  BY <1>e, <1>m, <1>y, <1>r, JournalFields, ReportFields, Names
     DEF IInv, TypeOK, Places, WaitingTells, Ended, JobsStarted, Started, JournalTells, Working, Activating,
         Undoing, Numbered, Covers, Report, Working
<1>7. ReportsTell'
  BY <1>e, <1>m, <1>y, <1>r, JournalFields, ReportFields, Names
     DEF IInv, TypeOK, Places, ReportsTell, Ended, JournalTells, Working, Activating, Undoing, WaitingTells, Report,
         Working
<1>8. BegunTells'
  BY <1>e, <1>m, <1>y, <1>r, JournalFields, ReportFields, Names
     DEF IInv, TypeOK, Places, BegunTells, Old, Activating, JournalTells, Working, Undoing, Report, Working
<1>9. ReleasesApart'
  BY <1>e, <1>m, <1>y, <1>r, JournalFields, ReportFields, Names
     DEF IInv, TypeOK, Places, ReleasesApart, Apart, JournalTells, Working, Activating, Undoing, BegunTells, Old,
         ServerTells, Settled, Releases, Report, Working
<1>10. ServerTells'
  BY <1>e, <1>m, <1>y, <1>r, JournalFields, ReportFields, Names
     DEF IInv, TypeOK, Places, ServerTells, Settled, Releases, JournalTells, Working, Activating, Undoing,
         ReleasesApart, Apart, Report, Working
<1>11. VerdictsTell'
  BY <1>e, <1>m, <1>y, <1>r, JournalFields, ReportFields, Names
     DEF IInv, TypeOK, Places, VerdictsTell, True, DownTells, JournalTells, Working, Activating, Undoing,
         ServerTells, Settled, Releases, ReleasesApart, Apart, Report, Working
<1> QED BY <1>1, <1>2, <1>3, <1>4, <1>5, <1>6, <1>7, <1>8, <1>9, <1>10, <1>11 DEF IInv

LEMMA TimerReportStep == ASSUME IInv, TimerReport PROVE IInv'
<1>m. mem \in Journals /\ ~ broken /\ waiting = NoReport /\ w # "down" /\ ~ resuming /\ (mem.status # "running" => w = "loop")
  BY DEF IInv, TypeOK, TimerReport, SendReport, Working, JournalTells, Undoing
<1> DEFINE y == [mem EXCEPT !.seq = @ + 1]
           r == [job |-> mem.job, status |-> mem.status, seq |-> y.seq]
<1>y. y \in Journals /\ y.job = mem.job /\ y.status = mem.status /\ y.act = mem.act /\ y.seq = mem.seq + 1
  BY <1>m, Counted
<1>r. r \in Reports /\ r # NoReport /\ r.job = mem.job /\ r.status = mem.status /\ r.seq = y.seq
  BY <1>m, <1>y, JournalFields, Names DEF Reports
<1>e. /\ mem' = y /\ w' = w
      /\ \/ disk' = y /\ broken' = broken /\ waiting' = r /\ wire' = wire \cup {r}
         \/ disk' = disk /\ broken' = TRUE /\ waiting' = waiting /\ wire' = wire
      /\ faults' \in 0..MaxFaults /\ timer' \in 0..MaxTimer
      /\ UNCHANGED <<status, seen, crashes, live, saved, apps, begun, unrestored, resuming>>
  <2>1. SendReport /\ timer' \in 0..MaxTimer
    BY Names DEF IInv, TypeOK, TimerReport
  <2>2. /\ Persist(y, w, w)
        /\ IF broken' THEN UNCHANGED <<wire, waiting>>
           ELSE waiting' = r /\ wire' = wire \cup {r}
    BY <2>1 DEF SendReport
  <2>3. faults' \in 0..MaxFaults
    BY <2>2, Names DEF IInv, TypeOK, Persist
  <2>4. UNCHANGED <<status, seen, crashes, live, saved, apps, begun, unrestored, resuming>>
    BY <2>1 DEF SendReport, manager, server, history
  <2> HIDE DEF y, r
  <2>5. CASE disk' = y /\ w' = w /\ UNCHANGED <<broken, faults>>
    BY <2>5, <1>m, <2>1, <2>2, <2>3, <2>4 DEF Persist
  <2>6. CASE w' = w /\ broken' = (w # "down") /\ UNCHANGED disk
    <3>1. broken' = TRUE
      BY <2>6, <1>m
    <3> QED BY <3>1, <2>6, <2>1, <2>2, <2>3, <2>4 DEF Persist
  <2> QED BY <2>2, <2>5, <2>6 DEF Persist
<1> HIDE DEF y, r
<1>1. TypeOK'
  BY <1>e, <1>m, <1>y, <1>r, JournalFields, ReportFields, Names DEF IInv, TypeOK, Places, TimerReport, Working
<1>2. JobsStarted'
  BY <1>e, <1>m, <1>y, <1>r, JournalFields, ReportFields, Names
     DEF IInv, TypeOK, Places, JobsStarted, Started, JournalTells, Working, Activating, Undoing, TimerReport,
         Working
<1>3. Recorded'
  BY <1>e, <1>m, <1>y, <1>r, JournalFields, ReportFields, Names
     DEF IInv, TypeOK, Places, Recorded, Touched, Ended, JobsStarted, Started, JournalTells, Working, Activating,
         Undoing, WaitingTells, TimerReport, Working
<1>4. JournalTells'
  BY <1>e, <1>m, <1>y, <1>r, JournalFields, ReportFields, Names
     DEF IInv, TypeOK, Places, JournalTells, Working, Activating, Undoing, TimerReport, Working
<1>5. Numbered'
  BY <1>e, <1>m, <1>y, <1>r, JournalFields, ReportFields, Names
     DEF IInv, TypeOK, Places, Numbered, Covers, JournalTells, Working, Activating, Undoing, TimerReport, Working
<1>6. WaitingTells'
  BY <1>e, <1>m, <1>y, <1>r, JournalFields, ReportFields, Names
     DEF IInv, TypeOK, Places, WaitingTells, Ended, JobsStarted, Started, JournalTells, Working, Activating,
         Undoing, Numbered, Covers, TimerReport, Working
<1>7. ReportsTell'
  BY <1>e, <1>m, <1>y, <1>r, JournalFields, ReportFields, Names
     DEF IInv, TypeOK, Places, ReportsTell, Ended, JournalTells, Working, Activating, Undoing, WaitingTells,
         TimerReport, Working
<1>8. BegunTells'
  BY <1>e, <1>m, <1>y, <1>r, JournalFields, ReportFields, Names
     DEF IInv, TypeOK, Places, BegunTells, Old, Activating, JournalTells, Working, Undoing, TimerReport, Working
<1>9. ReleasesApart'
  BY <1>e, <1>m, <1>y, <1>r, JournalFields, ReportFields, Names
     DEF IInv, TypeOK, Places, ReleasesApart, Apart, JournalTells, Working, Activating, Undoing, BegunTells, Old,
         ServerTells, Settled, Releases, TimerReport, Working
<1>10. ServerTells'
  BY <1>e, <1>m, <1>y, <1>r, JournalFields, ReportFields, Names
     DEF IInv, TypeOK, Places, ServerTells, Settled, Releases, JournalTells, Working, Activating, Undoing,
         ReleasesApart, Apart, TimerReport, Working
<1>11. VerdictsTell'
  BY <1>e, <1>m, <1>y, <1>r, JournalFields, ReportFields, Names
     DEF IInv, TypeOK, Places, VerdictsTell, True, DownTells, JournalTells, Working, Activating, Undoing,
         ServerTells, Settled, Releases, ReleasesApart, Apart, TimerReport, Working
<1> QED BY <1>1, <1>2, <1>3, <1>4, <1>5, <1>6, <1>7, <1>8, <1>9, <1>10, <1>11 DEF IInv

LEMMA AnswerStep == ASSUME IInv, Answer PROVE IInv'
<1>1. TypeOK'
  BY JournalFields, ReportFields, Names
     DEF IInv, TypeOK, Places, Answer, Unlink, Working, manager, server, history, bounds
<1>2. JobsStarted'
  BY JournalFields, ReportFields, Names
     DEF IInv, TypeOK, Places, JobsStarted, Started, JournalTells, Working, Activating, Undoing, Answer, Unlink,
         Working, manager, server, history, bounds
<1>3. Recorded'
  BY JournalFields, ReportFields, Names
     DEF IInv, TypeOK, Places, Recorded, Touched, Ended, JobsStarted, Started, JournalTells, Working, Activating,
         Undoing, WaitingTells, Answer, Unlink, Working, manager, server, history, bounds, WaitingTells, Ended
<1>4. JournalTells'
  BY JournalFields, ReportFields, Names
     DEF IInv, TypeOK, Places, JournalTells, Working, Activating, Undoing, Answer, Unlink, Working, manager, server,
         history, bounds, WaitingTells, Ended
<1>5. Numbered'
  BY JournalFields, ReportFields, Names
     DEF IInv, TypeOK, Places, Numbered, Covers, JournalTells, Working, Activating, Undoing, Answer, Unlink,
         Working, manager, server, history, bounds, WaitingTells, Ended
<1>6. WaitingTells'
  BY JournalFields, ReportFields, Names
     DEF IInv, TypeOK, Places, WaitingTells, Ended, JobsStarted, Started, JournalTells, Working, Activating,
         Undoing, Numbered, Covers, Answer, Unlink, Working, manager, server, history, bounds
<1>7. ReportsTell'
  BY JournalFields, ReportFields, Names
     DEF IInv, TypeOK, Places, ReportsTell, Ended, JournalTells, Working, Activating, Undoing, WaitingTells, Answer,
         Unlink, Working, manager, server, history, bounds
<1>8. BegunTells'
  BY JournalFields, ReportFields, Names
     DEF IInv, TypeOK, Places, BegunTells, Old, Activating, JournalTells, Working, Undoing, Answer, Unlink, Working,
         manager, server, history, bounds, WaitingTells, Ended
<1>9. ReleasesApart'
  BY JournalFields, ReportFields, Names
     DEF IInv, TypeOK, Places, ReleasesApart, Apart, JournalTells, Working, Activating, Undoing, BegunTells, Old,
         ServerTells, Settled, Releases, Answer, Unlink, Working, manager, server, history, bounds, WaitingTells,
         Ended
<1>10. ServerTells'
  BY JournalFields, ReportFields, Names
     DEF IInv, TypeOK, Places, ServerTells, Settled, Releases, JournalTells, Working, Activating, Undoing,
         ReleasesApart, Apart, Answer, Unlink, Working, manager, server, history, bounds, WaitingTells, Ended
<1>11. VerdictsTell'
  BY JournalFields, ReportFields, Names
     DEF IInv, TypeOK, Places, VerdictsTell, True, DownTells, JournalTells, Working, Activating, Undoing,
         ServerTells, Settled, Releases, ReleasesApart, Apart, Answer, Unlink, Working, manager, server, history,
         bounds, WaitingTells, Ended
<1> QED BY <1>1, <1>2, <1>3, <1>4, <1>5, <1>6, <1>7, <1>8, <1>9, <1>10, <1>11 DEF IInv

LEMMA GiveUpStep == ASSUME IInv, GiveUp PROVE IInv'
<1>1. TypeOK'
  BY JournalFields, ReportFields, Names DEF IInv, TypeOK, Places, GiveUp, manager, journal, server, history
<1>2. JobsStarted'
  BY JournalFields, ReportFields, Names
     DEF IInv, TypeOK, Places, JobsStarted, Started, JournalTells, Working, Activating, Undoing, GiveUp, manager,
         journal, server, history
<1>3. Recorded'
  BY JournalFields, ReportFields, Names
     DEF IInv, TypeOK, Places, Recorded, Touched, Ended, JobsStarted, Started, JournalTells, Working, Activating,
         Undoing, WaitingTells, GiveUp, manager, journal, server, history
<1>4. JournalTells'
  BY JournalFields, ReportFields, Names
     DEF IInv, TypeOK, Places, JournalTells, Working, Activating, Undoing, GiveUp, manager, journal, server, history
<1>5. Numbered'
  BY JournalFields, ReportFields, Names
     DEF IInv, TypeOK, Places, Numbered, Covers, JournalTells, Working, Activating, Undoing, GiveUp, manager,
         journal, server, history
<1>6. WaitingTells'
  BY JournalFields, ReportFields, Names
     DEF IInv, TypeOK, Places, WaitingTells, Ended, JobsStarted, Started, JournalTells, Working, Activating,
         Undoing, Numbered, Covers, GiveUp, manager, journal, server, history
<1>7. ReportsTell'
  BY JournalFields, ReportFields, Names
     DEF IInv, TypeOK, Places, ReportsTell, Ended, JournalTells, Working, Activating, Undoing, WaitingTells, GiveUp,
         manager, journal, server, history
<1>8. BegunTells'
  BY JournalFields, ReportFields, Names
     DEF IInv, TypeOK, Places, BegunTells, Old, Activating, JournalTells, Working, Undoing, GiveUp, manager,
         journal, server, history
<1>9. ReleasesApart'
  BY JournalFields, ReportFields, Names
     DEF IInv, TypeOK, Places, ReleasesApart, Apart, JournalTells, Working, Activating, Undoing, BegunTells, Old,
         ServerTells, Settled, Releases, GiveUp, manager, journal, server, history
<1>10. ServerTells'
  BY JournalFields, ReportFields, Names
     DEF IInv, TypeOK, Places, ServerTells, Settled, Releases, JournalTells, Working, Activating, Undoing,
         ReleasesApart, Apart, GiveUp, manager, journal, server, history
<1>11. VerdictsTell'
  BY JournalFields, ReportFields, Names
     DEF IInv, TypeOK, Places, VerdictsTell, True, DownTells, JournalTells, Working, Activating, Undoing,
         ServerTells, Settled, Releases, ReleasesApart, Apart, GiveUp, manager, journal, server, history
<1> QED BY <1>1, <1>2, <1>3, <1>4, <1>5, <1>6, <1>7, <1>8, <1>9, <1>10, <1>11 DEF IInv

LEMMA CrashStep == ASSUME IInv, Crash PROVE IInv'
<1>1. TypeOK'
  <2>1. crashes' \in 0..MaxCrashes
    BY Names DEF IInv, TypeOK, Crash
  <2>2. /\ w' = "down" /\ mem' = NoJournal /\ broken' = FALSE /\ waiting' = NoReport /\ resuming' = FALSE
        /\ live' \in {live, Off} /\ UNCHANGED <<status, seen, wire, disk, saved, apps, begun, unrestored, faults, timer>>
    BY DEF Crash, manager, history
  <2> QED BY <2>1, <2>2 DEF IInv, TypeOK, Places
<1>2. JobsStarted'
  BY JournalFields, ReportFields, Names
     DEF IInv, TypeOK, Places, JobsStarted, Started, JournalTells, Working, Activating, Undoing, Crash, Working,
         manager, history
<1>3. Recorded'
  BY JournalFields, ReportFields, Names
     DEF IInv, TypeOK, Places, Recorded, Touched, Ended, JobsStarted, Started, JournalTells, Working, Activating,
         Undoing, WaitingTells, Crash, Working, manager, history
<1>4. JournalTells'
  BY JournalFields, ReportFields, Names
     DEF IInv, TypeOK, Places, JournalTells, Working, Activating, Undoing, Crash, Working, manager, history
<1>5. Numbered'
  BY JournalFields, ReportFields, Names
     DEF IInv, TypeOK, Places, Numbered, Covers, JournalTells, Working, Activating, Undoing, Crash, Working,
         manager, history
<1>6. WaitingTells'
  BY JournalFields, ReportFields, Names
     DEF IInv, TypeOK, Places, WaitingTells, Ended, JobsStarted, Started, JournalTells, Working, Activating,
         Undoing, Numbered, Covers, Crash, Working, manager, history
<1>7. ReportsTell'
  BY JournalFields, ReportFields, Names
     DEF IInv, TypeOK, Places, ReportsTell, Ended, JournalTells, Working, Activating, Undoing, WaitingTells, Crash,
         Working, manager, history
<1>8. BegunTells'
  BY JournalFields, ReportFields, Names
     DEF IInv, TypeOK, Places, BegunTells, Old, Activating, JournalTells, Working, Undoing, Crash, Working, manager,
         history
<1>9. ReleasesApart'
  BY JournalFields, ReportFields, Names
     DEF IInv, TypeOK, Places, ReleasesApart, Apart, JournalTells, Working, Activating, Undoing, BegunTells, Old,
         ServerTells, Settled, Releases, Crash, Working, manager, history
<1>10. ServerTells'
  BY JournalFields, ReportFields, Names
     DEF IInv, TypeOK, Places, ServerTells, Settled, Releases, JournalTells, Working, Activating, Undoing,
         ReleasesApart, Apart, Crash, Working, manager, history
<1>11. VerdictsTell'
  BY JournalFields, ReportFields, Names
     DEF IInv, TypeOK, Places, VerdictsTell, True, DownTells, JournalTells, Working, Activating, Undoing,
         ServerTells, Settled, Releases, ReleasesApart, Apart, Crash, Working, manager, history
<1> QED BY <1>1, <1>2, <1>3, <1>4, <1>5, <1>6, <1>7, <1>8, <1>9, <1>10, <1>11 DEF IInv

LEMMA BootStep == ASSUME IInv, Boot PROVE IInv'
<1>1. TypeOK'
  BY JournalFields, ReportFields, Names DEF IInv, TypeOK, Places, Boot, Resume, Working, Quiet, manager, history
<1>2. JobsStarted'
  BY JournalFields, ReportFields, Names
     DEF IInv, TypeOK, Places, JobsStarted, Started, JournalTells, Working, Activating, Undoing, Boot, Resume,
         Working, Quiet, manager, history
<1>3. Recorded'
  BY JournalFields, ReportFields, Names
     DEF IInv, TypeOK, Places, Recorded, Touched, Ended, JobsStarted, Started, JournalTells, Working, Activating,
         Undoing, WaitingTells, Boot, Resume, Working, Quiet, manager, history
<1>4. JournalTells'
  BY JournalFields, ReportFields, Names
     DEF IInv, TypeOK, Places, JournalTells, Working, Activating, Undoing, Boot, Resume, Working, Quiet, manager,
         history
<1>5. Numbered'
  BY JournalFields, ReportFields, Names
     DEF IInv, TypeOK, Places, Numbered, Covers, JournalTells, Working, Activating, Undoing, Boot, Resume, Working,
         Quiet, manager, history
<1>6. WaitingTells'
  BY JournalFields, ReportFields, Names
     DEF IInv, TypeOK, Places, WaitingTells, Ended, JobsStarted, Started, JournalTells, Working, Activating,
         Undoing, Numbered, Covers, Boot, Resume, Working, Quiet, manager, history
<1>7. ReportsTell'
  BY JournalFields, ReportFields, Names
     DEF IInv, TypeOK, Places, ReportsTell, Ended, JournalTells, Working, Activating, Undoing, WaitingTells, Boot,
         Resume, Working, Quiet, manager, history
<1>8. BegunTells'
  BY JournalFields, ReportFields, Names
     DEF IInv, TypeOK, Places, BegunTells, Old, Activating, JournalTells, Working, Undoing, Boot, Resume, Working,
         Quiet, manager, history
<1>9. ReleasesApart'
  BY JournalFields, ReportFields, Names
     DEF IInv, TypeOK, Places, ReleasesApart, Apart, JournalTells, Working, Activating, Undoing, BegunTells, Old,
         ServerTells, Settled, Releases, Boot, Resume, Working, Quiet, manager, history
<1>10. ServerTells'
  BY JournalFields, ReportFields, Names
     DEF IInv, TypeOK, Places, ServerTells, Settled, Releases, JournalTells, Working, Activating, Undoing,
         ReleasesApart, Apart, Boot, Resume, Working, Quiet, manager, history, VerdictsTell, True, DownTells
<1>11. VerdictsTell'
  BY JournalFields, ReportFields, Names
     DEF IInv, TypeOK, Places, VerdictsTell, True, DownTells, JournalTells, Working, Activating, Undoing,
         ServerTells, Settled, Releases, ReleasesApart, Apart, Boot, Resume, Working, Quiet, manager, history
<1> QED BY <1>1, <1>2, <1>3, <1>4, <1>5, <1>6, <1>7, <1>8, <1>9, <1>10, <1>11 DEF IInv

LEMMA StutterStep == ASSUME IInv, UNCHANGED vars PROVE IInv'
<1>1. TypeOK'
  BY JournalFields, ReportFields, Names DEF IInv, TypeOK, Places, vars, manager, journal, server, history, bounds
<1>2. JobsStarted'
  BY JournalFields, ReportFields, Names
     DEF IInv, TypeOK, Places, JobsStarted, Started, JournalTells, Working, Activating, Undoing, vars, manager,
         journal, server, history, bounds
<1>3. Recorded'
  BY JournalFields, ReportFields, Names
     DEF IInv, TypeOK, Places, Recorded, Touched, Ended, JobsStarted, Started, JournalTells, Working, Activating,
         Undoing, WaitingTells, vars, manager, journal, server, history, bounds
<1>4. JournalTells'
  BY JournalFields, ReportFields, Names
     DEF IInv, TypeOK, Places, JournalTells, Working, Activating, Undoing, vars, manager, journal, server, history,
         bounds
<1>5. Numbered'
  BY JournalFields, ReportFields, Names
     DEF IInv, TypeOK, Places, Numbered, Covers, JournalTells, Working, Activating, Undoing, vars, manager, journal,
         server, history, bounds
<1>6. WaitingTells'
  BY JournalFields, ReportFields, Names
     DEF IInv, TypeOK, Places, WaitingTells, Ended, JobsStarted, Started, JournalTells, Working, Activating,
         Undoing, Numbered, Covers, vars, manager, journal, server, history, bounds
<1>7. ReportsTell'
  BY JournalFields, ReportFields, Names
     DEF IInv, TypeOK, Places, ReportsTell, Ended, JournalTells, Working, Activating, Undoing, WaitingTells, vars,
         manager, journal, server, history, bounds
<1>8. BegunTells'
  BY JournalFields, ReportFields, Names
     DEF IInv, TypeOK, Places, BegunTells, Old, Activating, JournalTells, Working, Undoing, vars, manager, journal,
         server, history, bounds
<1>9. ReleasesApart'
  BY JournalFields, ReportFields, Names
     DEF IInv, TypeOK, Places, ReleasesApart, Apart, JournalTells, Working, Activating, Undoing, BegunTells, Old,
         ServerTells, Settled, Releases, vars, manager, journal, server, history, bounds
<1>10. ServerTells'
  BY JournalFields, ReportFields, Names
     DEF IInv, TypeOK, Places, ServerTells, Settled, Releases, JournalTells, Working, Activating, Undoing,
         ReleasesApart, Apart, vars, manager, journal, server, history, bounds
<1>11. VerdictsTell'
  BY JournalFields, ReportFields, Names
     DEF IInv, TypeOK, Places, VerdictsTell, True, DownTells, JournalTells, Working, Activating, Undoing,
         ServerTells, Settled, Releases, ReleasesApart, Apart, vars, manager, journal, server, history, bounds
<1> QED BY <1>1, <1>2, <1>3, <1>4, <1>5, <1>6, <1>7, <1>8, <1>9, <1>10, <1>11 DEF IInv

LEMMA NextIInv == IInv /\ [Next]_vars => IInv'
  BY QueueStep, CancelStep, DeliverStep, JournalStep, BuildStep, JournalActivationStep,
     DeleteOldStep, StartNewStep, CheckHealthStep, ConfigureProxyStep, SaveAppsStep, SaveListStep,
     UndoStartStep, UndoHealthStep, UndoRoutesStep, UndoAppsStep, UndoSaveStep, VerdictStep,
     ReportStep, TimerReportStep, AnswerStep, BootStep, ClaimStep, ClaimLostStep,
     GiveUpStep, CrashStep, StutterStep
     DEF Next, AgentStep, Activate, RestoreActivation

LEMMA Inductive == Spec => []IInv
  BY InitIInv, NextIInv, PTL DEF Spec

(***************************************************************************)
(* What follows for deployments.                                           *)
(***************************************************************************)

\* Rows, reports, journals and releases keep values of their kinds.
THEOREM TypeCorrect == Spec => []TypeOK
<1>1. IInv => TypeOK
  BY DEF IInv
<1> QED BY <1>1, Inductive, PTL

\* Between jobs the release that runs, the one in apps.json and the one PM2 has saved agree.
THEOREM RegistryStaysTrue == Spec => []RegistryIsTrue
<1>1. IInv => RegistryIsTrue
  BY DEF IInv, ServerTells, Settled, RegistryIsTrue, Running
<1> QED BY <1>1, Inductive, PTL

LEMMA OneCheckout == IInv /\ [Next]_vars /\ w # "checkout" /\ w' = "checkout" => mem.job \notin begun
<1> SUFFICES ASSUME IInv, [Next]_vars, w # "checkout", w' = "checkout" PROVE mem.job \notin begun
  OBVIOUS
<1>1. CASE Journal
  BY <1>1 DEF Journal, IInv, BegunTells
<1>2. CASE Build \/ JournalActivation \/ Verdict \/ Boot \/ Claim \/ Crash
  BY <1>2 DEF Build, JournalActivation, Persist, Verdict, Boot, Resume, Claim, Crash
<1>3. CASE Activate
  BY <1>3 DEF Activate, DeleteOld, StartNew, CheckHealth, ConfigureProxy, SaveApps, SaveList, Done, Throws
<1>4. CASE RestoreActivation
  BY <1>4 DEF RestoreActivation, UndoStart, UndoHealth, UndoRoutes, UndoApps, UndoSave, Undone, Gives
<1>5. CASE Report \/ TimerReport \/ Answer \/ ClaimLost \/ GiveUp \/ UNCHANGED vars
  BY <1>5 DEF Report, TimerReport, SendReport, Persist, Answer, ClaimLost, GiveUp, vars
<1>6. CASE \E j \in Jobs : QueueRemoteDeploy(j) \/ CancelQueuedJob(j)
  BY <1>6 DEF QueueRemoteDeploy, CancelQueuedJob
<1>7. CASE \E m \in wire : Deliver(m)
  BY <1>7 DEF Deliver
<1> QED BY <1>1, <1>2, <1>3, <1>4, <1>5, <1>6, <1>7 DEF Next, AgentStep

\* A job that Manager hands out twice is executed once: nothing that has begun is checked out again.
THEOREM NothingReplayed == Spec => NeverReplayed
<1>1. IInv /\ [Next]_vars => [w # "checkout" /\ w' = "checkout" => mem.job \notin begun]_vars
  BY OneCheckout
<1> QED BY <1>1, Inductive, PTL DEF Spec, NeverReplayed

LEMMA TrueReport ==
    ASSUME IInv, NEW m \in wire, m.status # "running", ~ Ended(m.job)
    PROVE  (m.status = "success" => apps = m.job) /\ (m.status = "failed" => apps # m.job \/ unrestored)
  BY JournalFields, ReportFields, Names
     DEF IInv, TypeOK, ReportsTell, JournalTells, Working, VerdictsTell, True

TrueVerdicts ==
    \A j \in Jobs : status'[j] # status[j] =>
        /\ status'[j] = "success" => apps = j
        /\ status'[j] = "failed" => apps # j \/ unrestored

LEMMA VerdictsAreReports == IInv /\ [Next]_vars => TrueVerdicts
<1> SUFFICES ASSUME IInv, [Next]_vars PROVE TrueVerdicts
  OBVIOUS
<1>1. CASE \E m \in wire : Deliver(m)
  BY <1>1, TrueReport, ReportFields DEF Deliver, Fresh, IInv, TypeOK, Ended, TrueVerdicts
<1>2. CASE Claim \/ ClaimLost \/ \E j \in Jobs : QueueRemoteDeploy(j) \/ CancelQueuedJob(j)
  BY <1>2 DEF Claim, ClaimLost, QueueRemoteDeploy, CancelQueuedJob, IInv, TypeOK, TrueVerdicts
<1>3. CASE AgentStep \/ TimerReport \/ GiveUp \/ Crash \/ UNCHANGED vars
  <2>1. status' = status
    BY <1>3
       DEF AgentStep, Journal, Build, JournalActivation, Activate, DeleteOld, StartNew, CheckHealth, ConfigureProxy,
         SaveApps, SaveList, RestoreActivation, UndoStart, UndoHealth, UndoRoutes, UndoApps, UndoSave, Verdict, Report,
         TimerReport, SendReport, Answer, GiveUp, Crash, Boot, Rest, Unwound, Quiet, vars, manager
  <2> QED BY <2>1 DEF TrueVerdicts
<1> QED BY <1>1, <1>2, <1>3 DEF Next

\* Manager's verdict on a job says whether its release is the registered one.
THEOREM VerdictsAreTrue == Spec => VerdictIsTrue
<1>1. IInv /\ [Next]_vars => [TrueVerdicts]_vars
  BY VerdictsAreReports
<1> QED BY <1>1, Inductive, PTL DEF Spec, VerdictIsTrue, TrueVerdicts

(***************************************************************************)
(* Updates of the agent: the inductive invariant.                          *)
(***************************************************************************)

Verdicts == {"success", "failed", "rolled_back"}
Beginning == {"backup", "candidate", "stop", "activate", "abort"}
Returning == {"rollback", "restoring", "rewrite", "restored", "restart", "reconfirm", "attention"}

\* One update at a time.
OneActive == \A u, v \in Active : u = v

\* An update in progress keeps Manager, the agent and its journal free of deployments.
JobTells ==
    /\ Open # {} => job # "running"
    /\ jobFile = "running" => job = "running"
    /\ wk = "busy" => jobFile = "running"
    /\ stored.u \in Open => jobFile = "none"

\* What state.json says of the row.
StoredTells ==
    /\ stored.phase = "none" => stored = NoState
    /\ stored.phase # "none" => stored.u \in Updates /\ upd[stored.u] \notin {"none", "queued", "cancelled"}
    /\ stored.reported => stored.u \notin Open
    /\ stored.phase \in Unsettled \cup {"preparing"} => stored.u \in Open

\* What state.json says of the agent's file, which is the one an update not yet begun starts from.
FileTells ==
    /\ stored.phase \notin Unsettled => wv = file
    /\ stored.phase \in Unsettled => stored.u \in backup /\ file \in {stored.u, from[stored.u]}
    /\ stored.phase = "success" => file = stored.u
    /\ stored.phase \in {"preparing", "failed", "rolled_back"} => file = from[stored.u]
    /\ stored.restored => file = from[stored.u]
    /\ \A u \in Open : u # stored.u => file = from[u]

\* How the supervisor's copy differs from state.json where a write may have failed.
LoopTells ==
    \/ /\ held.u = stored.u /\ held.phase = stored.phase
       /\ held.phase \notin {"preparing", "activating", "testing", "restoring"}
    \/ held.u = stored.u /\ held.phase = "failed" /\ stored.phase = "preparing"
    \/ held.u = stored.u /\ held.phase = "rolled_back" /\ held.restored /\ stored.phase \in {"preparing"} \cup Unsettled
    \/ /\ held.u = stored.u /\ held.phase = "recovery_required" /\ held.u \in backup
       /\ stored.phase \in Unsettled \cup {"preparing"}
    \/ /\ held.phase = "preparing" /\ held.u \in Open /\ ~ held.reported /\ ~ held.restored
       /\ stored.phase \notin Unsettled \cup {"preparing"} /\ stored.u # held.u
HeldTells ==
    /\ pc = "loop" => LoopTells
    /\ pc = "send" => held = stored /\ held.phase \in Verdicts \cup {"recovery_required"}
    /\ pc \in Beginning => held = stored /\ held.phase = "preparing" /\ ~ held.restored
    /\ pc \in {"candidate", "stop", "activate"} => held.u \in backup
    /\ pc = "activate" => wk = "off"
    /\ pc \in {"replace", "testing"} => held = stored /\ held.phase = "activating" /\ ~ held.restored
    /\ pc \in {"start", "confirm"} => held = stored /\ held.phase = "testing" /\ ~ held.restored
    /\ pc \in {"testing", "start", "confirm"} => file = held.u
    /\ pc \in Returning => held.u = stored.u /\ held.u \in backup /\ stored.phase \in Unsettled \cup {"preparing"}
    /\ pc \in {"rewrite", "restored", "restart", "reconfirm"} => held = stored /\ held.phase = "restoring"
    /\ pc = "restored" => file = from[held.u]
    /\ pc \in {"restart", "reconfirm"} => held.restored
    /\ pc # "off" /\ held.restored => held.u = stored.u /\ file = from[held.u]
    /\ pc # "off" /\ held.reported => held.u = stored.u /\ held.u \notin Open

\* The numbers of reports: none of an update not yet begun, and none above the last one written.
Unbegun(u) == upd[u] \in {"none", "queued"} \/ (u \in Open /\ u # stored.u)
NumbersTell ==
    /\ \A u \in Updates : Unbegun(u) => counted[u] = 0 /\ \A m \in late : m.u # u
    /\ stored.phase # "none" => counted[stored.u] <= stored.seq /\ \A m \in late : m.u = stored.u => m.seq <= stored.seq
    /\ pc # "off" /\ stored.phase # "none" /\ held.u = stored.u => stored.seq <= held.seq
    /\ pc = "send" => counted[held.u] < held.seq /\ \A m \in late : m.u = held.u => m.seq < held.seq

\* A report that still counts says what state.json says.
LateTells ==
    \A m \in late : /\ m.phase \in Verdicts \cup {"recovery_required"}
                    /\ m.u \in Open /\ m.phase \in Verdicts => m.u = stored.u /\ m.phase = stored.phase

UpdateInv ==
    /\ RowTypes /\ RecordTypes /\ AgentTypes /\ OneActive /\ JobTells
    /\ StoredTells /\ FileTells /\ HeldTells /\ NumbersTell /\ LateTells

(***************************************************************************)
(* What the writes of state.json and the reports do.                       *)
(***************************************************************************)

Written(next, otherwise) ==
    \/ stored' = held' /\ pc' = next /\ UNCHANGED losses
    \/ stored' = stored /\ pc' = otherwise /\ Fault
Becomes(phase, restored, reported, seq) ==
    /\ held' \in States /\ held'.u = held.u /\ held'.phase = phase
    /\ held'.restored = restored /\ held'.reported = reported /\ held'.seq = seq
Enters(phase) == Becomes(phase, held.restored, held.reported, held.seq)

LEMMA SaveWrites == ASSUME NEW s, NEW a, NEW b, Save(s, a, b) PROVE held' = s /\ Written(a, b)
  BY DEF Save, Written

LEMMA PhaseSaved ==
    ASSUME held \in States, NEW p \in Phases, NEW a, NEW b, Save(Phase(p), a, b)
    PROVE  Enters(p) /\ Written(a, b)
<1>1. held' = [held EXCEPT !.phase = p] /\ Written(a, b)
  BY SaveWrites DEF Phase
<1> QED BY <1>1 DEF States, Enters, Becomes

LEMMA PhaseSteps ==
    ASSUME RecordTypes
    PROVE  /\ ResumeConfirmation => Enters("rolled_back") /\ Written("loop", "loop")
           /\ ActivateUpdate => Enters("activating") /\ Written("replace", "rollback")
           /\ Testing => Enters("testing") /\ Written("start", "rollback")
           /\ Confirm => \/ Connected(held.u) /\ Enters("success") /\ Written("loop", "rollback")
                         \/ pc' = Catch /\ UNCHANGED <<stored, held, losses>>
           /\ Abort => Enters("failed") /\ Written("loop", "loop")
           /\ Restoring => Enters("restoring") /\ Written("rewrite", "attention")
           /\ Reconfirm => \/ Connected(from[held.u]) /\ Enters("rolled_back") /\ Written("loop", "attention")
                           \/ pc' = "attention" /\ (UNCHANGED losses \/ Fault) /\ UNCHANGED <<stored, held>>
           /\ AskForAttention => Enters("recovery_required") /\ Written("loop", "loop")
<1> USE PhaseSaved DEF RecordTypes, Phases
<1>1. ResumeConfirmation => Enters("rolled_back") /\ Written("loop", "loop")
  BY DEF ResumeConfirmation
<1>2. ActivateUpdate => Enters("activating") /\ Written("replace", "rollback")
  BY DEF ActivateUpdate
<1>3. Testing => Enters("testing") /\ Written("start", "rollback")
  BY DEF Testing
<1>4. Confirm => \/ Connected(held.u) /\ Enters("success") /\ Written("loop", "rollback")
                 \/ pc' = Catch /\ UNCHANGED <<stored, held, losses>>
  BY DEF Confirm, Throw, record
<1>5. Abort => Enters("failed") /\ Written("loop", "loop")
  BY DEF Abort
<1>6. Restoring => Enters("restoring") /\ Written("rewrite", "attention")
  BY DEF Restoring
<1>7. Reconfirm => \/ Connected(from[held.u]) /\ Enters("rolled_back") /\ Written("loop", "attention")
                   \/ pc' = "attention" /\ (UNCHANGED losses \/ Fault) /\ UNCHANGED <<stored, held>>
  BY DEF Reconfirm, Attention, record
<1>8. AskForAttention => Enters("recovery_required") /\ Written("loop", "loop")
  BY DEF AskForAttention
<1> QED BY <1>1, <1>2, <1>3, <1>4, <1>5, <1>6, <1>7, <1>8

\* The other writes: the end of a restoration, the number and the answer of a report, the record of
\* a claimed update, and what the start makes of state.json.
LEMMA RestoredDoes ==
    ASSUME RecordTypes, Restored PROVE Becomes(held.phase, TRUE, held.reported, held.seq) /\ Written("restart", "attention")
<1>1. held' = [held EXCEPT !.restored = TRUE] /\ Written("restart", "attention")
  BY SaveWrites DEF Restored
<1> QED BY <1>1 DEF RecordTypes, States, Becomes

LEMMA ReportDoes ==
    ASSUME RecordTypes, ReportUpdate
    PROVE  Becomes(held.phase, held.restored, held.reported, held.seq + 1) /\ Written("send", "loop")
<1>1. held' = [held EXCEPT !.seq = @ + 1] /\ Written("send", "loop")
  BY SaveWrites DEF ReportUpdate
<1> QED BY <1>1 DEF RecordTypes, States, Becomes

LEMMA RecordDoes ==
    ASSUME NEW m, Record(m)
    PROVE  \/ ~ Refused(m) /\ FreshReport(m)
              /\ upd' = [upd EXCEPT ![m.u] = m.phase] /\ counted' = [counted EXCEPT ![m.u] = m.seq]
           \/ (Refused(m) \/ ~ FreshReport(m)) /\ UNCHANGED <<upd, counted>>
  BY DEF Record

Message == [u |-> held.u, seq |-> held.seq, phase |-> held.phase]
LEMMA SendDoes ==
    ASSUME RecordTypes, Send
    PROVE  /\ pc = "send" /\ UNCHANGED <<from, job, beat, file, backup, agent, ends>>
           /\ \/ /\ Record(Message) /\ late' = late /\ UNCHANGED <<stored, held, losses>> /\ pc' = "loop"
                 /\ (Refused(Message) \/ held.phase = "recovery_required")
              \/ /\ Record(Message) /\ late' = late /\ ~ Refused(Message) /\ held.phase # "recovery_required"
                 /\ Becomes(held.phase, held.restored, TRUE, held.seq) /\ Written("loop", "loop")
              \/ /\ pc' = "loop" /\ Fault /\ UNCHANGED <<stored, held>>
                 /\ \/ Record(Message) /\ late' = late
                    \/ late' \in {late, late \cup {Message}} /\ UNCHANGED <<upd, counted>>
<1>f. pc = "send" /\ UNCHANGED <<from, job, beat, file, backup, agent, ends>>
  BY DEF Send
<1>1. CASE /\ Record(Message) /\ UNCHANGED late /\ ~ Refused(Message) /\ held.phase # "recovery_required"
           /\ Save([held EXCEPT !.reported = TRUE], "loop", "loop")
  <2>1. held' = [held EXCEPT !.reported = TRUE] /\ Written("loop", "loop")
    BY <1>1, SaveWrites
  <2> QED BY <1>1, <1>f, <2>1 DEF RecordTypes, States, Becomes
<1> QED BY <1>1, <1>f DEF Send, Message, record

Claimed(u) == [NoState EXCEPT !.u = u, !.phase = "preparing", !.reported = FALSE]
LEMMA ClaimedFields ==
    ASSUME NEW u \in Updates
    PROVE  /\ Claimed(u) \in States /\ Claimed(u).u = u /\ Claimed(u).phase = "preparing"
           /\ Claimed(u).restored = FALSE /\ Claimed(u).reported = FALSE /\ Claimed(u).seq = 0
<1> DEFINE a == [NoState EXCEPT !.u = u]
           b == [a EXCEPT !.phase = "preparing"]
<1>1. NoState \in States /\ NoState.restored = FALSE /\ NoState.seq = 0
  BY Bounds DEF NoState, States, Phases
<1>2. a \in States /\ a.u = u /\ a.seq = 0 /\ a.restored = FALSE
  BY <1>1, Bounds DEF States, Updates
<1>3. Claimed(u) = [b EXCEPT !.reported = FALSE]
  BY DEF Claimed
<1> HIDE DEF a
<1>4. b \in States /\ b.u = u /\ b.phase = "preparing" /\ b.seq = 0 /\ b.restored = FALSE
  BY <1>2 DEF States, Phases
<1> HIDE DEF b
<1> QED BY <1>3, <1>4 DEF States

LEMMA ClaimDoes ==
    ASSUME ClaimUpdate
    PROVE  /\ pc = "loop" /\ held.reported /\ told /\ wk # "off" /\ child /\ pulsed
           /\ UNCHANGED <<from, counted, job, beat, late, file, backup, agent, ends>>
           /\ \E u \in Updates :
              /\ UpdateClaimable(u) /\ Offer(u)
              /\ \/ /\ Ready /\ Written("backup", "loop") /\ held' \in States /\ held'.u = u
                    /\ held'.phase = "preparing" /\ held'.restored = FALSE /\ held'.reported = FALSE /\ held'.seq = 0
                 \/ pc' = pc /\ UNCHANGED <<stored, held, losses>>
<1>f. pc = "loop" /\ held.reported /\ told /\ wk # "off" /\ child /\ pulsed
      /\ UNCHANGED <<from, counted, job, beat, late, file, backup, agent, ends>>
  BY DEF ClaimUpdate
<1>1. PICK u \in Updates :
         /\ UpdateClaimable(u) /\ Offer(u)
         /\ IF Ready THEN Save(Claimed(u), "backup", "loop") ELSE pc' = pc /\ UNCHANGED <<record, losses>>
  BY DEF ClaimUpdate, Claimed
<1>2. CASE Ready
  <2>1. held' = Claimed(u) /\ Written("backup", "loop")
    BY <1>1, <1>2, SaveWrites
  <2> QED BY <1>1, <1>2, <1>f, <2>1, ClaimedFields
<1> QED BY <1>1, <1>2, <1>f DEF record

LEMMA BeginDoes ==
    ASSUME RecordTypes, Begin
    PROVE  /\ pc = "off" /\ UNCHANGED <<rows, file, backup, ends>>
           /\ \/ stored.phase \in Unsettled /\ pc' = "rollback" /\ held' = stored /\ UNCHANGED <<stored, agent, losses>>
              \/ /\ stored.phase \notin Unsettled /\ wk = "off" /\ Written("loop", "off")
                 /\ IF pc' = "loop" THEN Spawn ELSE UNCHANGED agent
                 /\ held' \in States /\ held'.u = stored.u /\ held'.seq = stored.seq
                 /\ held'.restored = stored.restored /\ held'.reported = stored.reported
                 /\ held'.phase = IF stored.phase = "preparing" THEN "failed" ELSE stored.phase
                 /\ stored.phase # "preparing" => held' = stored
<1>1. CASE stored.phase \notin Unsettled
  <2>1. /\ held' = (IF stored.phase = "preparing" THEN [stored EXCEPT !.phase = "failed"] ELSE stored)
        /\ Written("loop", "off")
    BY <1>1, SaveWrites DEF Begin
  <2>2. CASE stored.phase = "preparing"
    BY <1>1, <2>1, <2>2 DEF Begin, RecordTypes, States, Phases
  <2>3. CASE stored.phase # "preparing"
    BY <1>1, <2>1, <2>3 DEF Begin, RecordTypes
  <2> QED BY <2>2, <2>3
<1> QED BY <1>1 DEF Begin

Statuses == {"none", "queued", "cancelled", "installing", "success", "failed", "rolled_back", "recovery_required"}
Messages == [u : Updates, seq : Nat, phase : Phases]

\* A report changes the row of an update in progress or nothing.
LEMMA ReportChanges ==
    ASSUME RowTypes, NEW m \in Messages, m.phase \in Verdicts \cup {"recovery_required"}, Record(m)
    PROVE  /\ upd' \in [Updates -> Statuses] /\ counted' \in [Updates -> Nat]
           /\ Open' \subseteq Open /\ Active' \subseteq Active
           /\ \A u \in Updates : u # m.u \/ u \notin Open => upd'[u] = upd[u] /\ counted'[u] = counted[u]
           /\ \/ UNCHANGED <<upd, counted>> /\ (m.u \notin Open \/ m.seq <= counted[m.u] \/ Refused(m))
              \/ m.u \in Open /\ upd'[m.u] = m.phase /\ counted'[m.u] = m.seq /\ counted[m.u] < m.seq
<1> USE DEF RowTypes, Messages, Statuses
<1>1. CASE Refused(m) \/ ~ FreshReport(m)
  <2>1. UNCHANGED <<upd, counted>>
    BY <1>1 DEF Record
  <2> QED BY <1>1, <2>1 DEF FreshReport, Open, Active
<1>2. CASE ~ Refused(m) /\ FreshReport(m)
  <2>1. m.u \in Open /\ m.seq > counted[m.u]
    BY <1>2 DEF FreshReport
  <2>2. upd' = [upd EXCEPT ![m.u] = m.phase] /\ counted' = [counted EXCEPT ![m.u] = m.seq]
    BY <1>2 DEF Record
  <2>3. m.phase \in Statuses
    BY DEF Verdicts
  <2>4. upd' \in [Updates -> Statuses] /\ counted' \in [Updates -> Nat]
    BY <2>2, <2>3
  <2>5. upd'[m.u] = m.phase /\ counted'[m.u] = m.seq
    BY <2>2
  <2>6. \A u \in Updates : u # m.u => upd'[u] = upd[u] /\ counted'[u] = counted[u]
    BY <2>2
  <2> QED BY <2>1, <2>4, <2>5, <2>6 DEF Open, Active
<1> QED BY <1>1, <1>2

LEMMA LateFields ==
    ASSUME UpdateInv, NEW m \in late PROVE m \in Messages /\ m.phase \in Verdicts \cup {"recovery_required"}
  BY DEF UpdateInv, RowTypes, LateTells, Messages

LEMMA SentFields ==
    ASSUME UpdateInv, pc = "send"
    PROVE  /\ held = stored /\ held.u \in Updates /\ held.phase \in Verdicts \cup {"recovery_required"}
           /\ Message \in Messages /\ Message.u = held.u /\ Message.seq = held.seq /\ Message.phase = held.phase
<1>1. held = stored /\ held.phase \in Verdicts \cup {"recovery_required"} /\ held \in States
  BY DEF UpdateInv, HeldTells, RecordTypes
<1>2. held.u \in Updates
  BY <1>1 DEF UpdateInv, StoredTells, Verdicts
<1> QED BY <1>1, <1>2 DEF Message, Messages, States

\* The update that is begun is one of Manager's.
LEMMA HeldUpdate ==
    ASSUME UpdateInv, pc \in Beginning \cup Returning \cup {"replace", "testing", "start", "confirm"} PROVE held.u = stored.u /\ held.u \in Updates
  BY DEF UpdateInv, HeldTells, StoredTells, Beginning, Returning, Unsettled, RecordTypes

(***************************************************************************)
(* Steps that leave most of the state alone.                               *)
(***************************************************************************)

JobStep ==
    \/ QueueDeploy \/ Heartbeat \/ Tell \/ ClaimJob \/ FinishJob \/ ReportJob \/ Leave \/ AgentEnds
    \/ UNCHANGED update
PlaceStep == Respawn \/ Backup \/ Candidate \/ StopWorker \/ Replace \/ Start \/ RollBack \/ Rewrite \/ Restart
WriteStep ==
    \/ ResumeConfirmation \/ ReportUpdate \/ ActivateUpdate \/ Testing \/ Confirm \/ Abort
    \/ Restoring \/ Restored \/ Reconfirm \/ AskForAttention

LEMMA JobStepFrame ==
    ASSUME JobStep
    PROVE  /\ UNCHANGED <<upd, from, counted, late, file, backup, stored, held, pc, wv>>
           /\ wk = "off" => wk' = "off"
<1> USE DEF rows, record, agent, host
<1>1. CASE QueueDeploy \/ Heartbeat \/ Tell \/ ClaimJob
  BY <1>1 DEF QueueDeploy, Heartbeat, Tell, ClaimJob
<1>2. CASE FinishJob \/ ReportJob \/ Leave \/ AgentEnds \/ UNCHANGED update
  BY <1>2 DEF FinishJob, ReportJob, Leave, AgentEnds, update
<1> QED BY <1>1, <1>2 DEF JobStep

LEMMA PlaceStepFrame ==
    ASSUME PlaceStep
    PROVE  UNCHANGED <<upd, from, counted, job, late, stored, held>> /\ pc \notin {"off", "send"} /\ pc' \notin {"off", "send"}
<1> USE DEF rows, record, agent, host, Frame
<1>1. CASE Respawn \/ Backup \/ Candidate \/ StopWorker \/ Replace
  BY <1>1 DEF Respawn, Backup, Candidate, StopWorker, Replace, Throw, Catch
<1>2. CASE Start \/ RollBack \/ Rewrite \/ Restart
  BY <1>2 DEF Start, RollBack, Rewrite, Restart, Attention
<1> QED BY <1>1, <1>2 DEF PlaceStep

LEMMA WriteStepFrame == ASSUME WriteStep PROVE UNCHANGED <<rows, file, backup, agent, ends>>
<1>1. CASE ResumeConfirmation \/ ReportUpdate \/ ActivateUpdate \/ Testing
  BY <1>1 DEF ResumeConfirmation, ReportUpdate, ActivateUpdate, Testing, Frame
<1>2. CASE Confirm \/ Abort \/ Restoring
  BY <1>2 DEF Confirm, Abort, Restoring, Frame
<1>3. CASE Restored \/ Reconfirm \/ AskForAttention
  BY <1>3 DEF Restored, Reconfirm, AskForAttention, Frame
<1> QED BY <1>1, <1>2, <1>3 DEF WriteStep

\* Every write but that of a claim is about the update in state.json.
LEMMA SameUpdate ==
    ASSUME UpdateInv, WriteStep
    PROVE  held.u \in Updates /\ held.u = stored.u /\ held'.u = stored.u /\ stored'.u = stored.u
<1>1. held.u \in Updates /\ held.u = stored.u
  <2>1. CASE ResumeConfirmation \/ ReportUpdate
    <3>1. pc = "loop" /\ held.phase \in {"recovery_required", "failed", "success", "rolled_back"}
      BY <2>1 DEF ResumeConfirmation, ReportUpdate, Reportable
    <3> QED BY <3>1 DEF UpdateInv, HeldTells, LoopTells, StoredTells, Unsettled
  <2>2. CASE ActivateUpdate \/ Testing \/ Confirm \/ Abort \/ Restoring \/ Restored \/ Reconfirm \/ AskForAttention
    <3>1. pc \in Beginning \cup Returning \cup {"testing", "confirm"}
      BY <2>2
         DEF ActivateUpdate, Testing, Confirm, Throw, Abort, Restoring, Restored, Reconfirm, Attention,
             AskForAttention, Beginning, Returning
    <3> QED BY <3>1, HeldUpdate
  <2> QED BY <2>1, <2>2 DEF WriteStep
<1>2. held'.u = held.u /\ (stored' = held' \/ stored' = stored)
  BY PhaseSteps, ReportDoes, RestoredDoes DEF WriteStep, UpdateInv, Enters, Becomes, Written
<1> QED BY <1>1, <1>2

\* What a claim does to the row.
LEMMA Offered ==
    ASSUME RowTypes, NEW u \in Updates, UpdateClaimable(u), Offer(u)
    PROVE  /\ upd' \in [Updates -> Statuses] /\ Open' = Open \cup {u} /\ Active' = Active /\ u \in Active
           /\ \A v \in Updates : v # u \/ v \in Open => upd'[v] = upd[v]
           /\ u \in Open \/ (upd[u] = "queued" /\ upd'[u] = "installing" /\ job # "running" /\ wv = from[u])
<1>1. upd' = [upd EXCEPT ![u] = IF upd[u] = "queued" THEN "installing" ELSE upd[u]]
  BY DEF Offer
<1>2. upd[u] \in {"queued", "installing", "recovery_required"}
  BY DEF UpdateClaimable, Open
<1>3. upd'[u] = (IF upd[u] = "queued" THEN "installing" ELSE upd[u]) /\ \A v \in Updates : v # u => upd'[v] = upd[v]
  BY <1>1 DEF RowTypes
<1>4. upd' \in [Updates -> Statuses]
  BY <1>1, <1>2 DEF RowTypes, Statuses
<1> QED BY <1>2, <1>3, <1>4 DEF UpdateClaimable, Open, Active

LEMMA SpawnTypes == ASSUME AgentTypes, RecordTypes, Spawn PROVE
    /\ wk' \in {"off", "idle", "busy"} /\ wv' \in Versions /\ jobFile' \in {"none", "running", "final"}
    /\ child' \in BOOLEAN /\ leaving' \in BOOLEAN /\ pulsed' \in BOOLEAN /\ told' \in BOOLEAN
<1>1. wk' = "idle" /\ wv' = file /\ child' = TRUE /\ leaving' = FALSE /\ pulsed' = FALSE /\ told' = FALSE
  BY DEF Spawn
<1>2. jobFile' \in {"final", jobFile}
  BY DEF Spawn
<1> QED BY <1>1, <1>2 DEF AgentTypes, RecordTypes

\* A report that is sent: of the record on disk, counted by Manager or not, its answer written or not.
LEMMA SendChanges ==
    ASSUME UpdateInv, Send
    PROVE  /\ pc = "send" /\ pc' = "loop" /\ held = stored /\ held.u \in Updates
           /\ held.phase \in Verdicts \cup {"recovery_required"}
           /\ UNCHANGED <<from, job, beat, file, backup, wk, wv, child, leaving, pulsed, told, jobFile, ends>>
           /\ upd' \in [Updates -> Statuses] /\ counted' \in [Updates -> Nat] /\ Open' \subseteq Open
           /\ Active' \subseteq Active
           /\ \A u \in Updates : u # held.u \/ u \notin Open => upd'[u] = upd[u] /\ counted'[u] = counted[u]
           /\ \/ upd'[held.u] = upd[held.u] /\ counted'[held.u] = counted[held.u]
              \/ held.u \in Open /\ upd'[held.u] = held.phase /\ counted'[held.u] = held.seq /\ ~ Refused(Message)
           /\ late' \in {late, late \cup {Message}} /\ Message \in Messages
           /\ Message.u = held.u /\ Message.seq = held.seq /\ Message.phase = held.phase
           /\ held' \in States /\ stored' \in {stored, held'} /\ held'.u = held.u /\ held'.phase = held.phase
           /\ held'.restored = held.restored /\ held'.seq = held.seq /\ (held'.reported => held.u \notin Open')
<1>1. pc = "send" /\ UNCHANGED <<from, job, beat, file, backup, wk, wv, child, leaving, pulsed, told, jobFile, ends>>
  BY SendDoes DEF agent, UpdateInv
<1>2. /\ held = stored /\ held.u \in Updates /\ held.phase \in Verdicts \cup {"recovery_required"}
      /\ Message \in Messages /\ Message.u = held.u /\ Message.seq = held.seq /\ Message.phase = held.phase
  BY <1>1, SentFields
<1>3. counted[held.u] < held.seq /\ (held.reported => held.u \notin Open) /\ held \in States
  BY <1>1, <1>2 DEF UpdateInv, NumbersTell, StoredTells, RecordTypes
<1>4. \/ UNCHANGED <<upd, counted>>
      \/ Record(Message)
  BY SendDoes DEF UpdateInv
<1>5. /\ upd' \in [Updates -> Statuses] /\ counted' \in [Updates -> Nat] /\ Open' \subseteq Open /\ Active' \subseteq Active
      /\ \A u \in Updates : u # held.u \/ u \notin Open => upd'[u] = upd[u] /\ counted'[u] = counted[u]
      /\ \/ upd'[held.u] = upd[held.u] /\ counted'[held.u] = counted[held.u]
         \/ held.u \in Open /\ upd'[held.u] = held.phase /\ counted'[held.u] = held.seq /\ ~ Refused(Message)
  <2>1. CASE UNCHANGED <<upd, counted>>
    BY <2>1 DEF UpdateInv, RowTypes, Statuses, Open, Active
  <2>2. CASE Record(Message) /\ (Refused(Message) \/ ~ FreshReport(Message))
    BY <2>2 DEF Record, UpdateInv, RowTypes, Statuses, Open, Active
  <2>3. CASE Record(Message) /\ ~ Refused(Message) /\ FreshReport(Message)
    BY <1>2, <2>3, ReportChanges DEF FreshReport, UpdateInv
  <2> QED BY <1>4, <2>1, <2>2, <2>3
<1>6. CASE /\ Record(Message) /\ late' = late /\ ~ Refused(Message) /\ held.phase # "recovery_required"
           /\ Becomes(held.phase, held.restored, TRUE, held.seq) /\ Written("loop", "loop")
  <2>1. held.u \notin Open'
    <3>1. CASE held.u \notin Open
      BY <3>1, <1>5
    <3>2. CASE held.u \in Open
      <4>1. upd'[held.u] = held.phase
        BY <1>2, <1>3, <1>6, <3>2, ReportChanges DEF UpdateInv, RowTypes, Messages
      <4> QED BY <4>1, <1>2, <1>6 DEF Open, Verdicts
    <3> QED BY <3>1, <3>2
  <2> QED BY <1>1, <1>2, <1>5, <1>6, <2>1 DEF Becomes, Written
<1>7. CASE UNCHANGED <<stored, held>> /\ pc' = "loop" /\ late' \in {late, late \cup {Message}}
  BY <1>1, <1>2, <1>3, <1>5, <1>7
<1> QED BY <1>6, <1>7, SendDoes DEF UpdateInv


LEMMA KeepsRowTypes == ASSUME UpdateInv, [UpdateNext]_update PROVE RowTypes'
<1> USE Bounds DEF UpdateInv, RowTypes, Updates, Versions, rows, record, agent, host, Frame
<1>1. CASE WriteStep
  BY <1>1, WriteStepFrame
<1>2. CASE \E u \in Updates : QueueAgentUpdate(u)
  BY <1>2 DEF QueueAgentUpdate
<1>3. CASE \E u \in Updates : CancelAgentUpdate(u)
  BY <1>3 DEF CancelAgentUpdate
<1>4. CASE QueueDeploy
  BY <1>4 DEF QueueDeploy
<1>5. CASE \E m \in late : Late(m)
  BY <1>5, LateFields, ReportChanges DEF Late, Statuses
<1>6. CASE Heartbeat
  BY <1>6 DEF Heartbeat, AgentTypes
<1>7. CASE Tell
  BY <1>7 DEF Tell
<1>8. CASE ClaimJob
  BY <1>8 DEF ClaimJob, JobClaimable, Fault
<1>9. CASE FinishJob
  BY <1>9 DEF FinishJob
<1>10. CASE ReportJob
  BY <1>10 DEF ReportJob, Fault
<1>11. CASE Leave
  BY <1>11 DEF Leave
<1>12. CASE Begin
  BY <1>12, BeginDoes DEF Written, Fault, Spawn
<1>13. CASE Respawn
  BY <1>13 DEF Respawn, Spawn
<1>14. CASE Send
  BY <1>14, SendChanges DEF Statuses, Messages
<1>15. CASE ClaimUpdate
  <2>1. PICK u \in Updates :
            /\ UpdateClaimable(u) /\ Offer(u)
            /\ \/ /\ Ready /\ Written("backup", "loop") /\ held' \in States /\ held'.u = u
                  /\ held'.phase = "preparing" /\ held'.restored = FALSE /\ held'.reported = FALSE /\ held'.seq = 0
               \/ pc' = pc /\ UNCHANGED <<stored, held, losses>>
    BY <1>15, ClaimDoes
  <2>3. /\ pc = "loop" /\ held.reported /\ told /\ wk # "off" /\ child /\ pulsed
        /\ UNCHANGED <<from, counted, job, beat, late, file, backup, agent, ends>>
    BY <1>15, ClaimDoes
  <2>2. /\ Open' = Open \cup {u} /\ Active' = Active /\ u \in Active /\ upd' \in [Updates -> Statuses]
        /\ \A v \in Updates : v # u \/ v \in Open => upd'[v] = upd[v]
        /\ u \in Open \/ (upd[u] = "queued" /\ upd'[u] = "installing" /\ job # "running" /\ wv = from[u])
        /\ \A v \in Open' : v = u
    BY <2>1, Offered DEF OneActive, Open, Active
  <2> QED BY <2>2, <2>3 DEF Statuses
<1>16. CASE ClaimUpdateLost
  <2>1. PICK u \in Updates : UpdateClaimable(u) /\ Offer(u)
    BY <1>16 DEF ClaimUpdateLost
  <2>2. /\ Open' = Open \cup {u} /\ Active' = Active /\ u \in Active /\ upd' \in [Updates -> Statuses]
        /\ \A v \in Updates : v # u \/ v \in Open => upd'[v] = upd[v]
        /\ u \in Open \/ (upd[u] = "queued" /\ upd'[u] = "installing" /\ job # "running" /\ wv = from[u])
        /\ \A v \in Open' : v = u
    BY <2>1, Offered DEF OneActive, Open, Active
  <2> QED BY <1>16, <2>2 DEF ClaimUpdateLost, Fault, Statuses
<1>17. CASE Backup
  BY <1>17 DEF Backup, Throw, Catch
<1>18. CASE Candidate
  BY <1>18 DEF Candidate, Throw, Catch
<1>19. CASE StopWorker
  BY <1>19 DEF StopWorker, Catch
<1>20. CASE Replace
  BY <1>20 DEF Replace, Throw, Catch
<1>21. CASE Start
  BY <1>21 DEF Start, Spawn
<1>22. CASE RollBack
  BY <1>22 DEF RollBack, Attention, Fault
<1>23. CASE Rewrite
  BY <1>23 DEF Rewrite, Attention, Fault
<1>24. CASE Restart
  BY <1>24 DEF Restart, Attention, Spawn, Fault
<1>25. CASE SupervisorEnds
  BY <1>25 DEF SupervisorEnds
<1>26. CASE AgentEnds
  BY <1>26 DEF AgentEnds
<1>27. CASE UNCHANGED update
  BY <1>27 DEF update
<1> HIDE DEF UpdateInv, RowTypes, Updates, Versions, rows, record, agent, host, Frame
<1> QED BY <1>1, <1>2, <1>3, <1>4, <1>5, <1>6, <1>7, <1>8, <1>9, <1>10, <1>11, <1>12, <1>13, <1>14, <1>15, <1>16,
   <1>17, <1>18, <1>19, <1>20, <1>21, <1>22, <1>23, <1>24, <1>25, <1>26, <1>27
      DEF UpdateNext, Loop, Apply, Restore, WriteStep

LEMMA KeepsRecordTypes == ASSUME UpdateInv, [UpdateNext]_update PROVE RecordTypes'
<1> USE Bounds DEF UpdateInv, RecordTypes, Stages, States, Updates, Versions, rows, record, agent, host, Frame
<1>1. CASE JobStep
  BY <1>1, JobStepFrame
<1>2. CASE \E u \in Updates : QueueAgentUpdate(u)
  BY <1>2 DEF QueueAgentUpdate
<1>3. CASE \E u \in Updates : CancelAgentUpdate(u)
  BY <1>3 DEF CancelAgentUpdate
<1>4. CASE \E m \in late : Late(m)
  BY <1>4, LateFields, ReportChanges DEF Late
<1>5. CASE Begin
  BY <1>5, BeginDoes DEF Written, Fault, Spawn
<1>6. CASE Respawn
  BY <1>6 DEF Respawn, Spawn
<1>7. CASE ResumeConfirmation
  BY <1>7, PhaseSteps DEF ResumeConfirmation, Enters, Becomes, Written, Fault, Connected
<1>8. CASE ReportUpdate
  BY <1>8, ReportDoes DEF ReportUpdate, Reportable, Connected, Becomes, Written, Fault
<1>9. CASE Send
  BY <1>9, SendChanges
<1>10. CASE ClaimUpdate
  BY <1>10, ClaimDoes DEF UpdateClaimable, Offer, Ready, Written, Fault
<1>11. CASE ClaimUpdateLost
  BY <1>11 DEF ClaimUpdateLost, UpdateClaimable, Offer, Fault
<1>12. CASE Backup
  BY <1>12, HeldUpdate DEF Backup, Throw, Catch, Beginning
<1>13. CASE Candidate
  BY <1>13 DEF Candidate, Throw, Catch
<1>14. CASE StopWorker
  BY <1>14 DEF StopWorker, Catch
<1>15. CASE ActivateUpdate
  BY <1>15, PhaseSteps DEF ActivateUpdate, Enters, Becomes, Written, Fault
<1>16. CASE Replace
  BY <1>16 DEF Replace, Throw, Catch
<1>17. CASE Testing
  BY <1>17, PhaseSteps DEF Testing, Enters, Becomes, Written, Fault
<1>18. CASE Start
  BY <1>18 DEF Start, Spawn
<1>19. CASE Confirm
  BY <1>19, PhaseSteps DEF Confirm, Enters, Becomes, Written, Fault, Connected, Throw, Catch
<1>20. CASE Abort
  BY <1>20, PhaseSteps DEF Abort, Enters, Becomes, Written, Fault
<1>21. CASE RollBack
  BY <1>21 DEF RollBack, Attention, Fault
<1>22. CASE Restoring
  BY <1>22, PhaseSteps DEF Restoring, Enters, Becomes, Written, Fault
<1>23. CASE Rewrite
  <2>1. from[held.u] \in Versions
    BY <1>23, HeldUpdate DEF Rewrite, Attention, Returning, RowTypes
  <2> QED BY <1>23, <2>1 DEF Rewrite, Attention, Fault
<1>24. CASE Restored
  BY <1>24, RestoredDoes DEF Restored, Becomes, Written, Fault
<1>25. CASE Restart
  BY <1>25 DEF Restart, Attention, Spawn, Fault
<1>26. CASE Reconfirm
  BY <1>26, PhaseSteps DEF Reconfirm, Enters, Becomes, Written, Fault, Connected, Attention
<1>27. CASE AskForAttention
  BY <1>27, PhaseSteps DEF AskForAttention, Enters, Becomes, Written, Fault
<1>28. CASE SupervisorEnds
  BY <1>28 DEF SupervisorEnds, NoState, Phases
<1> HIDE DEF UpdateInv, RecordTypes, Stages, States, Updates, Versions, rows, record, agent, host, Frame
<1> QED BY <1>1, <1>2, <1>3, <1>4, <1>5, <1>6, <1>7, <1>8, <1>9, <1>10, <1>11, <1>12, <1>13, <1>14, <1>15, <1>16,
   <1>17, <1>18, <1>19, <1>20, <1>21, <1>22, <1>23, <1>24, <1>25, <1>26, <1>27, <1>28
      DEF UpdateNext, Loop, Apply, Restore, JobStep

LEMMA KeepsAgentTypes == ASSUME UpdateInv, [UpdateNext]_update PROVE AgentTypes'
<1> USE Bounds DEF UpdateInv, AgentTypes, rows, record, agent, host, Frame
<1>1. CASE \E u \in Updates : QueueAgentUpdate(u)
  BY <1>1 DEF QueueAgentUpdate
<1>2. CASE \E u \in Updates : CancelAgentUpdate(u)
  BY <1>2 DEF CancelAgentUpdate
<1>3. CASE QueueDeploy
  BY <1>3 DEF QueueDeploy
<1>4. CASE \E m \in late : Late(m)
  BY <1>4, LateFields, ReportChanges DEF Late
<1>5. CASE Heartbeat
  BY <1>5 DEF Heartbeat
<1>6. CASE Tell
  BY <1>6 DEF Tell
<1>7. CASE ClaimJob
  BY <1>7 DEF ClaimJob, JobClaimable, Fault
<1>8. CASE FinishJob
  BY <1>8 DEF FinishJob
<1>9. CASE ReportJob
  BY <1>9 DEF ReportJob, Fault
<1>10. CASE Leave
  BY <1>10 DEF Leave
<1>11. CASE Begin
  <2>1. UNCHANGED ends /\ (UNCHANGED losses \/ Fault) /\ (Spawn \/ UNCHANGED agent)
    BY <1>11, BeginDoes DEF Written
  <2> QED BY <2>1, SpawnTypes DEF Fault
<1>12. CASE Respawn
  BY <1>12 DEF Respawn, Spawn, RecordTypes
<1>13. CASE ResumeConfirmation
  BY <1>13, PhaseSteps DEF ResumeConfirmation, Enters, Becomes, Written, Fault, Connected
<1>14. CASE ReportUpdate
  BY <1>14, ReportDoes DEF ReportUpdate, Reportable, Connected, Becomes, Written, Fault
<1>15. CASE Send
  <2>1. UNCHANGED agent /\ UNCHANGED ends /\ (UNCHANGED losses \/ Fault)
    BY <1>15, SendDoes DEF Written
  <2> QED BY <2>1 DEF Fault
<1>16. CASE ClaimUpdate
  <2>1. UNCHANGED agent /\ UNCHANGED ends /\ (UNCHANGED losses \/ Fault)
    BY <1>16, ClaimDoes DEF Written
  <2> QED BY <2>1 DEF Fault
<1>17. CASE ClaimUpdateLost
  BY <1>17 DEF ClaimUpdateLost, UpdateClaimable, Offer, Fault
<1>18. CASE Backup
  BY <1>18 DEF Backup, Throw, Catch
<1>19. CASE Candidate
  BY <1>19 DEF Candidate, Throw, Catch
<1>20. CASE StopWorker
  BY <1>20 DEF StopWorker, Catch
<1>21. CASE ActivateUpdate
  BY <1>21, PhaseSteps DEF ActivateUpdate, Enters, Becomes, Written, Fault
<1>22. CASE Replace
  BY <1>22 DEF Replace, Throw, Catch
<1>23. CASE Testing
  BY <1>23, PhaseSteps DEF Testing, Enters, Becomes, Written, Fault
<1>24. CASE Start
  BY <1>24 DEF Start, Spawn, RecordTypes
<1>25. CASE Confirm
  BY <1>25, PhaseSteps DEF Confirm, Enters, Becomes, Written, Fault, Connected, Throw, Catch
<1>26. CASE Abort
  BY <1>26, PhaseSteps DEF Abort, Enters, Becomes, Written, Fault
<1>27. CASE RollBack
  BY <1>27 DEF RollBack, Attention, Fault
<1>28. CASE Restoring
  BY <1>28, PhaseSteps DEF Restoring, Enters, Becomes, Written, Fault
<1>29. CASE Rewrite
  BY <1>29 DEF Rewrite, Attention, Fault
<1>30. CASE Restored
  BY <1>30, RestoredDoes DEF Restored, Becomes, Written, Fault
<1>31. CASE Restart
  <2>1. UNCHANGED ends /\ (UNCHANGED losses \/ Fault) /\ (Spawn \/ UNCHANGED agent)
    BY <1>31 DEF Restart, Attention
  <2> QED BY <2>1, SpawnTypes DEF Fault
<1>32. CASE Reconfirm
  BY <1>32, PhaseSteps DEF Reconfirm, Enters, Becomes, Written, Fault, Connected, Attention
<1>33. CASE AskForAttention
  BY <1>33, PhaseSteps DEF AskForAttention, Enters, Becomes, Written, Fault
<1>34. CASE SupervisorEnds
  <2>1. ends' \in 0..MaxEnds /\ wk' \in {"off", wk} /\ UNCHANGED <<wv, pulsed, told, jobFile, losses>>
    BY <1>34 DEF SupervisorEnds
  <2>2. child' \in BOOLEAN /\ leaving' \in BOOLEAN
    BY <1>34 DEF SupervisorEnds
  <2> QED BY <2>1, <2>2
<1>35. CASE AgentEnds
  BY <1>35 DEF AgentEnds
<1>36. CASE UNCHANGED update
  BY <1>36 DEF update
<1> HIDE DEF UpdateInv, AgentTypes, rows, record, agent, host, Frame
<1> QED BY <1>1, <1>2, <1>3, <1>4, <1>5, <1>6, <1>7, <1>8, <1>9, <1>10, <1>11, <1>12, <1>13, <1>14, <1>15, <1>16,
   <1>17, <1>18, <1>19, <1>20, <1>21, <1>22, <1>23, <1>24, <1>25, <1>26, <1>27, <1>28, <1>29, <1>30, <1>31, <1>32,
   <1>33, <1>34, <1>35, <1>36
      DEF UpdateNext, Loop, Apply, Restore

LEMMA KeepsOneActive == ASSUME UpdateInv, [UpdateNext]_update PROVE OneActive'
<1> USE DEF UpdateInv, OneActive, Active, RowTypes, rows, record, agent, host, Frame
<1>1. CASE JobStep
  BY <1>1, JobStepFrame
<1>2. CASE PlaceStep
  BY <1>2, PlaceStepFrame
<1>3. CASE WriteStep
  BY <1>3, WriteStepFrame
<1>4. CASE \E u \in Updates : QueueAgentUpdate(u)
  BY <1>4 DEF QueueAgentUpdate
<1>5. CASE \E u \in Updates : CancelAgentUpdate(u)
  BY <1>5 DEF CancelAgentUpdate
<1>6. CASE \E m \in late : Late(m)
  BY <1>6, LateFields, ReportChanges DEF Late
<1>7. CASE Begin
  BY <1>7, BeginDoes DEF Written, Fault, Spawn
<1>8. CASE Send
  BY <1>8, SendChanges
<1>9. CASE ClaimUpdate
  <2>1. PICK u \in Updates :
            /\ UpdateClaimable(u) /\ Offer(u)
            /\ \/ /\ Ready /\ Written("backup", "loop") /\ held' \in States /\ held'.u = u
                  /\ held'.phase = "preparing" /\ held'.restored = FALSE /\ held'.reported = FALSE /\ held'.seq = 0
               \/ pc' = pc /\ UNCHANGED <<stored, held, losses>>
    BY <1>9, ClaimDoes
  <2>3. /\ pc = "loop" /\ held.reported /\ told /\ wk # "off" /\ child /\ pulsed
        /\ UNCHANGED <<from, counted, job, beat, late, file, backup, agent, ends>>
    BY <1>9, ClaimDoes
  <2>2. /\ Open' = Open \cup {u} /\ Active' = Active /\ u \in Active /\ upd' \in [Updates -> Statuses]
        /\ \A v \in Updates : v # u \/ v \in Open => upd'[v] = upd[v]
        /\ u \in Open \/ (upd[u] = "queued" /\ upd'[u] = "installing" /\ job # "running" /\ wv = from[u])
        /\ \A v \in Open' : v = u
    BY <2>1, Offered DEF OneActive, Open, Active
  <2> QED BY <2>1, <2>2, <2>3 DEF Written, Statuses
<1>10. CASE ClaimUpdateLost
  <2>1. PICK u \in Updates : UpdateClaimable(u) /\ Offer(u)
    BY <1>10 DEF ClaimUpdateLost
  <2>2. /\ Open' = Open \cup {u} /\ Active' = Active /\ u \in Active /\ upd' \in [Updates -> Statuses]
        /\ \A v \in Updates : v # u \/ v \in Open => upd'[v] = upd[v]
        /\ u \in Open \/ (upd[u] = "queued" /\ upd'[u] = "installing" /\ job # "running" /\ wv = from[u])
        /\ \A v \in Open' : v = u
    BY <2>1, Offered DEF OneActive, Open, Active
  <2> QED BY <1>10, <2>2 DEF ClaimUpdateLost, Fault, Statuses
<1>11. CASE SupervisorEnds
  BY <1>11 DEF SupervisorEnds
<1> HIDE DEF UpdateInv, OneActive, Active, RowTypes, rows, record, agent, host, Frame
<1> QED BY <1>1, <1>2, <1>3, <1>4, <1>5, <1>6, <1>7, <1>8, <1>9, <1>10, <1>11
      DEF UpdateNext, Loop, Apply, Restore, JobStep, PlaceStep, WriteStep

LEMMA KeepsJobTells == ASSUME UpdateInv, [UpdateNext]_update PROVE JobTells'
<1> USE Bounds DEF UpdateInv, JobTells, Open, RowTypes, rows, record, agent, host, Frame
<1>1. CASE WriteStep
  BY <1>1, WriteStepFrame, SameUpdate
<1>2. CASE \E u \in Updates : QueueAgentUpdate(u)
  BY <1>2 DEF QueueAgentUpdate
<1>3. CASE \E u \in Updates : CancelAgentUpdate(u)
  BY <1>3 DEF CancelAgentUpdate
<1>4. CASE QueueDeploy
  BY <1>4 DEF QueueDeploy
<1>5. CASE \E m \in late : Late(m)
  BY <1>5, LateFields, ReportChanges DEF Late
<1>6. CASE Heartbeat
  BY <1>6 DEF Heartbeat
<1>7. CASE Tell
  BY <1>7 DEF Tell
<1>8. CASE ClaimJob
  BY <1>8 DEF ClaimJob, JobClaimable, Fault, Active
<1>9. CASE FinishJob
  BY <1>9 DEF FinishJob
<1>10. CASE ReportJob
  BY <1>10 DEF ReportJob, Fault
<1>11. CASE Leave
  BY <1>11 DEF Leave
<1>12. CASE Begin
  BY <1>12, BeginDoes DEF Written, Fault, Spawn
<1>13. CASE Respawn
  BY <1>13 DEF Respawn, Spawn
<1>14. CASE Send
  BY <1>14, SendChanges
<1>15. CASE ClaimUpdate
  <2>1. PICK u \in Updates :
            /\ UpdateClaimable(u) /\ Offer(u)
            /\ \/ /\ Ready /\ Written("backup", "loop") /\ held' \in States /\ held'.u = u
                  /\ held'.phase = "preparing" /\ held'.restored = FALSE /\ held'.reported = FALSE /\ held'.seq = 0
               \/ pc' = pc /\ UNCHANGED <<stored, held, losses>>
    BY <1>15, ClaimDoes
  <2>3. /\ pc = "loop" /\ held.reported /\ told /\ wk # "off" /\ child /\ pulsed
        /\ UNCHANGED <<from, counted, job, beat, late, file, backup, agent, ends>>
    BY <1>15, ClaimDoes
  <2>2. /\ Open' = Open \cup {u} /\ Active' = Active /\ u \in Active /\ upd' \in [Updates -> Statuses]
        /\ \A v \in Updates : v # u \/ v \in Open => upd'[v] = upd[v]
        /\ u \in Open \/ (upd[u] = "queued" /\ upd'[u] = "installing" /\ job # "running" /\ wv = from[u])
        /\ \A v \in Open' : v = u
    BY <2>1, Offered DEF OneActive, Open, Active
  <2> QED BY <2>1, <2>2, <2>3 DEF Written, Ready, StoredTells, NoState, Updates
<1>16. CASE ClaimUpdateLost
  <2>1. PICK u \in Updates : UpdateClaimable(u) /\ Offer(u)
    BY <1>16 DEF ClaimUpdateLost
  <2>2. /\ Open' = Open \cup {u} /\ Active' = Active /\ u \in Active /\ upd' \in [Updates -> Statuses]
        /\ \A v \in Updates : v # u \/ v \in Open => upd'[v] = upd[v]
        /\ u \in Open \/ (upd[u] = "queued" /\ upd'[u] = "installing" /\ job # "running" /\ wv = from[u])
        /\ \A v \in Open' : v = u
    BY <2>1, Offered DEF OneActive, Open, Active
  <2> QED BY <1>16, <2>2 DEF ClaimUpdateLost, Fault, StoredTells, NoState, Updates
<1>17. CASE Backup
  BY <1>17 DEF Backup, Throw, Catch
<1>18. CASE Candidate
  BY <1>18 DEF Candidate, Throw, Catch
<1>19. CASE StopWorker
  BY <1>19 DEF StopWorker, Catch
<1>20. CASE Replace
  BY <1>20 DEF Replace, Throw, Catch
<1>21. CASE Start
  BY <1>21 DEF Start, Spawn
<1>22. CASE RollBack
  BY <1>22 DEF RollBack, Attention, Fault
<1>23. CASE Rewrite
  BY <1>23 DEF Rewrite, Attention, Fault
<1>24. CASE Restart
  BY <1>24 DEF Restart, Attention, Spawn, Fault
<1>25. CASE SupervisorEnds
  BY <1>25 DEF SupervisorEnds
<1>26. CASE AgentEnds
  BY <1>26 DEF AgentEnds
<1>27. CASE UNCHANGED update
  BY <1>27 DEF update
<1> HIDE DEF UpdateInv, JobTells, Open, RowTypes, rows, record, agent, host, Frame
<1> QED BY <1>1, <1>2, <1>3, <1>4, <1>5, <1>6, <1>7, <1>8, <1>9, <1>10, <1>11, <1>12, <1>13, <1>14, <1>15, <1>16,
   <1>17, <1>18, <1>19, <1>20, <1>21, <1>22, <1>23, <1>24, <1>25, <1>26, <1>27
      DEF UpdateNext, Loop, Apply, Restore, WriteStep

LEMMA KeepsStoredTells == ASSUME UpdateInv, [UpdateNext]_update PROVE StoredTells'
<1> USE Bounds DEF UpdateInv, StoredTells, Open, Unsettled, RowTypes, RecordTypes, rows, record, agent, host, Frame
<1>1. CASE JobStep
  BY <1>1, JobStepFrame
<1>2. CASE PlaceStep
  BY <1>2, PlaceStepFrame
<1>3. CASE \E u \in Updates : QueueAgentUpdate(u)
  <2>1. PICK u \in Updates : QueueAgentUpdate(u)
    BY <1>3
  <2>2. /\ upd[u] = "none" /\ upd' = [upd EXCEPT ![u] = "queued"] /\ from' = [from EXCEPT ![u] = beat]
        /\ UNCHANGED <<counted, job, beat, late, file, backup, stored, held, pc, wk, wv, jobFile>>
    BY <2>1, Bounds DEF QueueAgentUpdate, Updates
  <2>3. /\ Open' = Open /\ \A v \in Updates : v # u => upd'[v] = upd[v] /\ from'[v] = from[v]
        /\ upd'[u] = "queued" /\ u \notin Open
    BY <2>2 DEF Open, RowTypes
  <2>4. u # stored.u
    BY <2>2, Bounds DEF StoredTells, NoState, Updates
  <2> QED BY <2>2, <2>3, <2>4 DEF StoredTells
<1>4. CASE \E u \in Updates : CancelAgentUpdate(u)
  BY <1>4 DEF CancelAgentUpdate
<1>5. CASE \E m \in late : Late(m)
  BY <1>5, LateFields, ReportChanges DEF Late, LateTells, Verdicts
<1>6. CASE Begin
  BY <1>6, BeginDoes DEF Written, Fault, Spawn
<1>7. CASE ResumeConfirmation
  BY <1>7, PhaseSteps, SameUpdate
     DEF ResumeConfirmation, Enters, Becomes, Written, Fault, Connected, HeldTells, LoopTells, Beginning, Returning,
        Verdicts, Unsettled, StoredTells, Open, WriteStep
<1>8. CASE ReportUpdate
  BY <1>8, ReportDoes, SameUpdate
     DEF ReportUpdate, Reportable, Connected, Becomes, Written, Fault, HeldTells, LoopTells, Beginning, Returning,
        Verdicts, Unsettled, StoredTells, Open, WriteStep
<1>9. CASE Send
  BY <1>9, SendChanges DEF NumbersTell, HeldTells, LateTells, Verdicts
<1>10. CASE ClaimUpdate
  <2>1. PICK u \in Updates :
            /\ UpdateClaimable(u) /\ Offer(u)
            /\ \/ /\ Ready /\ Written("backup", "loop") /\ held' \in States /\ held'.u = u
                  /\ held'.phase = "preparing" /\ held'.restored = FALSE /\ held'.reported = FALSE /\ held'.seq = 0
               \/ pc' = pc /\ UNCHANGED <<stored, held, losses>>
    BY <1>10, ClaimDoes
  <2>3. /\ pc = "loop" /\ held.reported /\ told /\ wk # "off" /\ child /\ pulsed
        /\ UNCHANGED <<from, counted, job, beat, late, file, backup, agent, ends>>
    BY <1>10, ClaimDoes
  <2>2. /\ Open' = Open \cup {u} /\ Active' = Active /\ u \in Active /\ upd' \in [Updates -> Statuses]
        /\ \A v \in Updates : v # u \/ v \in Open => upd'[v] = upd[v]
        /\ u \in Open \/ (upd[u] = "queued" /\ upd'[u] = "installing" /\ job # "running" /\ wv = from[u])
        /\ \A v \in Open' : v = u
    BY <2>1, Offered DEF OneActive, Open, Active
  <2> QED BY <2>1, <2>2, <2>3 DEF Written, Ready, StoredTells, HeldTells, FileTells, NoState, Updates
<1>11. CASE ClaimUpdateLost
  <2>1. PICK u \in Updates : UpdateClaimable(u) /\ Offer(u)
    BY <1>11 DEF ClaimUpdateLost
  <2>2. /\ Open' = Open \cup {u} /\ Active' = Active /\ u \in Active /\ upd' \in [Updates -> Statuses]
        /\ \A v \in Updates : v # u \/ v \in Open => upd'[v] = upd[v]
        /\ u \in Open \/ (upd[u] = "queued" /\ upd'[u] = "installing" /\ job # "running" /\ wv = from[u])
        /\ \A v \in Open' : v = u
    BY <2>1, Offered DEF OneActive, Open, Active
  <2> QED BY <1>11, <2>2 DEF ClaimUpdateLost, Fault, StoredTells, FileTells, NoState, Updates
<1>12. CASE ActivateUpdate
  BY <1>12, PhaseSteps, SameUpdate
     DEF ActivateUpdate, Enters, Becomes, Written, Fault, HeldTells, LoopTells, Beginning, Returning, Verdicts,
        Unsettled, StoredTells, Open, WriteStep
<1>13. CASE Testing
  BY <1>13, PhaseSteps, SameUpdate
     DEF Testing, Enters, Becomes, Written, Fault, HeldTells, LoopTells, Beginning, Returning, Verdicts, Unsettled,
        StoredTells, Open, WriteStep
<1>14. CASE Confirm
  BY <1>14, PhaseSteps, SameUpdate
     DEF Confirm, Enters, Becomes, Written, Fault, Connected, Throw, Catch, HeldTells, LoopTells, Beginning,
        Returning, Verdicts, Unsettled, StoredTells, Open, WriteStep
<1>15. CASE Abort
  BY <1>15, PhaseSteps, SameUpdate
     DEF Abort, Enters, Becomes, Written, Fault, HeldTells, LoopTells, Beginning, Returning, Verdicts, Unsettled,
        StoredTells, Open, WriteStep
<1>16. CASE Restoring
  BY <1>16, PhaseSteps, SameUpdate
     DEF Restoring, Enters, Becomes, Written, Fault, HeldTells, LoopTells, Beginning, Returning, Verdicts, Unsettled,
        StoredTells, Open, WriteStep
<1>17. CASE Restored
  BY <1>17, RestoredDoes, SameUpdate
     DEF Restored, Becomes, Written, Fault, HeldTells, LoopTells, Beginning, Returning, Verdicts, Unsettled,
        StoredTells, Open, WriteStep
<1>18. CASE Reconfirm
  BY <1>18, PhaseSteps, SameUpdate
     DEF Reconfirm, Enters, Becomes, Written, Fault, Connected, Attention, HeldTells, LoopTells, Beginning, Returning,
        Verdicts, Unsettled, StoredTells, Open, WriteStep
<1>19. CASE AskForAttention
  BY <1>19, PhaseSteps, SameUpdate
     DEF AskForAttention, Enters, Becomes, Written, Fault, HeldTells, LoopTells, Beginning, Returning, Verdicts,
        Unsettled, StoredTells, Open, WriteStep
<1>20. CASE SupervisorEnds
  BY <1>20 DEF SupervisorEnds
<1> HIDE DEF UpdateInv, StoredTells, Open, Unsettled, RowTypes, RecordTypes, rows, record, agent, host, Frame
<1> QED BY <1>1, <1>2, <1>3, <1>4, <1>5, <1>6, <1>7, <1>8, <1>9, <1>10, <1>11, <1>12, <1>13, <1>14, <1>15, <1>16,
   <1>17, <1>18, <1>19, <1>20
      DEF UpdateNext, Loop, Apply, Restore, JobStep, PlaceStep

LEMMA KeepsFileTells == ASSUME UpdateInv, [UpdateNext]_update PROVE FileTells'
<1> USE DEF UpdateInv, FileTells, StoredTells, Open, Unsettled, RowTypes, RecordTypes, rows, record, agent, host,
   Frame
<1>1. CASE JobStep
  BY <1>1, JobStepFrame
<1>2. CASE \E u \in Updates : QueueAgentUpdate(u)
  <2>1. PICK u \in Updates : QueueAgentUpdate(u)
    BY <1>2
  <2>2. /\ upd[u] = "none" /\ upd' = [upd EXCEPT ![u] = "queued"] /\ from' = [from EXCEPT ![u] = beat]
        /\ UNCHANGED <<counted, job, beat, late, file, backup, stored, held, pc, wk, wv, jobFile>>
    BY <2>1, Bounds DEF QueueAgentUpdate, Updates
  <2>3. /\ Open' = Open /\ \A v \in Updates : v # u => upd'[v] = upd[v] /\ from'[v] = from[v]
        /\ upd'[u] = "queued" /\ u \notin Open
    BY <2>2 DEF Open, RowTypes
  <2>4. u # stored.u
    BY <2>2, Bounds DEF StoredTells, NoState, Updates
  <2> QED BY <2>2, <2>3, <2>4 DEF StoredTells, FileTells, NoState
<1>3. CASE \E u \in Updates : CancelAgentUpdate(u)
  BY <1>3 DEF CancelAgentUpdate
<1>4. CASE \E m \in late : Late(m)
  BY <1>4, LateFields, ReportChanges DEF Late, LateTells, Verdicts
<1>5. CASE Begin
  BY <1>5, BeginDoes DEF Written, Fault, Spawn
<1>6. CASE Respawn
  BY <1>6 DEF Respawn, Spawn
<1>7. CASE ResumeConfirmation
  BY <1>7, PhaseSteps, SameUpdate
     DEF ResumeConfirmation, Enters, Becomes, Written, Fault, Connected, HeldTells, LoopTells, Beginning, Returning,
        Verdicts, Unsettled, StoredTells, Open, WriteStep
<1>8. CASE ReportUpdate
  BY <1>8, ReportDoes, SameUpdate
     DEF ReportUpdate, Reportable, Connected, Becomes, Written, Fault, HeldTells, LoopTells, Beginning, Returning,
        Verdicts, Unsettled, StoredTells, Open, WriteStep
<1>9. CASE Send
  BY <1>9, SendChanges DEF NumbersTell, HeldTells, LateTells, Verdicts
<1>10. CASE ClaimUpdate
  <2>1. PICK u \in Updates :
            /\ UpdateClaimable(u) /\ Offer(u)
            /\ \/ /\ Ready /\ Written("backup", "loop") /\ held' \in States /\ held'.u = u
                  /\ held'.phase = "preparing" /\ held'.restored = FALSE /\ held'.reported = FALSE /\ held'.seq = 0
               \/ pc' = pc /\ UNCHANGED <<stored, held, losses>>
    BY <1>10, ClaimDoes
  <2>3. /\ pc = "loop" /\ held.reported /\ told /\ wk # "off" /\ child /\ pulsed
        /\ UNCHANGED <<from, counted, job, beat, late, file, backup, agent, ends>>
    BY <1>10, ClaimDoes
  <2>2. /\ Open' = Open \cup {u} /\ Active' = Active /\ u \in Active /\ upd' \in [Updates -> Statuses]
        /\ \A v \in Updates : v # u \/ v \in Open => upd'[v] = upd[v]
        /\ u \in Open \/ (upd[u] = "queued" /\ upd'[u] = "installing" /\ job # "running" /\ wv = from[u])
        /\ \A v \in Open' : v = u
    BY <2>1, Offered DEF OneActive, Open, Active
  <2> QED BY <2>1, <2>2, <2>3 DEF Written, Ready, StoredTells, HeldTells, FileTells, NoState, Updates
<1>11. CASE ClaimUpdateLost
  <2>1. PICK u \in Updates : UpdateClaimable(u) /\ Offer(u)
    BY <1>11 DEF ClaimUpdateLost
  <2>2. /\ Open' = Open \cup {u} /\ Active' = Active /\ u \in Active /\ upd' \in [Updates -> Statuses]
        /\ \A v \in Updates : v # u \/ v \in Open => upd'[v] = upd[v]
        /\ u \in Open \/ (upd[u] = "queued" /\ upd'[u] = "installing" /\ job # "running" /\ wv = from[u])
        /\ \A v \in Open' : v = u
    BY <2>1, Offered DEF OneActive, Open, Active
  <2> QED BY <1>11, <2>2 DEF ClaimUpdateLost, Fault, StoredTells, FileTells, NoState, Updates
<1>12. CASE Backup
  BY <1>12 DEF Backup, Throw, Catch
<1>13. CASE Candidate
  BY <1>13 DEF Candidate, Throw, Catch
<1>14. CASE StopWorker
  BY <1>14 DEF StopWorker, Catch
<1>15. CASE ActivateUpdate
  BY <1>15, PhaseSteps, SameUpdate
     DEF ActivateUpdate, Enters, Becomes, Written, Fault, HeldTells, LoopTells, Beginning, Returning, Verdicts,
        Unsettled, StoredTells, Open, WriteStep
<1>16. CASE Replace
  BY <1>16, HeldUpdate DEF Replace, Throw, Catch, HeldTells, OneActive, Active
<1>17. CASE Testing
  BY <1>17, PhaseSteps, SameUpdate
     DEF Testing, Enters, Becomes, Written, Fault, HeldTells, LoopTells, Beginning, Returning, Verdicts, Unsettled,
        StoredTells, Open, WriteStep
<1>18. CASE Start
  BY <1>18 DEF Start, Spawn
<1>19. CASE Confirm
  BY <1>19, PhaseSteps, SameUpdate
     DEF Confirm, Enters, Becomes, Written, Fault, Connected, Throw, Catch, HeldTells, LoopTells, Beginning,
        Returning, Verdicts, Unsettled, StoredTells, Open, WriteStep
<1>20. CASE Abort
  BY <1>20, PhaseSteps, SameUpdate
     DEF Abort, Enters, Becomes, Written, Fault, HeldTells, LoopTells, Beginning, Returning, Verdicts, Unsettled,
        StoredTells, Open, WriteStep
<1>21. CASE RollBack
  BY <1>21 DEF RollBack, Attention, Fault
<1>22. CASE Restoring
  BY <1>22, PhaseSteps, SameUpdate
     DEF Restoring, Enters, Becomes, Written, Fault, HeldTells, LoopTells, Beginning, Returning, Verdicts, Unsettled,
        StoredTells, Open, WriteStep
<1>23. CASE Rewrite
  BY <1>23, HeldUpdate DEF Rewrite, Attention, Fault, HeldTells, OneActive, Active, Returning
<1>24. CASE Restored
  BY <1>24, RestoredDoes, SameUpdate
     DEF Restored, Becomes, Written, Fault, HeldTells, LoopTells, Beginning, Returning, Verdicts, Unsettled,
        StoredTells, Open, WriteStep
<1>25. CASE Restart
  BY <1>25 DEF Restart, Attention, Spawn, Fault
<1>26. CASE Reconfirm
  BY <1>26, PhaseSteps, SameUpdate
     DEF Reconfirm, Enters, Becomes, Written, Fault, Connected, Attention, HeldTells, LoopTells, Beginning, Returning,
        Verdicts, Unsettled, StoredTells, Open, WriteStep
<1>27. CASE AskForAttention
  BY <1>27, PhaseSteps, SameUpdate
     DEF AskForAttention, Enters, Becomes, Written, Fault, HeldTells, LoopTells, Beginning, Returning, Verdicts,
        Unsettled, StoredTells, Open, WriteStep
<1>28. CASE SupervisorEnds
  BY <1>28 DEF SupervisorEnds
<1> HIDE DEF UpdateInv, FileTells, StoredTells, Open, Unsettled, RowTypes, RecordTypes, rows, record, agent, host,
   Frame
<1> QED BY <1>1, <1>2, <1>3, <1>4, <1>5, <1>6, <1>7, <1>8, <1>9, <1>10, <1>11, <1>12, <1>13, <1>14, <1>15, <1>16,
   <1>17, <1>18, <1>19, <1>20, <1>21, <1>22, <1>23, <1>24, <1>25, <1>26, <1>27, <1>28
      DEF UpdateNext, Loop, Apply, Restore, JobStep

LEMMA KeepsHeldTells == ASSUME UpdateInv, [UpdateNext]_update PROVE HeldTells'
<1> USE DEF UpdateInv, HeldTells, LoopTells, StoredTells, Beginning, Returning, Verdicts, Unsettled, Open, RowTypes,
   RecordTypes, rows, record, agent, host, Frame
<1>1. CASE JobStep
  BY <1>1, JobStepFrame
<1>2. CASE \E u \in Updates : QueueAgentUpdate(u)
  <2>1. PICK u \in Updates : QueueAgentUpdate(u)
    BY <1>2
  <2>2. /\ upd[u] = "none" /\ upd' = [upd EXCEPT ![u] = "queued"] /\ from' = [from EXCEPT ![u] = beat]
        /\ UNCHANGED <<counted, job, beat, late, file, backup, stored, held, pc, wk, wv, jobFile>>
    BY <2>1, Bounds DEF QueueAgentUpdate, Updates
  <2>3. /\ Open' = Open /\ \A v \in Updates : v # u => upd'[v] = upd[v] /\ from'[v] = from[v]
        /\ upd'[u] = "queued" /\ u \notin Open
    BY <2>2 DEF Open, RowTypes
  <2>4. u # stored.u
    BY <2>2, Bounds DEF StoredTells, NoState, Updates
  <2> QED BY <2>2, <2>3, <2>4 DEF StoredTells, HeldTells, LoopTells, NoState, Open
<1>3. CASE \E u \in Updates : CancelAgentUpdate(u)
  BY <1>3 DEF CancelAgentUpdate
<1>4. CASE \E m \in late : Late(m)
  BY <1>4, LateFields, ReportChanges DEF Late, LateTells, Verdicts
<1>5. CASE Begin
  BY <1>5, BeginDoes DEF Written, Fault, Spawn, FileTells, NoState, States, Phases, Updates
<1>6. CASE Respawn
  BY <1>6 DEF Respawn, Spawn
<1>7. CASE ResumeConfirmation
  BY <1>7, PhaseSteps, SameUpdate
     DEF ResumeConfirmation, Enters, Becomes, Written, Fault, Connected, HeldTells, LoopTells, Beginning, Returning,
        Verdicts, Unsettled, StoredTells, Open, WriteStep
<1>8. CASE ReportUpdate
  BY <1>8, ReportDoes, SameUpdate
     DEF ReportUpdate, Reportable, Connected, Becomes, Written, Fault, HeldTells, LoopTells, Beginning, Returning,
        Verdicts, Unsettled, StoredTells, Open, WriteStep
<1>9. CASE Send
  BY <1>9, SendChanges DEF NumbersTell, HeldTells, LateTells, Verdicts
<1>10. CASE ClaimUpdate
  <2>1. PICK u \in Updates :
            /\ UpdateClaimable(u) /\ Offer(u)
            /\ \/ /\ Ready /\ Written("backup", "loop") /\ held' \in States /\ held'.u = u
                  /\ held'.phase = "preparing" /\ held'.restored = FALSE /\ held'.reported = FALSE /\ held'.seq = 0
               \/ pc' = pc /\ UNCHANGED <<stored, held, losses>>
    BY <1>10, ClaimDoes
  <2>3. /\ pc = "loop" /\ held.reported /\ told /\ wk # "off" /\ child /\ pulsed
        /\ UNCHANGED <<from, counted, job, beat, late, file, backup, agent, ends>>
    BY <1>10, ClaimDoes
  <2>2. /\ Open' = Open \cup {u} /\ Active' = Active /\ u \in Active /\ upd' \in [Updates -> Statuses]
        /\ \A v \in Updates : v # u \/ v \in Open => upd'[v] = upd[v]
        /\ u \in Open \/ (upd[u] = "queued" /\ upd'[u] = "installing" /\ job # "running" /\ wv = from[u])
        /\ \A v \in Open' : v = u
    BY <2>1, Offered DEF OneActive, Open, Active
  <2> QED BY <2>1, <2>2, <2>3 DEF Written, Ready, StoredTells, HeldTells, FileTells, NoState, Updates
<1>11. CASE ClaimUpdateLost
  <2>1. PICK u \in Updates : UpdateClaimable(u) /\ Offer(u)
    BY <1>11 DEF ClaimUpdateLost
  <2>2. /\ Open' = Open \cup {u} /\ Active' = Active /\ u \in Active /\ upd' \in [Updates -> Statuses]
        /\ \A v \in Updates : v # u \/ v \in Open => upd'[v] = upd[v]
        /\ u \in Open \/ (upd[u] = "queued" /\ upd'[u] = "installing" /\ job # "running" /\ wv = from[u])
        /\ \A v \in Open' : v = u
    BY <2>1, Offered DEF OneActive, Open, Active
  <2> QED BY <1>11, <2>2 DEF ClaimUpdateLost, Fault, StoredTells, FileTells, NoState, Updates
<1>12. CASE Backup
  BY <1>12 DEF Backup, Throw, Catch
<1>13. CASE Candidate
  BY <1>13 DEF Candidate, Throw, Catch
<1>14. CASE StopWorker
  BY <1>14 DEF StopWorker, Catch
<1>15. CASE ActivateUpdate
  BY <1>15, PhaseSteps, SameUpdate
     DEF ActivateUpdate, Enters, Becomes, Written, Fault, HeldTells, LoopTells, Beginning, Returning, Verdicts,
        Unsettled, StoredTells, Open, WriteStep
<1>16. CASE Replace
  BY <1>16, HeldUpdate DEF Replace, Throw, Catch, FileTells, Beginning, Returning
<1>17. CASE Testing
  BY <1>17, PhaseSteps, HeldUpdate, SameUpdate
     DEF Testing, Enters, Becomes, Written, Fault, FileTells, Beginning, Returning, WriteStep
<1>18. CASE Start
  BY <1>18 DEF Start, Spawn
<1>19. CASE Confirm
  BY <1>19, PhaseSteps, HeldUpdate, SameUpdate
     DEF Confirm, Enters, Becomes, Written, Fault, Connected, Throw, Catch, FileTells, Beginning, Returning, WriteStep
<1>20. CASE Abort
  BY <1>20, PhaseSteps, SameUpdate
     DEF Abort, Enters, Becomes, Written, Fault, HeldTells, LoopTells, Beginning, Returning, Verdicts, Unsettled,
        StoredTells, Open, WriteStep
<1>21. CASE RollBack
  BY <1>21 DEF RollBack, Attention, Fault
<1>22. CASE Restoring
  BY <1>22, PhaseSteps, SameUpdate
     DEF Restoring, Enters, Becomes, Written, Fault, HeldTells, LoopTells, Beginning, Returning, Verdicts, Unsettled,
        StoredTells, Open, WriteStep
<1>23. CASE Rewrite
  BY <1>23 DEF Rewrite, Attention, Fault
<1>24. CASE Restored
  BY <1>24, RestoredDoes, SameUpdate
     DEF Restored, Becomes, Written, Fault, HeldTells, LoopTells, Beginning, Returning, Verdicts, Unsettled,
        StoredTells, Open, WriteStep
<1>25. CASE Restart
  BY <1>25 DEF Restart, Attention, Spawn, Fault
<1>26. CASE Reconfirm
  BY <1>26, PhaseSteps, SameUpdate
     DEF Reconfirm, Enters, Becomes, Written, Fault, Connected, Attention, HeldTells, LoopTells, Beginning, Returning,
        Verdicts, Unsettled, StoredTells, Open, WriteStep
<1>27. CASE AskForAttention
  BY <1>27, PhaseSteps, SameUpdate
     DEF AskForAttention, Enters, Becomes, Written, Fault, HeldTells, LoopTells, Beginning, Returning, Verdicts,
        Unsettled, StoredTells, Open, WriteStep
<1>28. CASE SupervisorEnds
  BY <1>28 DEF SupervisorEnds
<1> HIDE DEF UpdateInv, HeldTells, LoopTells, StoredTells, Beginning, Returning, Verdicts, Unsettled, Open, RowTypes,
   RecordTypes, rows, record, agent, host, Frame
<1> QED BY <1>1, <1>2, <1>3, <1>4, <1>5, <1>6, <1>7, <1>8, <1>9, <1>10, <1>11, <1>12, <1>13, <1>14, <1>15, <1>16,
   <1>17, <1>18, <1>19, <1>20, <1>21, <1>22, <1>23, <1>24, <1>25, <1>26, <1>27, <1>28
      DEF UpdateNext, Loop, Apply, Restore, JobStep

LEMMA KeepsNumbersTell == ASSUME UpdateInv, [UpdateNext]_update PROVE NumbersTell'
<1> USE Bounds DEF UpdateInv, NumbersTell, Unbegun, Open, RowTypes, RecordTypes, rows, record, agent, host, Frame
<1>1. CASE JobStep
  BY <1>1, JobStepFrame
<1>2. CASE PlaceStep
  BY <1>2, PlaceStepFrame
<1>3. CASE \E u \in Updates : QueueAgentUpdate(u)
  <2>1. PICK u \in Updates : QueueAgentUpdate(u)
    BY <1>3
  <2>2. /\ upd[u] = "none" /\ upd' = [upd EXCEPT ![u] = "queued"] /\ from' = [from EXCEPT ![u] = beat]
        /\ UNCHANGED <<counted, job, beat, late, file, backup, stored, held, pc, wk, wv, jobFile>>
    BY <2>1, Bounds DEF QueueAgentUpdate, Updates
  <2>3. /\ Open' = Open /\ \A v \in Updates : v # u => upd'[v] = upd[v] /\ from'[v] = from[v]
        /\ upd'[u] = "queued" /\ u \notin Open
    BY <2>2 DEF Open, RowTypes
  <2>4. u # stored.u
    BY <2>2, Bounds DEF StoredTells, NoState, Updates
  <2> QED BY <2>2, <2>3, <2>4 DEF NumbersTell, Unbegun
<1>4. CASE \E u \in Updates : CancelAgentUpdate(u)
  BY <1>4 DEF CancelAgentUpdate
<1>5. CASE \E m \in late : Late(m)
  <2>1. PICK x \in late : Late(x)
    BY <1>5
  <2>2. x \in Messages /\ x.phase \in Verdicts \cup {"recovery_required"} /\ Record(x) /\ late' \subseteq late
        /\ UNCHANGED <<stored, held, pc>>
    BY <2>1, LateFields DEF Late
  <2>3. /\ \A u \in Updates : u # x.u \/ u \notin Open => upd'[u] = upd[u] /\ counted'[u] = counted[u]
        /\ x.u \in Updates /\ Open' \subseteq Open /\ (counted'[x.u] = counted[x.u] \/ counted'[x.u] = x.seq)
        /\ upd'[x.u] = upd[x.u] \/ (x.u \in Open /\ upd'[x.u] \notin {"none", "queued"})
    BY <2>2, ReportChanges DEF Messages, Verdicts

  <2>4. ASSUME NEW u \in Updates, Unbegun(u)' PROVE counted'[u] = 0 /\ \A m \in late' : m.u # u
    BY <2>1, <2>2, <2>3, <2>4
  <2>5. stored'.phase # "none" => counted'[stored'.u] <= stored'.seq /\ \A m \in late' : m.u = stored'.u => m.seq <= stored'.seq
    BY <2>1, <2>2, <2>3 DEF Messages, StoredTells
  <2>6. pc' # "off" /\ stored'.phase # "none" /\ held'.u = stored'.u => stored'.seq <= held'.seq
    BY <2>2
  <2>7. pc' = "send" => counted'[held'.u] < held'.seq /\ \A m \in late' : m.u = held'.u => m.seq < held'.seq
    BY <2>1, <2>2, <2>3, SentFields DEF Messages
  <2> QED BY <2>4, <2>5, <2>6, <2>7
<1>6. CASE Begin
  <2>1. /\ pc' # "send" /\ UNCHANGED <<upd, counted, late>>
        /\ held'.u = stored.u /\ held'.seq = stored.seq /\ stored' \in {stored, held'} /\ (held'.phase = "none" <=> stored.phase = "none")
    BY <1>6, BeginDoes DEF Written
  <2> QED BY <2>1 DEF States
<1>7. CASE ResumeConfirmation
  <2>1. held.u = stored.u /\ held'.u = stored.u /\ stored'.u = stored.u /\ stored.u \in Updates
    BY <1>7, SameUpdate DEF WriteStep
  <2>2. stored.phase # "none" /\ pc \notin {"off", "send"}
    BY <1>7, <2>1 DEF ResumeConfirmation, StoredTells, NoState, Updates, Throw, Attention
  <2>3. held'.seq = held.seq /\ stored'.seq \in {stored.seq, held'.seq} /\ pc' # "send"
    BY <1>7, PhaseSteps DEF Enters, Becomes, Written, Catch
  <2>4. UNCHANGED <<upd, counted, late>>
    BY <1>7 DEF ResumeConfirmation
  <2> QED BY <2>1, <2>2, <2>3, <2>4 DEF States
<1>8. CASE ReportUpdate
  <2>1. held.u = stored.u /\ held'.u = stored.u /\ stored'.u = stored.u /\ stored.u \in Updates
    BY <1>8, SameUpdate DEF WriteStep
  <2>2. stored.phase # "none" /\ pc = "loop" /\ UNCHANGED <<upd, counted, late>>
    BY <1>8, <2>1 DEF ReportUpdate, StoredTells, NoState, Updates
  <2>3. /\ held' \in States /\ held'.seq = held.seq + 1
        /\ (pc' = "send" /\ stored' = held') \/ (pc' = "loop" /\ stored' = stored)
    BY <1>8, ReportDoes DEF Becomes, Written
  <2> QED BY <2>1, <2>2, <2>3 DEF States
<1>9. CASE Send
  <2>1. /\ pc = "send" /\ pc' = "loop" /\ held = stored /\ held.u \in Updates /\ held \in States /\ stored.phase # "none"
        /\ stored' \in {stored, held'} /\ held'.u = held.u /\ held'.phase = held.phase /\ held'.seq = held.seq
        /\ late' \in {late, late \cup {Message}} /\ Message.u = held.u /\ Message.seq = held.seq
    BY <1>9, SendChanges DEF Verdicts
  <2>2. /\ \A u \in Updates : u # held.u => upd'[u] = upd[u] /\ counted'[u] = counted[u] /\ (u \in Open' => u \in Open)
        /\ counted'[held.u] = counted[held.u] \/ counted'[held.u] = held.seq
    BY <1>9, SendChanges
  <2>3. upd'[held.u] \notin {"none", "queued"}
    BY <1>9, <2>1, SendChanges DEF StoredTells, Verdicts

  <2>4. ASSUME NEW u \in Updates, Unbegun(u)' PROVE counted'[u] = 0 /\ \A m \in late' : m.u # u
    BY <2>1, <2>2, <2>3, <2>4
  <2>5. stored'.phase # "none" => counted'[stored'.u] <= stored'.seq /\ \A m \in late' : m.u = stored'.u => m.seq <= stored'.seq
    BY <2>1, <2>2 DEF Messages
  <2>6. pc' # "off" /\ stored'.phase # "none" /\ held'.u = stored'.u => stored'.seq <= held'.seq
    BY <2>1 DEF States
  <2>7. pc' = "send" => counted'[held'.u] < held'.seq /\ \A m \in late' : m.u = held'.u => m.seq < held'.seq
    BY <2>1
  <2> QED BY <2>4, <2>5, <2>6, <2>7
<1>10. CASE ClaimUpdate
  <2>1. PICK u \in Updates :
            /\ UpdateClaimable(u) /\ Offer(u)
            /\ \/ /\ Ready /\ Written("backup", "loop") /\ held' \in States /\ held'.u = u
                  /\ held'.phase = "preparing" /\ held'.restored = FALSE /\ held'.reported = FALSE /\ held'.seq = 0
               \/ pc' = pc /\ UNCHANGED <<stored, held, losses>>
    BY <1>10, ClaimDoes
  <2>3. /\ pc = "loop" /\ held.reported /\ told /\ wk # "off" /\ child /\ pulsed
        /\ UNCHANGED <<from, counted, job, beat, late, file, backup, agent, ends>>
    BY <1>10, ClaimDoes
  <2>2. /\ Open' = Open \cup {u} /\ Active' = Active /\ u \in Active /\ upd' \in [Updates -> Statuses]
        /\ \A v \in Updates : v # u \/ v \in Open => upd'[v] = upd[v]
        /\ u \in Open \/ (upd[u] = "queued" /\ upd'[u] = "installing" /\ job # "running" /\ wv = from[u])
        /\ \A v \in Open' : v = u
    BY <2>1, Offered DEF OneActive, Open, Active
  <2> QED BY <2>1, <2>2, <2>3 DEF Written, Ready, StoredTells, HeldTells, FileTells, NoState, Updates
<1>11. CASE ClaimUpdateLost
  <2>1. PICK u \in Updates : UpdateClaimable(u) /\ Offer(u)
    BY <1>11 DEF ClaimUpdateLost
  <2>2. /\ Open' = Open \cup {u} /\ Active' = Active /\ u \in Active /\ upd' \in [Updates -> Statuses]
        /\ \A v \in Updates : v # u \/ v \in Open => upd'[v] = upd[v]
        /\ u \in Open \/ (upd[u] = "queued" /\ upd'[u] = "installing" /\ job # "running" /\ wv = from[u])
        /\ \A v \in Open' : v = u
    BY <2>1, Offered DEF OneActive, Open, Active
  <2> QED BY <1>11, <2>2 DEF ClaimUpdateLost, Fault, StoredTells, FileTells, NoState, Updates
<1>12. CASE ActivateUpdate
  <2>1. held.u = stored.u /\ held'.u = stored.u /\ stored'.u = stored.u /\ stored.u \in Updates
    BY <1>12, SameUpdate DEF WriteStep
  <2>2. stored.phase # "none" /\ pc \notin {"off", "send"}
    BY <1>12, <2>1 DEF ActivateUpdate, StoredTells, NoState, Updates, Throw, Attention
  <2>3. held'.seq = held.seq /\ stored'.seq \in {stored.seq, held'.seq} /\ pc' # "send"
    BY <1>12, PhaseSteps DEF Enters, Becomes, Written, Catch
  <2>4. UNCHANGED <<upd, counted, late>>
    BY <1>12 DEF ActivateUpdate
  <2> QED BY <2>1, <2>2, <2>3, <2>4 DEF States
<1>13. CASE Testing
  <2>1. held.u = stored.u /\ held'.u = stored.u /\ stored'.u = stored.u /\ stored.u \in Updates
    BY <1>13, SameUpdate DEF WriteStep
  <2>2. stored.phase # "none" /\ pc \notin {"off", "send"}
    BY <1>13, <2>1 DEF Testing, StoredTells, NoState, Updates, Throw, Attention
  <2>3. held'.seq = held.seq /\ stored'.seq \in {stored.seq, held'.seq} /\ pc' # "send"
    BY <1>13, PhaseSteps DEF Enters, Becomes, Written, Catch
  <2>4. UNCHANGED <<upd, counted, late>>
    BY <1>13 DEF Testing
  <2> QED BY <2>1, <2>2, <2>3, <2>4 DEF States
<1>14. CASE Confirm
  <2>1. held.u = stored.u /\ held'.u = stored.u /\ stored'.u = stored.u /\ stored.u \in Updates
    BY <1>14, SameUpdate DEF WriteStep
  <2>2. stored.phase # "none" /\ pc \notin {"off", "send"}
    BY <1>14, <2>1 DEF Confirm, StoredTells, NoState, Updates, Throw, Attention
  <2>3. held'.seq = held.seq /\ stored'.seq \in {stored.seq, held'.seq} /\ pc' # "send"
    BY <1>14, PhaseSteps DEF Enters, Becomes, Written, Catch
  <2>4. UNCHANGED <<upd, counted, late>>
    BY <1>14 DEF Confirm
  <2> QED BY <2>1, <2>2, <2>3, <2>4 DEF States
<1>15. CASE Abort
  <2>1. held.u = stored.u /\ held'.u = stored.u /\ stored'.u = stored.u /\ stored.u \in Updates
    BY <1>15, SameUpdate DEF WriteStep
  <2>2. stored.phase # "none" /\ pc \notin {"off", "send"}
    BY <1>15, <2>1 DEF Abort, StoredTells, NoState, Updates, Throw, Attention
  <2>3. held'.seq = held.seq /\ stored'.seq \in {stored.seq, held'.seq} /\ pc' # "send"
    BY <1>15, PhaseSteps DEF Enters, Becomes, Written, Catch
  <2>4. UNCHANGED <<upd, counted, late>>
    BY <1>15 DEF Abort
  <2> QED BY <2>1, <2>2, <2>3, <2>4 DEF States
<1>16. CASE Restoring
  <2>1. held.u = stored.u /\ held'.u = stored.u /\ stored'.u = stored.u /\ stored.u \in Updates
    BY <1>16, SameUpdate DEF WriteStep
  <2>2. stored.phase # "none" /\ pc \notin {"off", "send"}
    BY <1>16, <2>1 DEF Restoring, StoredTells, NoState, Updates, Throw, Attention
  <2>3. held'.seq = held.seq /\ stored'.seq \in {stored.seq, held'.seq} /\ pc' # "send"
    BY <1>16, PhaseSteps DEF Enters, Becomes, Written, Catch
  <2>4. UNCHANGED <<upd, counted, late>>
    BY <1>16 DEF Restoring
  <2> QED BY <2>1, <2>2, <2>3, <2>4 DEF States
<1>17. CASE Restored
  <2>1. held.u = stored.u /\ held'.u = stored.u /\ stored'.u = stored.u /\ stored.u \in Updates
    BY <1>17, SameUpdate DEF WriteStep
  <2>2. stored.phase # "none" /\ pc \notin {"off", "send"}
    BY <1>17, <2>1 DEF Restored, StoredTells, NoState, Updates, Throw, Attention
  <2>3. held'.seq = held.seq /\ stored'.seq \in {stored.seq, held'.seq} /\ pc' # "send"
    BY <1>17, RestoredDoes DEF Enters, Becomes, Written, Catch
  <2>4. UNCHANGED <<upd, counted, late>>
    BY <1>17 DEF Restored
  <2> QED BY <2>1, <2>2, <2>3, <2>4 DEF States
<1>18. CASE Reconfirm
  <2>1. held.u = stored.u /\ held'.u = stored.u /\ stored'.u = stored.u /\ stored.u \in Updates
    BY <1>18, SameUpdate DEF WriteStep
  <2>2. stored.phase # "none" /\ pc \notin {"off", "send"}
    BY <1>18, <2>1 DEF Reconfirm, StoredTells, NoState, Updates, Throw, Attention
  <2>3. held'.seq = held.seq /\ stored'.seq \in {stored.seq, held'.seq} /\ pc' # "send"
    BY <1>18, PhaseSteps DEF Enters, Becomes, Written, Catch
  <2>4. UNCHANGED <<upd, counted, late>>
    BY <1>18 DEF Reconfirm
  <2> QED BY <2>1, <2>2, <2>3, <2>4 DEF States
<1>19. CASE AskForAttention
  <2>1. held.u = stored.u /\ held'.u = stored.u /\ stored'.u = stored.u /\ stored.u \in Updates
    BY <1>19, SameUpdate DEF WriteStep
  <2>2. stored.phase # "none" /\ pc \notin {"off", "send"}
    BY <1>19, <2>1 DEF AskForAttention, StoredTells, NoState, Updates, Throw, Attention
  <2>3. held'.seq = held.seq /\ stored'.seq \in {stored.seq, held'.seq} /\ pc' # "send"
    BY <1>19, PhaseSteps DEF Enters, Becomes, Written, Catch
  <2>4. UNCHANGED <<upd, counted, late>>
    BY <1>19 DEF AskForAttention
  <2> QED BY <2>1, <2>2, <2>3, <2>4 DEF States
<1>20. CASE SupervisorEnds
  BY <1>20 DEF SupervisorEnds
<1> HIDE DEF UpdateInv, NumbersTell, Unbegun, Open, RowTypes, RecordTypes, rows, record, agent, host, Frame
<1> QED BY <1>1, <1>2, <1>3, <1>4, <1>5, <1>6, <1>7, <1>8, <1>9, <1>10, <1>11, <1>12, <1>13, <1>14, <1>15, <1>16,
   <1>17, <1>18, <1>19, <1>20
      DEF UpdateNext, Loop, Apply, Restore, JobStep, PlaceStep

LEMMA KeepsLateTells == ASSUME UpdateInv, [UpdateNext]_update PROVE LateTells'
<1> USE DEF UpdateInv, LateTells, Verdicts, Open, RowTypes, RecordTypes, rows, record, agent, host, Frame
<1>1. CASE JobStep
  BY <1>1, JobStepFrame
<1>2. CASE PlaceStep
  BY <1>2, PlaceStepFrame
<1>3. CASE \E u \in Updates : QueueAgentUpdate(u)
  <2>1. PICK u \in Updates : QueueAgentUpdate(u)
    BY <1>3
  <2>2. /\ upd[u] = "none" /\ upd' = [upd EXCEPT ![u] = "queued"] /\ from' = [from EXCEPT ![u] = beat]
        /\ UNCHANGED <<counted, job, beat, late, file, backup, stored, held, pc, wk, wv, jobFile>>
    BY <2>1, Bounds DEF QueueAgentUpdate, Updates
  <2>3. /\ Open' = Open /\ \A v \in Updates : v # u => upd'[v] = upd[v] /\ from'[v] = from[v]
        /\ upd'[u] = "queued" /\ u \notin Open
    BY <2>2 DEF Open, RowTypes
  <2>4. u # stored.u
    BY <2>2, Bounds DEF StoredTells, NoState, Updates
  <2> QED BY <2>2, <2>3, <2>4 DEF LateTells, RowTypes, StoredTells
<1>4. CASE \E u \in Updates : CancelAgentUpdate(u)
  BY <1>4 DEF CancelAgentUpdate
<1>5. CASE \E m \in late : Late(m)
  BY <1>5, LateFields, ReportChanges DEF Late, LateTells, Verdicts
<1>6. CASE Begin
  BY <1>6, BeginDoes DEF Written, Fault, Spawn
<1>7. CASE ResumeConfirmation
  BY <1>7, PhaseSteps, SameUpdate
     DEF ResumeConfirmation, Enters, Becomes, Written, Fault, Connected, HeldTells, LoopTells, Beginning, Returning,
        Verdicts, Unsettled, StoredTells, Open, WriteStep
<1>8. CASE ReportUpdate
  BY <1>8, ReportDoes, SameUpdate
     DEF ReportUpdate, Reportable, Connected, Becomes, Written, Fault, HeldTells, LoopTells, Beginning, Returning,
        Verdicts, Unsettled, StoredTells, Open, WriteStep
<1>9. CASE Send
  BY <1>9, SendChanges DEF NumbersTell, HeldTells, LateTells, Verdicts
<1>10. CASE ClaimUpdate
  <2>1. PICK u \in Updates :
            /\ UpdateClaimable(u) /\ Offer(u)
            /\ \/ /\ Ready /\ Written("backup", "loop") /\ held' \in States /\ held'.u = u
                  /\ held'.phase = "preparing" /\ held'.restored = FALSE /\ held'.reported = FALSE /\ held'.seq = 0
               \/ pc' = pc /\ UNCHANGED <<stored, held, losses>>
    BY <1>10, ClaimDoes
  <2>3. /\ pc = "loop" /\ held.reported /\ told /\ wk # "off" /\ child /\ pulsed
        /\ UNCHANGED <<from, counted, job, beat, late, file, backup, agent, ends>>
    BY <1>10, ClaimDoes
  <2>2. /\ Open' = Open \cup {u} /\ Active' = Active /\ u \in Active /\ upd' \in [Updates -> Statuses]
        /\ \A v \in Updates : v # u \/ v \in Open => upd'[v] = upd[v]
        /\ u \in Open \/ (upd[u] = "queued" /\ upd'[u] = "installing" /\ job # "running" /\ wv = from[u])
        /\ \A v \in Open' : v = u
    BY <2>1, Offered DEF OneActive, Open, Active
  <2> QED BY <2>1, <2>2, <2>3 DEF Written, Ready, StoredTells, HeldTells, NumbersTell, Unbegun, NoState, Updates
<1>11. CASE ClaimUpdateLost
  <2>1. PICK u \in Updates : UpdateClaimable(u) /\ Offer(u)
    BY <1>11 DEF ClaimUpdateLost
  <2>2. /\ Open' = Open \cup {u} /\ Active' = Active /\ u \in Active /\ upd' \in [Updates -> Statuses]
        /\ \A v \in Updates : v # u \/ v \in Open => upd'[v] = upd[v]
        /\ u \in Open \/ (upd[u] = "queued" /\ upd'[u] = "installing" /\ job # "running" /\ wv = from[u])
        /\ \A v \in Open' : v = u
    BY <2>1, Offered DEF OneActive, Open, Active
  <2> QED BY <1>11, <2>2 DEF ClaimUpdateLost, Fault, NumbersTell, Unbegun, StoredTells, NoState, Updates
<1>12. CASE ActivateUpdate
  BY <1>12, PhaseSteps, SameUpdate
     DEF ActivateUpdate, Enters, Becomes, Written, Fault, HeldTells, LoopTells, Beginning, Returning, Verdicts,
        Unsettled, StoredTells, Open, WriteStep
<1>13. CASE Testing
  BY <1>13, PhaseSteps, SameUpdate
     DEF Testing, Enters, Becomes, Written, Fault, HeldTells, LoopTells, Beginning, Returning, Verdicts, Unsettled,
        StoredTells, Open, WriteStep
<1>14. CASE Confirm
  BY <1>14, PhaseSteps, SameUpdate
     DEF Confirm, Enters, Becomes, Written, Fault, Connected, Throw, Catch, HeldTells, LoopTells, Beginning,
        Returning, Verdicts, Unsettled, StoredTells, Open, WriteStep
<1>15. CASE Abort
  BY <1>15, PhaseSteps, SameUpdate
     DEF Abort, Enters, Becomes, Written, Fault, HeldTells, LoopTells, Beginning, Returning, Verdicts, Unsettled,
        StoredTells, Open, WriteStep
<1>16. CASE Restoring
  BY <1>16, PhaseSteps, SameUpdate
     DEF Restoring, Enters, Becomes, Written, Fault, HeldTells, LoopTells, Beginning, Returning, Verdicts, Unsettled,
        StoredTells, Open, WriteStep
<1>17. CASE Restored
  BY <1>17, RestoredDoes, SameUpdate
     DEF Restored, Becomes, Written, Fault, HeldTells, LoopTells, Beginning, Returning, Verdicts, Unsettled,
        StoredTells, Open, WriteStep
<1>18. CASE Reconfirm
  BY <1>18, PhaseSteps, SameUpdate
     DEF Reconfirm, Enters, Becomes, Written, Fault, Connected, Attention, HeldTells, LoopTells, Beginning, Returning,
        Verdicts, Unsettled, StoredTells, Open, WriteStep
<1>19. CASE AskForAttention
  BY <1>19, PhaseSteps, SameUpdate
     DEF AskForAttention, Enters, Becomes, Written, Fault, HeldTells, LoopTells, Beginning, Returning, Verdicts,
        Unsettled, StoredTells, Open, WriteStep
<1>20. CASE SupervisorEnds
  BY <1>20 DEF SupervisorEnds
<1> HIDE DEF UpdateInv, LateTells, Verdicts, Open, RowTypes, RecordTypes, rows, record, agent, host, Frame
<1> QED BY <1>1, <1>2, <1>3, <1>4, <1>5, <1>6, <1>7, <1>8, <1>9, <1>10, <1>11, <1>12, <1>13, <1>14, <1>15, <1>16,
   <1>17, <1>18, <1>19, <1>20
      DEF UpdateNext, Loop, Apply, Restore, JobStep, PlaceStep

LEMMA UpdateStarts == UpdateInit => UpdateInv
<1> SUFFICES ASSUME UpdateInit PROVE UpdateInv
  OBVIOUS
<1> USE Bounds DEF UpdateInit, NoState
<1>1. RowTypes
  BY DEF RowTypes, Versions
<1>5. child \in BOOLEAN /\ leaving \in BOOLEAN /\ pulsed \in BOOLEAN /\ told \in BOOLEAN
  OBVIOUS
<1>6. AgentTypes
  BY <1>5 DEF AgentTypes, Versions
<1>2. RecordTypes
  BY DEF RecordTypes, States, Phases, Stages, Versions
<1>3. OneActive /\ JobTells /\ StoredTells /\ FileTells
  BY DEF OneActive, Active, Open, JobTells, StoredTells, FileTells, Unsettled, Updates
<1>4. HeldTells /\ NumbersTell /\ LateTells
  BY DEF HeldTells, LoopTells, Beginning, Returning, Verdicts, Open, NumbersTell, LateTells, Updates
<1> QED BY <1>1, <1>2, <1>3, <1>4, <1>6 DEF UpdateInv

LEMMA UpdateInductive == UpdateSpec => []UpdateInv
<1>1. UpdateInv /\ [UpdateNext]_update => UpdateInv'
  BY KeepsRowTypes, KeepsRecordTypes, KeepsAgentTypes, KeepsOneActive, KeepsJobTells, KeepsStoredTells,
     KeepsFileTells, KeepsHeldTells, KeepsNumbersTell, KeepsLateTells
     DEF UpdateInv
<1> QED BY <1>1, UpdateStarts, PTL DEF UpdateSpec

(***************************************************************************)
(* What follows for updates of the agent.                                  *)
(***************************************************************************)

\* Rows, records and processes keep values of their kinds.
THEOREM UpdateTypesAreKept == UpdateSpec => []UpdateTypeOK
<1>1. UpdateInv => UpdateTypeOK
  BY DEF UpdateInv, UpdateTypeOK
<1> QED BY <1>1, UpdateInductive, PTL

\* Between the record that an update replaces the agent and the one that settles it, nothing runs
\* on the server or waits in the agent's journal, and Manager has no running job.
THEOREM UpdatesExcludeJobs == UpdateSpec => []UpdateExcludesJob
<1>1. UpdateInv => UpdateExcludesJob
  BY DEF UpdateInv, JobTells, StoredTells, Unsettled, UpdateExcludesJob
<1> QED BY <1>1, UpdateInductive, PTL

\* At every moment state.json, the backup and the file suffice to put the previous agent back.
THEOREM AlwaysRecoverable == UpdateSpec => []Recoverable
<1>1. UpdateInv => Recoverable
  BY DEF UpdateInv, FileTells, Unsettled, Recoverable
<1> QED BY <1>1, UpdateInductive, PTL

InstalledVerdicts ==
    \A u \in Updates : upd'[u] # upd[u] =>
        /\ upd'[u] = "success" => file = u
        /\ upd'[u] \in {"failed", "rolled_back"} => file = from[u]

LEMMA VerdictsComeFromTheRecord == UpdateInv /\ [UpdateNext]_update => InstalledVerdicts
<1> SUFFICES ASSUME UpdateInv, [UpdateNext]_update PROVE InstalledVerdicts
  OBVIOUS
<1>1. CASE \E m \in late : Late(m)
  <2>1. PICK m \in late : Late(m)
    BY <1>1
  <2>2. m \in Messages /\ m.phase \in Verdicts \cup {"recovery_required"} /\ Record(m)
    BY <2>1, LateFields DEF Late
  <2>3. ASSUME NEW u \in Updates, upd'[u] # upd[u]
        PROVE  u = m.u /\ u \in Open /\ upd'[u] = m.phase
    BY <2>2, <2>3, ReportChanges DEF UpdateInv
  <2>4. m.u \in Open /\ m.phase \in Verdicts => m.u = stored.u /\ m.phase = stored.phase
    BY DEF UpdateInv, LateTells
  <2> QED BY <2>3, <2>4 DEF UpdateInv, FileTells, Verdicts, InstalledVerdicts
<1>2. CASE Send
  <2>1. held = stored
    BY <1>2, SendChanges
  <2>2. ASSUME NEW u \in Updates, upd'[u] # upd[u]
        PROVE  u = stored.u /\ upd'[u] = stored.phase
    BY <1>2, <2>2, <2>1, SendChanges
  <2> QED BY <2>2 DEF UpdateInv, FileTells, InstalledVerdicts
<1>3. CASE ClaimUpdate \/ ClaimUpdateLost
  <2>1. PICK u \in Updates : UpdateClaimable(u) /\ Offer(u)
    BY <1>3, ClaimDoes DEF ClaimUpdateLost
  <2>2. \A v \in Updates : upd'[v] # upd[v] => upd'[v] = "installing"
    BY <2>1, Offered DEF UpdateInv
  <2> QED BY <2>2 DEF InstalledVerdicts
<1>4. CASE \E u \in Updates : QueueAgentUpdate(u) \/ CancelAgentUpdate(u)
  BY <1>4 DEF QueueAgentUpdate, CancelAgentUpdate, UpdateInv, RowTypes, InstalledVerdicts
<1>5. CASE \/ QueueDeploy \/ Heartbeat \/ Tell \/ ClaimJob \/ FinishJob \/ ReportJob \/ Leave \/ Begin
           \/ Respawn \/ ResumeConfirmation \/ ReportUpdate \/ Apply \/ Restore \/ SupervisorEnds \/ AgentEnds
           \/ UNCHANGED update
  <2>1. upd' = upd
    BY <1>5
       DEF QueueDeploy, Heartbeat, Tell, ClaimJob, FinishJob, ReportJob, Leave, Begin, Respawn, ResumeConfirmation,
           ReportUpdate, Apply, Backup, Candidate, StopWorker, ActivateUpdate, Replace, Testing, Start, Confirm, Abort,
           Restore, RollBack, Restoring, Rewrite, Restored, Restart, Reconfirm, AskForAttention, SupervisorEnds,
           AgentEnds, Frame, rows, update
  <2> QED BY <2>1 DEF InstalledVerdicts
<1> QED BY <1>1, <1>2, <1>3, <1>4, <1>5 DEF UpdateNext, Loop

\* Manager's verdict on an update is true of the installed file, reports that come late included.
THEOREM VerdictsAreInstalled == UpdateSpec => VerdictIsInstalled
<1>1. UpdateInv /\ [UpdateNext]_update => [InstalledVerdicts]_update
  BY VerdictsComeFromTheRecord
<1> QED BY <1>1, UpdateInductive, PTL DEF UpdateSpec, VerdictIsInstalled, InstalledVerdicts
=============================================================================

--------------------------- MODULE DataMigration ---------------------------
(***************************************************************************)
(* Copies of one project's databases (lib/data-migrations.ts) together     *)
(* with what else uses the services: removal of history records and of     *)
(* services, the choice of the application's primary database, and the     *)
(* recovery after a restart.  A worker is a promise of the Manager process *)
(* that holds one session advisory lock; a copy is a sling child process.  *)
(* A database is the set of its rows, the tables taken together (the code  *)
(* compares each, which lets less pass).  Applications write at any time.  *)
(***************************************************************************)
EXTENDS Integers, FiniteSets

CONSTANTS Jobs, Services, SourceOf, TargetOf,
          Staged,        \* jobs whose target schema is kept (preserveMySqlTarget)
          NoService,
          Rows, FirstRows,   \* what databases can hold, and hold at the start
          FirstPrimary,  \* the application's database at the start
          MaxEvents      \* what comes from outside: failing queries, lost connections, restarts of Manager,
                         \* selections of a primary by hand, writes of applications

ASSUME Requests ==
    /\ SourceOf \in [Jobs -> Services] /\ TargetOf \in [Jobs -> Services]
    /\ \A j \in Jobs : SourceOf[j] # TargetOf[j]
    /\ Staged \subseteq Jobs
    /\ NoService \notin Services
    /\ IsFiniteSet(Rows) /\ FirstRows \in [Services -> SUBSET Rows]
    /\ FirstPrimary \in Services \cup {NoService}
    /\ MaxEvents \in Nat

VARIABLES
    status,      \* data_migration_jobs.status, "absent" without a row
    asked,       \* what startDataMigration has read and been told before its transaction
    pc,          \* the worker of a job
    lock,        \* its advisory lock: "free", "worker" or "removal"
    child,       \* the sling process, which activeJobs holds while it runs
    holds,       \* the rows a service holds
    copied,      \* the rows a copy has read (and a staging table holds)
    counted,     \* the rows behind the two counts, of which the code keeps the numbers
    services,    \* rows of project_data_services
    primary,     \* the one with application_primary
    recovered,   \* initialize has run since the last start
    withdrawn,   \* history: jobs cancelled or interrupted at some time
    disturbed,   \* history: jobs beside whose copy an application wrote to the target, or removed from the source
    events

rows == <<status, asked, services, primary>>
memory == <<pc, child, recovered>>
data == <<holds, copied, counted>>
history == <<withdrawn, disturbed>>
vars == <<rows, lock, memory, data, history, events>>

ACTIVE == {"queued", "running", "validating"}
FINISHED == {"succeeded", "failed", "cancelled", "interrupted", "activated"}
Executing == {j \in Jobs : pc[j] \notin {"none", "pending"}}   \* executingJobs
Uses(j) == {SourceOf[j], TargetOf[j]}
Uncounted == [source |-> {}, target |-> {}]
Referenced(s) == \E j \in Jobs : status[j] # "absent" /\ s \in Uses(j)

Init ==
    /\ status = [j \in Jobs |-> "absent"]
    /\ asked = [j \in Jobs |-> "no"]
    /\ pc = [j \in Jobs |-> "none"]
    /\ lock = [j \in Jobs |-> "free"]
    /\ child = [j \in Jobs |-> "none"]
    /\ holds = FirstRows
    /\ copied = [j \in Jobs |-> {}]
    /\ counted = [j \in Jobs |-> Uncounted]
    /\ services = Services
    /\ primary = FirstPrimary
    /\ recovered = TRUE
    /\ withdrawn = {} /\ disturbed = {}
    /\ events = 0

(***************************************************************************)
(* Requests.                                                               *)
(***************************************************************************)

\* previewDataMigration and the checks on its answer: the wizard asks for the confirmations
\* where the target is the primary.
Preview(j) ==
    /\ status[j] = "absent" /\ asked[j] = "no"
    /\ Uses(j) \subseteq services
    /\ asked' = [asked EXCEPT ![j] = IF primary = TargetOf[j] THEN "confirmed" ELSE "plain"]
    /\ UNCHANGED <<status, services, primary, lock, memory, data, history, events>>

InUseUnchecked(j) == FALSE
InUse(j) == \E k \in Jobs : status[k] \in ACTIVE /\ Uses(k) \cap Uses(j) # {}

\* The transaction under the locks of both services; the row's foreign keys need them.
StartDataMigration(j) ==
    /\ asked[j] \in {"plain", "confirmed"} /\ status[j] = "absent"
    /\ IF InUse(j) \/ ~ Uses(j) \subseteq services
       THEN asked' = [asked EXCEPT ![j] = "done"] /\ UNCHANGED <<status, pc>>
       ELSE /\ status' = [status EXCEPT ![j] = "queued"]
            /\ pc' = [pc EXCEPT ![j] = "pending"]
            /\ UNCHANGED asked
    /\ UNCHANGED <<services, primary, lock, child, recovered, data, history, events>>

CancelDataMigration(j) ==
    /\ status[j] \in ACTIVE
    /\ status' = [status EXCEPT ![j] = "cancelled"]
    /\ withdrawn' = withdrawn \cup {j}
    /\ child' = IF child[j] = "running" THEN [child EXCEPT ![j] = "killed"] ELSE child
    /\ UNCHANGED <<asked, services, primary, lock, pc, recovered, data, disturbed, events>>

ActivateDataMigration(j) ==
    /\ status[j] = "succeeded"
    /\ status' = [status EXCEPT ![j] = "activated"]
    /\ primary' = TargetOf[j]
    /\ UNCHANGED <<asked, services, lock, memory, data, history, events>>

\* The removal's transaction takes the lock first ...
LockForRemoval(j) ==
    /\ status[j] # "absent" /\ lock[j] = "free"
    /\ lock' = [lock EXCEPT ![j] = "removal"]
    /\ UNCHANGED <<rows, memory, data, history, events>>

RemovableByStatus(j) == status[j] \in FINISHED
Removable(j) == status[j] \in FINISHED /\ j \notin Executing

\* ... and removes the row or is refused; either way it ends.
DeleteDataMigration(j) ==
    /\ lock[j] = "removal"
    /\ lock' = [lock EXCEPT ![j] = "free"]
    /\ status' = IF Removable(j) THEN [status EXCEPT ![j] = "absent"] ELSE status
    /\ asked' = IF Removable(j) THEN [asked EXCEPT ![j] = "done"] ELSE asked
    /\ UNCHANGED <<services, primary, memory, data, history, events>>

DetachReferenced(s) ==
    /\ s \in services /\ primary # s
    /\ services' = services \ {s}
    /\ UNCHANGED <<status, asked, primary, lock, memory, data, history, events>>

DetachProjectDataService(s) ==
    /\ s \in services /\ primary # s /\ ~ Referenced(s)
    /\ services' = services \ {s}
    /\ UNCHANGED <<status, asked, primary, lock, memory, data, history, events>>

SetApplicationPrimary(s, active) ==
    /\ s \in services /\ events < MaxEvents /\ events' = events + 1
    /\ primary' = IF active THEN s ELSE IF primary = s THEN NoService ELSE primary
    /\ UNCHANGED <<status, asked, services, lock, memory, data, history>>

(***************************************************************************)
(* The worker: executeMigrationJob around runMigrationJob.                 *)
(***************************************************************************)

Go(j, from, to) == pc[j] = from /\ pc' = [pc EXCEPT ![j] = to]
Set(j, s) == status' = IF status[j] = "absent" THEN status ELSE [status EXCEPT ![j] = s]
SetIf(j, from, s) == IF status[j] \in from THEN Set(j, s) ELSE UNCHANGED status
OnlyStatus == UNCHANGED <<asked, services, primary, lock, child, recovered, data, history, events>>

\* A worker that finds the lock held by a removal returns; its row stays queued.
TryLock(j) ==
    /\ Go(j, "pending", IF lock[j] = "free" THEN "claim" ELSE "none")
    /\ lock' = IF lock[j] = "free" THEN [lock EXCEPT ![j] = "worker"] ELSE lock
    /\ UNCHANGED <<rows, child, recovered, data, history, events>>

Claim(j) ==
    /\ Go(j, "claim", IF status[j] = "queued" THEN "look" ELSE "leave")
    /\ SetIf(j, {"queued"}, "running") /\ OnlyStatus

\* The status is read again; the spawn follows when the answer is processed.
Look(j) ==
    /\ Go(j, "look", IF status[j] = "running" THEN "spawn" ELSE "leave")
    /\ UNCHANGED status /\ OnlyStatus

Spawn(j) ==
    /\ Go(j, "spawn", "copy")
    /\ child' = [child EXCEPT ![j] = "running"]
    /\ copied' = [copied EXCEPT ![j] = {}]
    /\ disturbed' = disturbed \ {j}
    /\ UNCHANGED <<rows, lock, recovered, holds, counted, withdrawn, events>>

\* What sling has read so far is in the staging table, or replaces the target (full-refresh).
Loaded(j) == IF j \in Staged THEN holds ELSE [holds EXCEPT ![TargetOf[j]] = copied'[j]]

\* sling writes rows it has read from the source, and nothing else.
SlingReads(j) ==
    /\ pc[j] = "copy" /\ child[j] = "running"
    /\ \E part \in SUBSET holds[SourceOf[j]] \ {{}} : copied' = [copied EXCEPT ![j] = @ \cup part]
    /\ holds' = Loaded(j)
    /\ UNCHANGED <<rows, lock, memory, counted, history, events>>

\* Its exit code does not prove that it has read everything: that is what the counts are for.
SlingEnds(j) ==
    /\ pc[j] = "copy" /\ child[j] # "none"
    /\ \/ /\ child[j] = "running"
          /\ pc' = [pc EXCEPT ![j] = "copied"]
          /\ UNCHANGED copied /\ holds' = Loaded(j)
       \/ /\ pc' = [pc EXCEPT ![j] = "exited"]
          /\ UNCHANGED <<copied, holds>>
    /\ child' = [child EXCEPT ![j] = "none"]
    /\ UNCHANGED <<rows, lock, recovered, counted, history, events>>

AfterCopy(j) ==
    /\ pc[j] \in {"copied", "exited"}
    /\ pc' = [pc EXCEPT ![j] = IF status[j] = "cancelled" THEN "leave"
                               ELSE IF pc[j] = "exited" THEN "caught"
                               ELSE IF j \in Staged THEN "promote" ELSE "mark"]
    /\ UNCHANGED status /\ OnlyStatus

\* One transaction in the target; a rollback throws.
Promote(j) ==
    /\ pc[j] = "promote"
    /\ \/ pc' = [pc EXCEPT ![j] = "mark"] /\ holds' = [holds EXCEPT ![TargetOf[j]] = copied[j]]
       \/ pc' = [pc EXCEPT ![j] = "caught"] /\ UNCHANGED holds
    /\ UNCHANGED <<rows, copied, counted, lock, child, recovered, history, events>>

\* The status is written whatever it has become.
Mark(j) == Go(j, "mark", "count") /\ Set(j, "validating") /\ OnlyStatus

\* The two counts run side by side.
CountSource(j) ==
    /\ pc[j] \in {"count", "targetCounted"}
    /\ pc' = [pc EXCEPT ![j] = IF @ = "count" THEN "sourceCounted" ELSE "compare"]
    /\ counted' = [counted EXCEPT ![j].source = holds[SourceOf[j]]]
    /\ UNCHANGED <<rows, lock, child, recovered, holds, copied, history, events>>

CountTarget(j) ==
    /\ pc[j] \in {"count", "sourceCounted"}
    /\ pc' = [pc EXCEPT ![j] = IF @ = "count" THEN "targetCounted" ELSE "compare"]
    /\ counted' = [counted EXCEPT ![j].target = holds[TargetOf[j]]]
    /\ UNCHANGED <<rows, lock, child, recovered, holds, copied, history, events>>

\* Only numbers of rows are compared.
EqualUnread(j) == TRUE
Equal(j) == Cardinality(counted[j].source) = Cardinality(counted[j].target)

Compare(j) ==
    /\ Go(j, "compare", IF status[j] # "validating" THEN "leave" ELSE IF Equal(j) THEN "pass" ELSE "miss")
    /\ UNCHANGED status /\ OnlyStatus

\* Both verdicts are written over 'validating' only.
Verdict(j) ==
    /\ pc[j] \in {"pass", "miss"}
    /\ pc' = [pc EXCEPT ![j] = "logged"]
    /\ SetIf(j, {"validating"}, IF pc[j] = "pass" THEN "succeeded" ELSE "failed") /\ OnlyStatus

Logged(j) == Go(j, "logged", "leave") /\ UNCHANGED status /\ OnlyStatus

Caught(j) == Go(j, "caught", IF status[j] = "cancelled" THEN "leave" ELSE "fail") /\ UNCHANGED status /\ OnlyStatus
Fail(j) == Go(j, "fail", "leave") /\ Set(j, "failed") /\ OnlyStatus
OuterQuiet(j) == Go(j, "outer", "leave") /\ UNCHANGED status /\ OnlyStatus
Outer(j) == Go(j, "outer", "leave") /\ SetIf(j, ACTIVE, "failed") /\ OnlyStatus

\* finally: staging tables and job directory go, then the execution and its lock.
Leave(j) ==
    /\ Go(j, "leave", "none")
    /\ copied' = [copied EXCEPT ![j] = {}] /\ counted' = [counted EXCEPT ![j] = Uncounted]
    /\ lock' = IF lock[j] = "worker" THEN [lock EXCEPT ![j] = "free"] ELSE lock
    /\ UNCHANGED <<rows, child, recovered, holds, history, events>>

Step(j) ==
    \/ TryLock(j) \/ Claim(j) \/ Look(j) \/ Spawn(j) \/ AfterCopy(j) \/ Promote(j) \/ Mark(j)
    \/ CountSource(j) \/ CountTarget(j) \/ Compare(j) \/ Verdict(j) \/ Logged(j) \/ Caught(j) \/ Fail(j) \/ Outer(j) \/ Leave(j)

(***************************************************************************)
(* What goes wrong.                                                        *)
(***************************************************************************)

\* A query throws: in the try of runMigrationJob, before it or in its catch, or in the outer catch.
Fault(j) ==
    /\ events < MaxEvents /\ events' = events + 1
    /\ \/ /\ pc[j] \in {"claim", "look", "copied", "mark", "count", "sourceCounted", "targetCounted", "compare",
                        "pass", "miss", "logged"}
          /\ pc' = [pc EXCEPT ![j] = "caught"]
       \/ pc[j] \in {"claim", "caught", "fail"} /\ pc' = [pc EXCEPT ![j] = "outer"]
       \/ pc[j] = "outer" /\ pc' = [pc EXCEPT ![j] = "leave"]
    /\ UNCHANGED <<rows, lock, child, recovered, data, history>>

\* The connection that holds the worker's lock is lost.
LoseLock(j) ==
    /\ events < MaxEvents /\ events' = events + 1
    /\ lock[j] = "worker"
    /\ lock' = [lock EXCEPT ![j] = "free"]
    /\ UNCHANGED <<rows, memory, data, history>>

\* PM2 ends Manager and the processes below it; the sessions end with it.
Restart ==
    /\ events < MaxEvents /\ events' = events + 1
    /\ asked' = [j \in Jobs |-> IF status[j] = "absent" /\ asked[j] # "done" THEN "no" ELSE asked[j]]
    /\ pc' = [j \in Jobs |-> "none"]
    /\ lock' = [j \in Jobs |-> "free"]
    /\ child' = [j \in Jobs |-> "none"]
    /\ recovered' = FALSE
    /\ copied' = [j \in Jobs |-> {}] /\ counted' = [j \in Jobs |-> Uncounted]
    /\ UNCHANGED <<status, services, primary, holds, history>>

\* initialize; after a self-update requests are served before it.
RecoverInterruptedDataMigrations ==
    /\ ~ recovered /\ recovered' = TRUE
    /\ status' = [j \in Jobs |-> IF status[j] \in ACTIVE THEN "interrupted" ELSE status[j]]
    /\ withdrawn' = withdrawn \cup {j \in Jobs : status[j] \in ACTIVE}
    /\ UNCHANGED <<asked, services, primary, lock, pc, child, data, disturbed, events>>

\* Nothing in the module keeps applications from writing while a copy runs.
AppWrites(s) ==
    /\ events < MaxEvents /\ events' = events + 1
    /\ \E new \in SUBSET Rows :
          /\ holds' = [holds EXCEPT ![s] = new]
          /\ disturbed' = disturbed \cup {j \in Executing : TargetOf[j] = s}
                               \cup {j \in Executing : SourceOf[j] = s /\ ~ holds[s] \subseteq new}
    /\ UNCHANGED <<rows, lock, memory, copied, counted, withdrawn>>

Next ==
    \/ \E j \in Jobs :
          \/ Preview(j) \/ StartDataMigration(j) \/ CancelDataMigration(j)
          \/ ActivateDataMigration(j) \/ LockForRemoval(j) \/ DeleteDataMigration(j)
          \/ Step(j) \/ SlingReads(j) \/ SlingEnds(j) \/ Fault(j) \/ LoseLock(j)
    \/ \E s \in Services :
          DetachProjectDataService(s) \/ AppWrites(s) \/ \E active \in BOOLEAN : SetApplicationPrimary(s, active)
    \/ Restart
    \/ RecoverInterruptedDataMigrations

Spec == Init /\ [][Next]_vars

\* Promises run on, sling ends, transactions end and initialize runs; nobody has to ask for anything.
FairSpec ==
    /\ Spec
    /\ WF_vars(RecoverInterruptedDataMigrations)
    /\ \A j \in Jobs : WF_vars(Step(j)) /\ WF_vars(SlingEnds(j)) /\ WF_vars(DeleteDataMigration(j))

(***************************************************************************)
(* Properties.                                                             *)
(***************************************************************************)

\* The values the rows, the worker's memory and the databases can have.
Steps == {"none", "pending", "claim", "look", "spawn", "copy", "copied", "exited", "promote",
          "mark", "count", "sourceCounted", "targetCounted", "compare", "pass", "miss", "logged",
          "caught", "fail", "outer", "leave"}
TypeOK ==
    /\ status \in [Jobs -> ACTIVE \cup FINISHED \cup {"absent"}]
    /\ asked \in [Jobs -> {"no", "plain", "confirmed", "done"}]
    /\ pc \in [Jobs -> Steps]
    /\ lock \in [Jobs -> {"free", "worker", "removal"}]
    /\ child \in [Jobs -> {"none", "running", "killed"}]
    /\ withdrawn \subseteq Jobs /\ disturbed \subseteq Jobs
    /\ holds \in [Services -> SUBSET Rows] /\ copied \in [Jobs -> SUBSET Rows]
    /\ counted \in [Jobs -> [source : SUBSET Rows, target : SUBSET Rows]]
    /\ recovered \in BOOLEAN
    /\ services \subseteq Services /\ primary \in Services \cup {NoService}
    /\ events \in 0..MaxEvents

Writing(j) == pc[j] \in {"copy", "promote"}

\* A removed record leaves nothing behind that still works on the databases: the removal
\* looks at the lock and at executingJobs, one of which outlives a lost connection.
RemovedIsQuiet == \A j \in Jobs : status[j] = "absent" => pc[j] \in {"none", "pending", "claim", "caught", "fail", "outer", "leave"}

\* Two copies that share a database never run together, unless one of them had been cancelled
\* or interrupted and its worker was still on its way.
CopiesApart ==
    \A j, k \in Jobs : j # k /\ Writing(j) /\ Writing(k) /\ Uses(j) \cap Uses(k) # {}
        => j \in withdrawn \/ k \in withdrawn

\* A service some record names still exists, and so does the application's primary.
NamedServicesExist == primary \in services \cup {NoService} /\ \A s \in Services : Referenced(s) => s \in services

\* A job that was withdrawn, or shares a database with one that was, may be written over by its worker.
Interfered(j) == \E k \in withdrawn : Uses(k) \cap Uses(j) # {}

\* A migration is reported successful only when the target holds exactly the rows the source had
\* when they were counted, although just the numbers are compared and sling is not trusted to have
\* read everything.  That needs copies apart and an application that neither writes to the target nor
\* removes from the source meanwhile: what it does then the numbers need not show.
SuccessIsACopy ==
    [][\A j \in Jobs : status[j] # "succeeded" /\ status'[j] = "succeeded"
          => holds[TargetOf[j]] = counted[j].source \/ j \in disturbed \/ Interfered(j)]_vars

\* Once its worker has the lock, a job ends and its record becomes removable, whatever fails
\* on the way; after a restart the recovery sees to it.  (A second failing query, in the catch, would
\* leave the row active until then.)
JobEnds ==
    \A j \in Jobs : j \in Executing
        ~> j \notin Executing /\ lock[j] # "worker" /\ status[j] \notin ACTIVE

\* Into the application's database nothing is copied without confirmed backups and paused writes.
\* The code does not keep this (README, section 6); no run checks it.
PrimaryNeedsConfirmation ==
    \A j \in Jobs : child[j] = "running" /\ primary = TargetOf[j] => asked[j] = "confirmed"
=============================================================================

# Verification of the deployment control plane

Synergy Manager is a Next.js program that deploys and operates applications on a
Windows (or other) host: PM2 runs the processes, Caddy the domains, PostgreSQL
holds Manager's own rows.  These modules model the parts of it in which several
activities, failures and restarts meet, TLC checks them on small instances, and
TLAPS proves the main invariants for every value of the constants.

Paths and line numbers below are relative to `src/`.

## 1. Inventory

| Component | State | Operations | What is hard |
|---|---|---|---|
| **Deployment admission** (`lib/deploy.ts` `createDeployment`, `isDeployRunning`; `lib/project-operation.ts`; the cancel route; `lib/cleanup.ts`; `instrumentation.ts`) | `deployments` rows; the advisory lock `manager-project`; in memory `activeDeployments`, `cancelledDeployments` | request, 30-minute auto-fail, lock, insert, cancel, sweep of orphans at startup, other operations under the lock | rows read before an await; two callers; cancellation during any step; restarts |
| **Deployment pipeline** (`lib/deploy.ts` `runDeployAsync`) | files at the project's root, PM2 processes, Caddy's routes, `active_deployment_id`, the row | preflight on a temporary port, snapshot of the process, wait for jobs, pause workers, handoff of domains, activation, health, acceptance, rollback, tidying up | each call can fail with or without effect; one `catch` for early and late errors; nothing else is locked out |
| **Release activation** (`lib/deployment-release.ts`) | four directories per deployment, `release.json` | prepare, activate, rollback, complete; by contents on Windows, by whole directories elsewhere | crash between a rename and its journal entry; data written by the started candidate |
| **Scheduled jobs** (`lib/cron-jobs.ts`, `lib/deployment-activation.ts`, the cron route) | `cron_jobs` rows, transaction locks per project | claim, execute, record, recover; edit; the activation's check | two transactions that look at each other's rows; a job that belongs to several projects; lost results |
| **Manager update** (`scripts/manager-update-worker.cjs`, `manager-update-state.cjs`, `install-manager-updater.ps1`; `lib/update-maintenance.ts`, `lib/manager-updates.ts`, `middleware.ts`) | `state.json`, `.manager-maintenance.json`, `worker.lock`, leases, the release's items in four places, Manager's process | drain, stop, replace item by item, start, verify, restore; boot task; recovery task every minute; install, cancel, rollback, recover from the dashboard | power loss at any step, also in the recovery; work that starts while the marker is being written |
| Build stages of a deployment | a private candidate directory | checkout, install, build, audit, fingerprint | private until activation |
| Deployment capacity (`lib/deployment-capacity.ts`) | session advisory locks per slot | acquire with retries, hold, release | a lost connection frees the slot, not the work |
| Release retention (`lib/release-cleanup.ts`, `release-retention.ts`) | journals, `.manager-releases` | plan, check again, remove | plan and removal are apart |
| Staging sleep (`lib/staging-sleep.ts`) | `sleeping_since`, wake cooldown | tick, wake | reads "deploying" before it stops |
| **Data migrations** (`lib/data-migrations.ts`, the detach and primary actions of `lib/data-services.ts`) | migration rows, session locks per job, `runningJobs`, `executingJobs`, `cancelledJobs`, the services and the primary | start, copy, compare, activate, cancel, remove, recover at startup | a cancellation or restart beside a worker that goes on; a lost lock; a service detached meanwhile |
| **Database move** (`lib/database-move.ts`) | job row, two servers, env files, Manager's record of a project's database, PM2's environments | stop everything, copy, restart one by one, verdict; rollback in one `catch` | the applications restart one by one on the copy; writers nobody stopped; a query that fails in the rollback |
| **Remote jobs** (`lib/managed-servers.ts`, `scripts/manager-agent.cjs`) | `remote_jobs`; on the other machine `current-job.json`, `apps.json`, PM2's list and dump | queue, claim, journal, execute, restore, report, resume | lost and late requests; an agent or a host that ends anywhere |
| **Agent update** (`lib/remote-agent-updates.ts`, `scripts/manager-agent-supervisor.cjs`) | `remote_agent_updates`; `state.json`, the agent's file and its backup | queue, claim, replace, test, confirm, restore, report | deployments beside it; power loss between record and file; reports that come late |
| Database rename, dedicated user | job rows, env files | shorter sagas of the same form | as for the move |
| Data services, backups and their schedules | services, schedule table | provision, back up, restore | provider commands |
| Runtimes, webhooks, promotion, domains, workers, AI operations, monitoring, accounts, user interface, installers | see `PROJECT.json` | | mostly I/O or single steps |

How they meet: webhooks, promotions, the dashboard and the API all call
`createDeployment`; the loop it admits calls `DeploymentRelease` for files,
`beginReleaseActivation` against `executeCronJob`, PM2 and Caddy.  Console,
checkout, start-method, cleanup, moves and AI recovery take the same advisory
lock as admission, for their whole duration, while the loop itself is
represented only by its row.  A Manager update waits for all of these through
leases (`updateProtected`) and busy rows (`assertIdle`), and ends Manager's
process, which is a restart for every other component.

What makes each modelled component correct is the list of its properties in
section 3.  `PROJECT.json` lists every component and every hazard with the
properties that cover it.

## 2. Modules

| Module | Models | Checked by | Proofs |
|---|---|---|---|
| `DeployAdmission` | admission, cancellation, auto-fail, orphan sweep, restarts, other operations on one application | `MCDeployAdmission` | `DeployAdmission_proofs` |
| `ReleaseContents` | one release activated by contents, journal and crashes, the next deployment's look at it | `MCReleaseContents` | `ReleaseContents_proofs` |
| `ReleasePromise` | what a release promises to those around it, without paths, journals or loops; `ReleaseContents` implements it (`KeepsRelease`), and so does the loop that drives it | through `ReleaseContents` | `ReleaseContents_proofs` (`ReleaseIsKept`), `DeployPipeline_proofs` (`LoopKeepsRelease`) |
| `CronActivation` | claims of jobs against activations, several projects and directories | `MCCronActivation` | `CronActivation_proofs` |
| `ManagerUpdate` | the update worker, its lock, the boot and recovery tasks, leases and the dashboard | `MCManagerUpdate` | `ManagerUpdate_proofs` |
| `UpdatePromise` | what an update promises, without workers, journals or recovery; `ManagerUpdate` implements it (`KeepsPromise`) | through `ManagerUpdate` | `ManagerUpdate_proofs` (`PromiseIsKept`) |
| `DeployPipeline` | one deployment's loop from preflight to its last UPDATE | itself | `DeployPipeline_proofs` |
| `DataMigration` | migration jobs of several services, their workers, removal, the primary | `MCDataMigration` | `DataMigration_proofs` |
| `RemoteJob` | deployments of one application on a managed server, from the queue to the final report | itself | `ManagedServer_proofs` |
| `AgentUpdate` | updates of the agent: rows, supervisor, agent, and a deployment beside them | itself | `ManagedServer_proofs` |
| `DatabaseMove` | the move of one database that several applications use | `MCDatabaseMove` | `DatabaseMove_proofs` |

**Correspondence.**  An action is one stretch of code between two awaits (or
between two effects on disk, for the worker); `map` in `PROJECT.json` gives its
lines.  Program counters carry the code's order (`pc`, `loop`, `phase`);
variables of the code keep their names (`active`, `cancelled`, `stale`,
`paused`, `flags` for the loop's Booleans).  An advisory lock is its holder; a
transaction is the steps between its first lock and its commit.

* `DeployAdmission`: `SelectRunning`, `FilterStale`, `FailStale` and
  `DecideRunning` are the two awaits of `isDeployRunning`; `TryLock`,
  `CheckUnderLock`, `InsertRow`, `Unlock` the admission proper.  The loop after
  it is reduced to building, activating, accepted and rollback, because
  admission sees no more of it.  `Restart(late)` is a start of the process;
  after a self-update (`late`) requests are served before `initialize` sweeps.
* `ReleaseContents`: a path holds nothing, old code, local data or new code in
  each of `root`, `previous`, `candidate`; journal writes and renames are
  separate steps that may fail or be the last one before a crash.  `next` is the
  deployment that follows: it is let in when the loop has ended, or (`early`) beside
  the loop of a deployment that was cancelled, and its `prepare` reads the journal.
  What it does after that is not followed.  Paths move
  independently, so a path's name and depth do not matter, except that a parent
  directory is made on demand (`RecordDirectory`, `MakeDirectory`).
* `CronActivation`: `ousted` names the callers whose row was edited, or taken
  by recovery, while they ran; the program has forgotten them.
* `ManagerUpdate`: a worker's step names are the places of `apply`, `recover`
  and `main`.  `Drained` stands for the 15 seconds after the marker is written:
  a request that passed the middleware before has its row by then.  The items
  are numbered in the order of `ITEMS`.
* `DeployPipeline`: `setup` is how the deployment is done (`handoff`: managed
  domains, not Windows; `tested`: preflight without handoff; `untested`:
  preflight off; `unchecked`: no HTTP checks) and what ran before.  A call that
  throws may have had its effect (`Leads`, `Applied`).  `Hand` is an operator's
  start or stop, or the sleep tick's.  `Overlook` is a `pm2 jlist` that fails or
  cannot be parsed: `overlooked` remembers of which workers it did not tell.
* `DataMigration`: `pc` is where a job's worker is in `executeMigrationJob`;
  `lock` is the session lock (`LoseLock` is its lost connection), `child` the sling
  process.  A database is the set of its rows (`holds`).  sling writes only rows it
  has read from the source (`SlingReads`), and its exit code does not prove that it
  has read all of them; `counted` are the rows behind the two counts, of which the
  comparison sees the numbers only (`Equal`).  Applications write to either database
  at any time (`AppWrites`).  `SourceOf` and `TargetOf` say what a job copies,
  `Staged` which jobs copy through staging tables.  `Fault` is a failing query.
* `RemoteJob`: `mem` and `disk` are the journal in the agent and on its disk,
  `act` the activation recorded in it (the release to put back).  `wire` holds
  reports that may still be processed; `GiveUp` is the agent's timeout.  A release
  is named by its job.  `broken` is the promise chain of `persist` after one
  rejected write.
* `AgentUpdate`: update `u` installs version `u`.  `held` and `stored` are the
  supervisor's copy of `state.json` and the file; `jobFile` is the agent's
  `current-job.json`.  `told` and `pulsed` are what the supervisor has last heard,
  which is older than `wk` and `jobFile`; `late` holds reports whose sender has given
  up, `counted` the number of the last report a row has taken.
* `DatabaseMove`: `db` is the database a process uses, `env` what its file names,
  `entry` the environment PM2 keeps for it, `service` Manager's own record, which
  overrides the file for the applications in `Injected`.  `late` are those who have
  written to the original after the dump.  Beside the move `StartByHand` and
  `StopBeside` are the buttons and the sleep tick; `Wake` and `Awake` a visit to a
  sleeping staging application, which reads the environment and later starts the
  application with it, without a lock or a look at `database_moves`.  `touched`
  remembers who was started or woken that way since the plan, `asleep` who was
  stopped.  `Restart` is the end of Manager.  `MaxTroubles` bounds all of these and
  the failing steps together.

## 3. Runs

Bounds are the constants of the `.cfg`; each counter in a model (`restarts`,
`faults`, `crashes`, `rollbacks`, `hands`, `losses`, `ends`) is limited by the
constant of that name with `Max`.

| Run | Instance | Shows |
|---|---|---|
| `admission` | 2 deployments, 1 operation, 1 restart, 1 failing write | `OneAtWork`; `LockHasItsUser`: no error path keeps the lock; `LoopOwnsItsRow`: nobody but a cancellation or the late sweep takes a working loop's row; `CancelHasTheLastWord`, `RowSettles` |
| `release_contents` | 3 paths, all mixtures of contents, failures and a crash anywhere, a cancellation and a following deployment at any time | `PhaseTellsTree`, `JournalCoversEveryMove`, `KeepsRelease`, `NothingLost` |
| `cron_activation` | 2 applications in one directory, a job without project, 2 callers, 1 deployment, 1 restart, 1 lost result | `ActivationExcludesJobs`, `JobRunsOnce`, `NoLockCycle`, `DeploymentEnds` |
| `update_recovery` | 3 items (one new, one a directory), 1 worker, 2 power losses, 2 failing services | `OriginalKept`, `KeepsPromise`, `UpdateEnds` |
| `update_drain` | 2 items, 1 worker, 2 leased operations, 1 request, 2 failing services, 1 requested rollback | `MarkerCoversUpdate`, `OperationsFinish` |
| `deploy_pipeline` | 2 workers, 2 failing calls or unreadable process lists, 1 operator action, cancellation and end of Manager anywhere | `FailureRestores`, `AcceptedStays`, `DomainsReached`, `FilesChangeAlone`, `LoopEnds` |
| `data_migration` | 2 migrations there and back between 2 services of up to 2 rows, one staged, cancellation, removal, detached services, 1 event: failing query, lost lock, restart, other primary or an application's write | `RemovedIsQuiet`, `CopiesApart`, `NamedServicesExist`, `SuccessIsACopy`, `JobEnds` |
| `remote_job` | 2 deployments of one application, 2 lost requests or failing writes, 1 end of the agent or its host, 1 progress report by the timer | `RegistryIsTrue`, `NeverReplayed`, `VerdictIsTrue`, `JobSettles` |
| `agent_update` | 2 updates, 1 deployment, 1 fault, 2 ends of supervisor, agent or host, 2 reports that ask for attention | `UpdateExcludesJob`, `Recoverable`, `VerdictIsInstalled`, `WorkResumes` |
| `database_move` | 2 applications, one overridden, 1 worker, 1 job, any 3 of: failing step, start or stop by hand, wake, sleep, restart | `NoLostWrites`, `BackOnOriginal`, `EverythingBack`, `MoveEnds` |
| `update_boot`, `move_values` | the smallest instance with the case | disagreements, section 6 |

**Why the bounds are enough to be interesting.**  Admission: two callers are
needed for every race in it, the operation is the third party, a restart leaves
rows to the sweep and, late, lets it meet a fresh one.  Contents: three paths
give a first, a middle and a last move, each with an outward and an inward half.
Cron: the job without project concerns both projects of the directory and locks
both, which is what two callers can do in opposite orders.  Update: three items
give a crash before, at and after each; two power losses let the recovery be
interrupted too.  Pipeline: two workers make the `for` loops partial; a second
fault makes the recovery of a first one fail.  Migrations: two jobs that share a
service are what the locks keep apart; a third only repeats a pair; two rows let a
copy miss one, and one write of an application make the numbers equal again.  Remote jobs:
the second deployment makes the first one's release the one to put back; two
faults lose a claim and a report, or a write and the report after it; one end of
the agent finds every journal.  Agent update: the second update starts from the
outcome of the first; two ends interrupt an update and its restoration.  Move: two
applications make the restart on the copy partial, and one of them overridden keeps
the other's case apart; three troubles make a step, its rollback and the last query
fail, or a wake, a sleep and a failing step meet.

**Fairness.**  In every liveness property the program's own continuations are
run: the event loop takes the next step, the database answers, calls end by their
timeouts.  Requests, cancellations, clicks, ageing, faults and crashes are never
forced.  Beyond that: `cron_activation` assumes strong fairness for a waiter of an
advisory lock (PostgreSQL grants locks in the order of the queue) and for the
five-minute limit (the clock goes on whether or not the check is being
repeated); `update_recovery` that the recovery task is started every minute
(`install-manager-updater.ps1:45`) and that what runs in Manager finishes;
`remote_job` that the agent is started again by its service, that a claim arrives
in the end and that a report the agent waits for is processed or given up;
`agent_update` that the service starts the supervisor again and that an agent
asked to stop leaves (strong fairness: it may take one more job first).  Runs
with `CHECK_DEADLOCK FALSE` are about one deployment, release, move or a set of
jobs, which end.

## 4. Proofs

All theorems are `Spec => []P` (or `Spec => P` for action properties) without
bounds on the constants; the assumptions are the named `ASSUME`s of the modules
(ranges of the bounds, disjoint sets of model values, in `CronActivation` that
projects are numbers, because claims lock in their order);
`OriginalsAreKept` and the theorems after it in `ManagerUpdate_proofs`, and
`MovedWithoutOverride`, have the hypotheses they name.

* `DeployAdmission_proofs`: `TypeCorrect`, `OneWorks`, `LockIsNotLeaked`,
  `LoopsOwnTheirRows`.  `OneAtWork` is not inductive: a state with one row running
  and a second call at its INSERT has it.  `IInv` adds `LockHeld` (who is between
  lock and unlock holds the lock) and `InsertSeesNoRow` (who is about to insert
  under it has seen no row, and nobody else can have inserted one).  Steps outside
  the lock only take rows out of `running`: lemma `HarmlessKeepsIInv` covers them
  together.  `RowInv` relates a loop to its row and to what the auto-fail has read
  of it.
* `ReleaseContents_proofs`: `TypeCorrect`, `PhaseIsTrue`, `MovesAreJournaled`,
  `AdmittedOnWholeTree`, `NothingIsLost`, `ReleaseIsKept`, `PromiseSuffices`.  `IInv` says what the two loops have done before and
  after their cursor (`ForwardLoop`, `ReverseLoop`), that a displaced path has a
  record in memory and on disk (`Recorded`), that the plan leaves nothing out
  (`PlanComplete`), where contents can be (`Contained`), and how the phase on
  disk follows the program (`PhaseOnDisk`).  `NothingIsLost` adds `FreeTells`: the
  destination that was found free before the intent was journaled is still free at
  the rename.  `ReleaseIsKept` is a refinement: the journaled phase is the promise's
  stage, and of the contents only counts which release the root is a whole tree of.
  Nearly all steps are then `Move` or a stutter; `EndTells` adds that a release which
  could not journal its beginning does not look final, and that an ended one stays.
  The promise speaks of the loop too (`running`, `cancelled`, `over`): a deployment
  that follows a cancelled one may begin before the loop has ended, on a tree that is
  whole at that moment (`AdmittedOnWholeTree`, second part), and nothing is promised to
  it afterwards (section 6, `EarlyStaysWhole`).
  `PromiseSuffices` derives `PhaseTellsTree` and, for a deployment that begins after
  the loop, `NextSeesWholeTree` from the promise alone, so they hold of every
  implementation of it.
* `CronActivation_proofs`: `TypeCorrect`, `JobsStayOut`, `OneExecution`,
  `ClaimsDoNotDeadlock`.  Each side decides under its projects' locks; `LocksHeld`
  says what they stand for, `RowsStand` and `PhaseTells` what each side's row tells
  the other, `NeitherCommits` that nobody is about to commit against what the other
  has committed.  `LocksAscend` says that who waits for a project holds only
  smaller ones, which excludes a cycle.
* `DeployPipeline_proofs`: `TypeCorrect`, `FailedIsRestored`, `AcceptedIsKept`,
  `DomainsAreServed`, `FilesChangeUnderNothing`, `LoopKeepsRelease`,
  for any set of workers and any number of failing calls and operator actions.  The properties speak of the end,
  or of a single step; the invariant says at every step of the loop what its
  Boolean variables tell (`FlagsTell`) about the files (`RootTells`), the
  application and `previousStatus` (`AppTells`), the workers (`WorkersTell`) and
  the candidate (`CandidateTells`).  `AppTells` and `WorkersTell` assume that nobody
  else touches the processes (`hands = 0`), as the properties do; `WorkersTell` says of
  the workers that run while files change that PM2 did not tell of them
  (`overlooked`), and no more can be said.  `LoopKeepsRelease`
  shows that the loop, seen through `activating` and `accepted`, is a `ReleasePromise`
  as well: the loop and the release it drives are held to one account of what a
  release is; a cancellation settles the row and leaves the rest as it is.  (That the one-step `Activate` and `RollBack` stand for the renames
  of `ReleaseContents` is read from the code, not proved.)
* `ManagerUpdate_proofs`: `TypeCorrect`, `OneWorkerUntilCrash`, `OriginalsAreKept`,
  `PromiseIsKept`, `PromiseSuffices`, `WholeReleaseRuns`, `UpdatesAreMarked`,
  `OperationsAreFinished`.
  Types are proved in parts, because most steps leave most of them alone (lemma
  `Frames`).  `LockTells` says that without a power loss a worker past the lock is
  the one named in it, and that nobody is about to remove a stale lock; with one
  the property is false (section 6, (d)).  `OriginalsAreKept` holds for any number
  of power losses, failing services and rollbacks, and assumes one worker at a
  time (`Alone`) for the same reason.  `OriginalKept` alone is not inductive:
  `Single` says that an old copy is in exactly one of two places, `EarlyTells` that
  nothing has moved while anybody's copy of the state says so, `LoopTells` what
  the forward loop finds at its items.  The rest of the argument is what a
  rename does (`SingleKept`), for the four steps that rename.
  `PromiseIsKept` is the refinement: with one worker, each step of a behaviour without
  a requested rollback, and of one without a power loss, is one of `UpdatePromise` or
  a stutter, whatever services fail.  `StillStep` shows that all but seventeen actions
  leave the mapped state alone, `Simulations` what each kind of the others has to
  know, and `PromiseInv` is where they know it from: `AskedTells` (what a rollback
  asked for on the dashboard has read and will write), `StoppedTells` (Manager is
  off wherever files are renamed, and PM2 is down while the boot task's worker
  runs), `PhaseTells` (the phase on disk follows the worker, and its copy differs
  from it only where the dashboard has written), `DiskTells` (the journal names
  every item that is not the old one, and a verdict the installed release),
  `NewRuns` (until a requested rollback stops it, Manager runs the new release) and
  `PlacesTell` (what both loops have done so far).  It is an invariant of the steps that
  end in `Scope` (no power loss yet, or no rollback requested), which is closed
  backwards (`ScopeBack`); so `WholeReleaseRuns` needs no assumption on the bounds.
  The hypotheses are needed: with a second worker, or with a power loss and a
  requested rollback, the promise is broken (section 6, (c), (d)).  `MarkerTells` and
  `QuietTells` say for an update by one worker without a power loss where the marker is set and
  that from the end of the drain on nothing runs in Manager; `UpdatesAreMarked` and
  `OperationsAreFinished` follow from them.
* `DataMigration_proofs`: `TypeCorrect`, `RemovedStaysQuiet`, `CopiesStayApart`,
  `NamedServicesStay`, `SuccessMeansCopied`, for any jobs and services.
  `CopiesApart` follows from
  `ActiveApart` (what the check under the services' locks is for) and
  `WorkerKnowsStatus` (nobody but its worker changes the status of a job that was
  not withdrawn).  `SuccessMeansCopied` says when numbers of rows are enough:
  `CopiesTell` follows what a copy has read, what its target holds and what was
  counted through every step, `WritesElsewhere` keeps other jobs out of both
  databases, and `EqualMeansSame` is the argument: rows that were all read from the
  source, as many as the source has, are the rows of the source.  It says nothing of a
  job beside which an application wrote to the target or removed from the source, nor
  of one that shares a database with a withdrawn job.
* `ManagedServer_proofs`, about `RemoteJob`: `TypeCorrect`, `RegistryStaysTrue`, `NothingReplayed`,
  `VerdictsAreTrue`, for any jobs, lost and late messages, failing writes and ends
  of the agent.  `JournalTells` says what memory and disk agree on at each place,
  `Recorded` that a job which was begun or reported has ended or is the one in
  the journal, `Numbered` and `WaitingTells` that a report whose answer the agent
  waits for cannot be overtaken, `ReportsTell` that a final report which can still
  count says what the journal says, and `ServerTells`, `ReleasesApart` and
  `VerdictsTell` what runs and is registered at each place, on and off.
* `ManagedServer_proofs`, about `AgentUpdate`: `UpdateTypesAreKept`,
  `UpdatesExcludeJobs`, `AlwaysRecoverable`, `VerdictsAreInstalled`, for any updates,
  lost answers, failing writes and ends of supervisor, agent and host.
  `UpdateExcludesJob` needs `JobTells`: while a row is open no deployment is running,
  and an agent that works has a journal that says so.  The other two say something
  only where the supervisor has written or reported, which is a statement about the
  last complete write: `StoredTells` and `FileTells` relate `state.json` to the row,
  the backup and the agent's file, whatever became of the process that wrote it, and
  `HeldTells` says at each place of the supervisor how its copy differs (`LoopTells`:
  only by what a failing write has kept from the disk).  `Recoverable` is a part of
  `FileTells`.  A verdict reaches the row by a report, possibly one whose sender has
  long gone: `NumbersTell` bounds the numbers of rows and late reports by the one in
  `state.json`, and `LateTells` says that a late report which would still count says
  what `state.json` says.  `OneActive` keeps a second update from starting on the
  file of an unfinished one.  `JobStepFrame`, `PlaceStepFrame` and `WriteStepFrame`
  state once what the steps of the same kind leave alone.
* `DatabaseMove_proofs`: `TypeCorrect`, `WritesAreCopied`, `RolledBackMeansOriginal`,
  `StoppedComesBack`, `OwnAppsAreMoved`, `MovedWithoutOverride`, for any applications,
  workers, jobs and troubles.  `OriginalTells` says who can still write to the
  original at each step forward, `CopyTells` who can be on the copy at each step of the
  rollback, also of a second one, and `BackTells` that what is off is what the program
  still has to start.  The conclusions name whom they except: who was started or woken
  beside the move (`touched`), who was stopped beside it (`asleep`), whose environment
  Manager's records override (`Injected`), whom a failed check has passed (`blind`) and
  what has failed itself (`unsure`).  What becomes of those is in section 6.
  `OwnAppsAreMoved` and `MovedWithoutOverride` are about the property `move_values`
  refutes: `AppsTell` follows an application that nobody overrides and no visit wakes
  through the move, and until a start button is pressed it is off the original after a
  success.  The override is the cause of that run's trace; a wake, which
  `MovedMeansMoved` exempts, and the start button are two more ways to the original.

The type invariants are proved and therefore not also checked.

Only model-checked: the liveness properties `CancelHasTheLastWord`, `RowSettles`,
`DeploymentEnds`, `UpdateEnds`, `LoopEnds`, `JobEnds`, `JobSettles`, `WorkResumes`
and `MoveEnds`; fairness is beyond the prover.

## 5. Not modelled

`PROJECT.json` gives the reason for each component.  Within the modelled ones:
the fingerprint and audit of a candidate and the repair of generated links
(they succeed or fail); the contents of backups and package verification in an
update, and the update of the runner's own files; schedules' times and deletion
of jobs; applications without a port (they take the steps of `unchecked`); a
session whose advisory lock is lost without an error, in `DeployAdmission`; the
tables and columns in `DataMigration`: they are taken together, where the code
compares each table's number of rows, and a column the target lacks is not noticed by
either; what sling does beyond writing rows it has read; what a plan refuses and the
text of env files in `DatabaseMove`, and beside it the routes that restart an
application after a change of its memory limit
(`app/api/sites/[id]/memory/route.ts:46`) or write and restart it with the services'
environment (`app/api/sites/[id]/data-services/sync-env/route.ts`), without a lock (the
first does what a wake does); in `ReleaseContents`, what a deployment does that began
beside a cancelled one's loop; enrollment, inspection and database jobs of managed
servers, and an agent's jobs for several applications in `RemoteJob`.

Hazards read in parts that are not modelled: the live source is compared with its
fingerprint before a preflight of minutes (`lib/deploy.ts:764`); a whole-directory
rename precedes its journal entry (`lib/deployment-release.ts:311`); a lost
connection frees a slot while the build goes on (`lib/deployment-capacity.ts:29`); a
preparation of more than 35 minutes can be cancelled and still saves `ready`
(`lib/manager-updates.ts:84`).

## 6. Disagreements

Two are runs; TLC prints the trace.

* `update_boot`: after a power loss the recovery task may hold the lock when the
  boot task runs; the boot task counts this as success and PM2 starts a half
  replaced release (`scripts/manager-update-worker.cjs:200`), against
  `docs/manager-updates.md:129`.
* `move_values`: applications are restarted with the values of Manager's records
  of the project's database, which come before the env files
  (`lib/deploy.ts:262`) and change at `lib/database-move.ts:389` only: the move
  succeeds and the application writes to the original, against
  `lib/database-move.ts:19`.

The following were found with other constants, or with the stated part of a
property removed; the model contains the steps.

* `LocalPathsRetained` (`ReleaseContents`): the list of local paths is made before
  the build (`lib/deployment-release.ts:261`); an ignored file created during it is
  archived with the old code, against `docs/release-pipeline.md:19`.
* `EarlyStaysWhole` (`ReleaseContents`): the loop looks for a cancellation at
  `lib/deploy.ts:823` and then not before `:878`, unless a lock of the root has to be
  recovered.  The cancelled row lets another deployment in, whose `prepare` reads
  `building` in the first one's journal (`lib/deployment-release.ts:236`) and goes to
  work; then the first loop stops the workers, deletes the application and moves the
  files, under the second one's inspection of the tree.
* `NoJobStartsInActivation` (`CronActivation`): a cancelled deployment's row is
  `failed` while its loop still activates or rolls back, and a job starts
  (`lib/cron-jobs.ts:102`), against `docs/release-pipeline.md:11`.
* `RunningJobBlocksActivation` (`CronActivation`): a job edited while it runs is
  looked up under its new project, and the directory it works in is activated.
* `NoConsoleDuringDeployment` (`DeployAdmission`, 1 deployment, 1 operation): a
  cancelled deployment's loop no longer holds off a console command.
* "A row never leaves success" (`DeployAdmission`, 2 deployments): the auto-fail's
  UPDATE (`lib/deploy.ts:338`) does not look at the status again, and a deployment
  of more than 30 minutes that ends between the SELECT and the filter becomes
  `failed`.
* `DomainsReached` without `Tracked` (`DeployPipeline`, 1 fault): a reload of Caddy
  that fails after the Caddyfile was written leaves the domains on the
  candidate's port, and the candidate is deleted (`lib/deploy.ts:855`, `:963`).
* "A failed deployment is not the marked one" (1 fault): the answer to
  `lib/deploy.ts:894` is lost after its commit.
* "No candidate is left running" (1 fault): `pm2 start` fails after PM2 has
  started the process (`lib/deploy.ts:786`).
* `FilesChangeAlone` with one operator action: a worker started from its page
  while the files are replaced.  Without `overlooked` it is violated by one failing
  call: when `pm2 jlist` fails or cannot be parsed, `getPm2ProcessStatus` returns
  `undefined` (`lib/deploy.ts:351`, `:357`), `:848` takes the worker for stopped, and
  the files change under it; so they do under a worker that PM2 calls `launching`.
* `ManagerUpdate`: (a) a power loss while `queued`: the boot task's recovery saves
  `rolling_back` without a marker and the next worker stops Manager beside a
  running operation (`OperationsFinish`, 1 power loss); (b) a rollback requested
  between the verdict and the removal of the marker loses its marker
  (`MarkerCoversUpdate` without `rollbacks = 0`); (c) a requested rollback whose
  files were restored at boot is put off and reported as `succeeded`
  (`KeepsPromise`, 1 power loss and 1 rollback), and when that restoring failed half
  way PM2 starts the mixed release after the next power loss (`WholeRelease`, 2 power
  losses, 1 rollback, 1 fault); (d) two workers judge the
  same lock stale, each removes what it finds, and both run (`OriginalKept`,
  2 workers, 1 power loss); (e) a power loss between `failed` and the removal of
  the marker closes Manager for good (excused in `UpdateEnds`); (f) the state
  is read before the lock is taken, and a second worker rolls back a job that
  has just failed, without a marker (`MarkerCoversUpdate`, 2 workers, 1 fault), and so
  stops Manager beside an operation that has begun since (`OperationsFinish`, same
  constants, no power loss; hence the hypothesis of `UpdatesAreMarked` and
  `OperationsAreFinished`), or overwrites the journal of a
  worker that failed half way with a copy that names nothing to put back, and PM2
  starts a mixed release (`WholeRelease`, 2 workers, 1 fault, no power loss); (g) a
  power loss between the creation of `worker.lock` and its content leaves a file no worker gets past
  (`Unreadable`, excused in `UpdateEnds`), against `docs/manager-updates.md:127`.
* `DataMigration`: only the number of rows of each table is compared
  (`lib/data-migrations.ts:472`).  `SuccessIsACopy` without `disturbed` is violated by
  one write: an application that changes a row of the target, or writes one that
  replaces one sling has not read, leaves equal numbers, and the migration succeeds;
  so it does when a row that was already read is replaced in the source (the log of
  `:480` says `match exactly`).  The UPDATE to `validating` looks at nothing
  (`lib/data-migrations.ts:467`) and revives a withdrawn job; `appendJobLog` that
  throws after the verdict (`:480`) turns a success into `failed` (`:486`); a
  removal that holds the lock makes the worker return silently (`:401`) and the
  row stays queued until the next start; when the failing query and the one that
  records it both fail (`:405`) the row stays active until then; staging tables
  survive a restart; a cancellation between `:438` and `:441` finds no process to
  end.  `PrimaryNeedsConfirmation`: a target that becomes the
  application's primary after its preview is copied into without the confirmed
  backups and paused writes.
* `RemoteJob`: one rejected write of the journal rejects every later one
  (`scripts/manager-agent.cjs:481`), and the agent neither saves nor reports until it
  is restarted, against `docs/remote-servers.md:208`; a deployment that has
  succeeded in memory is rolled back and reported failed when the agent ends before
  its journal is written; a report that Manager refuses keeps the journal for ever.
* `AgentUpdate`: an agent that exits in `recovery_required` is not started again
  (`scripts/manager-agent-supervisor.cjs:228`), against `docs/agent-updates.md:43`;
  when the first write of `state.json` fails the update stays `installing` until the
  supervisor is restarted (`Stalled`, excused in `WorkResumes`); a queued update
  whose version does not match holds back jobs until it is cancelled.
* `DatabaseMove`, beside the move: a visit to a staging application that the move has
  stopped wakes it (`lib/staging-sleep.ts:63`), without a lock or a look at
  `database_moves`.  It connects to the original and may write to it during the copy
  (`NoLostWrites` without `touched`, 1 wake), against `lib/database-move.ts:325` "made
  while nothing writes to it"; the check of the connections comes before the dump, and
  the comparison sees numbers of rows.  One that is not in `stopped` and is woken
  after the files were rewritten stays on the copy that a rollback drops
  (`BackOnOriginal` without `touched`); one whose wake has read the old environment
  starts with it after the move has succeeded (`MovedMeansMoved` without `touched`).  The sleep tick
  knows of deployments only (`lib/staging-sleep.ts:44`) and may stop what the move has
  just started.  An application that is started by its button during the copy keeps
  the original in PM2's environment, and so does one that was stopped all along and is
  started after it (excluded from `move_values` by `MaxTroubles = 0`).
* `DatabaseMove`, within it: `RecordsNameADatabase`: a failure
  after Manager's records were changed rolls the applications back and leaves the
  records on the copy, against `docs/release-pipeline.md:91`; a query for running
  jobs that fails counts as none, an answer of PM2 that cannot be read as nothing
  to stop; an env file torn by a failing write is not put back; what `pm2 stop` has
  stopped before it failed stays stopped; a failure before the `try`, or of the last
  query, leaves the row running until the next start; a restart of Manager leaves the
  applications stopped.

## 7. Plan

What is left, what many others rest on first.

1. `CandidateBuild`: the steps before the pipeline: local changes and the source's
   fingerprint, installation and build slots, audits and their override.
2. `ReleaseDirectory`: whole-directory activation, as another implementation of
   `ReleasePromise`.
3. `CapacitySlots`: slots as session locks with lost connections; two slots,
   three builds.
4. Backup schedules: claim, run, record, recover; database rename and dedicated
   users, as variants of the move.

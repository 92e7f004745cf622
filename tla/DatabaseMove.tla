---------------------------- MODULE DatabaseMove ----------------------------
(***************************************************************************)
(* One move of a PostgreSQL database to another server (runMove of         *)
(* lib/database-move.ts): the applications and workers that use it are     *)
(* stopped, the database is copied, the applications' env files and then   *)
(* Manager's own records are pointed at the copy, and whatever fails sends *)
(* everything back.  Beside it run scheduled jobs (lib/cron-jobs.ts), the  *)
(* start and stop buttons, and staging applications that fall asleep and   *)
(* are woken by a visit (lib/staging-sleep.ts), which take no lock.        *)
(***************************************************************************)
EXTENDS Integers, FiniteSets

CONSTANTS Apps,      \* applications linked to the database
          Injected,  \* those whose environment Manager's record of the database overrides
          Workers,   \* their background workers
          Crons,     \* their scheduled jobs
          OwnerOf,   \* the application in whose directory a worker or job runs
          MaxTroubles \* failing commands, queries and files, restarts of Manager, presses of start and
                      \* stop buttons, and applications woken or put to sleep

Processes == Apps \cup Workers \cup Crons

ASSUME Parties ==
    /\ Injected \subseteq Apps
    /\ Apps \cap Workers = {} /\ Apps \cap Crons = {} /\ Workers \cap Crons = {}
    /\ OwnerOf \in [Workers \cup Crons -> Apps]
    /\ MaxTroubles \in Nat

VARIABLES
    status,     \* of the database_moves row
    pc,
    todo,       \* applications and workers the current step has yet to treat
    db,         \* the database a process uses: off, original or copy
    env,        \* the database an application's env file names, or torn
    service,    \* the database project_data_services names
    entry,      \* the one in the environment PM2 keeps for an application
    copy,       \* none, empty, or exact as of the dump
    waking,     \* the database in the environment a wake has read for an application
    planned,    \* the applications that ran when the move was planned
    stopped, paused, backups,  \* what runMove remembers to undo
    touched,    \* history: started beside the move since it was planned, or with a wake under way then
    asleep,     \* history: stopped beside the move since it was planned
    late,       \* history: who wrote to the original after the dump
    blind,      \* history: a query that failed was taken for an empty answer
    botched,    \* history: a step of the rollback, or the resumption of the workers, has failed
    unsure,     \* history: what failed while it was stopped or its file was rewritten
    pressed,    \* history: a start button was pressed
    troubles

world == <<db, env, service, entry, copy>>
memory == <<stopped, paused, backups>>
history == <<blind, botched, unsure>>
others == <<waking, touched, asleep, late, pressed>>
vars == <<status, pc, todo, world, planned, memory, history, others, troubles>>

Init ==
    /\ status = "none" /\ pc = "idle" /\ todo = {} /\ planned = {}
    /\ db \in [Processes -> {"off", "original"}] /\ \A c \in Crons : db[c] = "off"
    /\ env = [a \in Apps |-> "original"] /\ service = "original" /\ copy = "none"
    /\ entry = [a \in Apps |-> "original"]
    /\ stopped = {} /\ paused = {} /\ backups = {}
    /\ waking = [a \in Apps |-> "no"] /\ touched = {} /\ asleep = {} /\ late = {}
    /\ blind = FALSE /\ botched = FALSE /\ unsure = {}
    /\ pressed = FALSE /\ troubles = 0

Trouble == troubles < MaxTroubles /\ troubles' = troubles + 1
Fault == Trouble
Running == {p \in Processes : db[p] # "off"}
\* What a process connects to when it starts: the environment Manager gives an application comes
\* before its file.
Home(p) == IF p \in Apps THEN p ELSE OwnerOf[p]
Uses(p) ==
    IF p \in Injected THEN service
    ELSE IF env[Home(p)] = "torn" THEN "off" ELSE env[Home(p)]

(***************************************************************************)
(* The processes.                                                          *)
(***************************************************************************)

move == <<status, pc, todo, planned, memory>>

\* The copy does not have what is written to the original now.
Write(p) ==
    /\ status = "running" /\ db[p] = "original" /\ copy = "exact" /\ late' = late \cup {p}
    /\ UNCHANGED <<move, world, history, waking, touched, asleep, pressed, troubles>>

\* runCronJob starts nothing while the move is running.
Due == status # "running"
CronStarts(c) ==
    /\ db[c] = "off" /\ Due /\ db' = [db EXCEPT ![c] = Uses(c)]
    /\ UNCHANGED <<move, env, service, entry, copy, history, others, troubles>>
CronEnds(c) ==
    /\ db[c] # "off" /\ db' = [db EXCEPT ![c] = "off"]
    /\ UNCHANGED <<move, env, service, entry, copy, history, others, troubles>>

Beside == pc = "planned" \/ status = "running"
Touch(p) == touched' = IF Beside THEN touched \cup {p} ELSE touched

\* The start and restart buttons take no lock.  PM2 keeps the environment of the last start; a worker
\* reads its application's file.
StartByHand(p) ==
    /\ Trouble /\ pressed' = TRUE
    /\ db' = [db EXCEPT ![p] = IF p \in Apps THEN entry[p] ELSE Uses(p)]
    /\ Touch(p)
    /\ UNCHANGED <<move, env, service, entry, copy, history, waking, asleep, late>>

\* The stop button takes none either, and stagingSleepTick knows of deployments, not of moves.
StopBeside(p) ==
    /\ Trouble
    /\ db' = [db EXCEPT ![p] = "off"] /\ asleep' = asleep \cup {p}
    /\ UNCHANGED <<move, env, service, entry, copy, history, waking, touched, late, pressed>>

\* A visit to a staging application restarts it: first its environment is put together ...
Wake(a) ==
    /\ waking[a] = "no" /\ Trouble
    /\ waking' = [waking EXCEPT ![a] = Uses(a)]
    /\ Touch(a)
    /\ UNCHANGED <<move, world, history, asleep, late, pressed>>
\* ... then PM2 starts it with that.
Awake(a) ==
    /\ waking[a] # "no" /\ waking' = [waking EXCEPT ![a] = "no"]
    /\ db' = [db EXCEPT ![a] = waking[a]] /\ entry' = [entry EXCEPT ![a] = waking[a]]
    /\ Touch(a)
    /\ UNCHANGED <<move, env, service, copy, history, asleep, late, pressed, troubles>>

(***************************************************************************)
(* The move.                                                               *)
(***************************************************************************)

\* planDatabaseMove looks at what runs; the row follows.
Plan ==
    /\ status = "none" /\ pc = "idle" /\ pc' = "planned"
    /\ planned' = Apps \cap Running
    /\ touched' = {a \in Apps : waking[a] # "no"} /\ asleep' = {}
    /\ UNCHANGED <<status, todo, world, memory, history, waking, late, pressed, troubles>>
StartDatabaseMove ==
    /\ pc = "planned" /\ pc' = "begin" /\ status' = "running"
    /\ UNCHANGED <<todo, world, planned, memory, history, others, troubles>>

Quiet == UNCHANGED <<status, planned, others>>
Step(from, to) == pc = from /\ pc' = to
Throws(from) == Step(from, "undoEnv") /\ Fault

\* What fails before the try block leaves the row as it is.
Begin ==
    /\ \/ Step("begin", "create") /\ UNCHANGED troubles
       \/ Step("begin", "lost") /\ Fault
    /\ UNCHANGED <<todo, world, memory, history>> /\ Quiet

\* Every line of the log is a query; one that fails between two steps ends the move.
LogFails ==
    /\ pc \in {"create", "crons", "stop", "pause", "dump", "compare", "rewrite", "restart", "record", "finish"}
    /\ Throws(pc)
    /\ UNCHANGED <<todo, world, memory, history>> /\ Quiet

\* The locks of the applications, then the role and the database.
Create ==
    /\ \/ Step("create", "crons") /\ copy' = "empty" /\ UNCHANGED troubles
       \/ Throws("create") /\ copy' \in {copy, "empty"}
    /\ UNCHANGED <<todo, db, env, service, entry, memory, history>> /\ Quiet

AwaitCronsForever ==
    /\ Step("crons", "stop") /\ Crons \cap Running = {} /\ todo' = planned
    /\ UNCHANGED <<world, memory, history, troubles>> /\ Quiet
\* A query that fails counts as no running job.
AwaitCrons ==
    /\ \/ Step("crons", "stop") /\ Crons \cap Running = {} /\ UNCHANGED <<blind, troubles>>
       \/ Step("crons", "stop") /\ Fault /\ blind' = TRUE
       \/ Step("crons", "undoEnv") /\ Crons \cap Running # {} /\ UNCHANGED <<blind, troubles>>
    /\ todo' = IF pc' = "stop" THEN planned ELSE todo
    /\ UNCHANGED <<world, memory, botched, unsure>> /\ Quiet

StopApp(a) ==
    /\ pc = "stop" /\ a \in todo /\ todo' = todo \ {a}
    /\ \/ /\ db' = [db EXCEPT ![a] = "off"] /\ stopped' = stopped \cup {a}
          /\ UNCHANGED <<pc, unsure, troubles>>
       \/ /\ Throws("stop") /\ unsure' = unsure \cup {a}
          /\ db' \in {db, [db EXCEPT ![a] = "off"]} /\ UNCHANGED stopped
    /\ UNCHANGED <<env, service, entry, copy, paused, backups, blind, botched>> /\ Quiet

ConcernedByStop == {w \in Workers \cap Running : OwnerOf[w] \in stopped}
Concerned == Workers \cap Running
\* A process list that cannot be read counts as an empty one.
ListWorkers ==
    /\ Step("stop", "pause") /\ todo = {}
    /\ \/ todo' = Concerned /\ UNCHANGED <<blind, troubles>>
       \/ todo' = {} /\ Fault /\ blind' = TRUE
    /\ UNCHANGED <<world, memory, botched, unsure>> /\ Quiet
PauseWorker(w) ==
    /\ pc = "pause" /\ w \in todo /\ todo' = todo \ {w}
    /\ \/ /\ db' = [db EXCEPT ![w] = "off"] /\ paused' = paused \cup {w}
          /\ UNCHANGED <<pc, unsure, troubles>>
       \/ /\ Throws("pause") /\ unsure' = unsure \cup {w}
          /\ db' \in {db, [db EXCEPT ![w] = "off"]} /\ UNCHANGED paused
    /\ UNCHANGED <<env, service, entry, copy, stopped, backups, blind, botched>> /\ Quiet

\* What still runs is noticed by its connections, if it has one open.
CheckConnections ==
    /\ todo = {}
    /\ \/ Step("pause", "dump")
       \/ Step("pause", "undoEnv") /\ \E p \in Running : db[p] = "original"
    /\ UNCHANGED <<todo, world, memory, history, troubles>> /\ Quiet

Dump ==
    /\ \/ Step("dump", "compare") /\ copy' = "exact" /\ UNCHANGED troubles
       \/ Throws("dump") /\ UNCHANGED copy
    /\ UNCHANGED <<todo, db, env, service, entry, memory, history>> /\ Quiet

\* The facts compared are numbers of rows and objects, not every change shows in them.
Compare ==
    /\ \/ Step("compare", "rewrite") /\ todo' = Apps /\ UNCHANGED troubles
       \/ Step("compare", "undoEnv") /\ late # {} /\ UNCHANGED <<todo, troubles>>
       \/ Throws("compare") /\ UNCHANGED todo
    /\ UNCHANGED <<world, memory, history>> /\ Quiet

\* The original is remembered after the new file is written.
Rewrite(a) ==
    /\ pc = "rewrite" /\ a \in todo /\ todo' = todo \ {a}
    /\ \/ /\ env' = [env EXCEPT ![a] = "copy"] /\ backups' = backups \cup {a}
          /\ UNCHANGED <<pc, unsure, troubles>>
       \/ /\ Throws("rewrite") /\ env' \in {env, [env EXCEPT ![a] = "torn"]}
          /\ unsure' = unsure \cup {a} /\ UNCHANGED backups
    /\ UNCHANGED <<db, service, entry, copy, stopped, paused, blind, botched>> /\ Quiet
Rewritten ==
    /\ Step("rewrite", "restart") /\ todo = {} /\ todo' = stopped
    /\ UNCHANGED <<world, memory, history, troubles>> /\ Quiet

Fresh(a) == db' = [db EXCEPT ![a] = Uses(a)] /\ entry' = [entry EXCEPT ![a] = Uses(a)]
RestartApp(a) ==
    /\ pc = "restart" /\ a \in todo /\ todo' = todo \ {a}
    /\ \/ Fresh(a) /\ UNCHANGED <<pc, troubles>>
       \/ Throws("restart") /\ (Fresh(a) \/ UNCHANGED <<db, entry>>)
    /\ UNCHANGED <<env, service, copy, memory, history>> /\ Quiet

\* Workers that do not resume are only logged.
Resume(next) ==
    /\ pc' = next
    /\ \E back \in SUBSET paused :
          /\ db' = [p \in Processes |-> IF p \in back THEN Uses(p) ELSE db[p]]
          /\ \/ back = paused /\ UNCHANGED <<botched, troubles>>
             \/ Fault /\ botched' = TRUE
ResumeWorkers ==
    /\ pc = "restart" /\ todo = {} /\ Resume("record")
    /\ UNCHANGED <<todo, env, service, entry, copy, memory, blind, unsure>> /\ Quiet

Record ==
    /\ \/ Step("record", "finish") /\ service' = "copy" /\ UNCHANGED troubles
       \/ Throws("record") /\ UNCHANGED service
    /\ UNCHANGED <<todo, db, env, entry, copy, memory, history>> /\ Quiet
\* The audit entry, the log and the status.
Finish ==
    /\ \/ Step("finish", "idle") /\ status' = "succeeded" /\ UNCHANGED troubles
       \/ Throws("finish") /\ UNCHANGED status
    /\ UNCHANGED <<todo, world, planned, memory, history, others>>

(***************************************************************************)
(* rollBack: every step is tried, a failure is logged.                     *)
(***************************************************************************)

RestoredWhereStopped == [a \in Apps |-> IF a \in backups \cap stopped THEN "original" ELSE env[a]]
Restored == [a \in Apps |-> IF a \in backups THEN "original" ELSE env[a]]
RestoreEnv ==
    /\ Step("undoEnv", "undoApps") /\ todo' = stopped
    /\ \/ env' = Restored /\ UNCHANGED <<botched, troubles>>
       \/ Fault /\ botched' = TRUE /\ UNCHANGED env
    /\ UNCHANGED <<db, service, entry, copy, memory, blind, unsure>> /\ Quiet
\* When its line of the log fails, the others are not started.
StartAgain(a) ==
    /\ pc = "undoApps" /\ a \in todo /\ UNCHANGED pc
    /\ \/ Fresh(a) /\ todo' = todo \ {a} /\ UNCHANGED <<botched, troubles>>
       \/ Fault /\ botched' = TRUE /\ (Fresh(a) \/ UNCHANGED <<db, entry>>) /\ todo' \in {todo \ {a}, {}}
    /\ UNCHANGED <<env, service, copy, memory, blind, unsure>> /\ Quiet
ResumeNothing ==
    /\ Step("undoApps", "drop") /\ todo = {}
    /\ UNCHANGED <<todo, world, memory, history, troubles>> /\ Quiet
ResumeAgain ==
    /\ pc = "undoApps" /\ todo = {} /\ Resume("drop")
    /\ UNCHANGED <<todo, env, service, entry, copy, memory, blind, unsure>> /\ Quiet
DropTarget ==
    /\ Step("drop", "close")
    /\ \/ copy' = "none" /\ UNCHANGED <<botched, troubles>>
       \/ Fault /\ botched' = TRUE /\ UNCHANGED copy
    /\ UNCHANGED <<todo, db, env, service, entry, memory, blind, unsure>> /\ Quiet
\* A rollback the try block has called is called again when its last queries fail.
Close ==
    /\ \/ Step("close", "idle") /\ status' = "rolled_back" /\ UNCHANGED troubles
       \/ pc = "close" /\ pc' \in {"undoEnv", "failed"} /\ Fault /\ status' \in {status, "rolled_back"}
       \/ Step("failed", "idle") /\ status' = "failed" /\ UNCHANGED troubles
       \/ Step("failed", "lost") /\ Fault /\ UNCHANGED status
    /\ UNCHANGED <<todo, world, planned, memory, history, others>>

RollBack == RestoreEnv \/ (\E a \in Apps : StartAgain(a)) \/ ResumeAgain \/ DropTarget \/ Close

\* Manager ends; recoverInterruptedMoves closes the row and touches nothing else.
Restart ==
    /\ pc # "idle" /\ Trouble
    /\ status' = (IF status = "running" THEN "interrupted" ELSE status) /\ pc' = "idle" /\ todo' = {}
    /\ stopped' = {} /\ paused' = {} /\ backups' = {} /\ waking' = [a \in Apps |-> "no"]
    /\ UNCHANGED <<world, planned, history, touched, asleep, late, pressed>>

MoveStep ==
    \/ Begin \/ Create \/ AwaitCrons \/ ListWorkers \/ CheckConnections \/ Dump \/ Compare \/ Rewritten
    \/ ResumeWorkers \/ Record \/ Finish \/ RollBack
    \/ \E a \in Apps : StopApp(a) \/ Rewrite(a) \/ RestartApp(a)
    \/ \E w \in Workers : PauseWorker(w)

Next ==
    \/ Plan \/ StartDatabaseMove \/ MoveStep \/ LogFails \/ Restart
    \/ \E p \in Processes : Write(p)
    \/ \E c \in Crons : CronStarts(c) \/ CronEnds(c)
    \/ \E p \in Apps \cup Workers : StartByHand(p) \/ StopBeside(p)
    \/ \E a \in Apps : Wake(a) \/ Awake(a)

Spec == Init /\ [][Next]_vars
\* Every command and wait of the move has a time limit.
FairSpec == Spec /\ WF_vars(MoveStep)

(***************************************************************************)
(* Properties.                                                             *)
(***************************************************************************)

\* The values the row, the processes and the files can have.
TypeOK ==
    /\ status \in {"none", "running", "succeeded", "rolled_back", "failed", "interrupted"}
    /\ pc \in {"idle", "planned", "begin", "lost", "create", "crons", "stop", "pause", "dump", "compare", "rewrite", "restart", "record", "finish",
               "undoEnv", "undoApps", "drop", "close", "failed"}
    /\ todo \subseteq Processes /\ db \in [Processes -> {"off", "original", "copy"}]
    /\ env \in [Apps -> {"original", "copy", "torn"}] /\ service \in {"original", "copy"}
    /\ entry \in [Apps -> {"off", "original", "copy"}]
    /\ copy \in {"none", "empty", "exact"} /\ planned \subseteq Apps
    /\ stopped \subseteq Apps /\ paused \subseteq Workers /\ backups \subseteq Apps
    /\ waking \in [Apps -> {"no", "off", "original", "copy"}] /\ late \subseteq Processes
    /\ touched \subseteq Apps \cup Workers /\ asleep \subseteq Apps \cup Workers
    /\ blind \in BOOLEAN /\ botched \in BOOLEAN /\ unsure \subseteq Processes
    /\ pressed \in BOOLEAN /\ troubles \in 0..MaxTroubles

\* Before a move succeeds, nobody has written anything that the copy misses but who was started beside
\* the move, whose environment Manager's records override, or a worker or job a failed check has passed.
NoLostWrites ==
    pc = "finish" => late \subseteq touched \cup Injected \cup (IF blind THEN Workers \cup Crons ELSE {})

\* A move that was rolled back leaves no env file on the copy, and no process but one started beside the
\* move, unless a step of the rollback failed or Manager's records had been switched.
BackOnOriginal ==
    status = "rolled_back" /\ ~ botched /\ service = "original" =>
        /\ \A a \in Apps \ unsure : env[a] = "original"
        /\ \A p \in Processes \ touched : db[p] # "copy"
        /\ copy = "none"

\* What ran before a move runs after it, however it ended, unless it failed to stop or to resume, or
\* somebody else has stopped it.
EverythingBack ==
    status \in {"succeeded", "rolled_back"} /\ ~ botched => 
        \A p \in (planned \cup paused) \ asleep : {p, Home(p)} \cap unsure = {} => db[p] # "off"

\* A move that has begun ends, unless a query failed before its try block or the last one of all.
MoveEnds == status = "running" ~> status # "running" \/ pc = "lost"

\* After a successful move no application uses the original but one started beside it.
MovedMeansMoved == status = "succeeded" => \A a \in Apps \ touched : db[a] # "original"

\* Manager's records never name a copy that was dropped.
\* The code does not keep this (README, section 6); no run checks it.
RecordsNameADatabase == status = "rolled_back" /\ service = "copy" => copy # "none"
=============================================================================

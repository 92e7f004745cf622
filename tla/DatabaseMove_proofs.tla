------------------------- MODULE DatabaseMove_proofs -------------------------
(***************************************************************************)
(* That a move which succeeds has copied everything and moved every        *)
(* application that is not overridden, that one which is rolled back       *)
(* leaves nothing on the copy, and that what ran runs again, for any       *)
(* applications, workers, jobs, troubles and restarts.  Each part of the   *)
(* invariant has a lemma with one step per action.                         *)
(***************************************************************************)
EXTENDS DatabaseMove, TLAPS

Preparing == {"begin", "create", "crons"}
Stopping == {"stop", "pause", "dump", "compare", "rewrite"}
Starting == {"restart", "record", "finish"}

\* Only a rollback that has to be repeated goes on with another status than running.
StatusTells ==
    /\ pc \in Preparing \cup Stopping \cup Starting => status = "running"
    /\ pc = "planned" => status = "none"
    /\ pc \notin {"idle", "planned"} => status \in {"running", "rolled_back"}
    /\ pc = "restart" => todo \subseteq stopped
    /\ status = "none" =>
          /\ pc \in {"idle", "planned"} /\ ~ blind /\ ~ botched /\ copy = "none" /\ service = "original" /\ late = {}
          /\ \A a \in Apps : env[a] = "original" /\ entry[a] = "original" /\ waking[a] \in {"no", "original"}
          /\ \A p \in Processes : db[p] # "copy"

\* Where an env file is not what it was, it can be put back or its application is known as unsure.
FilesTell ==
    /\ \A a \in Apps : env[a] = "torn" \/ entry[a] = "off" \/ waking[a] = "off" => a \in unsure
    /\ pc \notin {"idle", "planned"} => \A a \in Apps : env[a] = "copy" => a \in backups

\* Who may write to the copy, on the way forward and at each step of the way back.
Clean == ~ botched /\ service = "original"
OffCopy ==
    /\ \A a \in Apps : env[a] # "copy"
    /\ \A a \in Apps \ touched : entry[a] # "copy"
    /\ \A p \in Processes \ touched : db[p] # "copy"
CopyTells ==
    Clean =>
        /\ status \in {"none", "running", "rolled_back"} => \A a \in Apps : waking[a] = "copy" => a \in touched
        /\ status = "rolled_back" => OffCopy /\ copy = "none"
        /\ pc \in Preparing \cup Stopping =>
              /\ \A a \in Apps \ touched : entry[a] # "copy"
              /\ \A p \in Processes \ touched : db[p] # "copy"
        /\ pc \in Starting \cup {"undoEnv"} =>
              /\ \A a \in Apps \ touched : entry[a] = "copy" => a \in stopped
              /\ \A p \in Processes \ touched : db[p] = "copy" => p \in stopped \cup paused
        /\ pc = "undoApps" =>
              /\ \A a \in Apps : env[a] # "copy"
              /\ \A a \in Apps \ touched : entry[a] = "copy" => a \in todo
              /\ \A p \in Processes \ touched : db[p] = "copy" => p \in todo \cup paused
        /\ pc \in {"drop", "close", "failed"} => OffCopy
        /\ pc \in {"close", "failed"} => copy = "none"

\* Who may write to the original while it is copied: whom the move has not seen.
Unseen == touched \cup (IF blind THEN Workers \cup Crons ELSE {})
OriginalTells ==
    /\ pc = "planned" \/ status = "running" => \A a \in Apps : waking[a] # "no" => a \in touched
    /\ pc \in {"planned"} \cup Preparing => \A a \in Apps \ touched : db[a] # "off" => a \in planned
    /\ pc \in Stopping \cup Starting => \A c \in Crons \ Unseen : db[c] = "off"
    /\ pc = "stop" => \A a \in Apps \ touched : db[a] # "off" => a \in todo
    /\ pc = "pause" => /\ \A a \in Apps \ touched : db[a] = "off"
                       /\ \A w \in Workers \ Unseen : db[w] # "off" => w \in todo
    /\ pc \in {"dump", "compare", "rewrite"} => \A p \in Processes \ Unseen : db[p] = "off"
    /\ pc = "rewrite" => \A a \in Apps \ todo : env[a] = "copy"
    /\ pc \in Starting =>
          /\ \A a \in Apps : env[a] = "copy"
          /\ \A p \in Processes \ (Unseen \cup Injected) : db[p] # "original"
    /\ pc \in Preparing \cup {"stop", "pause", "dump"} => late = {} /\ copy # "exact"
    /\ pc \in {"compare", "rewrite"} \cup Starting => late \subseteq Unseen \cup Injected

\* What ran and does not is what still has to be started.
AllBack == \A p \in (planned \cup paused) \ asleep : {p, Home(p)} \cap unsure = {} => db[p] # "off"
BackTells ==
    ~ botched =>
        /\ status \in {"succeeded", "rolled_back"} => AllBack
        /\ pc \in {"record", "finish", "drop", "close", "failed"} => AllBack
        /\ pc \in {"planned", "restart", "record", "finish", "undoEnv"} \cup Preparing \cup Stopping =>
              \A a \in planned \ asleep : db[a] = "off" => a \in stopped \cup unsure
        /\ pc = "restart" => \A a \in stopped \ (todo \cup unsure \cup asleep) : db[a] # "off"
        /\ pc = "undoApps" => \A a \in planned \ asleep : db[a] = "off" => a \in todo \cup unsure

\* What uses the original after a move.
AppsTell ==
    ~ pressed /\ status = "succeeded" =>
        /\ \A a \in Apps : env[a] = "copy"
        /\ \A a \in Apps \ (Injected \cup touched) : db[a] # "original" /\ waking[a] # "original"

IInv == TypeOK /\ StatusTells /\ FilesTell /\ CopyTells /\ OriginalTells /\ BackTells /\ AppsTell

(***************************************************************************)
(* What a process connects to.                                             *)
(***************************************************************************)

LEMMA Places ==
    /\ \A a \in Apps : Home(a) = a /\ a \in Processes
    /\ \A p \in Workers \cup Crons :
          Home(p) = OwnerOf[p] /\ Home(p) \in Apps /\ p \notin Apps /\ p \notin Injected /\ p \in Processes
    /\ \A p \in Processes : Home(p) \in Apps
  BY Parties DEF Home, Processes

LEMMA UsesKnown ==
    TypeOK => \A p \in Processes :
        /\ Uses(p) \in {"off", "original", "copy"}
        /\ p \in Injected => Uses(p) = service
        /\ p \notin Injected =>
              /\ (Uses(p) = "off") <=> (env[Home(p)] = "torn")
              /\ (Uses(p) = "copy") <=> (env[Home(p)] = "copy")
              /\ (Uses(p) = "original") <=> (env[Home(p)] = "original")
  BY Places DEF TypeOK, Uses

LEMMA UsesTyped == TypeOK => \A p \in Processes : Uses(p) \in {"off", "original", "copy"}
  BY UsesKnown

LEMMA InitIInv == Init => IInv
<1> SUFFICES ASSUME Init PROVE IInv
  OBVIOUS
<1>1. TypeOK
  <2>1. db \in [Processes -> {"off", "original", "copy"}] /\ env \in [Apps -> {"original", "copy", "torn"}]
        /\ entry \in [Apps -> {"off", "original", "copy"}] /\ waking \in [Apps -> {"no", "off", "original", "copy"}]
    BY DEF Init
  <2>2. troubles \in 0..MaxTroubles
    BY Parties DEF Init
  <2> QED BY <2>1, <2>2 DEF Init, TypeOK
<1>2. StatusTells /\ FilesTell
  BY Places DEF Init, StatusTells, FilesTell, Preparing, Stopping, Starting, Processes
<1>3. CopyTells /\ OriginalTells /\ BackTells /\ AppsTell
  BY DEF Init, CopyTells, OriginalTells, BackTells, AppsTell, Preparing, Stopping, Starting
<1> QED BY <1>1, <1>2, <1>3 DEF IInv

(***************************************************************************)
(* Every step keeps each part of the invariant.                            *)
(***************************************************************************)

LEMMA TypeStep == ASSUME IInv, [Next]_vars PROVE TypeOK'
  <1> USE Parties, Places DEF IInv, TypeOK, world, memory, history, others, move, Quiet, Step, Fault,
     Trouble, Throws
  <1>1. CASE Plan  BY <1>1 DEF Plan, Running
  <1>2. CASE StartDatabaseMove  BY <1>2 DEF StartDatabaseMove
  <1>3. CASE Begin  BY <1>3 DEF Begin
  <1>4. CASE LogFails  BY <1>4 DEF LogFails
  <1>5. CASE Create  BY <1>5 DEF Create
  <1>6. CASE AwaitCrons
    <2>1. blind' \in BOOLEAN /\ botched' \in BOOLEAN  BY <1>6, Zenon DEF AwaitCrons, Running
    <2> QED BY <1>6, <2>1 DEF AwaitCrons, Running
  <1>7. ASSUME NEW a \in Apps, StopApp(a) PROVE TypeOK'  BY <1>7 DEF StopApp
  <1>8. CASE ListWorkers
    <2>1. blind' \in BOOLEAN /\ botched' \in BOOLEAN  BY <1>8, Zenon DEF ListWorkers, Concerned, Running
    <2> QED BY <1>8, <2>1 DEF ListWorkers, Concerned, Running
  <1>9. ASSUME NEW w \in Workers, PauseWorker(w) PROVE TypeOK'  BY <1>9 DEF PauseWorker
  <1>10. CASE CheckConnections  BY <1>10 DEF CheckConnections
  <1>11. CASE Dump  BY <1>11 DEF Dump
  <1>12. CASE Compare  BY <1>12 DEF Compare
  <1>13. ASSUME NEW a \in Apps, Rewrite(a) PROVE TypeOK'  BY <1>13 DEF Rewrite
  <1>14. CASE Rewritten  BY <1>14 DEF Rewritten
  <1>15. ASSUME NEW a \in Apps, RestartApp(a) PROVE TypeOK'  BY <1>15, UsesTyped DEF RestartApp, Fresh
  <1>16. CASE ResumeWorkers
    <2>1. blind' \in BOOLEAN /\ botched' \in BOOLEAN  BY <1>16, Zenon DEF ResumeWorkers, Resume
    <2> QED BY <1>16, <2>1, UsesTyped DEF ResumeWorkers, Resume
  <1>17. CASE Record  BY <1>17 DEF Record
  <1>18. CASE Finish  BY <1>18 DEF Finish
  <1>19. CASE RestoreEnv
    <2>1. blind' \in BOOLEAN /\ botched' \in BOOLEAN  BY <1>19, Zenon DEF RestoreEnv, Restored
    <2> QED BY <1>19, <2>1 DEF RestoreEnv, Restored
  <1>20. ASSUME NEW a \in Apps, StartAgain(a) PROVE TypeOK'
    <2>1. blind' \in BOOLEAN /\ botched' \in BOOLEAN  BY <1>20, Zenon DEF StartAgain, Fresh
    <2> QED BY <1>20, <2>1, UsesTyped DEF StartAgain, Fresh
  <1>21. CASE ResumeAgain
    <2>1. blind' \in BOOLEAN /\ botched' \in BOOLEAN  BY <1>21, Zenon DEF ResumeAgain, Resume
    <2> QED BY <1>21, <2>1, UsesTyped DEF ResumeAgain, Resume
  <1>22. CASE DropTarget
    <2>1. blind' \in BOOLEAN /\ botched' \in BOOLEAN  BY <1>22, Zenon DEF DropTarget
    <2> QED BY <1>22, <2>1 DEF DropTarget
  <1>23. CASE Close  BY <1>23 DEF Close
  <1>24. CASE Restart  BY <1>24 DEF Restart
  <1>25. ASSUME NEW p \in Processes, Write(p) PROVE TypeOK'  BY <1>25 DEF Write
  <1>26. ASSUME NEW c \in Crons, CronStarts(c) PROVE TypeOK'  BY <1>26, UsesTyped DEF CronStarts, Due
  <1>27. ASSUME NEW c \in Crons, CronEnds(c) PROVE TypeOK'  BY <1>27 DEF CronEnds
  <1>28. ASSUME NEW p \in Apps \cup Workers, StartByHand(p) PROVE TypeOK'  BY <1>28, UsesTyped DEF StartByHand, Touch, Beside
  <1>29. ASSUME NEW p \in Apps \cup Workers, StopBeside(p) PROVE TypeOK'  BY <1>29 DEF StopBeside
  <1>30. ASSUME NEW a \in Apps, Wake(a) PROVE TypeOK'  BY <1>30, UsesTyped DEF Wake, Touch, Beside
  <1>31. ASSUME NEW a \in Apps, Awake(a) PROVE TypeOK'  BY <1>31 DEF Awake, Touch, Beside
  <1>32. CASE UNCHANGED vars  BY <1>32 DEF vars
  <1> HIDE DEF IInv, TypeOK, world, memory, history, others, move, Quiet, Step, Fault, Trouble, Throws
  <1> QED
    BY <1>1, <1>2, <1>3, <1>4, <1>5, <1>6, <1>7, <1>8, <1>9, <1>10, <1>11, <1>12, <1>13, <1>14, <1>15,
       <1>16, <1>17, <1>18, <1>19, <1>20, <1>21, <1>22, <1>23, <1>24, <1>25, <1>26, <1>27, <1>28, <1>29,
       <1>30, <1>31, <1>32 DEF Next, MoveStep, RollBack

LEMMA StatusStep == ASSUME IInv, [Next]_vars PROVE StatusTells'
  <1> USE Parties, Places DEF IInv, TypeOK, world, memory, history, others, move, Quiet, Step, Fault,
     Trouble, Throws, Preparing, Stopping, Starting, StatusTells
  <1>1. CASE Plan  BY <1>1 DEF Plan, Running
  <1>2. CASE StartDatabaseMove  BY <1>2 DEF StartDatabaseMove
  <1>3. CASE Begin  BY <1>3 DEF Begin
  <1>4. CASE LogFails  BY <1>4 DEF LogFails
  <1>5. CASE Create  BY <1>5 DEF Create
  <1>6. CASE AwaitCrons  BY <1>6 DEF AwaitCrons, Running
  <1>7. ASSUME NEW a \in Apps, StopApp(a) PROVE StatusTells'  BY <1>7 DEF StopApp
  <1>8. CASE ListWorkers  BY <1>8 DEF ListWorkers, Concerned, Running
  <1>9. ASSUME NEW w \in Workers, PauseWorker(w) PROVE StatusTells'  BY <1>9 DEF PauseWorker
  <1>10. CASE CheckConnections  BY <1>10 DEF CheckConnections
  <1>11. CASE Dump  BY <1>11 DEF Dump
  <1>12. CASE Compare  BY <1>12 DEF Compare
  <1>13. ASSUME NEW a \in Apps, Rewrite(a) PROVE StatusTells'  BY <1>13 DEF Rewrite
  <1>14. CASE Rewritten  BY <1>14 DEF Rewritten
  <1>15. ASSUME NEW a \in Apps, RestartApp(a) PROVE StatusTells'  BY <1>15, UsesKnown DEF RestartApp, Fresh
  <1>16. CASE ResumeWorkers  BY <1>16, UsesKnown DEF ResumeWorkers, Resume
  <1>17. CASE Record  BY <1>17 DEF Record
  <1>18. CASE Finish  BY <1>18 DEF Finish
  <1>19. CASE RestoreEnv  BY <1>19 DEF RestoreEnv, Restored
  <1>20. ASSUME NEW a \in Apps, StartAgain(a) PROVE StatusTells'  BY <1>20, UsesKnown DEF StartAgain, Fresh
  <1>21. CASE ResumeAgain  BY <1>21, UsesKnown DEF ResumeAgain, Resume
  <1>22. CASE DropTarget  BY <1>22 DEF DropTarget
  <1>23. CASE Close  BY <1>23 DEF Close
  <1>24. CASE Restart  BY <1>24 DEF Restart
  <1>25. ASSUME NEW p \in Processes, Write(p) PROVE StatusTells'  BY <1>25 DEF Write
  <1>26. ASSUME NEW c \in Crons, CronStarts(c) PROVE StatusTells'  BY <1>26, UsesKnown DEF CronStarts, Due
  <1>27. ASSUME NEW c \in Crons, CronEnds(c) PROVE StatusTells'  BY <1>27 DEF CronEnds
  <1>28. ASSUME NEW p \in Apps \cup Workers, StartByHand(p) PROVE StatusTells'  BY <1>28, UsesKnown DEF StartByHand, Touch, Beside
  <1>29. ASSUME NEW p \in Apps \cup Workers, StopBeside(p) PROVE StatusTells'  BY <1>29 DEF StopBeside
  <1>30. ASSUME NEW a \in Apps, Wake(a) PROVE StatusTells'  BY <1>30, UsesKnown DEF Wake, Touch, Beside
  <1>31. ASSUME NEW a \in Apps, Awake(a) PROVE StatusTells'  BY <1>31 DEF Awake, Touch, Beside
  <1>32. CASE UNCHANGED vars  BY <1>32 DEF vars
  <1> HIDE DEF IInv, TypeOK, world, memory, history, others, move, Quiet, Step, Fault, Trouble, Throws,
     Preparing, Stopping, Starting, StatusTells
  <1> QED
    BY <1>1, <1>2, <1>3, <1>4, <1>5, <1>6, <1>7, <1>8, <1>9, <1>10, <1>11, <1>12, <1>13, <1>14, <1>15,
       <1>16, <1>17, <1>18, <1>19, <1>20, <1>21, <1>22, <1>23, <1>24, <1>25, <1>26, <1>27, <1>28, <1>29,
       <1>30, <1>31, <1>32 DEF Next, MoveStep, RollBack

LEMMA FilesStep == ASSUME IInv, [Next]_vars PROVE FilesTell'
  <1> USE Parties, Places DEF IInv, TypeOK, world, memory, history, others, move, Quiet, Step, Fault,
     Trouble, Throws, Preparing, Stopping, Starting, StatusTells, FilesTell
  <1>1. CASE Plan  BY <1>1 DEF Plan, Running
  <1>2. CASE StartDatabaseMove  BY <1>2 DEF StartDatabaseMove
  <1>3. CASE Begin  BY <1>3 DEF Begin
  <1>4. CASE LogFails  BY <1>4 DEF LogFails
  <1>5. CASE Create  BY <1>5 DEF Create
  <1>6. CASE AwaitCrons  BY <1>6 DEF AwaitCrons, Running
  <1>7. ASSUME NEW a \in Apps, StopApp(a) PROVE FilesTell'  BY <1>7 DEF StopApp
  <1>8. CASE ListWorkers  BY <1>8 DEF ListWorkers, Concerned, Running
  <1>9. ASSUME NEW w \in Workers, PauseWorker(w) PROVE FilesTell'  BY <1>9 DEF PauseWorker
  <1>10. CASE CheckConnections  BY <1>10 DEF CheckConnections
  <1>11. CASE Dump  BY <1>11 DEF Dump
  <1>12. CASE Compare  BY <1>12 DEF Compare
  <1>13. ASSUME NEW a \in Apps, Rewrite(a) PROVE FilesTell'  BY <1>13 DEF Rewrite
  <1>14. CASE Rewritten  BY <1>14 DEF Rewritten
  <1>15. ASSUME NEW a \in Apps, RestartApp(a) PROVE FilesTell'  BY <1>15, UsesKnown DEF RestartApp, Fresh
  <1>16. CASE ResumeWorkers  BY <1>16, UsesKnown DEF ResumeWorkers, Resume
  <1>17. CASE Record  BY <1>17 DEF Record
  <1>18. CASE Finish  BY <1>18 DEF Finish
  <1>19. CASE RestoreEnv  BY <1>19 DEF RestoreEnv, Restored
  <1>20. ASSUME NEW a \in Apps, StartAgain(a) PROVE FilesTell'  BY <1>20, UsesKnown DEF StartAgain, Fresh
  <1>21. CASE ResumeAgain  BY <1>21, UsesKnown DEF ResumeAgain, Resume
  <1>22. CASE DropTarget  BY <1>22 DEF DropTarget
  <1>23. CASE Close  BY <1>23 DEF Close
  <1>24. CASE Restart  BY <1>24 DEF Restart
  <1>25. ASSUME NEW p \in Processes, Write(p) PROVE FilesTell'  BY <1>25 DEF Write
  <1>26. ASSUME NEW c \in Crons, CronStarts(c) PROVE FilesTell'  BY <1>26, UsesKnown DEF CronStarts, Due
  <1>27. ASSUME NEW c \in Crons, CronEnds(c) PROVE FilesTell'  BY <1>27 DEF CronEnds
  <1>28. ASSUME NEW p \in Apps \cup Workers, StartByHand(p) PROVE FilesTell'  BY <1>28, UsesKnown DEF StartByHand, Touch, Beside
  <1>29. ASSUME NEW p \in Apps \cup Workers, StopBeside(p) PROVE FilesTell'  BY <1>29 DEF StopBeside
  <1>30. ASSUME NEW a \in Apps, Wake(a) PROVE FilesTell'  BY <1>30, UsesKnown DEF Wake, Touch, Beside
  <1>31. ASSUME NEW a \in Apps, Awake(a) PROVE FilesTell'  BY <1>31 DEF Awake, Touch, Beside
  <1>32. CASE UNCHANGED vars  BY <1>32 DEF vars
  <1> HIDE DEF IInv, TypeOK, world, memory, history, others, move, Quiet, Step, Fault, Trouble, Throws,
     Preparing, Stopping, Starting, StatusTells, FilesTell
  <1> QED
    BY <1>1, <1>2, <1>3, <1>4, <1>5, <1>6, <1>7, <1>8, <1>9, <1>10, <1>11, <1>12, <1>13, <1>14, <1>15,
       <1>16, <1>17, <1>18, <1>19, <1>20, <1>21, <1>22, <1>23, <1>24, <1>25, <1>26, <1>27, <1>28, <1>29,
       <1>30, <1>31, <1>32 DEF Next, MoveStep, RollBack

LEMMA CopyStep == ASSUME IInv, [Next]_vars PROVE CopyTells'
  <1> USE Parties, Places DEF IInv, TypeOK, world, memory, history, others, move, Quiet, Step, Fault,
     Trouble, Throws, Preparing, Stopping, Starting, StatusTells, FilesTell, CopyTells, Clean, OffCopy
  <1>1. CASE Plan  BY <1>1 DEF Plan, Running
  <1>2. CASE StartDatabaseMove  BY <1>2 DEF StartDatabaseMove
  <1>3. CASE Begin  BY <1>3 DEF Begin
  <1>4. CASE LogFails  BY <1>4 DEF LogFails
  <1>5. CASE Create  BY <1>5 DEF Create
  <1>6. CASE AwaitCrons  BY <1>6 DEF AwaitCrons, Running
  <1>7. ASSUME NEW a \in Apps, StopApp(a) PROVE CopyTells'  BY <1>7 DEF StopApp
  <1>8. CASE ListWorkers  BY <1>8 DEF ListWorkers, Concerned, Running
  <1>9. ASSUME NEW w \in Workers, PauseWorker(w) PROVE CopyTells'  BY <1>9 DEF PauseWorker
  <1>10. CASE CheckConnections  BY <1>10 DEF CheckConnections
  <1>11. CASE Dump  BY <1>11 DEF Dump
  <1>12. CASE Compare  BY <1>12 DEF Compare
  <1>13. ASSUME NEW a \in Apps, Rewrite(a) PROVE CopyTells'  BY <1>13 DEF Rewrite
  <1>14. CASE Rewritten  BY <1>14 DEF Rewritten
  <1>15. ASSUME NEW a \in Apps, RestartApp(a) PROVE CopyTells'  BY <1>15, UsesKnown DEF RestartApp, Fresh
  <1>16. CASE ResumeWorkers  BY <1>16, UsesKnown DEF ResumeWorkers, Resume
  <1>17. CASE Record  BY <1>17 DEF Record
  <1>18. CASE Finish  BY <1>18 DEF Finish
  <1>19. CASE RestoreEnv  BY <1>19 DEF RestoreEnv, Restored
  <1>20. ASSUME NEW a \in Apps, StartAgain(a) PROVE CopyTells'  BY <1>20, UsesKnown DEF StartAgain, Fresh
  <1>21. CASE ResumeAgain  BY <1>21, UsesKnown DEF ResumeAgain, Resume
  <1>22. CASE DropTarget  BY <1>22 DEF DropTarget
  <1>23. CASE Close  BY <1>23 DEF Close
  <1>24. CASE Restart  BY <1>24 DEF Restart
  <1>25. ASSUME NEW p \in Processes, Write(p) PROVE CopyTells'  BY <1>25 DEF Write
  <1>26. ASSUME NEW c \in Crons, CronStarts(c) PROVE CopyTells'  BY <1>26, UsesKnown DEF CronStarts, Due
  <1>27. ASSUME NEW c \in Crons, CronEnds(c) PROVE CopyTells'  BY <1>27 DEF CronEnds
  <1>28. ASSUME NEW p \in Apps \cup Workers, StartByHand(p) PROVE CopyTells'  BY <1>28, UsesKnown DEF StartByHand, Touch, Beside
  <1>29. ASSUME NEW p \in Apps \cup Workers, StopBeside(p) PROVE CopyTells'  BY <1>29 DEF StopBeside
  <1>30. ASSUME NEW a \in Apps, Wake(a) PROVE CopyTells'  BY <1>30, UsesKnown DEF Wake, Touch, Beside
  <1>31. ASSUME NEW a \in Apps, Awake(a) PROVE CopyTells'  BY <1>31 DEF Awake, Touch, Beside
  <1>32. CASE UNCHANGED vars  BY <1>32 DEF vars
  <1> HIDE DEF IInv, TypeOK, world, memory, history, others, move, Quiet, Step, Fault, Trouble, Throws,
     Preparing, Stopping, Starting, StatusTells, FilesTell, CopyTells, Clean, OffCopy
  <1> QED
    BY <1>1, <1>2, <1>3, <1>4, <1>5, <1>6, <1>7, <1>8, <1>9, <1>10, <1>11, <1>12, <1>13, <1>14, <1>15,
       <1>16, <1>17, <1>18, <1>19, <1>20, <1>21, <1>22, <1>23, <1>24, <1>25, <1>26, <1>27, <1>28, <1>29,
       <1>30, <1>31, <1>32 DEF Next, MoveStep, RollBack

LEMMA OriginalStep == ASSUME IInv, [Next]_vars PROVE OriginalTells'
  <1> USE Parties, Places DEF IInv, TypeOK, world, memory, history, others, move, Quiet, Step, Fault,
     Trouble, Throws, Preparing, Stopping, Starting, StatusTells, OriginalTells, Unseen
  <1>1. CASE Plan  BY <1>1 DEF Plan, Running
  <1>2. CASE StartDatabaseMove  BY <1>2 DEF StartDatabaseMove
  <1>3. CASE Begin  BY <1>3 DEF Begin
  <1>4. CASE LogFails  BY <1>4 DEF LogFails
  <1>5. CASE Create  BY <1>5 DEF Create
  <1>6. CASE AwaitCrons  BY <1>6 DEF AwaitCrons, Running
  <1>7. ASSUME NEW a \in Apps, StopApp(a) PROVE OriginalTells'  BY <1>7 DEF StopApp
  <1>8. CASE ListWorkers  BY <1>8 DEF ListWorkers, Concerned, Running
  <1>9. ASSUME NEW w \in Workers, PauseWorker(w) PROVE OriginalTells'  BY <1>9 DEF PauseWorker
  <1>10. CASE CheckConnections
    <2>1. CASE pc' = "dump"
      <3>1. \A p \in Processes \ Unseen : db[p] = "off"
        <4>1. pc = "pause" /\ todo = {}  BY <1>10, <2>1 DEF CheckConnections
        <4> QED BY <4>1 DEF Processes
      <3> QED BY <1>10, <2>1, <3>1 DEF CheckConnections
    <2>2. CASE pc' # "dump"  BY <1>10, <2>2 DEF CheckConnections
    <2> QED BY <2>1, <2>2
  <1>11. CASE Dump  BY <1>11 DEF Dump
  <1>12. CASE Compare  BY <1>12 DEF Compare
  <1>13. ASSUME NEW a \in Apps, Rewrite(a) PROVE OriginalTells'  BY <1>13 DEF Rewrite
  <1>14. CASE Rewritten  BY <1>14 DEF Rewritten
  <1>15. ASSUME NEW a \in Apps, RestartApp(a) PROVE OriginalTells'  BY <1>15, UsesKnown DEF RestartApp, Fresh
  <1>16. CASE ResumeWorkers  BY <1>16, UsesKnown DEF ResumeWorkers, Resume
  <1>17. CASE Record  BY <1>17 DEF Record
  <1>18. CASE Finish  BY <1>18 DEF Finish
  <1>19. CASE RestoreEnv  BY <1>19 DEF RestoreEnv, Restored
  <1>20. ASSUME NEW a \in Apps, StartAgain(a) PROVE OriginalTells'  BY <1>20, UsesKnown DEF StartAgain, Fresh
  <1>21. CASE ResumeAgain  BY <1>21, UsesKnown DEF ResumeAgain, Resume
  <1>22. CASE DropTarget  BY <1>22 DEF DropTarget
  <1>23. CASE Close  BY <1>23 DEF Close
  <1>24. CASE Restart  BY <1>24 DEF Restart
  <1>25. ASSUME NEW p \in Processes, Write(p) PROVE OriginalTells'
    <2>1. pc \notin Preparing \cup {"stop", "pause", "dump"} /\ status = "running"  BY <1>25 DEF Write
    <2>2. CASE pc \in {"compare", "rewrite"} \cup Starting
      <3>1. p \in Unseen \cup Injected  BY <1>25, <2>2 DEF Write
      <3> QED BY <1>25, <2>2, <3>1 DEF Write
    <2>3. CASE pc \notin {"compare", "rewrite"} \cup Starting  BY <1>25, <2>1, <2>3 DEF Write
    <2> QED BY <2>2, <2>3
  <1>26. ASSUME NEW c \in Crons, CronStarts(c) PROVE OriginalTells'  BY <1>26, UsesKnown DEF CronStarts, Due
  <1>27. ASSUME NEW c \in Crons, CronEnds(c) PROVE OriginalTells'  BY <1>27 DEF CronEnds
  <1>28. ASSUME NEW p \in Apps \cup Workers, StartByHand(p) PROVE OriginalTells'  BY <1>28, UsesKnown DEF StartByHand, Touch, Beside
  <1>29. ASSUME NEW p \in Apps \cup Workers, StopBeside(p) PROVE OriginalTells'  BY <1>29 DEF StopBeside
  <1>30. ASSUME NEW a \in Apps, Wake(a) PROVE OriginalTells'  BY <1>30, UsesKnown DEF Wake, Touch, Beside
  <1>31. ASSUME NEW a \in Apps, Awake(a) PROVE OriginalTells'  BY <1>31 DEF Awake, Touch, Beside
  <1>32. CASE UNCHANGED vars  BY <1>32 DEF vars
  <1> HIDE DEF IInv, TypeOK, world, memory, history, others, move, Quiet, Step, Fault, Trouble, Throws,
     Preparing, Stopping, Starting, StatusTells, OriginalTells, Unseen
  <1> QED
    BY <1>1, <1>2, <1>3, <1>4, <1>5, <1>6, <1>7, <1>8, <1>9, <1>10, <1>11, <1>12, <1>13, <1>14, <1>15,
       <1>16, <1>17, <1>18, <1>19, <1>20, <1>21, <1>22, <1>23, <1>24, <1>25, <1>26, <1>27, <1>28, <1>29,
       <1>30, <1>31, <1>32 DEF Next, MoveStep, RollBack

LEMMA BackStep == ASSUME IInv, [Next]_vars PROVE BackTells'
  <1> USE Parties, Places DEF IInv, TypeOK, world, memory, history, others, move, Quiet, Step, Fault,
     Trouble, Throws, Preparing, Stopping, Starting, StatusTells, FilesTell, BackTells, AllBack, Home
  <1>1. CASE Plan  BY <1>1 DEF Plan, Running
  <1>2. CASE StartDatabaseMove  BY <1>2 DEF StartDatabaseMove
  <1>3. CASE Begin  BY <1>3 DEF Begin
  <1>4. CASE LogFails  BY <1>4 DEF LogFails
  <1>5. CASE Create  BY <1>5 DEF Create
  <1>6. CASE AwaitCrons  BY <1>6 DEF AwaitCrons, Running
  <1>7. ASSUME NEW a \in Apps, StopApp(a) PROVE BackTells'  BY <1>7 DEF StopApp
  <1>8. CASE ListWorkers  BY <1>8 DEF ListWorkers, Concerned, Running
  <1>9. ASSUME NEW w \in Workers, PauseWorker(w) PROVE BackTells'  BY <1>9 DEF PauseWorker
  <1>10. CASE CheckConnections  BY <1>10 DEF CheckConnections
  <1>11. CASE Dump  BY <1>11 DEF Dump
  <1>12. CASE Compare  BY <1>12 DEF Compare
  <1>13. ASSUME NEW a \in Apps, Rewrite(a) PROVE BackTells'  BY <1>13 DEF Rewrite
  <1>14. CASE Rewritten  BY <1>14 DEF Rewritten
  <1>15. ASSUME NEW a \in Apps, RestartApp(a) PROVE BackTells'  BY <1>15, UsesKnown DEF RestartApp, Fresh
  <1>16. CASE ResumeWorkers  BY <1>16, UsesKnown DEF ResumeWorkers, Resume
  <1>17. CASE Record  BY <1>17 DEF Record
  <1>18. CASE Finish  BY <1>18 DEF Finish
  <1>19. CASE RestoreEnv  BY <1>19 DEF RestoreEnv, Restored
  <1>20. ASSUME NEW a \in Apps, StartAgain(a) PROVE BackTells'  BY <1>20, UsesKnown DEF StartAgain, Fresh
  <1>21. CASE ResumeAgain  BY <1>21, UsesKnown DEF ResumeAgain, Resume
  <1>22. CASE DropTarget  BY <1>22 DEF DropTarget
  <1>23. CASE Close  BY <1>23 DEF Close
  <1>24. CASE Restart  BY <1>24 DEF Restart
  <1>25. ASSUME NEW p \in Processes, Write(p) PROVE BackTells'  BY <1>25 DEF Write
  <1>26. ASSUME NEW c \in Crons, CronStarts(c) PROVE BackTells'  BY <1>26, UsesKnown DEF CronStarts, Due
  <1>27. ASSUME NEW c \in Crons, CronEnds(c) PROVE BackTells'  BY <1>27 DEF CronEnds
  <1>28. ASSUME NEW p \in Apps \cup Workers, StartByHand(p) PROVE BackTells'  BY <1>28, UsesKnown DEF StartByHand, Touch, Beside
  <1>29. ASSUME NEW p \in Apps \cup Workers, StopBeside(p) PROVE BackTells'  BY <1>29 DEF StopBeside
  <1>30. ASSUME NEW a \in Apps, Wake(a) PROVE BackTells'  BY <1>30, UsesKnown DEF Wake, Touch, Beside
  <1>31. ASSUME NEW a \in Apps, Awake(a) PROVE BackTells'  BY <1>31 DEF Awake, Touch, Beside
  <1>32. CASE UNCHANGED vars  BY <1>32 DEF vars
  <1> HIDE DEF IInv, TypeOK, world, memory, history, others, move, Quiet, Step, Fault, Trouble, Throws,
     Preparing, Stopping, Starting, StatusTells, FilesTell, BackTells, AllBack, Home
  <1> QED
    BY <1>1, <1>2, <1>3, <1>4, <1>5, <1>6, <1>7, <1>8, <1>9, <1>10, <1>11, <1>12, <1>13, <1>14, <1>15,
       <1>16, <1>17, <1>18, <1>19, <1>20, <1>21, <1>22, <1>23, <1>24, <1>25, <1>26, <1>27, <1>28, <1>29,
       <1>30, <1>31, <1>32 DEF Next, MoveStep, RollBack

LEMMA AppsStep == ASSUME IInv, [Next]_vars PROVE AppsTell'
  <1> USE Parties, Places DEF IInv, TypeOK, world, memory, history, others, move, Quiet, Step, Fault,
     Trouble, Throws, Preparing, Stopping, Starting, StatusTells, OriginalTells, Unseen, AppsTell
  <1>1. CASE Plan  BY <1>1 DEF Plan, Running
  <1>2. CASE StartDatabaseMove  BY <1>2 DEF StartDatabaseMove
  <1>3. CASE Begin  BY <1>3 DEF Begin
  <1>4. CASE LogFails  BY <1>4 DEF LogFails
  <1>5. CASE Create  BY <1>5 DEF Create
  <1>6. CASE AwaitCrons  BY <1>6 DEF AwaitCrons, Running
  <1>7. ASSUME NEW a \in Apps, StopApp(a) PROVE AppsTell'  BY <1>7 DEF StopApp
  <1>8. CASE ListWorkers  BY <1>8 DEF ListWorkers, Concerned, Running
  <1>9. ASSUME NEW w \in Workers, PauseWorker(w) PROVE AppsTell'  BY <1>9 DEF PauseWorker
  <1>10. CASE CheckConnections  BY <1>10 DEF CheckConnections
  <1>11. CASE Dump  BY <1>11 DEF Dump
  <1>12. CASE Compare  BY <1>12 DEF Compare
  <1>13. ASSUME NEW a \in Apps, Rewrite(a) PROVE AppsTell'  BY <1>13 DEF Rewrite
  <1>14. CASE Rewritten  BY <1>14 DEF Rewritten
  <1>15. ASSUME NEW a \in Apps, RestartApp(a) PROVE AppsTell'  BY <1>15, UsesKnown DEF RestartApp, Fresh
  <1>16. CASE ResumeWorkers  BY <1>16, UsesKnown DEF ResumeWorkers, Resume
  <1>17. CASE Record  BY <1>17 DEF Record
  <1>18. CASE Finish  BY <1>18 DEF Finish
  <1>19. CASE RestoreEnv  BY <1>19 DEF RestoreEnv, Restored
  <1>20. ASSUME NEW a \in Apps, StartAgain(a) PROVE AppsTell'  BY <1>20, UsesKnown DEF StartAgain, Fresh
  <1>21. CASE ResumeAgain  BY <1>21, UsesKnown DEF ResumeAgain, Resume
  <1>22. CASE DropTarget  BY <1>22 DEF DropTarget
  <1>23. CASE Close  BY <1>23 DEF Close
  <1>24. CASE Restart  BY <1>24 DEF Restart
  <1>25. ASSUME NEW p \in Processes, Write(p) PROVE AppsTell'  BY <1>25 DEF Write
  <1>26. ASSUME NEW c \in Crons, CronStarts(c) PROVE AppsTell'  BY <1>26, UsesKnown DEF CronStarts, Due
  <1>27. ASSUME NEW c \in Crons, CronEnds(c) PROVE AppsTell'  BY <1>27 DEF CronEnds
  <1>28. ASSUME NEW p \in Apps \cup Workers, StartByHand(p) PROVE AppsTell'  BY <1>28, UsesKnown DEF StartByHand, Touch, Beside
  <1>29. ASSUME NEW p \in Apps \cup Workers, StopBeside(p) PROVE AppsTell'  BY <1>29 DEF StopBeside
  <1>30. ASSUME NEW a \in Apps, Wake(a) PROVE AppsTell'  BY <1>30, UsesKnown DEF Wake, Touch, Beside
  <1>31. ASSUME NEW a \in Apps, Awake(a) PROVE AppsTell'  BY <1>31 DEF Awake, Touch, Beside
  <1>32. CASE UNCHANGED vars  BY <1>32 DEF vars
  <1> HIDE DEF IInv, TypeOK, world, memory, history, others, move, Quiet, Step, Fault, Trouble, Throws,
     Preparing, Stopping, Starting, StatusTells, OriginalTells, Unseen, AppsTell
  <1> QED
    BY <1>1, <1>2, <1>3, <1>4, <1>5, <1>6, <1>7, <1>8, <1>9, <1>10, <1>11, <1>12, <1>13, <1>14, <1>15,
       <1>16, <1>17, <1>18, <1>19, <1>20, <1>21, <1>22, <1>23, <1>24, <1>25, <1>26, <1>27, <1>28, <1>29,
       <1>30, <1>31, <1>32 DEF Next, MoveStep, RollBack

LEMMA NextIInv == IInv /\ [Next]_vars => IInv'
  BY TypeStep, StatusStep, FilesStep, CopyStep, OriginalStep, BackStep, AppsStep DEF IInv

LEMMA Inductive == Spec => []IInv
  BY InitIInv, NextIInv, PTL DEF Spec

(***************************************************************************)
(* What follows.                                                           *)
(***************************************************************************)

\* The row, the processes, the files and what runMove remembers keep values of their kinds.
THEOREM TypeCorrect == Spec => []TypeOK
<1>1. IInv => TypeOK
  BY DEF IInv
<1> QED BY <1>1, Inductive, PTL

\* What is missing in the copy when a move is about to succeed was written by somebody who was started
\* or woken beside it, whom Manager's records override, or whom a failed check has passed.
THEOREM WritesAreCopied == Spec => []NoLostWrites
<1>1. IInv => NoLostWrites
  BY DEF IInv, OriginalTells, Unseen, NoLostWrites, Starting
<1> QED BY <1>1, Inductive, PTL

\* After a rollback of which no step failed, files and processes are on the original, but for those
\* that were started or woken beside the move.
THEOREM RolledBackMeansOriginal == Spec => []BackOnOriginal
<1>1. IInv => BackOnOriginal
  BY DEF IInv, TypeOK, FilesTell, CopyTells, Clean, OffCopy, BackOnOriginal
<1> QED BY <1>1, Inductive, PTL

\* However a move ends, what it has stopped runs again, unless somebody else has stopped it since.
THEOREM StoppedComesBack == Spec => []EverythingBack
<1>1. IInv => EverythingBack
  BY DEF IInv, BackTells, AllBack, EverythingBack
<1> QED BY <1>1, Inductive, PTL

\* As long as nobody has pressed a start button, a move that succeeded has taken every application off
\* the original whose env file decides (rewriteEnvLocation, then the restart) and that no visit has
\* woken beside it: the part of MovedMeansMoved that holds beside applications with an override.
THEOREM OwnAppsAreMoved ==
    Spec => [](~ pressed /\ status = "succeeded" => \A a \in Apps \ (Injected \cup touched) : db[a] # "original")
<1>1. IInv => (~ pressed /\ status = "succeeded" => \A a \in Apps \ (Injected \cup touched) : db[a] # "original")
  BY DEF IInv, AppsTell
<1> QED BY <1>1, Inductive, PTL

\* Where Manager's records override nobody, MovedMeansMoved holds until a start button is pressed.
THEOREM MovedWithoutOverride ==
    ASSUME Injected = {}
    PROVE  Spec => [](~ pressed => MovedMeansMoved)
<1>1. IInv => (~ pressed => MovedMeansMoved)
  BY DEF IInv, AppsTell, MovedMeansMoved
<1> QED BY <1>1, Inductive, PTL
=============================================================================

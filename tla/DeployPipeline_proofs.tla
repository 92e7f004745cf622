----------------------- MODULE DeployPipeline_proofs -----------------------
(***************************************************************************)
(* Proofs about DeployPipeline for any set of workers, any number of       *)
(* failing calls and of hands on the processes: what failed is put back,   *)
(* what was accepted stays, the domains reach a process, and files change  *)
(* only under stopped processes.                                           *)
(***************************************************************************)
EXTENDS DeployPipeline, TLAPS

Moved    == {"start", "stage", "health", "return", "unpreview", "active"}
Started  == {"stage", "health", "return", "unpreview", "active"}
OnOld    == {"restart", "restop", "rehealth", "resave"}
Tidying  == {"reworkers", "reproxy", "cleanup", "final"}
TidiedUp == {"reproxy", "cleanup", "final", "closed"}
Fresh    == {"preview", "previewHealth", "previewDone", "snapshot"}
Activated == "activating" \in flags
Accepted  == "accepted" \in flags
Withdrawn == Activated /\ ~Accepted /\ Recoverable /\ pc \in Tidying \cup {"closed"}

\* Which of the loop's Boolean variables are true where.
FlagsTell ==
    /\ pc \in Trying \cup {"delete"} => ~Activated
    /\ pc \in (Placing \ {"delete"}) \cup Closing \cup Undoing => Activated
    /\ Accepted => Activated /\ pc \in Closing \cup {"catch"} \cup Tidying \cup Ended
    /\ pc \in Closing => Accepted
    /\ pc \in Trying \cup Placing \cup Closing \cup Undoing \cup {"catch"} => Recoverable

\* Which release lies at the root.
RootTells ==
    /\ ~Activated \/ pc \in {"activate"} \cup OnOld \/ Withdrawn => root = "old"
    /\ Accepted \/ pc \in Moved => root = "new"
    /\ Accepted => active
    /\ Accepted /\ pc = "closed" /\ faults = 0 => row = "success"

\* What previousStatus remembers of the process found.
Found == IF setup.app = "old" THEN "online" ELSE setup.app

\* What PM2 runs, as long as nobody else starts or stops it.
AppTells == hands = 0 =>
    /\ ~Activated => app = setup.app
    /\ pc \in {"activate", "start", "rollback", "restart"} => app = "missing"
    /\ Accepted \/ pc \in Started => app = "new"
    /\ pc = "restart" => before # "missing"
    /\ pc \in {"restop", "rehealth"} => app = "old"
    /\ pc = "restop" => setup.app = "stopped"
    /\ pc = "rehealth" => setup.app = "old"
    /\ pc = "resave" \/ Withdrawn =>
          app = setup.app \/ (setup.app = "errored" /\ app = "old")
    /\ Activated \/ pc \in (Trying \ Fresh) \cup {"delete"} => before = Found

\* Which workers run, as long as nobody else starts or stops them.
WorkersTell == hands = 0 =>
    /\ pc = "pause" => online \subseteq left \cup overlooked
    /\ pc \in {"handoff"} \cup Placing \cup Undoing => online \subseteq overlooked
    /\ pc = "catch" /\ Activated /\ ~Accepted => online \subseteq overlooked
    /\ ~Accepted => setup.online \subseteq online \cup paused
    /\ pc = "reworkers" /\ ~Accepted /\ Recoverable =>
          "worker" \in warned \/ setup.online \subseteq online \cup left
    /\ pc \in TidiedUp /\ ~Accepted /\ Recoverable =>
          "worker" \in warned \/ setup.online \subseteq online

\* The candidate's process is there as long as the domains go to it.
CandidateTells ==
    /\ "caddyOnPreview" \in flags => preview
    /\ pc \in Trying \cup {"unpreview", "active"} \cup Closing => "caddyOnPreview" \notin flags
    /\ pc = "handoff" \/ "caddyOnPreview" \in flags => setup.kind = "handoff"
    /\ pc = "previewDone" => setup.kind # "handoff"
    /\ setup.kind = "handoff" =>
          /\ pc \in Trying \ {"preview"} => preview
          /\ pc \in {"delete", "activate", "start", "stage", "health", "return"} =>
                "caddyOnPreview" \in flags

IInv == TypeOK /\ FlagsTell /\ RootTells /\ AppTells /\ WorkersTell /\ CandidateTells

\* What a step does to the loop's variables.
LEMMA LoopTypesStep == TypeOK /\ [Next]_vars => LoopTypes'
<1> SUFFICES ASSUME TypeOK, [Next]_vars PROVE LoopTypes'
  OBVIOUS
<1> USE PipelineConstants DEF LoopTypes, TypeOK, Kinds, Apps, Trying, Placing,
        Closing, Caught, Ended, Flags, WorldTypes, Up, Undoing, Handler, Leads, Failed,
        Applied, Flag, FilesKept, RowsKept, Kept, Throw, Pass, DeletePreview, Route,
        Nothing, Undo, Tries, Warn, Hand, program, pm2, rows
<1>1. CASE Check            BY <1>1 DEF Check, Checked
<1>2. CASE Unhealthy        BY <1>2 DEF Unhealthy
<1>3. CASE StartPreview     BY <1>3 DEF StartPreview
<1>4. CASE PreviewHealthy   BY <1>4 DEF PreviewHealthy
<1>5. CASE StopPreview      BY <1>5 DEF StopPreview
<1>6. CASE Snapshot         BY <1>6 DEF Snapshot
<1>7. CASE WaitForCron      BY <1>7 DEF WaitForCron
<1>8. CASE GiveUp           BY <1>8 DEF GiveUp
<1>9. ASSUME NEW w \in Workers, Pause(w) \/ Overlook(w) PROVE LoopTypes'
  <2>1. CASE Pause(w)       BY <2>1 DEF Pause
  <2>2. CASE Overlook(w)    BY <2>2 DEF Overlook
  <2> QED                   BY <1>9, <2>1, <2>2
<1>10. CASE Paused          BY <1>10 DEF Paused
<1>11. CASE Handoff         BY <1>11 DEF Handoff
<1>12. CASE DeleteApp       BY <1>12 DEF DeleteApp
<1>13. CASE Activate        BY <1>13 DEF Activate
<1>14. CASE StartNew        BY <1>14 DEF StartNew
<1>15. CASE Stage           BY <1>15 DEF Stage
<1>16. CASE Healthy         BY <1>16 DEF Healthy
<1>17. CASE Return          BY <1>17 DEF Return
<1>18. CASE Remove          BY <1>18 DEF Remove
<1>19. CASE Accept          BY <1>19 DEF Accept
<1>20. CASE Complete        BY <1>20 DEF Complete
<1>21. ASSUME NEW w \in Workers, RestartWorker(w) PROVE LoopTypes'
  BY <1>21 DEF RestartWorker
<1>22. CASE WorkersBack     BY <1>22 DEF WorkersBack
<1>23. CASE SaveList        BY <1>23 DEF SaveList
<1>24. CASE Push            BY <1>24 DEF Push
<1>25. CASE Finish          BY <1>25 DEF Finish
<1>26. CASE Catch           BY <1>26 DEF Catch
<1>27. CASE StopAgain       BY <1>27 DEF StopAgain
<1>28. CASE RollBack        BY <1>28 DEF RollBack
<1>29. CASE RestartOld      BY <1>29 DEF RestartOld
<1>30. CASE StopOld         BY <1>30 DEF StopOld
<1>31. CASE OldHealth       BY <1>31 DEF OldHealth
<1>32. CASE SaveOld         BY <1>32 DEF SaveOld
<1>33. ASSUME NEW w \in Workers, ReviveWorker(w) PROVE LoopTypes'
  BY <1>33 DEF ReviveWorker
<1>34. CASE Revived         BY <1>34 DEF Revived, Recoverable
<1>35. CASE ReturnProxy     BY <1>35 DEF ReturnProxy
<1>36. CASE Cleanup         BY <1>36 DEF Cleanup
<1>37. CASE KeepCandidate   BY <1>37 DEF KeepCandidate
<1>38. CASE Final           BY <1>38 DEF Final
<1>39. CASE Cancel          BY <1>39 DEF Cancel
<1>40. CASE Crash           BY <1>40 DEF Crash
<1>41. CASE OperateApp      BY <1>41 DEF OperateApp
<1>42. ASSUME NEW w \in Workers, OperateWorker(w) PROVE LoopTypes'
  BY <1>42 DEF OperateWorker
<1>43. CASE UNCHANGED vars
  BY <1>43 DEF vars
<1> QED
  BY <1>1, <1>2, <1>3, <1>4, <1>5, <1>6, <1>7, <1>8, <1>9, <1>10, <1>11, <1>12,
    <1>13, <1>14, <1>15, <1>16, <1>17, <1>18, <1>19, <1>20, <1>21, <1>22, <1>23,
    <1>24, <1>25, <1>26, <1>27, <1>28, <1>29, <1>30, <1>31, <1>32, <1>33, <1>34,
    <1>35, <1>36, <1>37, <1>38, <1>39, <1>40, <1>41, <1>42, <1>43
    DEF Next, Loop, Try, Place, Close, PutBack

\* What a step does to files, processes, proxy and rows.
LEMMA WorldTypesStep == TypeOK /\ [Next]_vars => WorldTypes'
<1> SUFFICES ASSUME TypeOK, [Next]_vars PROVE WorldTypes'
  OBVIOUS
<1> USE PipelineConstants DEF WorldTypes, TypeOK, Up, Apps, LoopTypes, Kinds,
        Trying, Placing, Closing, Caught, Ended, Flags, Undoing, Handler, Leads, Failed,
        Applied, Flag, FilesKept, RowsKept, Kept, Throw, Pass, DeletePreview, Route,
        Nothing, Undo, Tries, Warn, Hand, program, pm2, rows
<1>1. CASE Check            BY <1>1 DEF Check, Checked
<1>2. CASE Unhealthy        BY <1>2 DEF Unhealthy
<1>3. CASE StartPreview     BY <1>3 DEF StartPreview
<1>4. CASE PreviewHealthy   BY <1>4 DEF PreviewHealthy
<1>5. CASE StopPreview      BY <1>5 DEF StopPreview
<1>6. CASE Snapshot         BY <1>6 DEF Snapshot
<1>7. CASE WaitForCron      BY <1>7 DEF WaitForCron
<1>8. CASE GiveUp           BY <1>8 DEF GiveUp
<1>9. ASSUME NEW w \in Workers, Pause(w) \/ Overlook(w) PROVE WorldTypes'
  BY <1>9 DEF Pause, Overlook
<1>10. CASE Paused          BY <1>10 DEF Paused
<1>11. CASE Handoff         BY <1>11 DEF Handoff
<1>12. CASE DeleteApp       BY <1>12 DEF DeleteApp
<1>13. CASE Activate        BY <1>13 DEF Activate
<1>14. CASE StartNew        BY <1>14 DEF StartNew
<1>15. CASE Stage           BY <1>15 DEF Stage
<1>16. CASE Healthy         BY <1>16 DEF Healthy
<1>17. CASE Return          BY <1>17 DEF Return
<1>18. CASE Remove          BY <1>18 DEF Remove
<1>19. CASE Accept          BY <1>19 DEF Accept
<1>20. CASE Complete        BY <1>20 DEF Complete
<1>21. ASSUME NEW w \in Workers, RestartWorker(w) PROVE WorldTypes'
  BY <1>21 DEF RestartWorker
<1>22. CASE WorkersBack     BY <1>22 DEF WorkersBack
<1>23. CASE SaveList        BY <1>23 DEF SaveList
<1>24. CASE Push            BY <1>24 DEF Push
<1>25. CASE Finish          BY <1>25 DEF Finish
<1>26. CASE Catch           BY <1>26 DEF Catch
<1>27. CASE StopAgain       BY <1>27 DEF StopAgain
<1>28. CASE RollBack        BY <1>28 DEF RollBack
<1>29. CASE RestartOld      BY <1>29 DEF RestartOld
<1>30. CASE StopOld         BY <1>30 DEF StopOld
<1>31. CASE OldHealth       BY <1>31 DEF OldHealth
<1>32. CASE SaveOld         BY <1>32 DEF SaveOld
<1>33. ASSUME NEW w \in Workers, ReviveWorker(w) PROVE WorldTypes'
  BY <1>33 DEF ReviveWorker
<1>34. CASE Revived         BY <1>34 DEF Revived, Recoverable
<1>35. CASE ReturnProxy     BY <1>35 DEF ReturnProxy
<1>36. CASE Cleanup         BY <1>36 DEF Cleanup
<1>37. CASE KeepCandidate   BY <1>37 DEF KeepCandidate
<1>38. CASE Final           BY <1>38 DEF Final
<1>39. CASE Cancel          BY <1>39 DEF Cancel
<1>40. CASE Crash           BY <1>40 DEF Crash
<1>41. CASE OperateApp      BY <1>41 DEF OperateApp
<1>42. ASSUME NEW w \in Workers, OperateWorker(w) PROVE WorldTypes'
  BY <1>42 DEF OperateWorker
<1>43. CASE UNCHANGED vars
  BY <1>43 DEF vars
<1> QED
  BY <1>1, <1>2, <1>3, <1>4, <1>5, <1>6, <1>7, <1>8, <1>9, <1>10, <1>11, <1>12,
    <1>13, <1>14, <1>15, <1>16, <1>17, <1>18, <1>19, <1>20, <1>21, <1>22, <1>23,
    <1>24, <1>25, <1>26, <1>27, <1>28, <1>29, <1>30, <1>31, <1>32, <1>33, <1>34,
    <1>35, <1>36, <1>37, <1>38, <1>39, <1>40, <1>41, <1>42, <1>43
    DEF Next, Loop, Try, Place, Close, PutBack

\* activating, accepted and recoverable follow the loop.
LEMMA FlagsTellStep == TypeOK /\ FlagsTell /\ [Next]_vars => FlagsTell'
<1> SUFFICES ASSUME TypeOK, FlagsTell, [Next]_vars PROVE FlagsTell'
  OBVIOUS
<1> USE PipelineConstants DEF FlagsTell, TypeOK, Trying, Activated, Placing,
        Closing, Undoing, Accepted, Tidying, Ended, Recoverable, LoopTypes, WorldTypes,
        Kinds, Apps, Caught, Flags, Up, Handler, Leads, Failed, Applied, Flag, FilesKept,
        RowsKept, Kept, Throw, Pass, DeletePreview, Route, Nothing, Undo, Tries, Warn,
        Hand, program, pm2, rows
<1>1. CASE Check            BY <1>1 DEF Check, Checked
<1>2. CASE Unhealthy        BY <1>2 DEF Unhealthy
<1>3. CASE StartPreview     BY <1>3 DEF StartPreview
<1>4. CASE PreviewHealthy   BY <1>4 DEF PreviewHealthy
<1>5. CASE StopPreview      BY <1>5 DEF StopPreview
<1>6. CASE Snapshot         BY <1>6 DEF Snapshot
<1>7. CASE WaitForCron      BY <1>7 DEF WaitForCron
<1>8. CASE GiveUp           BY <1>8 DEF GiveUp
<1>9. ASSUME NEW w \in Workers, Pause(w) \/ Overlook(w) PROVE FlagsTell'
  BY <1>9 DEF Pause, Overlook
<1>10. CASE Paused          BY <1>10 DEF Paused
<1>11. CASE Handoff         BY <1>11 DEF Handoff
<1>12. CASE DeleteApp       BY <1>12 DEF DeleteApp
<1>13. CASE Activate        BY <1>13 DEF Activate
<1>14. CASE StartNew        BY <1>14 DEF StartNew
<1>15. CASE Stage           BY <1>15 DEF Stage
<1>16. CASE Healthy         BY <1>16 DEF Healthy
<1>17. CASE Return          BY <1>17 DEF Return
<1>18. CASE Remove          BY <1>18 DEF Remove
<1>19. CASE Accept          BY <1>19 DEF Accept
<1>20. CASE Complete        BY <1>20 DEF Complete
<1>21. ASSUME NEW w \in Workers, RestartWorker(w) PROVE FlagsTell'
  BY <1>21 DEF RestartWorker
<1>22. CASE WorkersBack     BY <1>22 DEF WorkersBack
<1>23. CASE SaveList        BY <1>23 DEF SaveList
<1>24. CASE Push            BY <1>24 DEF Push
<1>25. CASE Finish          BY <1>25 DEF Finish
<1>26. CASE Catch           BY <1>26 DEF Catch
<1>27. CASE StopAgain       BY <1>27 DEF StopAgain
<1>28. CASE RollBack        BY <1>28 DEF RollBack
<1>29. CASE RestartOld      BY <1>29 DEF RestartOld
<1>30. CASE StopOld         BY <1>30 DEF StopOld
<1>31. CASE OldHealth       BY <1>31 DEF OldHealth
<1>32. CASE SaveOld         BY <1>32 DEF SaveOld
<1>33. ASSUME NEW w \in Workers, ReviveWorker(w) PROVE FlagsTell'
  BY <1>33 DEF ReviveWorker
<1>34. CASE Revived         BY <1>34 DEF Revived
<1>35. CASE ReturnProxy     BY <1>35 DEF ReturnProxy
<1>36. CASE Cleanup         BY <1>36 DEF Cleanup
<1>37. CASE KeepCandidate   BY <1>37 DEF KeepCandidate
<1>38. CASE Final           BY <1>38 DEF Final
<1>39. CASE Cancel          BY <1>39 DEF Cancel
<1>40. CASE Crash           BY <1>40 DEF Crash
<1>41. CASE OperateApp      BY <1>41 DEF OperateApp
<1>42. ASSUME NEW w \in Workers, OperateWorker(w) PROVE FlagsTell'
  BY <1>42 DEF OperateWorker
<1>43. CASE UNCHANGED vars
  BY <1>43 DEF vars
<1> QED
  BY <1>1, <1>2, <1>3, <1>4, <1>5, <1>6, <1>7, <1>8, <1>9, <1>10, <1>11, <1>12,
    <1>13, <1>14, <1>15, <1>16, <1>17, <1>18, <1>19, <1>20, <1>21, <1>22, <1>23,
    <1>24, <1>25, <1>26, <1>27, <1>28, <1>29, <1>30, <1>31, <1>32, <1>33, <1>34,
    <1>35, <1>36, <1>37, <1>38, <1>39, <1>40, <1>41, <1>42, <1>43
    DEF Next, Loop, Try, Place, Close, PutBack

\* The files follow the loop: put back whole, or in place for good.
LEMMA RootTellsStep == TypeOK /\ FlagsTell /\ RootTells /\ [Next]_vars => RootTells'
<1> SUFFICES ASSUME TypeOK, FlagsTell, RootTells, [Next]_vars PROVE RootTells'
  OBVIOUS
<1> USE PipelineConstants DEF RootTells, TypeOK, FlagsTell, Activated, OnOld,
        Withdrawn, Accepted, Moved, LoopTypes, WorldTypes, Trying, Placing, Closing,
        Undoing, Tidying, Ended, Recoverable, Kinds, Apps, Caught, Flags, Up, Handler,
        Leads, Failed, Applied, Flag, FilesKept, RowsKept, Kept, Throw, Pass,
        DeletePreview, Route, Nothing, Undo, Tries, Warn, Hand, program, pm2, rows
<1>1. CASE Check            BY <1>1 DEF Check, Checked
<1>2. CASE Unhealthy        BY <1>2 DEF Unhealthy
<1>3. CASE StartPreview     BY <1>3 DEF StartPreview
<1>4. CASE PreviewHealthy   BY <1>4 DEF PreviewHealthy
<1>5. CASE StopPreview      BY <1>5 DEF StopPreview
<1>6. CASE Snapshot         BY <1>6 DEF Snapshot
<1>7. CASE WaitForCron      BY <1>7 DEF WaitForCron
<1>8. CASE GiveUp           BY <1>8 DEF GiveUp
<1>9. ASSUME NEW w \in Workers, Pause(w) \/ Overlook(w) PROVE RootTells'
  BY <1>9 DEF Pause, Overlook
<1>10. CASE Paused          BY <1>10 DEF Paused
<1>11. CASE Handoff         BY <1>11 DEF Handoff
<1>12. CASE DeleteApp       BY <1>12 DEF DeleteApp
<1>13. CASE Activate        BY <1>13 DEF Activate
<1>14. CASE StartNew        BY <1>14 DEF StartNew
<1>15. CASE Stage           BY <1>15 DEF Stage
<1>16. CASE Healthy         BY <1>16 DEF Healthy
<1>17. CASE Return          BY <1>17 DEF Return
<1>18. CASE Remove          BY <1>18 DEF Remove
<1>19. CASE Accept          BY <1>19 DEF Accept
<1>20. CASE Complete        BY <1>20 DEF Complete
<1>21. ASSUME NEW w \in Workers, RestartWorker(w) PROVE RootTells'
  BY <1>21 DEF RestartWorker
<1>22. CASE WorkersBack     BY <1>22 DEF WorkersBack
<1>23. CASE SaveList        BY <1>23 DEF SaveList
<1>24. CASE Push            BY <1>24 DEF Push
<1>25. CASE Finish          BY <1>25 DEF Finish
<1>26. CASE Catch           BY <1>26 DEF Catch
<1>27. CASE StopAgain       BY <1>27 DEF StopAgain
<1>28. CASE RollBack        BY <1>28 DEF RollBack
<1>29. CASE RestartOld      BY <1>29 DEF RestartOld
<1>30. CASE StopOld         BY <1>30 DEF StopOld
<1>31. CASE OldHealth       BY <1>31 DEF OldHealth
<1>32. CASE SaveOld         BY <1>32 DEF SaveOld
<1>33. ASSUME NEW w \in Workers, ReviveWorker(w) PROVE RootTells'
  BY <1>33 DEF ReviveWorker
<1>34. CASE Revived         BY <1>34 DEF Revived
<1>35. CASE ReturnProxy     BY <1>35 DEF ReturnProxy
<1>36. CASE Cleanup         BY <1>36 DEF Cleanup
<1>37. CASE KeepCandidate   BY <1>37 DEF KeepCandidate
<1>38. CASE Final           BY <1>38 DEF Final
<1>39. CASE Cancel          BY <1>39 DEF Cancel
<1>40. CASE Crash           BY <1>40 DEF Crash
<1>41. CASE OperateApp      BY <1>41 DEF OperateApp
<1>42. ASSUME NEW w \in Workers, OperateWorker(w) PROVE RootTells'
  BY <1>42 DEF OperateWorker
<1>43. CASE UNCHANGED vars
  BY <1>43 DEF vars
<1> QED
  BY <1>1, <1>2, <1>3, <1>4, <1>5, <1>6, <1>7, <1>8, <1>9, <1>10, <1>11, <1>12,
    <1>13, <1>14, <1>15, <1>16, <1>17, <1>18, <1>19, <1>20, <1>21, <1>22, <1>23,
    <1>24, <1>25, <1>26, <1>27, <1>28, <1>29, <1>30, <1>31, <1>32, <1>33, <1>34,
    <1>35, <1>36, <1>37, <1>38, <1>39, <1>40, <1>41, <1>42, <1>43
    DEF Next, Loop, Try, Place, Close, PutBack

\* The application's process follows the loop.
LEMMA AppTellsStep ==
    TypeOK /\ FlagsTell /\ RootTells /\ AppTells /\ [Next]_vars => AppTells'
<1> SUFFICES ASSUME TypeOK, FlagsTell, RootTells, AppTells, [Next]_vars PROVE AppTells'
  OBVIOUS
<1> USE PipelineConstants DEF AppTells, TypeOK, FlagsTell, RootTells, Activated,
        Accepted, Started, Withdrawn, Trying, Fresh, Found, LoopTypes, WorldTypes,
        Placing, Closing, Undoing, Tidying, Ended, Recoverable, OnOld, Moved, Kinds, Apps,
        Caught, Flags, Up, Handler, Leads, Failed, Applied, Flag, FilesKept, RowsKept,
        Kept, Throw, Pass, DeletePreview, Route, Nothing, Undo, Tries, Warn, Hand,
        program, pm2, rows
<1>1. CASE Check            BY <1>1 DEF Check, Checked
<1>2. CASE Unhealthy        BY <1>2 DEF Unhealthy
<1>3. CASE StartPreview     BY <1>3 DEF StartPreview
<1>4. CASE PreviewHealthy   BY <1>4 DEF PreviewHealthy
<1>5. CASE StopPreview      BY <1>5 DEF StopPreview
<1>6. CASE Snapshot         BY <1>6 DEF Snapshot
<1>7. CASE WaitForCron      BY <1>7 DEF WaitForCron
<1>8. CASE GiveUp           BY <1>8 DEF GiveUp
<1>9. ASSUME NEW w \in Workers, Pause(w) \/ Overlook(w) PROVE AppTells'
  BY <1>9 DEF Pause, Overlook
<1>10. CASE Paused          BY <1>10 DEF Paused
<1>11. CASE Handoff         BY <1>11 DEF Handoff
<1>12. CASE DeleteApp       BY <1>12 DEF DeleteApp
<1>13. CASE Activate        BY <1>13 DEF Activate
<1>14. CASE StartNew        BY <1>14 DEF StartNew
<1>15. CASE Stage           BY <1>15 DEF Stage
<1>16. CASE Healthy         BY <1>16 DEF Healthy
<1>17. CASE Return          BY <1>17 DEF Return
<1>18. CASE Remove          BY <1>18 DEF Remove
<1>19. CASE Accept          BY <1>19 DEF Accept
<1>20. CASE Complete        BY <1>20 DEF Complete
<1>21. ASSUME NEW w \in Workers, RestartWorker(w) PROVE AppTells'
  BY <1>21 DEF RestartWorker
<1>22. CASE WorkersBack     BY <1>22 DEF WorkersBack
<1>23. CASE SaveList        BY <1>23 DEF SaveList
<1>24. CASE Push            BY <1>24 DEF Push
<1>25. CASE Finish          BY <1>25 DEF Finish
<1>26. CASE Catch           BY <1>26 DEF Catch
<1>27. CASE StopAgain       BY <1>27 DEF StopAgain
<1>28. CASE RollBack        BY <1>28 DEF RollBack
<1>29. CASE RestartOld
  <2>1. CASE faults' # faults
    BY <1>29, <2>1 DEF RestartOld
  <2>2. CASE faults' = faults /\ before = "stopped"
    BY <1>29, <2>2 DEF RestartOld
  <2>3. CASE faults' = faults /\ before = "online"
    BY <1>29, <2>3 DEF RestartOld
  <2>4. CASE faults' = faults /\ before \notin {"stopped", "online"}
    BY <1>29, <2>4 DEF RestartOld
  <2> QED
    BY <2>1, <2>2, <2>3, <2>4
<1>30. CASE StopOld         BY <1>30 DEF StopOld
<1>31. CASE OldHealth       BY <1>31 DEF OldHealth
<1>32. CASE SaveOld         BY <1>32 DEF SaveOld
<1>33. ASSUME NEW w \in Workers, ReviveWorker(w) PROVE AppTells'
  BY <1>33 DEF ReviveWorker
<1>34. CASE Revived         BY <1>34 DEF Revived
<1>35. CASE ReturnProxy     BY <1>35 DEF ReturnProxy
<1>36. CASE Cleanup         BY <1>36 DEF Cleanup
<1>37. CASE KeepCandidate   BY <1>37 DEF KeepCandidate
<1>38. CASE Final           BY <1>38 DEF Final
<1>39. CASE Cancel          BY <1>39 DEF Cancel
<1>40. CASE Crash           BY <1>40 DEF Crash
<1>41. CASE OperateApp      BY <1>41 DEF OperateApp
<1>42. ASSUME NEW w \in Workers, OperateWorker(w) PROVE AppTells'
  BY <1>42 DEF OperateWorker
<1>43. CASE UNCHANGED vars
  BY <1>43 DEF vars
<1> QED
  BY <1>1, <1>2, <1>3, <1>4, <1>5, <1>6, <1>7, <1>8, <1>9, <1>10, <1>11, <1>12,
    <1>13, <1>14, <1>15, <1>16, <1>17, <1>18, <1>19, <1>20, <1>21, <1>22, <1>23,
    <1>24, <1>25, <1>26, <1>27, <1>28, <1>29, <1>30, <1>31, <1>32, <1>33, <1>34,
    <1>35, <1>36, <1>37, <1>38, <1>39, <1>40, <1>41, <1>42, <1>43
    DEF Next, Loop, Try, Place, Close, PutBack

\* A stopped worker is remembered until it runs again or the log names it.
LEMMA WorkersTellStep ==
    TypeOK /\ FlagsTell /\ WorkersTell /\ [Next]_vars => WorkersTell'
<1> SUFFICES ASSUME TypeOK, FlagsTell, WorkersTell, [Next]_vars PROVE WorkersTell'
  OBVIOUS
<1> USE PipelineConstants DEF WorkersTell, TypeOK, FlagsTell, Placing, Undoing,
        Activated, Accepted, Recoverable, TidiedUp, LoopTypes, WorldTypes, Trying,
        Closing, Tidying, Ended, Kinds, Apps, Caught, Flags, Up, Handler, Leads, Failed,
        Applied, Flag, FilesKept, RowsKept, Kept, Throw, Pass, DeletePreview, Route,
        Nothing, Undo, Tries, Warn, Hand, program, pm2, rows
<1>1. CASE Check            BY <1>1 DEF Check, Checked
<1>2. CASE Unhealthy        BY <1>2 DEF Unhealthy
<1>3. CASE StartPreview     BY <1>3 DEF StartPreview
<1>4. CASE PreviewHealthy   BY <1>4 DEF PreviewHealthy
<1>5. CASE StopPreview      BY <1>5 DEF StopPreview
<1>6. CASE Snapshot         BY <1>6 DEF Snapshot
<1>7. CASE WaitForCron      BY <1>7 DEF WaitForCron
<1>8. CASE GiveUp           BY <1>8 DEF GiveUp
<1>9. ASSUME NEW w \in Workers, Pause(w) \/ Overlook(w) PROVE WorkersTell'
  BY <1>9 DEF Pause, Overlook
<1>10. CASE Paused          BY <1>10 DEF Paused
<1>11. CASE Handoff         BY <1>11 DEF Handoff
<1>12. CASE DeleteApp       BY <1>12 DEF DeleteApp
<1>13. CASE Activate        BY <1>13 DEF Activate
<1>14. CASE StartNew        BY <1>14 DEF StartNew
<1>15. CASE Stage           BY <1>15 DEF Stage
<1>16. CASE Healthy         BY <1>16 DEF Healthy
<1>17. CASE Return          BY <1>17 DEF Return
<1>18. CASE Remove          BY <1>18 DEF Remove
<1>19. CASE Accept          BY <1>19 DEF Accept
<1>20. CASE Complete        BY <1>20 DEF Complete
<1>21. ASSUME NEW w \in Workers, RestartWorker(w) PROVE WorkersTell'
  BY <1>21 DEF RestartWorker
<1>22. CASE WorkersBack     BY <1>22 DEF WorkersBack
<1>23. CASE SaveList        BY <1>23 DEF SaveList
<1>24. CASE Push            BY <1>24 DEF Push
<1>25. CASE Finish          BY <1>25 DEF Finish
<1>26. CASE Catch           BY <1>26 DEF Catch
<1>27. CASE StopAgain       BY <1>27 DEF StopAgain
<1>28. CASE RollBack        BY <1>28 DEF RollBack
<1>29. CASE RestartOld      BY <1>29 DEF RestartOld
<1>30. CASE StopOld         BY <1>30 DEF StopOld
<1>31. CASE OldHealth       BY <1>31 DEF OldHealth
<1>32. CASE SaveOld         BY <1>32 DEF SaveOld
<1>33. ASSUME NEW w \in Workers, ReviveWorker(w) PROVE WorkersTell'
  BY <1>33 DEF ReviveWorker
<1>34. CASE Revived         BY <1>34 DEF Revived
<1>35. CASE ReturnProxy     BY <1>35 DEF ReturnProxy
<1>36. CASE Cleanup         BY <1>36 DEF Cleanup
<1>37. CASE KeepCandidate   BY <1>37 DEF KeepCandidate
<1>38. CASE Final           BY <1>38 DEF Final
<1>39. CASE Cancel          BY <1>39 DEF Cancel
<1>40. CASE Crash           BY <1>40 DEF Crash
<1>41. CASE OperateApp      BY <1>41 DEF OperateApp
<1>42. ASSUME NEW w \in Workers, OperateWorker(w) PROVE WorkersTell'
  BY <1>42 DEF OperateWorker
<1>43. CASE UNCHANGED vars
  BY <1>43 DEF vars
<1> QED
  BY <1>1, <1>2, <1>3, <1>4, <1>5, <1>6, <1>7, <1>8, <1>9, <1>10, <1>11, <1>12,
    <1>13, <1>14, <1>15, <1>16, <1>17, <1>18, <1>19, <1>20, <1>21, <1>22, <1>23,
    <1>24, <1>25, <1>26, <1>27, <1>28, <1>29, <1>30, <1>31, <1>32, <1>33, <1>34,
    <1>35, <1>36, <1>37, <1>38, <1>39, <1>40, <1>41, <1>42, <1>43
    DEF Next, Loop, Try, Place, Close, PutBack

\* The candidate is not deleted under the domains.
LEMMA CandidateTellsStep ==
    TypeOK /\ FlagsTell /\ CandidateTells /\ [Next]_vars => CandidateTells'
<1> SUFFICES ASSUME TypeOK, FlagsTell, CandidateTells, [Next]_vars PROVE CandidateTells'
  OBVIOUS
<1> USE PipelineConstants DEF CandidateTells, TypeOK, FlagsTell, Trying, Closing,
        LoopTypes, WorldTypes, Activated, Placing, Undoing, Accepted, Tidying, Ended,
        Recoverable, Kinds, Apps, Caught, Flags, Up, Handler, Leads, Failed, Applied,
        Flag, FilesKept, RowsKept, Kept, Throw, Pass, DeletePreview, Route, Nothing, Undo,
        Tries, Warn, Hand, program, pm2, rows
<1>1. CASE Check            BY <1>1 DEF Check, Checked
<1>2. CASE Unhealthy        BY <1>2 DEF Unhealthy
<1>3. CASE StartPreview     BY <1>3 DEF StartPreview
<1>4. CASE PreviewHealthy   BY <1>4 DEF PreviewHealthy
<1>5. CASE StopPreview      BY <1>5 DEF StopPreview
<1>6. CASE Snapshot         BY <1>6 DEF Snapshot
<1>7. CASE WaitForCron      BY <1>7 DEF WaitForCron
<1>8. CASE GiveUp           BY <1>8 DEF GiveUp
<1>9. ASSUME NEW w \in Workers, Pause(w) \/ Overlook(w) PROVE CandidateTells'
  BY <1>9 DEF Pause, Overlook
<1>10. CASE Paused          BY <1>10 DEF Paused
<1>11. CASE Handoff         BY <1>11 DEF Handoff
<1>12. CASE DeleteApp       BY <1>12 DEF DeleteApp
<1>13. CASE Activate        BY <1>13 DEF Activate
<1>14. CASE StartNew        BY <1>14 DEF StartNew
<1>15. CASE Stage           BY <1>15 DEF Stage
<1>16. CASE Healthy
  <2>1. CASE setup.kind = "handoff"
    BY <1>16, <2>1 DEF Healthy
  <2>2. CASE setup.kind # "handoff"
    BY <1>16, <2>2 DEF Healthy
  <2> QED
    BY <2>1, <2>2
<1>17. CASE Return          BY <1>17 DEF Return
<1>18. CASE Remove          BY <1>18 DEF Remove
<1>19. CASE Accept          BY <1>19 DEF Accept
<1>20. CASE Complete        BY <1>20 DEF Complete
<1>21. ASSUME NEW w \in Workers, RestartWorker(w) PROVE CandidateTells'
  BY <1>21 DEF RestartWorker
<1>22. CASE WorkersBack     BY <1>22 DEF WorkersBack
<1>23. CASE SaveList        BY <1>23 DEF SaveList
<1>24. CASE Push            BY <1>24 DEF Push
<1>25. CASE Finish          BY <1>25 DEF Finish
<1>26. CASE Catch           BY <1>26 DEF Catch
<1>27. CASE StopAgain       BY <1>27 DEF StopAgain
<1>28. CASE RollBack        BY <1>28 DEF RollBack
<1>29. CASE RestartOld      BY <1>29 DEF RestartOld
<1>30. CASE StopOld         BY <1>30 DEF StopOld
<1>31. CASE OldHealth       BY <1>31 DEF OldHealth
<1>32. CASE SaveOld         BY <1>32 DEF SaveOld
<1>33. ASSUME NEW w \in Workers, ReviveWorker(w) PROVE CandidateTells'
  BY <1>33 DEF ReviveWorker
<1>34. CASE Revived         BY <1>34 DEF Revived
<1>35. CASE ReturnProxy     BY <1>35 DEF ReturnProxy
<1>36. CASE Cleanup         BY <1>36 DEF Cleanup
<1>37. CASE KeepCandidate   BY <1>37 DEF KeepCandidate
<1>38. CASE Final           BY <1>38 DEF Final
<1>39. CASE Cancel          BY <1>39 DEF Cancel
<1>40. CASE Crash           BY <1>40 DEF Crash
<1>41. CASE OperateApp      BY <1>41 DEF OperateApp
<1>42. ASSUME NEW w \in Workers, OperateWorker(w) PROVE CandidateTells'
  BY <1>42 DEF OperateWorker
<1>43. CASE UNCHANGED vars
  BY <1>43 DEF vars
<1> QED
  BY <1>1, <1>2, <1>3, <1>4, <1>5, <1>6, <1>7, <1>8, <1>9, <1>10, <1>11, <1>12,
    <1>13, <1>14, <1>15, <1>16, <1>17, <1>18, <1>19, <1>20, <1>21, <1>22, <1>23,
    <1>24, <1>25, <1>26, <1>27, <1>28, <1>29, <1>30, <1>31, <1>32, <1>33, <1>34,
    <1>35, <1>36, <1>37, <1>38, <1>39, <1>40, <1>41, <1>42, <1>43
    DEF Next, Loop, Try, Place, Close, PutBack

-----------------------------------------------------------------------------

\* The six parts hold together from the start and after every step.
LEMMA Inductive == Spec => []IInv
<1>1. Init => IInv
  <2> SUFFICES ASSUME Init PROVE IInv
    OBVIOUS
  <2>1. LoopTypes
    BY PipelineConstants DEF Init, LoopTypes, Kinds, Apps, Trying, Placing, Closing,
      Caught, Ended, Flags, Up, Undoing
  <2>2. WorldTypes
    <3>1. setup.app \in Apps /\ setup.online \subseteq Workers
      BY DEF Init
    <3> QED
      BY <3>1 DEF Init, WorldTypes, Up, Apps
  <2>3. FlagsTell /\ RootTells /\ AppTells /\ WorkersTell
    BY DEF Init, FlagsTell, RootTells, AppTells, WorkersTell, Trying, Activated,
      Placing, Closing, Undoing, Accepted, Tidying, Ended, Recoverable, OnOld,
      Withdrawn, Moved, Started, Fresh, Found, TidiedUp
  <2>4. CandidateTells
    BY DEF Init, CandidateTells, Kinds, Trying, Closing
  <2> QED
    BY <2>1, <2>2, <2>3, <2>4 DEF IInv, TypeOK
<1>2. IInv /\ [Next]_vars => IInv'
  BY LoopTypesStep, WorldTypesStep, FlagsTellStep, RootTellsStep, AppTellsStep,
     WorkersTellStep, CandidateTellsStep DEF IInv, TypeOK
<1> QED
  BY <1>1, <1>2, PTL DEF Spec

\* Every variable keeps its type in any behaviour of the loop (runDeployAsync).
THEOREM TypeCorrect == Spec => []TypeOK
  BY Inductive, PTL DEF IInv

\* A deployment that failed and could be rolled back leaves the files, the
\* application and the workers it found (catch).
THEOREM FailedIsRestored == Spec => []FailureRestores
<1>1. IInv => FailureRestores
  BY DEF IInv, FailureRestores, RootTells, AppTells, WorkersTell, Withdrawn, Activated,
         Accepted, Tidying, TidiedUp
<1> QED
  BY <1>1, Inductive, PTL

\* What was accepted is not undone by a later error or cancellation (accepted).
THEOREM AcceptedIsKept == Spec => []AcceptedStays
<1>1. IInv => AcceptedStays
  BY DEF IInv, AcceptedStays, RootTells, AppTells, Accepted
<1> QED
  BY <1>1, Inductive, PTL

\* Domains handed over to the candidate always reach a process (caddyOnPreview).
THEOREM DomainsAreServed == Spec => []DomainsReached
<1>1. IInv => DomainsReached
  BY DEF IInv, DomainsReached, Tracked, PutsBack, TypeOK, LoopTypes, WorldTypes, FlagsTell,
         AppTells, CandidateTells, Activated, Accepted, Trying, Placing, Closing, Undoing,
         Caught, Ended, Started, Up
<1> QED
  BY <1>1, Inductive, PTL

\* Two steps of the loop move files.
LEMMA WhoMoves == [Next]_vars /\ root' # root => Activate \/ RollBack
  BY DEF Check, Unhealthy, StartPreview, PreviewHealthy, StopPreview, Snapshot,
    WaitForCron, GiveUp, Pause, Overlook, Paused, Handoff, DeleteApp, StartNew, Stage,
    Healthy, Return, Remove, Accept, Complete, RestartWorker, WorkersBack,
    SaveList, Push, Finish, Catch, StopAgain, RestartOld, StopOld, OldHealth,
    SaveOld, ReviveWorker, Revived, ReturnProxy, Cleanup, KeepCandidate, Final,
    Cancel, Crash, OperateApp, OperateWorker, Next, Loop, Try, Place, Close,
    PutBack, vars, Throw, Pass, Route, DeletePreview, Nothing, FilesKept, Hand

\* Files change only while the application and its workers are stopped (activate,
\* rollback), but for workers of which PM2 did not tell whether they run.
THEOREM FilesChangeUnderNothing == Spec => FilesChangeAlone
<1>1. IInv /\ [Next]_vars => [root' # root /\ hands = 0 => app \notin Up /\ online \subseteq overlooked]_vars
  <2> SUFFICES ASSUME IInv, [Next]_vars, root' # root, hands = 0
               PROVE app \notin Up /\ online \subseteq overlooked
    OBVIOUS
  <2>1. CASE Activate
    BY <2>1 DEF Activate, Leads, IInv, AppTells, WorkersTell, Placing, Up
  <2>2. CASE RollBack
    BY <2>2 DEF RollBack, Undo, Leads, IInv, AppTells, WorkersTell, Undoing, Up
  <2> QED
    BY <2>1, <2>2, WhoMoves
<1> QED
  BY <1>1, Inductive, PTL DEF Spec, FilesChangeAlone

-----------------------------------------------------------------------------
\* What the loop records of the release: `activating` and `accepted`, and at the
\* end that nothing of the rollback has failed; and which release lies at the root.
Recorded ==
    IF Accepted THEN "accepted"
    ELSE IF ~Activated THEN "open"
    ELSE IF pc = "closed" /\ Recoverable THEN "restored" ELSE "moving"
Whole == {r \in {"previous", "candidate"} : root = (IF r = "previous" THEN "old" ELSE "new")}
\* A cancelled deployment has a row that is settled, and a loop that goes on.
Looping == IF pc \in Ended THEN "over" ELSE IF row = "running" THEN "running" ELSE "cancelled"

Promise == INSTANCE ReleasePromise WITH
    stage <- Recorded, whole <- Whole, loop <- Looping, next <- "none"

\* The two flags are set once, a loop that has ended changes nothing, and only a
\* cancellation settles the row before the end.
LEMMA FlagsGrow ==
    ASSUME TypeOK, [Next]_vars
    PROVE  /\ Activated => Activated'
           /\ Accepted => Accepted'
           /\ ~Activated /\ Activated' => DeleteApp
           /\ ~Accepted /\ Accepted' => Accept
           /\ pc \in Ended => UNCHANGED <<pc, row, flags, root>>
           /\ row' = row \/ pc' \in Ended \/ Cancel
<1> DEFINE Grow == /\ Activated => Activated'
                   /\ Accepted => Accepted'
                   /\ ~Activated /\ Activated' => DeleteApp
                   /\ ~Accepted /\ Accepted' => Accept
                   /\ pc \in Ended => UNCHANGED <<pc, row, flags, root>>
                   /\ row' = row \/ pc' \in Ended \/ Cancel
<1> USE PipelineConstants DEF TypeOK, Activated, Accepted, LoopTypes, WorldTypes, Trying, Placing, Closing,
        Undoing, Tidying, Ended, Recoverable, Kinds, Apps, Caught, Flags, Up, Handler,
        Leads, Failed, Applied, Flag, FilesKept, RowsKept, Kept, Throw, Pass,
        DeletePreview, Route, Nothing, Undo, Tries, Warn, Hand, program, pm2, rows
<1>1. CASE Check            BY <1>1 DEF Check, Checked
<1>2. CASE Unhealthy        BY <1>2 DEF Unhealthy
<1>3. CASE StartPreview     BY <1>3 DEF StartPreview
<1>4. CASE PreviewHealthy   BY <1>4 DEF PreviewHealthy
<1>5. CASE StopPreview      BY <1>5 DEF StopPreview
<1>6. CASE Snapshot         BY <1>6 DEF Snapshot
<1>7. CASE WaitForCron      BY <1>7 DEF WaitForCron
<1>8. CASE GiveUp           BY <1>8 DEF GiveUp
<1>9. ASSUME NEW w \in Workers, Pause(w) \/ Overlook(w) PROVE Grow
  BY <1>9 DEF Pause, Overlook
<1>10. CASE Paused          BY <1>10 DEF Paused
<1>11. CASE Handoff         BY <1>11 DEF Handoff
<1>12. CASE DeleteApp       BY <1>12 DEF DeleteApp
<1>13. CASE Activate        BY <1>13 DEF Activate
<1>14. CASE StartNew        BY <1>14 DEF StartNew
<1>15. CASE Stage           BY <1>15 DEF Stage
<1>16. CASE Healthy         BY <1>16 DEF Healthy
<1>17. CASE Return          BY <1>17 DEF Return
<1>18. CASE Remove          BY <1>18 DEF Remove
<1>19. CASE Accept          BY <1>19 DEF Accept
<1>20. CASE Complete        BY <1>20 DEF Complete
<1>21. ASSUME NEW w \in Workers, RestartWorker(w) PROVE Grow
  BY <1>21 DEF RestartWorker
<1>22. CASE WorkersBack     BY <1>22 DEF WorkersBack
<1>23. CASE SaveList        BY <1>23 DEF SaveList
<1>24. CASE Push            BY <1>24 DEF Push
<1>25. CASE Finish          BY <1>25 DEF Finish
<1>26. CASE Catch           BY <1>26 DEF Catch
<1>27. CASE StopAgain       BY <1>27 DEF StopAgain
<1>28. CASE RollBack        BY <1>28 DEF RollBack
<1>29. CASE RestartOld      BY <1>29 DEF RestartOld
<1>30. CASE StopOld         BY <1>30 DEF StopOld
<1>31. CASE OldHealth       BY <1>31 DEF OldHealth
<1>32. CASE SaveOld         BY <1>32 DEF SaveOld
<1>33. ASSUME NEW w \in Workers, ReviveWorker(w) PROVE Grow
  BY <1>33 DEF ReviveWorker
<1>34. CASE Revived         BY <1>34 DEF Revived
<1>35. CASE ReturnProxy     BY <1>35 DEF ReturnProxy
<1>36. CASE Cleanup         BY <1>36 DEF Cleanup
<1>37. CASE KeepCandidate   BY <1>37 DEF KeepCandidate
<1>38. CASE Final           BY <1>38 DEF Final
<1>39. CASE Cancel          BY <1>39 DEF Cancel
<1>40. CASE Crash           BY <1>40 DEF Crash
<1>41. CASE OperateApp      BY <1>41 DEF OperateApp
<1>42. ASSUME NEW w \in Workers, OperateWorker(w) PROVE Grow
  BY <1>42 DEF OperateWorker
<1>43. CASE UNCHANGED vars
  BY <1>43 DEF vars
<1> QED
  BY <1>1, <1>2, <1>3, <1>4, <1>5, <1>6, <1>7, <1>8, <1>9, <1>10, <1>11, <1>12,
    <1>13, <1>14, <1>15, <1>16, <1>17, <1>18, <1>19, <1>20, <1>21, <1>22, <1>23,
    <1>24, <1>25, <1>26, <1>27, <1>28, <1>29, <1>30, <1>31, <1>32, <1>33, <1>34,
    <1>35, <1>36, <1>37, <1>38, <1>39, <1>40, <1>41, <1>42, <1>43
    DEF Next, Loop, Try, Place, Close, PutBack

\* A step of ReleasePromise, as this mapping shows it.
Simulated == [Promise!Next]_(Promise!vars)

LEMMA ReleaseStep ==
    ASSUME IInv, IInv', [Next]_vars
    PROVE  Simulated
<1>1. /\ Whole \subseteq {"previous", "candidate"} /\ Whole' \subseteq {"previous", "candidate"}
      /\ root = "old" <=> "previous" \in Whole
      /\ root = "new" <=> "candidate" \in Whole
      /\ root' = root => Whole' = Whole
  BY DEF Whole
<1>2. ~Activated \/ pc = "closed" => root' = root
  BY WhoMoves DEF Activate, RollBack, Leads, Undo, IInv, FlagsTell, Placing, Undoing
<1>3. CASE pc \in Ended
  <2>1. UNCHANGED <<pc, row, flags, root>>
    BY <1>3, FlagsGrow DEF IInv
  <2> QED
    BY <1>1, <2>1 DEF Simulated, Promise!vars, Recorded, Accepted, Activated, Recoverable, Looping
<1>4. CASE pc \notin Ended /\ Cancel
  <2>1. UNCHANGED <<pc, flags, root>> /\ row = "running" /\ row' = "failed"
    BY <1>4 DEF Cancel, program, FilesKept
  <2> QED
    BY <1>1, <1>4, <2>1 DEF Simulated, Promise!Next, Promise!Cancel, Recorded, Accepted,
      Activated, Recoverable, Looping
<1>5. CASE pc \notin Ended /\ ~Cancel
  <2>1. Promise!Works
    <3>1. row' = row \/ pc' \in Ended
      BY <1>5, FlagsGrow DEF IInv
    <3> QED
      BY <1>5, <3>1 DEF Promise!Works, Looping
  <2>2. Recorded' = Recorded /\ Whole' = Whole => Simulated
    BY <2>1 DEF Simulated, Promise!Next, Promise!vars, Promise!Works, Promise!End
  <2>3. CASE Accepted
    <3>1. Accepted' /\ root = "new" /\ root' = "new"
      BY <2>3, FlagsGrow DEF IInv, RootTells
    <3> QED
      BY <1>1, <2>2, <2>3, <3>1 DEF Recorded
  <2>4. CASE ~Activated /\ ~Accepted
    <3>1. CASE Activated'
      <4>1. DeleteApp
        BY <2>4, <3>1, FlagsGrow DEF IInv
      <4>2. pc' # "closed" /\ ~Accepted'
        BY <2>4, <4>1 DEF DeleteApp, Leads, Handler, Undoing, Accepted
      <4> QED
        BY <1>1, <1>2, <2>1, <2>4, <3>1, <4>2 DEF Simulated, Promise!Next, Promise!Begin, Recorded
    <3>2. CASE ~Activated'
      BY <1>1, <1>2, <2>2, <2>4, <3>2 DEF IInv, FlagsTell, Recorded
    <3> QED
      BY <3>1, <3>2
  <2>5. CASE Activated /\ ~Accepted
    <3>1. Activated' /\ pc # "closed" /\ Recorded = "moving"
      BY <1>5, <2>5, FlagsGrow DEF IInv, Ended, Recorded
    <3>2. CASE Accepted'
      <4>1. root' = root
        BY <2>5, <3>2, FlagsGrow DEF IInv, Accept, FilesKept
      <4>2. root' = "new"
        BY <3>2 DEF IInv, RootTells
      <4> QED
        BY <1>1, <2>1, <3>1, <3>2, <4>1, <4>2 DEF Simulated, Promise!Next, Promise!Accept, Recorded
    <3>3. CASE ~Accepted' /\ pc' = "closed" /\ Recoverable'
      <4>1. root' = "old"
        BY <3>1, <3>3 DEF IInv, RootTells, Withdrawn
      <4>2. root' = root
        BY <3>3, WhoMoves DEF Activate, RollBack, Leads, Undo, Handler, Undoing
      <4> QED
        BY <1>1, <2>1, <3>1, <3>3, <4>1, <4>2 DEF Simulated, Promise!Next, Promise!GiveBack, Recorded
    <3>4. CASE ~Accepted' /\ ~(pc' = "closed" /\ Recoverable')
      BY <1>1, <2>1, <3>1, <3>4 DEF Simulated, Promise!Next, Promise!Move, Promise!Releases, Recorded
    <3> QED
      BY <3>2, <3>3, <3>4
  <2> QED
    BY <2>3, <2>4, <2>5
<1> QED
  BY <1>3, <1>4, <1>5

\* The loop keeps what a release promises (ReleasePromise, which ReleaseContents
\* implements with renames and a journal): it has files moved only after it has
\* set `activating`, accepts the whole candidate only, ends without a warning on
\* the whole previous release only, and moves nothing any more after either.
THEOREM LoopKeepsRelease == Spec => Promise!Spec
<1>1. Init => Promise!Init
  BY DEF Init, Promise!Init, Promise!Releases, Recorded, Whole, Accepted, Activated, Looping, Ended
<1>2. IInv /\ IInv' /\ [Next]_vars => [Promise!Next]_(Promise!vars)
  BY ReleaseStep DEF Simulated
<1> QED
  BY <1>1, <1>2, Inductive, PTL DEF Spec, Promise!Spec
=============================================================================

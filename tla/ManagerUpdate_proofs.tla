------------------------ MODULE ManagerUpdate_proofs ------------------------
(***************************************************************************)
(* Proofs about ManagerUpdate: types, one worker at a time until a power   *)
(* loss, and for a single worker, whatever services fail, that no original *)
(* item is lost through any number of power losses and rollbacks, and that *)
(* every step is one of UpdatePromise until both have happened.            *)
(***************************************************************************)
EXTENDS ManagerUpdate, TLAPS

\* TypeOK in the parts that steps keep for different reasons.
SavedOK ==
    /\ disk \in State
    /\ mem \in [Workers -> State]
    /\ ui \in {NoLock} \cup State
FilesOK == at \in [Places -> [Items -> {"none", "old", "new"}]]
WorkerOK ==
    /\ pc \in [Workers -> Steps]
    /\ mode \in [Workers -> {"run", "files-only"}]
    /\ todo \in [Workers -> SUBSET Items]
LockOK == lock \in {NoLock} \cup [by: Workers \cup {Gone}, written: BOOLEAN]
ManagerOK ==
    /\ marker \in BOOLEAN
    /\ running \in {"off", "old", "new", "mixed"}
    /\ pm2 \in {"up", "booting", "down"}
    /\ op \in [Operations -> {"off", "checked", "leased", "working"}]
    /\ trace \subseteq Operations
BoundsOK ==
    /\ crashes \in 0..MaxCrashes
    /\ faults \in 0..MaxFaults
    /\ rollbacks \in 0..MaxRollbacks
Types == SavedOK /\ FilesOK /\ WorkerOK /\ LockOK /\ ManagerOK /\ BoundsOK

-----------------------------------------------------------------------------
\* The steps a worker takes between the creation of its lock and its removal.
Held == Applying \cup Recovering \cup {"write", "caught", "broken", "unmark", "unlock",
                                       "unlockError"}

\* Without a power loss nobody finds a lock whose holder is gone.
LockTells == crashes = 0 =>
    /\ lock # NoLock => lock.by \in Workers
    /\ \A w \in Workers :
          /\ pc[w] \in Held => lock # NoLock /\ lock.by = w
          /\ pc[w] \notin {"unlink", "relock"}

-----------------------------------------------------------------------------
\* The old copy of an item is in one of two places.
Single == \A i \in Original :
    /\ at["stage"][i] # "old"
    /\ at["previous"][i] \in {"none", "old"}
    /\ at["previous"][i] = "none" <=> at["target"][i] = "old"

\* The hypothesis of OriginalsAreKept and the theorems after it: one worker.
Alone == \A v, w \in Workers : v = w

\* Before `activating` is saved nothing has been moved, whoever remembers it.
Early     == {"ready", "queued", "draining", "stopping"}
Preparing == {"verify", "idle", "mark", "drain", "drained", "stopping", "stop", "backup", "plan"}
Renaming  == {"replace", "install", "putback", "totarget"}
Untouched == \A i \in Original : at["target"][i] = "old"
EarlyTells ==
    /\ disk.phase \in Early => Untouched
    /\ ui # NoLock => ui.phase = "rollback_requested"
    /\ \A w \in Workers :
          /\ pc[w] # "off" /\ mem[w].phase \in Early => Untouched
          /\ pc[w] \in Preparing => mem[w].phase \in Early
          /\ pc[w] \in Renaming => mem[w].phase \notin Early /\ disk.phase \notin Early

\* Items the forward loop has before it are still the old ones.
LoopTells == \A w \in Workers :
    /\ pc[w] = "replace" => \A i \in todo[w] \cap Original : at["target"][i] = "old"
    /\ pc[w] = "install" => \A i \in todo[w] \cap Original :
          at["target"][i] = IF First(todo[w], i) THEN "none" ELSE "old"

\* What the proof of OriginalKept carries along.
KeptInv == Single /\ EarlyTells /\ LoopTells

-----------------------------------------------------------------------------
\* What a rename does to the places: one item leaves one and lies in the other.
Renamed(i, from, to) == \A p \in Places, j \in Items :
    at'[p][j] = IF j # i THEN at[p][j]
                ELSE IF p = from THEN "none" ELSE IF p = to THEN at[from][i] ELSE at[p][j]

LEMMA MoveRenames ==
    ASSUME FilesOK, NEW w \in Workers, NEW i \in Items, NEW next,
           NEW from \in Places, NEW to \in Places, from # to, Move(w, i, from, to, next)
    PROVE  FilesOK' /\ (at' = at \/ (at[from][i] # "none" /\ Renamed(i, from, to)))
<1>1. CASE at[from][i] # "none" /\ (at[to][i] = "none" \/ i \notin Directories)
  <2>1. at' = [at EXCEPT ![from][i] = "none", ![to][i] = at[from][i]]
    BY <1>1 DEF Move
  <2>2. FilesOK'
    BY <2>1 DEF FilesOK
  <2>3. Renamed(i, from, to)
    BY <2>1 DEF FilesOK, Renamed
  <2> QED
    BY <1>1, <2>2, <2>3
<1>2. CASE ~(at[from][i] # "none" /\ (at[to][i] = "none" \/ i \notin Directories))
  <2>1. at' = at
    BY <1>2 DEF Move, Throw, NoMove
  <2> QED
    BY <2>1 DEF FilesOK
<1> QED
  BY <1>1, <1>2

\* An attempt to rename: nothing happened, or the rename did.
Changed(i, from, to) == at' = at \/ (at[from][i] # "none" /\ Renamed(i, from, to))

\* The four steps that rename, and what each knows of its item.
LEMMA RenamingSteps ==
    ASSUME FilesOK, NEW w \in Workers
    PROVE  /\ Replace(w) => FilesOK' /\ \E i \in Items :
                 /\ pc[w] = "replace" /\ First(todo[w], i)
                 /\ Changed(i, "target", "previous") /\ (at' # at => i \in Original)
           /\ Install(w) => FilesOK' /\ \E i \in Items :
                 pc[w] = "install" /\ First(todo[w], i) /\ Changed(i, "stage", "target")
           /\ PutAside(w) => FilesOK' /\ \E i \in Items :
                 (i \in Original => at["previous"][i] # "none") /\ Changed(i, "target", "failed")
           /\ PutBack(w) => FilesOK' /\ \E i \in Items : Changed(i, "previous", "target")
<1>1. ASSUME NEW i \in Items, NEW next, NEW from \in Places, NEW to \in Places, from # to,
             Move(w, i, from, to, next)
      PROVE  FilesOK' /\ Changed(i, from, to)
  BY <1>1, MoveRenames DEF Changed
<1>2. ASSUME NEW i \in Items, NEW next, NoMove(w, next)
      PROVE  FilesOK' /\ at' = at
  BY <1>2 DEF NoMove, FilesOK
<1>3. ASSUME Replace(w)
      PROVE  FilesOK' /\ \E i \in Items :
                 /\ pc[w] = "replace" /\ First(todo[w], i)
                 /\ Changed(i, "target", "previous") /\ (at' # at => i \in Original)
  BY <1>3, <1>1, <1>2 DEF Replace, At, Loop, Changed, Places
<1>4. ASSUME Install(w)
      PROVE  FilesOK' /\ \E i \in Items :
                 pc[w] = "install" /\ First(todo[w], i) /\ Changed(i, "stage", "target")
  BY <1>4, <1>1 DEF Install, Loop, Places
<1>5. ASSUME PutAside(w)
      PROVE  FilesOK' /\ \E i \in Items :
                 (i \in Original => at["previous"][i] # "none") /\ Changed(i, "target", "failed")
  BY <1>5, <1>1, <1>2 DEF PutAside, Changed, Places
<1>6. ASSUME PutBack(w)
      PROVE  FilesOK' /\ \E i \in Items : Changed(i, "previous", "target")
  BY <1>6, <1>1, <1>2 DEF PutBack, Changed, Places
<1> QED
  BY <1>3, <1>4, <1>5, <1>6

\* What a rename does to an original item's two places.
LEMMA SingleKept ==
    ASSUME FilesOK, Single, NEW i \in Items,
           \/ /\ Changed(i, "target", "previous") /\ (at' # at => i \in Original)
              /\ i \in Original => at["target"][i] = "old"
           \/ Changed(i, "stage", "target") /\ (i \in Original => at["target"][i] = "none")
           \/ Changed(i, "target", "failed") /\ (i \in Original => at["previous"][i] # "none")
           \/ Changed(i, "previous", "target")
    PROVE  Single'
<1>1. CASE at' = at
  BY <1>1 DEF Single
<1>2. CASE Renamed(i, "target", "previous") /\ i \in Original /\ at["target"][i] = "old"
  BY <1>2, UpdateConstants DEF Single, Renamed, Places, FilesOK
<1>3. CASE Renamed(i, "stage", "target") /\ (i \in Original => at["target"][i] = "none")
  BY <1>3, UpdateConstants DEF Single, Renamed, Places, FilesOK
<1>4. CASE Renamed(i, "target", "failed") /\ (i \in Original => at["previous"][i] # "none")
  BY <1>4, UpdateConstants DEF Single, Renamed, Places, FilesOK
<1>5. CASE at["previous"][i] # "none" /\ Renamed(i, "previous", "target")
  BY <1>5, UpdateConstants DEF Single, Renamed, Places, FilesOK
<1> QED
  BY <1>1, <1>2, <1>3, <1>4, <1>5 DEF Changed

\* A worker's own lock file.
LEMMA CreatedLock ==
    ASSUME NEW w \in Workers
    PROVE  /\ Created(w) \in [by: Workers \cup {Gone}, written: BOOLEAN]
           /\ Created(w) # NoLock /\ Created(w).by = w
<1>1. Created(w) \in [by: Workers \cup {Gone}, written: BOOLEAN]
  BY DEF Created
<1> QED
  BY <1>1, UpdateConstants DEF Created

LEMMA WrittenLock ==
    ASSUME NEW l \in [by: Workers \cup {Gone}, written: BOOLEAN]
    PROVE  /\ [l EXCEPT !.written = TRUE] \in [by: Workers \cup {Gone}, written: BOOLEAN]
           /\ [l EXCEPT !.written = TRUE] # NoLock
           /\ [l EXCEPT !.written = TRUE].by = l.by
<1>1. [l EXCEPT !.written = TRUE] \in [by: Workers \cup {Gone}, written: BOOLEAN]
  OBVIOUS
<1> QED
  BY <1>1, UpdateConstants

LEMMA SavedOKStep ==
    ASSUME SavedOK, [Next]_vars
    PROVE  SavedOK'
<1> USE UpdateConstants DEF SavedOK, State, Phases, Items, Terminal, Loop, At, Goto,
        NotSaved, NoMove, Save, SavePhase, Throw, Check, Move, manager, bounds
<1>1. ASSUME NEW w \in Workers, NEW m \in {"run", "files-only"}, Start(w, m) PROVE SavedOK'
  BY <1>1 DEF Start
<1>2. ASSUME NEW w \in Workers, NothingToDo(w) PROVE SavedOK'
  BY <1>2 DEF NothingToDo, End, Installed, IsOld, IsNew
<1>3. ASSUME NEW w \in Workers, TryLock(w) PROVE SavedOK'
  BY <1>3 DEF TryLock, SetLock, Created
<1>4. ASSUME NEW w \in Workers, LeaveLocked(w) PROVE SavedOK'
  BY <1>4 DEF LeaveLocked, End, Installed, IsOld, IsNew
<1>5. ASSUME NEW w \in Workers, JudgeStale(w) PROVE SavedOK'
  BY <1>5 DEF JudgeStale, SetLock
<1>6. ASSUME NEW w \in Workers, RemoveLock(w) PROVE SavedOK'
  BY <1>6 DEF RemoveLock, End, SetLock, Installed, IsOld, IsNew
<1>7. ASSUME NEW w \in Workers, LockAgain(w) PROVE SavedOK'
  BY <1>7 DEF LockAgain, End, SetLock, Created, Installed, IsOld, IsNew
<1>8. ASSUME NEW w \in Workers, WriteLock(w) PROVE SavedOK'
  BY <1>8 DEF WriteLock, SetLock, Dispatch
<1>9. ASSUME NEW w \in Workers, Unlock(w) PROVE SavedOK'
  BY <1>9 DEF Unlock, End, Installed, IsOld, IsNew
<1>10. ASSUME NEW w \in Workers, Caught(w) PROVE SavedOK'
  <2>1. CASE mem[w].stopped
    BY <1>10, <2>1 DEF Caught
  <2>2. CASE ~(mem[w].stopped)
    BY <1>10, <2>2 DEF Caught
  <2> QED
    BY <2>1, <2>2
<1>11. ASSUME NEW w \in Workers, Broken(w) PROVE SavedOK'
  BY <1>11 DEF Broken
<1>12. ASSUME NEW w \in Workers, Unmark(w) PROVE SavedOK'
  BY <1>12 DEF Unmark
<1>13. ASSUME NEW w \in Workers, Verify(w) PROVE SavedOK'
  BY <1>13 DEF Verify, Applying
<1>14. ASSUME NEW w \in Workers, AssertIdle(w) PROVE SavedOK'
  BY <1>14 DEF AssertIdle, Idle, Applying
<1>15. ASSUME NEW w \in Workers, Mark(w) PROVE SavedOK'
  BY <1>15 DEF Mark
<1>16. ASSUME NEW w \in Workers, SaveDraining(w) PROVE SavedOK'
  BY <1>16 DEF SaveDraining
<1>17. ASSUME NEW w \in Workers, AssertDrained(w) PROVE SavedOK'
  BY <1>17 DEF AssertDrained, Drained, Idle, Applying
<1>18. ASSUME NEW w \in Workers, SaveStopping(w) PROVE SavedOK'
  BY <1>18 DEF SaveStopping
<1>19. ASSUME NEW w \in Workers, Stop(w) PROVE SavedOK'
  BY <1>19 DEF Stop, PM2Stop, StopManager, Operations, Applying
<1>20. ASSUME NEW w \in Workers, Backup(w) PROVE SavedOK'
  BY <1>20 DEF Backup, Idle, Applying
<1>21. ASSUME NEW w \in Workers, Plan(w) PROVE SavedOK'
  BY <1>21 DEF Plan, Staged
<1>22. ASSUME NEW w \in Workers, Replace(w) PROVE SavedOK'
  BY <1>22 DEF Replace, First, Applying
<1>23. ASSUME NEW w \in Workers, Install(w) PROVE SavedOK'
  BY <1>23 DEF Install, First, Applying
<1>24. ASSUME NEW w \in Workers, SaveChecking(w) PROVE SavedOK'
  BY <1>24 DEF SaveChecking
<1>25. ASSUME NEW w \in Workers, Restart(w) PROVE SavedOK'
  BY <1>25 DEF Restart, PM2Restart, Installed, IsOld, IsNew, Applying
<1>26. ASSUME NEW w \in Workers, Health(w) PROVE SavedOK'
  BY <1>26 DEF Health, Applying
<1>27. ASSUME NEW w \in Workers, Succeed(w) PROVE SavedOK'
  BY <1>27 DEF Succeed
<1>28. ASSUME NEW w \in Workers, Preflight(w) PROVE SavedOK'
  <2>1. CASE Idle
    BY <1>28, <2>1 DEF Preflight, Drained, Idle
  <2>2. CASE ~(Idle)
    BY <1>28, <2>2 DEF Preflight, Drained, Idle
  <2> QED
    BY <2>1, <2>2
<1>29. ASSUME NEW w \in Workers, Prestart(w) PROVE SavedOK'
  <2>1. CASE pm2 = "up"
    <3> DEFINE s == [mem[w] EXCEPT !.phase = "rolling_back", !.stopped = TRUE, !.started = TRUE]
    <3>1. s \in State /\ s.phase = "rolling_back"
      BY DEF State
    <3>2. Save(w, s, "rollback") /\ pc[w] = "prestart" /\ UNCHANGED <<lock, mode, bounds, todo>>
      BY <1>29, <2>1 DEF Prestart, Applying
    <3> HIDE DEF s
    <3> QED
      BY <3>1, <3>2
  <2>2. CASE pm2 # "up"
    BY <1>29, <2>2 DEF Prestart, Applying
  <2> QED
    BY <2>1, <2>2
<1>30. ASSUME NEW w \in Workers, Rollback(w) PROVE SavedOK'
  BY <1>30 DEF Rollback
<1>31. ASSUME NEW w \in Workers, StopForRestore(w) PROVE SavedOK'
  BY <1>31 DEF StopForRestore, PM2Stop, StopManager, Operations, Applying
<1>32. ASSUME NEW w \in Workers, Restore(w) PROVE SavedOK'
  BY <1>32 DEF Restore
<1>33. ASSUME NEW w \in Workers, PutAside(w) PROVE SavedOK'
  BY <1>33 DEF PutAside, Last, Applying
<1>34. ASSUME NEW w \in Workers, SkipRestored(w) PROVE SavedOK'
  BY <1>34 DEF SkipRestored, Last
<1>35. ASSUME NEW w \in Workers, PutBack(w) PROVE SavedOK'
  BY <1>35 DEF PutBack, Last, Applying
<1>36. ASSUME NEW w \in Workers, Restored(w) PROVE SavedOK'
  BY <1>36 DEF Restored
<1>37. ASSUME NEW w \in Workers, RestartOld(w) PROVE SavedOK'
  BY <1>37 DEF RestartOld, PM2Restart, Installed, IsOld, IsNew, Applying
<1>38. ASSUME NEW w \in Workers, HealthOld(w) PROVE SavedOK'
  BY <1>38 DEF HealthOld, Applying
<1>39. ASSUME NEW w \in Workers, RolledBack(w) PROVE SavedOK'
  BY <1>39 DEF RolledBack
<1>40. ASSUME NEW w \in Workers, Fault(w) PROVE SavedOK'
  BY <1>40 DEF Fault, Applying, Recovering
<1>41. CASE InstallUpdate   BY <1>41 DEF InstallUpdate, Request, Online, Nothing
<1>42. CASE CancelUpdate    BY <1>42 DEF CancelUpdate, Request, Online, Nothing
<1>43. CASE RetryRecovery   BY <1>43 DEF RetryRecovery, Request, Online, Nothing
<1>44. CASE RequestRollback BY <1>44 DEF RequestRollback, Online, Nothing
<1>45. CASE SaveRollback    BY <1>45 DEF SaveRollback, Nothing
<1>46. ASSUME NEW o \in Operations, Begin(o) PROVE SavedOK'
  BY <1>46 DEF Begin, Online, Becomes, Others, Nothing
<1>47. ASSUME NEW o \in Operations, Enter(o) PROVE SavedOK'
  BY <1>47 DEF Enter, Becomes, Others, Nothing
<1>48. ASSUME NEW o \in Operations, Lease(o) PROVE SavedOK'
  BY <1>48 DEF Lease, Becomes, Others, Nothing
<1>49. ASSUME NEW o \in Operations, LookAgain(o) PROVE SavedOK'
  BY <1>49 DEF LookAgain, Becomes, Others, Nothing
<1>50. ASSUME NEW o \in Operations, Finish(o) PROVE SavedOK'
  BY <1>50 DEF Finish, Becomes, Others, Nothing
<1>51. ASSUME NEW o \in Operations, ClearRow(o) PROVE SavedOK'
  BY <1>51 DEF ClearRow, Online, Others, Nothing
<1>52. CASE Crash           BY <1>52 DEF Crash, StopManager, Operations
<1>53. CASE UNCHANGED vars  BY <1>53 DEF vars
<1> QED
  BY <1>1, <1>2, <1>3, <1>4, <1>5, <1>6, <1>7, <1>8, <1>9, <1>10, <1>11, <1>12,
    <1>13, <1>14, <1>15, <1>16, <1>17, <1>18, <1>19, <1>20, <1>21, <1>22, <1>23,
    <1>24, <1>25, <1>26, <1>27, <1>28, <1>29, <1>30, <1>31, <1>32, <1>33, <1>34,
    <1>35, <1>36, <1>37, <1>38, <1>39, <1>40, <1>41, <1>42, <1>43, <1>44, <1>45,
    <1>46, <1>47, <1>48, <1>49, <1>50, <1>51, <1>52, <1>53
    DEF Next, Main, Apply, Recover, Dashboard, Operation

LEMMA WorkerOKStep ==
    ASSUME SavedOK, WorkerOK, [Next]_vars
    PROVE  WorkerOK'
<1> USE UpdateConstants DEF WorkerOK, SavedOK, Steps, Items, State, Applying,
        Recovering, Phases, Terminal, Loop, At, Goto, NotSaved, NoMove, Save, SavePhase,
        Throw, Check, Move, manager, bounds
<1>1. ASSUME NEW w \in Workers, NEW m \in {"run", "files-only"}, Start(w, m) PROVE WorkerOK'
  BY <1>1 DEF Start
<1>2. ASSUME NEW w \in Workers, NothingToDo(w) PROVE WorkerOK'
  BY <1>2 DEF NothingToDo, End, Installed, IsOld, IsNew
<1>3. ASSUME NEW w \in Workers, TryLock(w) PROVE WorkerOK'
  BY <1>3 DEF TryLock, SetLock, Created
<1>4. ASSUME NEW w \in Workers, LeaveLocked(w) PROVE WorkerOK'
  BY <1>4 DEF LeaveLocked, End, Installed, IsOld, IsNew
<1>5. ASSUME NEW w \in Workers, JudgeStale(w) PROVE WorkerOK'
  BY <1>5 DEF JudgeStale, SetLock
<1>6. ASSUME NEW w \in Workers, RemoveLock(w) PROVE WorkerOK'
  BY <1>6 DEF RemoveLock, End, SetLock, Installed, IsOld, IsNew
<1>7. ASSUME NEW w \in Workers, LockAgain(w) PROVE WorkerOK'
  BY <1>7 DEF LockAgain, End, SetLock, Created, Installed, IsOld, IsNew
<1>8. ASSUME NEW w \in Workers, WriteLock(w) PROVE WorkerOK'
  BY <1>8 DEF WriteLock, SetLock, Dispatch
<1>9. ASSUME NEW w \in Workers, Unlock(w) PROVE WorkerOK'
  BY <1>9 DEF Unlock, End, Installed, IsOld, IsNew
<1>10. ASSUME NEW w \in Workers, Caught(w) PROVE WorkerOK'
  BY <1>10 DEF Caught
<1>11. ASSUME NEW w \in Workers, Broken(w) PROVE WorkerOK'
  BY <1>11 DEF Broken
<1>12. ASSUME NEW w \in Workers, Unmark(w) PROVE WorkerOK'
  BY <1>12 DEF Unmark
<1>13. ASSUME NEW w \in Workers, Verify(w) PROVE WorkerOK'
  BY <1>13 DEF Verify
<1>14. ASSUME NEW w \in Workers, AssertIdle(w) PROVE WorkerOK'
  BY <1>14 DEF AssertIdle, Idle
<1>15. ASSUME NEW w \in Workers, Mark(w) PROVE WorkerOK'
  BY <1>15 DEF Mark
<1>16. ASSUME NEW w \in Workers, SaveDraining(w) PROVE WorkerOK'
  BY <1>16 DEF SaveDraining
<1>17. ASSUME NEW w \in Workers, AssertDrained(w) PROVE WorkerOK'
  BY <1>17 DEF AssertDrained, Drained, Idle
<1>18. ASSUME NEW w \in Workers, SaveStopping(w) PROVE WorkerOK'
  BY <1>18 DEF SaveStopping
<1>19. ASSUME NEW w \in Workers, Stop(w) PROVE WorkerOK'
  BY <1>19 DEF Stop, PM2Stop, StopManager, Operations
<1>20. ASSUME NEW w \in Workers, Backup(w) PROVE WorkerOK'
  BY <1>20 DEF Backup, Idle
<1>21. ASSUME NEW w \in Workers, Plan(w) PROVE WorkerOK'
  BY <1>21 DEF Plan, Staged
<1>22. ASSUME NEW w \in Workers, Replace(w) PROVE WorkerOK'
  BY <1>22 DEF Replace, First
<1>23. ASSUME NEW w \in Workers, Install(w) PROVE WorkerOK'
  BY <1>23 DEF Install, First
<1>24. ASSUME NEW w \in Workers, SaveChecking(w) PROVE WorkerOK'
  BY <1>24 DEF SaveChecking
<1>25. ASSUME NEW w \in Workers, Restart(w) PROVE WorkerOK'
  BY <1>25 DEF Restart, PM2Restart, Installed, IsOld, IsNew
<1>26. ASSUME NEW w \in Workers, Health(w) PROVE WorkerOK'
  BY <1>26 DEF Health
<1>27. ASSUME NEW w \in Workers, Succeed(w) PROVE WorkerOK'
  BY <1>27 DEF Succeed
<1>28. ASSUME NEW w \in Workers, Preflight(w) PROVE WorkerOK'
  BY <1>28 DEF Preflight, Drained, Idle
<1>29. ASSUME NEW w \in Workers, Prestart(w) PROVE WorkerOK'
  BY <1>29 DEF Prestart
<1>30. ASSUME NEW w \in Workers, Rollback(w) PROVE WorkerOK'
  BY <1>30 DEF Rollback
<1>31. ASSUME NEW w \in Workers, StopForRestore(w) PROVE WorkerOK'
  BY <1>31 DEF StopForRestore, PM2Stop, StopManager, Operations
<1>32. ASSUME NEW w \in Workers, Restore(w) PROVE WorkerOK'
  BY <1>32 DEF Restore
<1>33. ASSUME NEW w \in Workers, PutAside(w) PROVE WorkerOK'
  BY <1>33 DEF PutAside, Last
<1>34. ASSUME NEW w \in Workers, SkipRestored(w) PROVE WorkerOK'
  BY <1>34 DEF SkipRestored, Last
<1>35. ASSUME NEW w \in Workers, PutBack(w) PROVE WorkerOK'
  BY <1>35 DEF PutBack, Last
<1>36. ASSUME NEW w \in Workers, Restored(w) PROVE WorkerOK'
  BY <1>36 DEF Restored
<1>37. ASSUME NEW w \in Workers, RestartOld(w) PROVE WorkerOK'
  BY <1>37 DEF RestartOld, PM2Restart, Installed, IsOld, IsNew
<1>38. ASSUME NEW w \in Workers, HealthOld(w) PROVE WorkerOK'
  BY <1>38 DEF HealthOld
<1>39. ASSUME NEW w \in Workers, RolledBack(w) PROVE WorkerOK'
  BY <1>39 DEF RolledBack
<1>40. ASSUME NEW w \in Workers, Fault(w) PROVE WorkerOK'
  BY <1>40 DEF Fault
<1>41. CASE InstallUpdate   BY <1>41 DEF InstallUpdate, Request, Online, Nothing
<1>42. CASE CancelUpdate    BY <1>42 DEF CancelUpdate, Request, Online, Nothing
<1>43. CASE RetryRecovery   BY <1>43 DEF RetryRecovery, Request, Online, Nothing
<1>44. CASE RequestRollback BY <1>44 DEF RequestRollback, Online, Nothing
<1>45. CASE SaveRollback    BY <1>45 DEF SaveRollback, Nothing
<1>46. ASSUME NEW o \in Operations, Begin(o) PROVE WorkerOK'
  BY <1>46 DEF Begin, Online, Becomes, Others, Nothing
<1>47. ASSUME NEW o \in Operations, Enter(o) PROVE WorkerOK'
  BY <1>47 DEF Enter, Becomes, Others, Nothing
<1>48. ASSUME NEW o \in Operations, Lease(o) PROVE WorkerOK'
  BY <1>48 DEF Lease, Becomes, Others, Nothing
<1>49. ASSUME NEW o \in Operations, LookAgain(o) PROVE WorkerOK'
  BY <1>49 DEF LookAgain, Becomes, Others, Nothing
<1>50. ASSUME NEW o \in Operations, Finish(o) PROVE WorkerOK'
  BY <1>50 DEF Finish, Becomes, Others, Nothing
<1>51. ASSUME NEW o \in Operations, ClearRow(o) PROVE WorkerOK'
  BY <1>51 DEF ClearRow, Online, Others, Nothing
<1>52. CASE Crash           BY <1>52 DEF Crash, StopManager, Operations
<1>53. CASE UNCHANGED vars  BY <1>53 DEF vars
<1> QED
  BY <1>1, <1>2, <1>3, <1>4, <1>5, <1>6, <1>7, <1>8, <1>9, <1>10, <1>11, <1>12,
    <1>13, <1>14, <1>15, <1>16, <1>17, <1>18, <1>19, <1>20, <1>21, <1>22, <1>23,
    <1>24, <1>25, <1>26, <1>27, <1>28, <1>29, <1>30, <1>31, <1>32, <1>33, <1>34,
    <1>35, <1>36, <1>37, <1>38, <1>39, <1>40, <1>41, <1>42, <1>43, <1>44, <1>45,
    <1>46, <1>47, <1>48, <1>49, <1>50, <1>51, <1>52, <1>53
    DEF Next, Main, Apply, Recover, Dashboard, Operation

\* Files, the lock and the bounds each change in a few of the steps.
LEMMA Frames ==
    ASSUME [Next]_vars
    PROVE  /\ at' = at \/ \E w \in Workers : Replace(w) \/ Install(w) \/ PutAside(w) \/ PutBack(w)
           /\ \/ lock' = lock \/ Crash
              \/ \E w \in Workers : TryLock(w) \/ RemoveLock(w) \/ LockAgain(w) \/ WriteLock(w)
                                    \/ Unlock(w)
           /\ UNCHANGED bounds \/ RequestRollback \/ Crash \/ \E w \in Workers : Fault(w)
<1>1. ASSUME NEW w \in Workers, Main(w)
      PROVE  /\ at' = at
             /\ lock' = lock \/ TryLock(w) \/ RemoveLock(w) \/ LockAgain(w) \/ WriteLock(w) \/ Unlock(w)
             /\ UNCHANGED bounds
  BY <1>1 DEF Main, NothingToDo, TryLock, LeaveLocked, JudgeStale, RemoveLock,
    LockAgain, WriteLock, Unlock, Caught, Broken, Unmark, End, SetLock, At, NoMove,
    SavePhase, Goto, NotSaved, manager, Loop, Save
<1>2. ASSUME NEW w \in Workers, Apply(w)
      PROVE  /\ at' = at \/ Replace(w) \/ Install(w)
             /\ lock' = lock
             /\ UNCHANGED bounds
  BY <1>2 DEF Apply, Verify, AssertIdle, Mark, SaveDraining, AssertDrained,
    SaveStopping, Stop, Backup, Plan, Replace, Install, SaveChecking, Restart,
    Health, Succeed, Check, At, Goto, NotSaved, manager, SavePhase, Save, PM2Stop,
    Loop, Move, NoMove, PM2Restart, Throw, StopManager
<1>3. ASSUME NEW w \in Workers, Recover(w)
      PROVE  /\ at' = at \/ PutAside(w) \/ PutBack(w)
             /\ lock' = lock
             /\ UNCHANGED bounds
  BY <1>3 DEF Recover, Preflight, Prestart, Rollback, StopForRestore, Restore,
    PutAside, SkipRestored, PutBack, Restored, RestartOld, HealthOld, RolledBack,
    At, NoMove, SavePhase, Save, Throw, PM2Stop, Loop, Move, PM2Restart, Check,
    Goto, NotSaved, manager, StopManager
<1>4. ASSUME NEW w \in Workers, NEW m, Start(w, m)
      PROVE  /\ at' = at
             /\ lock' = lock
             /\ UNCHANGED bounds
  BY <1>4 DEF Start, Goto, manager
<1>5. ASSUME NEW w \in Workers, Fault(w)
      PROVE  /\ at' = at
             /\ lock' = lock
  BY <1>5 DEF Fault, Throw, NoMove, Goto, NotSaved, manager
<1>6. ASSUME Dashboard
      PROVE  /\ at' = at
             /\ lock' = lock
             /\ UNCHANGED bounds \/ RequestRollback
  BY <1>6 DEF Dashboard, InstallUpdate, CancelUpdate, RetryRecovery,
    RequestRollback, SaveRollback, Request, Nothing
<1>7. ASSUME NEW o \in Operations, Operation(o)
      PROVE  /\ at' = at
             /\ lock' = lock
             /\ UNCHANGED bounds
  BY <1>7 DEF Operation, Begin, Enter, Lease, LookAgain, Finish, ClearRow, Becomes,
    Others, Nothing
<1>8. ASSUME Crash PROVE at' = at
  BY <1>8 DEF Crash
<1>9. ASSUME UNCHANGED vars PROVE at' = at /\ lock' = lock /\ UNCHANGED bounds
  BY <1>9 DEF vars
<1> QED
  BY <1>1, <1>2, <1>3, <1>4, <1>5, <1>6, <1>7, <1>8, <1>9 DEF Next

LEMMA FilesOKStep ==
    ASSUME FilesOK, [Next]_vars
    PROVE  FilesOK'
  BY Frames, RenamingSteps DEF FilesOK

LEMMA LockOKStep ==
    ASSUME LockOK, [Next]_vars
    PROVE  LockOK'
<1>1. ASSUME NEW w \in Workers, TryLock(w) \/ LockAgain(w) PROVE LockOK'
  <2>1. lock' = lock \/ lock' = Created(w)
    BY <1>1 DEF TryLock, LockAgain, SetLock, End
  <2> QED
    BY <2>1, CreatedLock DEF LockOK
<1>2. ASSUME NEW w \in Workers, WriteLock(w) PROVE LockOK'
  BY <1>2, WrittenLock, UpdateConstants DEF WriteLock, SetLock, LockOK
<1>3. ASSUME NEW w \in Workers, RemoveLock(w) \/ Unlock(w) PROVE LockOK'
  BY <1>3 DEF RemoveLock, Unlock, SetLock, LockOK
<1>4. CASE Crash
  BY <1>4 DEF Crash, LockOK
<1> QED
  BY <1>1, <1>2, <1>3, <1>4, Frames DEF LockOK

LEMMA ManagerOKStep ==
    ASSUME ManagerOK, [Next]_vars
    PROVE  ManagerOK'
<1> USE UpdateConstants DEF ManagerOK, Operations, Items, Loop, At, Goto, NotSaved,
        NoMove, Save, SavePhase, Throw, Check, Move, manager, bounds
<1>1. ASSUME NEW w \in Workers, NEW m \in {"run", "files-only"}, Start(w, m) PROVE ManagerOK'
  BY <1>1 DEF Start
<1>2. ASSUME NEW w \in Workers, NothingToDo(w) PROVE ManagerOK'
  BY <1>2 DEF NothingToDo, Terminal, End, Installed, IsOld, IsNew
<1>3. ASSUME NEW w \in Workers, TryLock(w) PROVE ManagerOK'
  BY <1>3 DEF TryLock, Terminal, SetLock, Created
<1>4. ASSUME NEW w \in Workers, LeaveLocked(w) PROVE ManagerOK'
  BY <1>4 DEF LeaveLocked, End, Installed, IsOld, IsNew
<1>5. ASSUME NEW w \in Workers, JudgeStale(w) PROVE ManagerOK'
  BY <1>5 DEF JudgeStale, SetLock
<1>6. ASSUME NEW w \in Workers, RemoveLock(w) PROVE ManagerOK'
  BY <1>6 DEF RemoveLock, End, SetLock, Installed, IsOld, IsNew
<1>7. ASSUME NEW w \in Workers, LockAgain(w) PROVE ManagerOK'
  BY <1>7 DEF LockAgain, End, SetLock, Created, Installed, IsOld, IsNew
<1>8. ASSUME NEW w \in Workers, WriteLock(w) PROVE ManagerOK'
  BY <1>8 DEF WriteLock, SetLock, Dispatch
<1>9. ASSUME NEW w \in Workers, Unlock(w) PROVE ManagerOK'
  BY <1>9 DEF Unlock, End, Installed, IsOld, IsNew
<1>10. ASSUME NEW w \in Workers, Caught(w) PROVE ManagerOK'
  BY <1>10 DEF Caught
<1>11. ASSUME NEW w \in Workers, Broken(w) PROVE ManagerOK'
  BY <1>11 DEF Broken
<1>12. ASSUME NEW w \in Workers, Unmark(w) PROVE ManagerOK'
  BY <1>12 DEF Unmark
<1>13. ASSUME NEW w \in Workers, Verify(w) PROVE ManagerOK'
  BY <1>13 DEF Verify, Applying
<1>14. ASSUME NEW w \in Workers, AssertIdle(w) PROVE ManagerOK'
  BY <1>14 DEF AssertIdle, Idle, Applying
<1>15. ASSUME NEW w \in Workers, Mark(w) PROVE ManagerOK'
  BY <1>15 DEF Mark
<1>16. ASSUME NEW w \in Workers, SaveDraining(w) PROVE ManagerOK'
  BY <1>16 DEF SaveDraining
<1>17. ASSUME NEW w \in Workers, AssertDrained(w) PROVE ManagerOK'
  BY <1>17 DEF AssertDrained, Drained, Idle, Applying
<1>18. ASSUME NEW w \in Workers, SaveStopping(w) PROVE ManagerOK'
  BY <1>18 DEF SaveStopping
<1>19. ASSUME NEW w \in Workers, Stop(w) PROVE ManagerOK'
  BY <1>19 DEF Stop, PM2Stop, StopManager, Applying
<1>20. ASSUME NEW w \in Workers, Backup(w) PROVE ManagerOK'
  BY <1>20 DEF Backup, Idle, Applying
<1>21. ASSUME NEW w \in Workers, Plan(w) PROVE ManagerOK'
  BY <1>21 DEF Plan, Staged
<1>22. ASSUME NEW w \in Workers, Replace(w) PROVE ManagerOK'
  BY <1>22 DEF Replace, First, Applying
<1>23. ASSUME NEW w \in Workers, Install(w) PROVE ManagerOK'
  BY <1>23 DEF Install, First, Applying
<1>24. ASSUME NEW w \in Workers, SaveChecking(w) PROVE ManagerOK'
  BY <1>24 DEF SaveChecking
<1>25. ASSUME NEW w \in Workers, Restart(w) PROVE ManagerOK'
  BY <1>25 DEF Restart, PM2Restart, Installed, IsOld, IsNew, Applying
<1>26. ASSUME NEW w \in Workers, Health(w) PROVE ManagerOK'
  BY <1>26 DEF Health, Applying
<1>27. ASSUME NEW w \in Workers, Succeed(w) PROVE ManagerOK'
  BY <1>27 DEF Succeed
<1>28. ASSUME NEW w \in Workers, Preflight(w) PROVE ManagerOK'
  BY <1>28 DEF Preflight, Drained, Idle
<1>29. ASSUME NEW w \in Workers, Prestart(w) PROVE ManagerOK'
  BY <1>29 DEF Prestart, Applying
<1>30. ASSUME NEW w \in Workers, Rollback(w) PROVE ManagerOK'
  BY <1>30 DEF Rollback
<1>31. ASSUME NEW w \in Workers, StopForRestore(w) PROVE ManagerOK'
  BY <1>31 DEF StopForRestore, PM2Stop, StopManager, Applying
<1>32. ASSUME NEW w \in Workers, Restore(w) PROVE ManagerOK'
  BY <1>32 DEF Restore
<1>33. ASSUME NEW w \in Workers, PutAside(w) PROVE ManagerOK'
  BY <1>33 DEF PutAside, Last, Applying
<1>34. ASSUME NEW w \in Workers, SkipRestored(w) PROVE ManagerOK'
  BY <1>34 DEF SkipRestored, Last
<1>35. ASSUME NEW w \in Workers, PutBack(w) PROVE ManagerOK'
  BY <1>35 DEF PutBack, Last, Applying
<1>36. ASSUME NEW w \in Workers, Restored(w) PROVE ManagerOK'
  BY <1>36 DEF Restored
<1>37. ASSUME NEW w \in Workers, RestartOld(w) PROVE ManagerOK'
  BY <1>37 DEF RestartOld, PM2Restart, Installed, IsOld, IsNew, Applying
<1>38. ASSUME NEW w \in Workers, HealthOld(w) PROVE ManagerOK'
  BY <1>38 DEF HealthOld, Applying
<1>39. ASSUME NEW w \in Workers, RolledBack(w) PROVE ManagerOK'
  BY <1>39 DEF RolledBack
<1>40. ASSUME NEW w \in Workers, Fault(w) PROVE ManagerOK'
  BY <1>40 DEF Fault, Applying, Recovering
<1>41. CASE InstallUpdate   BY <1>41 DEF InstallUpdate, Request, Online, Nothing
<1>42. CASE CancelUpdate    BY <1>42 DEF CancelUpdate, Request, Online, Nothing
<1>43. CASE RetryRecovery   BY <1>43 DEF RetryRecovery, Request, Online, Nothing
<1>44. CASE RequestRollback BY <1>44 DEF RequestRollback, Online, Nothing
<1>45. CASE SaveRollback    BY <1>45 DEF SaveRollback, Nothing
<1>46. ASSUME NEW o \in Operations, Begin(o) PROVE ManagerOK'
  BY <1>46 DEF Begin, Online, Becomes, Others, Nothing
<1>47. ASSUME NEW o \in Operations, Enter(o) PROVE ManagerOK'
  BY <1>47 DEF Enter, Becomes, Others, Nothing
<1>48. ASSUME NEW o \in Operations, Lease(o) PROVE ManagerOK'
  BY <1>48 DEF Lease, Becomes, Others, Nothing
<1>49. ASSUME NEW o \in Operations, LookAgain(o) PROVE ManagerOK'
  BY <1>49 DEF LookAgain, Becomes, Others, Nothing
<1>50. ASSUME NEW o \in Operations, Finish(o) PROVE ManagerOK'
  BY <1>50 DEF Finish, Becomes, Others, Nothing
<1>51. ASSUME NEW o \in Operations, ClearRow(o) PROVE ManagerOK'
  BY <1>51 DEF ClearRow, Online, Others, Nothing
<1>52. CASE Crash           BY <1>52 DEF Crash, StopManager
<1>53. CASE UNCHANGED vars  BY <1>53 DEF vars
<1> QED
  BY <1>1, <1>2, <1>3, <1>4, <1>5, <1>6, <1>7, <1>8, <1>9, <1>10, <1>11, <1>12,
    <1>13, <1>14, <1>15, <1>16, <1>17, <1>18, <1>19, <1>20, <1>21, <1>22, <1>23,
    <1>24, <1>25, <1>26, <1>27, <1>28, <1>29, <1>30, <1>31, <1>32, <1>33, <1>34,
    <1>35, <1>36, <1>37, <1>38, <1>39, <1>40, <1>41, <1>42, <1>43, <1>44, <1>45,
    <1>46, <1>47, <1>48, <1>49, <1>50, <1>51, <1>52, <1>53
    DEF Next, Main, Apply, Recover, Dashboard, Operation

LEMMA BoundsOKStep ==
    ASSUME BoundsOK, [Next]_vars
    PROVE  BoundsOK'
<1>1. CASE UNCHANGED bounds
  BY <1>1 DEF BoundsOK, bounds
<1>2. CASE RequestRollback
  BY <1>2, UpdateConstants DEF BoundsOK, RequestRollback
<1>3. ASSUME NEW w \in Workers, Fault(w) PROVE BoundsOK'
  BY <1>3, UpdateConstants DEF BoundsOK, Fault
<1>4. CASE Crash
  BY <1>4, UpdateConstants DEF BoundsOK, Crash
<1> QED
  BY <1>1, <1>2, <1>3, <1>4, Frames

LEMMA LockTellsStep ==
    ASSUME WorkerOK, LockOK, BoundsOK, LockTells, [Next]_vars
    PROVE  LockTells'
<1> USE UpdateConstants DEF LockTells, WorkerOK, LockOK, BoundsOK, Held, Steps,
        Items, Applying, Recovering, Loop, At, Goto, NotSaved, NoMove, Save, SavePhase,
        Throw, Check, Move, manager, bounds
<1>1. ASSUME NEW w \in Workers, NEW m \in {"run", "files-only"}, Start(w, m) PROVE LockTells'
  BY <1>1 DEF Start
<1>2. ASSUME NEW w \in Workers, NothingToDo(w) PROVE LockTells'
  BY <1>2 DEF NothingToDo, Terminal, End, Installed, IsOld, IsNew
<1>3. ASSUME NEW w \in Workers, TryLock(w) PROVE LockTells'
  <2>1. CASE lock = NoLock
    <3>1. lock' = Created(w) /\ pc' = [pc EXCEPT ![w] = "write"] /\ crashes' = crashes
      BY <1>3, <2>1 DEF TryLock, SetLock
    <3> QED
      BY <2>1, <3>1, CreatedLock
  <2>2. CASE lock # NoLock
    BY <1>3, <2>2 DEF TryLock, SetLock
  <2> QED
    BY <2>1, <2>2
<1>4. ASSUME NEW w \in Workers, LeaveLocked(w) PROVE LockTells'
  BY <1>4 DEF LeaveLocked, End, Installed, IsOld, IsNew
<1>5. ASSUME NEW w \in Workers, JudgeStale(w) PROVE LockTells'
  BY <1>5 DEF JudgeStale, SetLock
<1>6. ASSUME NEW w \in Workers, RemoveLock(w) PROVE LockTells'
  BY <1>6 DEF RemoveLock, End, SetLock, Installed, IsOld, IsNew
<1>7. ASSUME NEW w \in Workers, LockAgain(w) PROVE LockTells'
  BY <1>7 DEF LockAgain, End, SetLock, Created, Installed, IsOld, IsNew
<1>8. ASSUME NEW w \in Workers, WriteLock(w) PROVE LockTells'
  <2>1. CASE lock # NoLock /\ lock.by = w
    <3>1. /\ lock' = [lock EXCEPT !.written = TRUE] /\ crashes' = crashes
          /\ pc[w] = "write" /\ pc' = [pc EXCEPT ![w] = Dispatch(w)]
      BY <1>8, <2>1 DEF WriteLock, SetLock
    <3>2. Dispatch(w) \in Applying \cup Recovering
      BY DEF Dispatch
    <3>3. lock' # NoLock /\ lock'.by = lock.by
      BY <2>1, <3>1, WrittenLock
    <3> QED
      BY <2>1, <3>1, <3>2, <3>3
  <2>2. CASE ~(lock # NoLock /\ lock.by = w)
    BY <1>8, <2>2 DEF WriteLock, SetLock, Dispatch
  <2> QED
    BY <2>1, <2>2
<1>9. ASSUME NEW w \in Workers, Unlock(w) PROVE LockTells'
  BY <1>9 DEF Unlock, End, Installed, IsOld, IsNew
<1>10. ASSUME NEW w \in Workers, Caught(w) PROVE LockTells'
  BY <1>10 DEF Caught
<1>11. ASSUME NEW w \in Workers, Broken(w) PROVE LockTells'
  BY <1>11 DEF Broken
<1>12. ASSUME NEW w \in Workers, Unmark(w) PROVE LockTells'
  BY <1>12 DEF Unmark
<1>13. ASSUME NEW w \in Workers, Verify(w) PROVE LockTells'
  BY <1>13 DEF Verify
<1>14. ASSUME NEW w \in Workers, AssertIdle(w) PROVE LockTells'
  BY <1>14 DEF AssertIdle, Idle
<1>15. ASSUME NEW w \in Workers, Mark(w) PROVE LockTells'
  BY <1>15 DEF Mark
<1>16. ASSUME NEW w \in Workers, SaveDraining(w) PROVE LockTells'
  BY <1>16 DEF SaveDraining
<1>17. ASSUME NEW w \in Workers, AssertDrained(w) PROVE LockTells'
  BY <1>17 DEF AssertDrained, Drained, Idle
<1>18. ASSUME NEW w \in Workers, SaveStopping(w) PROVE LockTells'
  BY <1>18 DEF SaveStopping
<1>19. ASSUME NEW w \in Workers, Stop(w) PROVE LockTells'
  BY <1>19 DEF Stop, PM2Stop, StopManager, Operations
<1>20. ASSUME NEW w \in Workers, Backup(w) PROVE LockTells'
  BY <1>20 DEF Backup, Idle
<1>21. ASSUME NEW w \in Workers, Plan(w) PROVE LockTells'
  BY <1>21 DEF Plan, Staged
<1>22. ASSUME NEW w \in Workers, Replace(w) PROVE LockTells'
  BY <1>22 DEF Replace, First
<1>23. ASSUME NEW w \in Workers, Install(w) PROVE LockTells'
  BY <1>23 DEF Install, First
<1>24. ASSUME NEW w \in Workers, SaveChecking(w) PROVE LockTells'
  BY <1>24 DEF SaveChecking
<1>25. ASSUME NEW w \in Workers, Restart(w) PROVE LockTells'
  BY <1>25 DEF Restart, PM2Restart, Installed, IsOld, IsNew
<1>26. ASSUME NEW w \in Workers, Health(w) PROVE LockTells'
  BY <1>26 DEF Health
<1>27. ASSUME NEW w \in Workers, Succeed(w) PROVE LockTells'
  BY <1>27 DEF Succeed
<1>28. ASSUME NEW w \in Workers, Preflight(w) PROVE LockTells'
  BY <1>28 DEF Preflight, Drained, Idle
<1>29. ASSUME NEW w \in Workers, Prestart(w) PROVE LockTells'
  BY <1>29 DEF Prestart
<1>30. ASSUME NEW w \in Workers, Rollback(w) PROVE LockTells'
  BY <1>30 DEF Rollback
<1>31. ASSUME NEW w \in Workers, StopForRestore(w) PROVE LockTells'
  BY <1>31 DEF StopForRestore, PM2Stop, StopManager, Operations
<1>32. ASSUME NEW w \in Workers, Restore(w) PROVE LockTells'
  BY <1>32 DEF Restore
<1>33. ASSUME NEW w \in Workers, PutAside(w) PROVE LockTells'
  BY <1>33 DEF PutAside, Last
<1>34. ASSUME NEW w \in Workers, SkipRestored(w) PROVE LockTells'
  BY <1>34 DEF SkipRestored, Last
<1>35. ASSUME NEW w \in Workers, PutBack(w) PROVE LockTells'
  BY <1>35 DEF PutBack, Last
<1>36. ASSUME NEW w \in Workers, Restored(w) PROVE LockTells'
  BY <1>36 DEF Restored
<1>37. ASSUME NEW w \in Workers, RestartOld(w) PROVE LockTells'
  BY <1>37 DEF RestartOld, PM2Restart, Installed, IsOld, IsNew
<1>38. ASSUME NEW w \in Workers, HealthOld(w) PROVE LockTells'
  BY <1>38 DEF HealthOld
<1>39. ASSUME NEW w \in Workers, RolledBack(w) PROVE LockTells'
  BY <1>39 DEF RolledBack
<1>40. ASSUME NEW w \in Workers, Fault(w) PROVE LockTells'
  BY <1>40 DEF Fault
<1>41. CASE InstallUpdate   BY <1>41 DEF InstallUpdate, Request, Online, Nothing
<1>42. CASE CancelUpdate    BY <1>42 DEF CancelUpdate, Request, Online, Nothing
<1>43. CASE RetryRecovery   BY <1>43 DEF RetryRecovery, Request, Online, Nothing
<1>44. CASE RequestRollback BY <1>44 DEF RequestRollback, Online, Nothing
<1>45. CASE SaveRollback    BY <1>45 DEF SaveRollback, Nothing
<1>46. ASSUME NEW o \in Operations, Begin(o) PROVE LockTells'
  BY <1>46 DEF Begin, Online, Becomes, Others, Nothing
<1>47. ASSUME NEW o \in Operations, Enter(o) PROVE LockTells'
  BY <1>47 DEF Enter, Becomes, Others, Nothing
<1>48. ASSUME NEW o \in Operations, Lease(o) PROVE LockTells'
  BY <1>48 DEF Lease, Becomes, Others, Nothing
<1>49. ASSUME NEW o \in Operations, LookAgain(o) PROVE LockTells'
  BY <1>49 DEF LookAgain, Becomes, Others, Nothing
<1>50. ASSUME NEW o \in Operations, Finish(o) PROVE LockTells'
  BY <1>50 DEF Finish, Becomes, Others, Nothing
<1>51. ASSUME NEW o \in Operations, ClearRow(o) PROVE LockTells'
  BY <1>51 DEF ClearRow, Online, Others, Nothing
<1>52. CASE Crash           BY <1>52 DEF Crash, StopManager, Operations
<1>53. CASE UNCHANGED vars  BY <1>53 DEF vars
<1> QED
  BY <1>1, <1>2, <1>3, <1>4, <1>5, <1>6, <1>7, <1>8, <1>9, <1>10, <1>11, <1>12,
    <1>13, <1>14, <1>15, <1>16, <1>17, <1>18, <1>19, <1>20, <1>21, <1>22, <1>23,
    <1>24, <1>25, <1>26, <1>27, <1>28, <1>29, <1>30, <1>31, <1>32, <1>33, <1>34,
    <1>35, <1>36, <1>37, <1>38, <1>39, <1>40, <1>41, <1>42, <1>43, <1>44, <1>45,
    <1>46, <1>47, <1>48, <1>49, <1>50, <1>51, <1>52, <1>53
    DEF Next, Main, Apply, Recover, Dashboard, Operation

LEMMA SingleStep ==
    ASSUME Alone, FilesOK, WorkerOK, Single, LoopTells, [Next]_vars
    PROVE  Single'
<1>1. ASSUME NEW w \in Workers, Replace(w) PROVE Single'
  <2>1. PICK i \in Items :
            /\ pc[w] = "replace" /\ First(todo[w], i)
            /\ Changed(i, "target", "previous") /\ (at' # at => i \in Original)
    BY <1>1, RenamingSteps
  <2>2. i \in Original => at["target"][i] = "old"
    BY <2>1 DEF LoopTells, First
  <2> QED
    BY <2>1, <2>2, SingleKept
<1>2. ASSUME NEW w \in Workers, Install(w) PROVE Single'
  <2>1. PICK i \in Items :
            pc[w] = "install" /\ First(todo[w], i) /\ Changed(i, "stage", "target")
    BY <1>2, RenamingSteps
  <2>2. i \in Original => at["target"][i] = "none"
    BY <2>1 DEF LoopTells, First
  <2> QED
    BY <2>1, <2>2, SingleKept
<1>3. ASSUME NEW w \in Workers, PutAside(w) PROVE Single'
  <2>1. PICK i \in Items :
            (i \in Original => at["previous"][i] # "none") /\ Changed(i, "target", "failed")
    BY <1>3, RenamingSteps
  <2> QED
    BY <2>1, SingleKept
<1>4. ASSUME NEW w \in Workers, PutBack(w) PROVE Single'
  <2>1. PICK i \in Items : Changed(i, "previous", "target")
    BY <1>4, RenamingSteps
  <2> QED
    BY <2>1, SingleKept
<1> QED
  BY <1>1, <1>2, <1>3, <1>4, Frames DEF Single

LEMMA EarlyTellsStep ==
    ASSUME Alone, SavedOK, WorkerOK, EarlyTells, [Next]_vars
    PROVE  EarlyTells'
<1> USE UpdateConstants DEF EarlyTells, SavedOK, WorkerOK, Alone, Early, Untouched,
        Preparing, Renaming, State, Steps, Items, Phases, Applying, Recovering, Terminal,
        Loop, At, Goto, NotSaved, NoMove, Save, SavePhase, Throw, Check, Move, manager,
        bounds
<1>1. ASSUME NEW w \in Workers, NEW m \in {"run", "files-only"}, Start(w, m) PROVE EarlyTells'
  BY <1>1 DEF Start
<1>2. ASSUME NEW w \in Workers, NothingToDo(w) PROVE EarlyTells'
  BY <1>2 DEF NothingToDo, End, Installed, IsOld, IsNew
<1>3. ASSUME NEW w \in Workers, TryLock(w) PROVE EarlyTells'
  BY <1>3 DEF TryLock, SetLock, Created
<1>4. ASSUME NEW w \in Workers, LeaveLocked(w) PROVE EarlyTells'
  BY <1>4 DEF LeaveLocked, End, Installed, IsOld, IsNew
<1>5. ASSUME NEW w \in Workers, JudgeStale(w) PROVE EarlyTells'
  BY <1>5 DEF JudgeStale, SetLock
<1>6. ASSUME NEW w \in Workers, RemoveLock(w) PROVE EarlyTells'
  BY <1>6 DEF RemoveLock, End, SetLock, Installed, IsOld, IsNew
<1>7. ASSUME NEW w \in Workers, LockAgain(w) PROVE EarlyTells'
  BY <1>7 DEF LockAgain, End, SetLock, Created, Installed, IsOld, IsNew
<1>8. ASSUME NEW w \in Workers, WriteLock(w) PROVE EarlyTells'
  BY <1>8 DEF WriteLock, SetLock, Dispatch
<1>9. ASSUME NEW w \in Workers, Unlock(w) PROVE EarlyTells'
  BY <1>9 DEF Unlock, End, Installed, IsOld, IsNew
<1>10. ASSUME NEW w \in Workers, Caught(w) PROVE EarlyTells'
  BY <1>10 DEF Caught
<1>11. ASSUME NEW w \in Workers, Broken(w) PROVE EarlyTells'
  BY <1>11 DEF Broken
<1>12. ASSUME NEW w \in Workers, Unmark(w) PROVE EarlyTells'
  BY <1>12 DEF Unmark
<1>13. ASSUME NEW w \in Workers, Verify(w) PROVE EarlyTells'
  BY <1>13 DEF Verify
<1>14. ASSUME NEW w \in Workers, AssertIdle(w) PROVE EarlyTells'
  BY <1>14 DEF AssertIdle, Idle
<1>15. ASSUME NEW w \in Workers, Mark(w) PROVE EarlyTells'
  BY <1>15 DEF Mark
<1>16. ASSUME NEW w \in Workers, SaveDraining(w) PROVE EarlyTells'
  BY <1>16 DEF SaveDraining
<1>17. ASSUME NEW w \in Workers, AssertDrained(w) PROVE EarlyTells'
  BY <1>17 DEF AssertDrained, Drained, Idle
<1>18. ASSUME NEW w \in Workers, SaveStopping(w) PROVE EarlyTells'
  BY <1>18 DEF SaveStopping
<1>19. ASSUME NEW w \in Workers, Stop(w) PROVE EarlyTells'
  BY <1>19 DEF Stop, PM2Stop, StopManager, Operations
<1>20. ASSUME NEW w \in Workers, Backup(w) PROVE EarlyTells'
  BY <1>20 DEF Backup, Idle
<1>21. ASSUME NEW w \in Workers, Plan(w) PROVE EarlyTells'
  BY <1>21 DEF Plan, Staged
<1>22. ASSUME NEW w \in Workers, Replace(w) PROVE EarlyTells'
  BY <1>22 DEF Replace, First
<1>23. ASSUME NEW w \in Workers, Install(w) PROVE EarlyTells'
  BY <1>23 DEF Install, First
<1>24. ASSUME NEW w \in Workers, SaveChecking(w) PROVE EarlyTells'
  BY <1>24 DEF SaveChecking
<1>25. ASSUME NEW w \in Workers, Restart(w) PROVE EarlyTells'
  BY <1>25 DEF Restart, PM2Restart, Installed, IsOld, IsNew
<1>26. ASSUME NEW w \in Workers, Health(w) PROVE EarlyTells'
  BY <1>26 DEF Health
<1>27. ASSUME NEW w \in Workers, Succeed(w) PROVE EarlyTells'
  BY <1>27 DEF Succeed
<1>28. ASSUME NEW w \in Workers, Preflight(w) PROVE EarlyTells'
  BY <1>28 DEF Preflight, Drained, Idle
<1>29. ASSUME NEW w \in Workers, Prestart(w) PROVE EarlyTells'
  <2>1. CASE pm2 = "up"
    <3> DEFINE s == [mem[w] EXCEPT !.phase = "rolling_back", !.stopped = TRUE, !.started = TRUE]
    <3>1. s \in State /\ s.phase = "rolling_back"
      BY DEF State
    <3>2. Save(w, s, "rollback") /\ pc[w] = "prestart" /\ UNCHANGED <<lock, mode, bounds, todo>>
      BY <1>29, <2>1 DEF Prestart
    <3> HIDE DEF s
    <3> QED
      BY <3>1, <3>2
  <2>2. CASE pm2 # "up"
    BY <1>29, <2>2 DEF Prestart
  <2> QED
    BY <2>1, <2>2
<1>30. ASSUME NEW w \in Workers, Rollback(w) PROVE EarlyTells'
  BY <1>30 DEF Rollback
<1>31. ASSUME NEW w \in Workers, StopForRestore(w) PROVE EarlyTells'
  BY <1>31 DEF StopForRestore, PM2Stop, StopManager, Operations
<1>32. ASSUME NEW w \in Workers, Restore(w) PROVE EarlyTells'
  BY <1>32 DEF Restore
<1>33. ASSUME NEW w \in Workers, PutAside(w) PROVE EarlyTells'
  BY <1>33 DEF PutAside, Last
<1>34. ASSUME NEW w \in Workers, SkipRestored(w) PROVE EarlyTells'
  BY <1>34 DEF SkipRestored, Last
<1>35. ASSUME NEW w \in Workers, PutBack(w) PROVE EarlyTells'
  BY <1>35 DEF PutBack, Last
<1>36. ASSUME NEW w \in Workers, Restored(w) PROVE EarlyTells'
  BY <1>36 DEF Restored
<1>37. ASSUME NEW w \in Workers, RestartOld(w) PROVE EarlyTells'
  BY <1>37 DEF RestartOld, PM2Restart, Installed, IsOld, IsNew
<1>38. ASSUME NEW w \in Workers, HealthOld(w) PROVE EarlyTells'
  BY <1>38 DEF HealthOld
<1>39. ASSUME NEW w \in Workers, RolledBack(w) PROVE EarlyTells'
  BY <1>39 DEF RolledBack
<1>40. ASSUME NEW w \in Workers, Fault(w) PROVE EarlyTells'
  BY <1>40 DEF Fault
<1>41. CASE InstallUpdate   BY <1>41 DEF InstallUpdate, Request, Online, Nothing
<1>42. CASE CancelUpdate    BY <1>42 DEF CancelUpdate, Request, Online, Nothing
<1>43. CASE RetryRecovery   BY <1>43 DEF RetryRecovery, Request, Online, Nothing
<1>44. CASE RequestRollback BY <1>44 DEF RequestRollback, Online, Nothing
<1>45. CASE SaveRollback    BY <1>45 DEF SaveRollback, Nothing
<1>46. ASSUME NEW o \in Operations, Begin(o) PROVE EarlyTells'
  BY <1>46 DEF Begin, Online, Becomes, Others, Nothing
<1>47. ASSUME NEW o \in Operations, Enter(o) PROVE EarlyTells'
  BY <1>47 DEF Enter, Becomes, Others, Nothing
<1>48. ASSUME NEW o \in Operations, Lease(o) PROVE EarlyTells'
  BY <1>48 DEF Lease, Becomes, Others, Nothing
<1>49. ASSUME NEW o \in Operations, LookAgain(o) PROVE EarlyTells'
  BY <1>49 DEF LookAgain, Becomes, Others, Nothing
<1>50. ASSUME NEW o \in Operations, Finish(o) PROVE EarlyTells'
  BY <1>50 DEF Finish, Becomes, Others, Nothing
<1>51. ASSUME NEW o \in Operations, ClearRow(o) PROVE EarlyTells'
  BY <1>51 DEF ClearRow, Online, Others, Nothing
<1>52. CASE Crash           BY <1>52 DEF Crash, StopManager, Operations
<1>53. CASE UNCHANGED vars  BY <1>53 DEF vars
<1> QED
  BY <1>1, <1>2, <1>3, <1>4, <1>5, <1>6, <1>7, <1>8, <1>9, <1>10, <1>11, <1>12,
    <1>13, <1>14, <1>15, <1>16, <1>17, <1>18, <1>19, <1>20, <1>21, <1>22, <1>23,
    <1>24, <1>25, <1>26, <1>27, <1>28, <1>29, <1>30, <1>31, <1>32, <1>33, <1>34,
    <1>35, <1>36, <1>37, <1>38, <1>39, <1>40, <1>41, <1>42, <1>43, <1>44, <1>45,
    <1>46, <1>47, <1>48, <1>49, <1>50, <1>51, <1>52, <1>53
    DEF Next, Main, Apply, Recover, Dashboard, Operation

LEMMA LoopTellsStep ==
    ASSUME Alone, FilesOK, WorkerOK, EarlyTells, LoopTells, [Next]_vars
    PROVE  LoopTells'
<1> USE UpdateConstants DEF LoopTells, FilesOK, WorkerOK, EarlyTells, Alone, First,
        Places, Items, Steps, Early, Untouched, Preparing, Renaming, Applying, Recovering,
        Loop, At, Goto, NotSaved, NoMove, Save, SavePhase, Throw, Check, Move, manager,
        bounds
<1>1. ASSUME NEW w \in Workers, NEW m \in {"run", "files-only"}, Start(w, m) PROVE LoopTells'
  BY <1>1 DEF Start
<1>2. ASSUME NEW w \in Workers, NothingToDo(w) PROVE LoopTells'
  BY <1>2 DEF NothingToDo, Terminal, End, Installed, IsOld, IsNew
<1>3. ASSUME NEW w \in Workers, TryLock(w) PROVE LoopTells'
  BY <1>3 DEF TryLock, Terminal, SetLock, Created
<1>4. ASSUME NEW w \in Workers, LeaveLocked(w) PROVE LoopTells'
  BY <1>4 DEF LeaveLocked, End, Installed, IsOld, IsNew
<1>5. ASSUME NEW w \in Workers, JudgeStale(w) PROVE LoopTells'
  BY <1>5 DEF JudgeStale, SetLock
<1>6. ASSUME NEW w \in Workers, RemoveLock(w) PROVE LoopTells'
  BY <1>6 DEF RemoveLock, End, SetLock, Installed, IsOld, IsNew
<1>7. ASSUME NEW w \in Workers, LockAgain(w) PROVE LoopTells'
  BY <1>7 DEF LockAgain, End, SetLock, Created, Installed, IsOld, IsNew
<1>8. ASSUME NEW w \in Workers, WriteLock(w) PROVE LoopTells'
  BY <1>8 DEF WriteLock, SetLock, Dispatch
<1>9. ASSUME NEW w \in Workers, Unlock(w) PROVE LoopTells'
  BY <1>9 DEF Unlock, End, Installed, IsOld, IsNew
<1>10. ASSUME NEW w \in Workers, Caught(w) PROVE LoopTells'
  BY <1>10 DEF Caught
<1>11. ASSUME NEW w \in Workers, Broken(w) PROVE LoopTells'
  BY <1>11 DEF Broken
<1>12. ASSUME NEW w \in Workers, Unmark(w) PROVE LoopTells'
  BY <1>12 DEF Unmark
<1>13. ASSUME NEW w \in Workers, Verify(w) PROVE LoopTells'
  BY <1>13 DEF Verify
<1>14. ASSUME NEW w \in Workers, AssertIdle(w) PROVE LoopTells'
  BY <1>14 DEF AssertIdle, Idle
<1>15. ASSUME NEW w \in Workers, Mark(w) PROVE LoopTells'
  BY <1>15 DEF Mark
<1>16. ASSUME NEW w \in Workers, SaveDraining(w) PROVE LoopTells'
  BY <1>16 DEF SaveDraining
<1>17. ASSUME NEW w \in Workers, AssertDrained(w) PROVE LoopTells'
  BY <1>17 DEF AssertDrained, Drained, Idle
<1>18. ASSUME NEW w \in Workers, SaveStopping(w) PROVE LoopTells'
  BY <1>18 DEF SaveStopping
<1>19. ASSUME NEW w \in Workers, Stop(w) PROVE LoopTells'
  BY <1>19 DEF Stop, PM2Stop, StopManager, Operations
<1>20. ASSUME NEW w \in Workers, Backup(w) PROVE LoopTells'
  BY <1>20 DEF Backup, Idle
<1>21. ASSUME NEW w \in Workers, Plan(w) PROVE LoopTells'
  BY <1>21 DEF Plan, Staged
<1>22. ASSUME NEW w \in Workers, Replace(w) PROVE LoopTells'
  BY <1>22 DEF Replace
<1>23. ASSUME NEW w \in Workers, Install(w) PROVE LoopTells'
  BY <1>23 DEF Install
<1>24. ASSUME NEW w \in Workers, SaveChecking(w) PROVE LoopTells'
  BY <1>24 DEF SaveChecking
<1>25. ASSUME NEW w \in Workers, Restart(w) PROVE LoopTells'
  BY <1>25 DEF Restart, PM2Restart, Installed, IsOld, IsNew
<1>26. ASSUME NEW w \in Workers, Health(w) PROVE LoopTells'
  BY <1>26 DEF Health
<1>27. ASSUME NEW w \in Workers, Succeed(w) PROVE LoopTells'
  BY <1>27 DEF Succeed
<1>28. ASSUME NEW w \in Workers, Preflight(w) PROVE LoopTells'
  BY <1>28 DEF Preflight, Drained, Idle
<1>29. ASSUME NEW w \in Workers, Prestart(w) PROVE LoopTells'
  BY <1>29 DEF Prestart
<1>30. ASSUME NEW w \in Workers, Rollback(w) PROVE LoopTells'
  BY <1>30 DEF Rollback
<1>31. ASSUME NEW w \in Workers, StopForRestore(w) PROVE LoopTells'
  BY <1>31 DEF StopForRestore, PM2Stop, StopManager, Operations
<1>32. ASSUME NEW w \in Workers, Restore(w) PROVE LoopTells'
  BY <1>32 DEF Restore
<1>33. ASSUME NEW w \in Workers, PutAside(w) PROVE LoopTells'
  BY <1>33 DEF PutAside, Last
<1>34. ASSUME NEW w \in Workers, SkipRestored(w) PROVE LoopTells'
  BY <1>34 DEF SkipRestored, Last
<1>35. ASSUME NEW w \in Workers, PutBack(w) PROVE LoopTells'
  BY <1>35 DEF PutBack, Last
<1>36. ASSUME NEW w \in Workers, Restored(w) PROVE LoopTells'
  BY <1>36 DEF Restored
<1>37. ASSUME NEW w \in Workers, RestartOld(w) PROVE LoopTells'
  BY <1>37 DEF RestartOld, PM2Restart, Installed, IsOld, IsNew
<1>38. ASSUME NEW w \in Workers, HealthOld(w) PROVE LoopTells'
  BY <1>38 DEF HealthOld
<1>39. ASSUME NEW w \in Workers, RolledBack(w) PROVE LoopTells'
  BY <1>39 DEF RolledBack
<1>40. ASSUME NEW w \in Workers, Fault(w) PROVE LoopTells'
  BY <1>40 DEF Fault
<1>41. CASE InstallUpdate   BY <1>41 DEF InstallUpdate, Request, Online, Nothing
<1>42. CASE CancelUpdate    BY <1>42 DEF CancelUpdate, Request, Online, Nothing
<1>43. CASE RetryRecovery   BY <1>43 DEF RetryRecovery, Request, Online, Nothing
<1>44. CASE RequestRollback BY <1>44 DEF RequestRollback, Online, Nothing
<1>45. CASE SaveRollback    BY <1>45 DEF SaveRollback, Nothing
<1>46. ASSUME NEW o \in Operations, Begin(o) PROVE LoopTells'
  BY <1>46 DEF Begin, Online, Becomes, Others, Nothing
<1>47. ASSUME NEW o \in Operations, Enter(o) PROVE LoopTells'
  BY <1>47 DEF Enter, Becomes, Others, Nothing
<1>48. ASSUME NEW o \in Operations, Lease(o) PROVE LoopTells'
  BY <1>48 DEF Lease, Becomes, Others, Nothing
<1>49. ASSUME NEW o \in Operations, LookAgain(o) PROVE LoopTells'
  BY <1>49 DEF LookAgain, Becomes, Others, Nothing
<1>50. ASSUME NEW o \in Operations, Finish(o) PROVE LoopTells'
  BY <1>50 DEF Finish, Becomes, Others, Nothing
<1>51. ASSUME NEW o \in Operations, ClearRow(o) PROVE LoopTells'
  BY <1>51 DEF ClearRow, Online, Others, Nothing
<1>52. CASE Crash           BY <1>52 DEF Crash, StopManager, Operations
<1>53. CASE UNCHANGED vars  BY <1>53 DEF vars
<1> QED
  BY <1>1, <1>2, <1>3, <1>4, <1>5, <1>6, <1>7, <1>8, <1>9, <1>10, <1>11, <1>12,
    <1>13, <1>14, <1>15, <1>16, <1>17, <1>18, <1>19, <1>20, <1>21, <1>22, <1>23,
    <1>24, <1>25, <1>26, <1>27, <1>28, <1>29, <1>30, <1>31, <1>32, <1>33, <1>34,
    <1>35, <1>36, <1>37, <1>38, <1>39, <1>40, <1>41, <1>42, <1>43, <1>44, <1>45,
    <1>46, <1>47, <1>48, <1>49, <1>50, <1>51, <1>52, <1>53
    DEF Next, Main, Apply, Recover, Dashboard, Operation

-----------------------------------------------------------------------------

LEMMA TypesHold == Spec => []Types
<1>1. Init => Types
  <2> SUFFICES ASSUME Init PROVE Types
    OBVIOUS
  <2>1. SavedOK
    BY DEF Init, SavedOK, Fresh, State, Phases, Terminal
  <2>2. FilesOK
    BY DEF Init, FilesOK
  <2>3. WorkerOK /\ LockOK
    BY DEF Init, WorkerOK, LockOK, Steps
  <2>4. ManagerOK
    BY DEF Init, ManagerOK
  <2>5. BoundsOK
    BY UpdateConstants DEF Init, BoundsOK
  <2> QED
    BY <2>1, <2>2, <2>3, <2>4, <2>5 DEF Types
<1>2. Types /\ [Next]_vars => Types'
  BY SavedOKStep, WorkerOKStep, FilesOKStep, LockOKStep, ManagerOKStep, BoundsOKStep DEF Types
<1> QED
  BY <1>1, <1>2, PTL DEF Spec

\* Every variable keeps its type, whoever fails and whenever power is lost: what
\* is renamed, saved and locked stays a state the next worker can read.
THEOREM TypeCorrect == Spec => []TypeOK
<1>1. Types => TypeOK
  BY DEF Types, SavedOK, FilesOK, WorkerOK, LockOK, ManagerOK, BoundsOK, TypeOK
<1> QED
  BY <1>1, TypesHold, PTL

\* Until power is lost the lock file lets one worker at a time past main:203,
\* however many the recovery task starts.
THEOREM OneWorkerUntilCrash == Spec => [](crashes = 0 => OneWorker)
<1>1. Init => LockTells
  BY DEF Init, LockTells, Held, Applying, Recovering
<1>2. Types /\ LockTells /\ [Next]_vars => LockTells'
  BY LockTellsStep DEF Types
<1>3. LockTells => (crashes = 0 => OneWorker)
  BY DEF LockTells, Held, OneWorker
<1> QED
  BY <1>1, <1>2, <1>3, TypesHold, PTL DEF Spec

LEMMA KeptHolds ==
    ASSUME Alone
    PROVE  Spec => []KeptInv
<1>1. Init => KeptInv
  <2> SUFFICES ASSUME Init PROVE KeptInv
    OBVIOUS
  <2>1. \A i \in Original : /\ at["stage"][i] = "new" /\ at["target"][i] = "old"
                            /\ at["previous"][i] = "none"
    BY UpdateConstants DEF Init, Places
  <2>2. Single
    BY <2>1 DEF Single
  <2>3. EarlyTells /\ LoopTells
    BY <2>1 DEF Init, EarlyTells, LoopTells, Untouched, Preparing, Renaming
  <2> QED
    BY <2>2, <2>3 DEF KeptInv
<1>2. Types /\ KeptInv /\ [Next]_vars => KeptInv'
  BY Alone, SingleStep, EarlyTellsStep, LoopTellsStep DEF Types, KeptInv
<1> QED
  BY <1>1, <1>2, TypesHold, PTL DEF Spec

\* With one worker no original item is ever lost: at every step of any number
\* of power losses, failing services and rollbacks it is installed or set aside.
THEOREM OriginalsAreKept ==
    ASSUME Alone
    PROVE  Spec => []OriginalKept
<1>1. Types /\ KeptInv => OriginalKept
  BY UpdateConstants DEF Types, FilesOK, KeptInv, Single, OriginalKept, Places, Items
<1> QED
  BY <1>1, KeptHolds, TypesHold, PTL

-----------------------------------------------------------------------------
\* What relates ManagerUpdate to UpdatePromise, for one worker, as long as no
\* rollback was requested or no power was lost.
Scope == rollbacks = 0 \/ crashes = 0

\* What a requested rollback writes, and when.
Asking == {"succeeded", "rollback_requested", "rolling_back", "recovery_failed", "rolled_back"}
AskedTells ==
    /\ Scope
    /\ crashes = 0 => pm2 = "up" /\ \A w \in Workers : pc[w] # "off" => mode[w] = "run"
    /\ rollbacks = 0 => ui = NoLock /\ ~ disk.manual /\ \A w \in Workers : ~ mem[w].manual
    /\ ui # NoLock =>
          /\ disk.phase = "succeeded" /\ ui.phase = "rollback_requested" /\ ui.items = disk.items
          /\ ui.manual /\ ~ ui.started
    /\ disk.manual => disk.phase \in Asking

\* A lock that is not the worker's own is that of one which lost power.
LockIsStale == \A w \in Workers : lock # NoLock /\ pc[w] \notin Held => lock.by = Gone

\* When Manager is stopped.
Boots == {"off", "look", "inspect", "unlink", "relock", "write", "rollback", "restore", "putback",
          "totarget", "broken", "unlock", "unlockError"}
StoppedTells ==
    /\ pm2 # "up" => running = "off"
    /\ \A w \in Workers :
          /\ pc[w] # "off" /\ mode[w] = "files-only" => pm2 # "up" /\ pc[w] \in Boots
          /\ pc[w] \in Renaming \cup {"backup", "plan", "restore"} => running = "off"
          /\ pc[w] = "succeed" => running = "new"
          /\ pc[w] = "rolledback" => running = "old"

\* What the worker's place says of the phase on disk, which it shares with nobody.
Decided == Terminal \cup {"ready"}
Opening == {"inspect", "unlink", "relock", "write"}
Agrees(w) == mem[w].manual = disk.manual /\ mem[w].started = disk.started
PhaseTells == \A w \in Workers :
    /\ pc[w] # "off" => mem[w].items = disk.items
    /\ pc[w] \notin {"off", "look", "unmark", "unlock"} => disk.phase \notin Decided /\ Agrees(w)
    /\ pc[w] \in Opening \cup {"look"} =>
          \/ mem[w].phase = disk.phase /\ Agrees(w)
          \/ mem[w].phase = "ready" /\ disk.phase \in {"queued", "failed"} /\ Agrees(w)
          \/ mem[w].phase = "recovery_failed" /\ disk.phase = "rollback_requested" /\ Agrees(w)
          \/ mem[w].phase = "succeeded" /\ disk.phase = "rollback_requested" /\ disk.manual /\ ~ disk.started
    /\ pc[w] \in Opening => mem[w].phase \notin Decided
    /\ pc[w] \in {"verify", "idle", "mark", "drain", "drained", "stopping"} =>
          disk.phase \in {"queued", "draining"}
    /\ pc[w] \in {"stop", "backup", "plan"} => disk.phase = "stopping" /\ mem[w].stopped
    /\ pc[w] \in {"replace", "install", "restart", "health", "succeed"} => mem[w].stopped
    /\ pc[w] = "caught" => mem[w].stopped \/ disk.phase \in {"queued", "draining"}
    /\ pc[w] \in {"preflight", "prestart"} => disk.manual /\ ~ disk.started
    /\ pc[w] \in Recovering \ {"preflight", "prestart"} => (disk.manual => disk.started)
    /\ pc[w] \in Applying \cup {"caught"} => ~ disk.manual
    /\ pc[w] # "check"

\* What is installed: which items are the old ones, or none where there was none.
Kept(i) == at["target"][i] = IF i \in Original THEN "old" ELSE "none"
Pristine == \A i \in Items : at["stage"][i] = "new" /\ Kept(i) /\ at["previous"][i] = "none"
DiskTells ==
    /\ disk.phase \in Early \cup {"failed"} => Pristine /\ running \in {"old", "off"}
    /\ \A i \in Items : ~ Kept(i) => i \in disk.items
    /\ disk.phase = "succeeded" => IsNew
    /\ disk.phase = "rolled_back" => IsOld

\* Manager runs the new release until a requested rollback stops it.
NewRuns ==
    /\ disk.phase = "succeeded" => running \in {"new", "off"}
    /\ ui # NoLock \/ (disk.manual /\ ~ disk.started) => IsNew /\ running = "new"

\* And how far the worker is with it.
PlacesTell == \A w \in Workers :
    /\ pc[w] = "replace" => \A i \in Items :
          IF i \in todo[w] THEN at["stage"][i] = "new" /\ Kept(i) ELSE at["target"][i] = "new"
    /\ pc[w] = "install" => \A i \in Items :
          IF i \in todo[w]
          THEN at["stage"][i] = "new" /\ (IF First(todo[w], i) THEN at["target"][i] = "none" ELSE Kept(i))
          ELSE at["target"][i] = "new"
    /\ pc[w] \in {"replace", "install"} => disk.items = Items
    /\ pc[w] \in {"restart", "health", "succeed"} => IsNew
    /\ pc[w] \in {"putback", "totarget"} =>
          todo[w] \subseteq disk.items /\ \A i \in Items \ todo[w] : Kept(i)
    /\ pc[w] = "totarget" => \A i \in Items : Last(todo[w], i) =>
          at["target"][i] = "none" /\ (i \in Original => at["previous"][i] = "old")
    /\ pc[w] \in {"rrestart", "rhealth", "rolledback"} => IsOld
    /\ pc[w] = "unlock" /\ mode[w] = "files-only" => IsOld

PromiseInv == AskedTells /\ LockIsStale /\ StoppedTells /\ PhaseTells /\ DiskTells /\ NewRuns /\ PlacesTell

-----------------------------------------------------------------------------
\* An attempt to rename goes on when it did, and to the handler when it did not.
LEMMA MoveGoes ==
    ASSUME FilesOK, NEW w \in Workers, NEW i \in Items, NEW next,
           NEW from \in Places, NEW to \in Places, from # to, Move(w, i, from, to, next)
    PROVE  /\ UNCHANGED <<disk, mem, marker, manager>>
           /\ \/ Renamed(i, from, to) /\ at[from][i] # "none" /\ Goto(w, next)
              \/ at' = at /\ Goto(w, IF pc[w] \in Applying THEN "caught" ELSE "broken")
<1>1. CASE at[from][i] # "none" /\ (at[to][i] = "none" \/ i \notin Directories)
  <2>1. at' = [at EXCEPT ![from][i] = "none", ![to][i] = at[from][i]]
    BY <1>1 DEF Move
  <2>2. Renamed(i, from, to)
    BY <2>1 DEF FilesOK, Renamed
  <2> QED
    BY <1>1, <2>2 DEF Move, NotSaved
<1>2. CASE ~(at[from][i] # "none" /\ (at[to][i] = "none" \/ i \notin Directories))
  BY <1>2 DEF Move, Throw, NoMove, NotSaved
<1> QED
  BY <1>1, <1>2


\* Which release is installed when a whole one is.
LEMMA WholeInstalled ==
    /\ IsOld => Installed = "old"
    /\ IsNew => Installed = "new"
    /\ Pristine => IsOld
<1>1. IsOld => Installed = "old"
  BY DEF Installed
<1>2. IsNew => Installed = "new"
  <2>1. PICK i \in Original : TRUE
    BY UpdateConstants
  <2>2. IsNew => at["target"][i] = "new"
    BY <2>1, UpdateConstants DEF IsNew
  <2>3. IsOld => at["target"][i] = "old"
    BY <2>1, UpdateConstants DEF IsOld
  <2> QED
    BY <2>2, <2>3 DEF Installed
<1>3. Pristine => IsOld
  BY DEF Pristine, Kept, IsOld
<1> QED
  BY <1>1, <1>2, <1>3

\* The states a rollback saves, field by field.
Fields(s, phase, stopped, items, manual, started) ==
    /\ s \in State /\ s.phase = phase /\ s.stopped = stopped /\ s.items = items
    /\ s.manual = manual /\ s.started = started
LEMMA SavedFields ==
    ASSUME NEW s \in State, NEW phase \in Phases
    PROVE  /\ Fields([s EXCEPT !.phase = phase, !.manual = TRUE, !.started = FALSE],
                      phase, s.stopped, s.items, TRUE, FALSE)
           /\ Fields([s EXCEPT !.phase = phase, !.stopped = TRUE, !.started = TRUE],
                      phase, TRUE, s.items, s.manual, TRUE)
<1> DEFINE a == [s EXCEPT !.phase = phase]
           b == [a EXCEPT !.manual = TRUE]
           c == [b EXCEPT !.started = FALSE]
           d == [a EXCEPT !.stopped = TRUE]
           e == [d EXCEPT !.started = TRUE]
<1>1. c = [s EXCEPT !.phase = phase, !.manual = TRUE, !.started = FALSE]
      /\ e = [s EXCEPT !.phase = phase, !.stopped = TRUE, !.started = TRUE]
  OBVIOUS
<1>2. Fields(a, phase, s.stopped, s.items, s.manual, s.started)
  BY DEF State, Fields
<1> HIDE DEF a
<1>3. Fields(b, phase, s.stopped, s.items, TRUE, s.started)
  BY <1>2 DEF State, Fields
<1>4. Fields(d, phase, TRUE, s.items, s.manual, s.started)
  BY <1>2 DEF State, Fields
<1> HIDE DEF b, d
<1>5. Fields(c, phase, s.stopped, s.items, TRUE, FALSE)
  BY <1>3 DEF State, Fields
<1>6. Fields(e, phase, TRUE, s.items, s.manual, TRUE)
  BY <1>4 DEF State, Fields
<1> QED
  BY <1>1, <1>5, <1>6

LEMMA RequestFields ==
    ASSUME SavedOK, RequestRollback
    PROVE  Fields(ui', "rollback_requested", disk.stopped, disk.items, TRUE, FALSE)
<1>1. disk \in State /\ "rollback_requested" \in Phases
  BY DEF SavedOK, Phases
<1>2. Fields([disk EXCEPT !.phase = "rollback_requested", !.manual = TRUE, !.started = FALSE],
             "rollback_requested", disk.stopped, disk.items, TRUE, FALSE)
  BY <1>1, SavedFields, Zenon
<1> QED
  BY <1>2 DEF RequestRollback

LEMMA PrestartFields ==
    ASSUME SavedOK, NEW w \in Workers
    PROVE  Fields([mem[w] EXCEPT !.phase = "rolling_back", !.stopped = TRUE, !.started = TRUE],
                  "rolling_back", TRUE, mem[w].items, mem[w].manual, TRUE)
<1>1. mem[w] \in State /\ "rolling_back" \in Phases
  BY DEF SavedOK, Phases
<1> QED
  BY <1>1, SavedFields, Zenon

LEMMA PrestartDoes ==
    ASSUME SavedOK, NEW w \in Workers, Prestart(w)
    PROVE  /\ UNCHANGED <<at, manager, todo, mode>>
           /\ \/ disk' = disk /\ Goto(w, "broken")
              \/ Fields(disk', "rolling_back", TRUE, mem[w].items, mem[w].manual, TRUE) /\ Goto(w, "rollback")
<1>1. CASE pm2 = "up"
  <2> DEFINE s == [mem[w] EXCEPT !.phase = "rolling_back", !.stopped = TRUE, !.started = TRUE]
  <2>1. Save(w, s, "rollback") /\ UNCHANGED <<todo, mode>>
    BY <1>1 DEF Prestart, At, Loop
  <2>2. Fields(s, "rolling_back", TRUE, mem[w].items, mem[w].manual, TRUE)
    BY PrestartFields, Zenon
  <2> HIDE DEF s
  <2> QED
    BY <2>1, <2>2 DEF Save
<1>2. CASE pm2 # "up"
  BY <1>2 DEF Prestart, Throw, NoMove, NotSaved, At, Loop, Applying
<1> QED
  BY <1>1, <1>2

LEMMA AskedTellsStep ==
    ASSUME Scope', SavedOK, WorkerOK, ManagerOK, BoundsOK, AskedTells, PhaseTells, [Next]_vars
    PROVE  AskedTells'
<1> USE UpdateConstants DEF AskedTells, Scope, Asking, PhaseTells, Agrees, Opening, Decided, BoundsOK,
        ManagerOK, SavedOK, WorkerOK, State, Phases, Terminal, Steps,
        Applying, Recovering, Items, Loop, At, Goto, NotSaved, NoMove,
        Save, SavePhase, Throw, Check, Move, manager, bounds
<1>1. ASSUME NEW w \in Workers, NEW m \in {"run", "files-only"}, Start(w, m) PROVE AskedTells'
  BY <1>1 DEF Start
<1>2. ASSUME NEW w \in Workers, NothingToDo(w) PROVE AskedTells'
  BY <1>2 DEF NothingToDo, End, Installed, IsOld, IsNew
<1>3. ASSUME NEW w \in Workers, TryLock(w) PROVE AskedTells'
  BY <1>3 DEF TryLock, SetLock, Created
<1>4. ASSUME NEW w \in Workers, LeaveLocked(w) PROVE AskedTells'
  BY <1>4 DEF LeaveLocked, End, Installed, IsOld, IsNew
<1>5. ASSUME NEW w \in Workers, JudgeStale(w) PROVE AskedTells'
  BY <1>5 DEF JudgeStale, SetLock
<1>6. ASSUME NEW w \in Workers, RemoveLock(w) PROVE AskedTells'
  BY <1>6 DEF RemoveLock, End, SetLock, Installed, IsOld, IsNew
<1>7. ASSUME NEW w \in Workers, LockAgain(w) PROVE AskedTells'
  BY <1>7 DEF LockAgain, End, SetLock, Created, Installed, IsOld, IsNew
<1>8. ASSUME NEW w \in Workers, WriteLock(w) PROVE AskedTells'
  BY <1>8 DEF WriteLock, SetLock, Dispatch
<1>9. ASSUME NEW w \in Workers, Unlock(w) PROVE AskedTells'
  BY <1>9 DEF Unlock, End, Installed, IsOld, IsNew
<1>10. ASSUME NEW w \in Workers, Caught(w) PROVE AskedTells'
  <2>1. CASE mem[w].stopped
    BY <1>10, <2>1 DEF Caught
  <2>2. CASE ~mem[w].stopped
    <3> DEFINE s == [mem[w] EXCEPT !.phase = "failed"]
    <3>1. s \in State /\ s.phase = "failed" /\ s.manual = mem[w].manual
      BY DEF State
    <3>2. ~ mem[w].manual /\ ui = NoLock
      BY <1>10 DEF Caught
    <3>3. Save(w, s, "unmark") /\ pc[w] = "caught" /\ UNCHANGED <<lock, mode, bounds, todo>>
      BY <1>10, <2>2 DEF Caught
    <3> HIDE DEF s
    <3> QED
      BY <3>1, <3>2, <3>3
  <2> QED
    BY <2>1, <2>2
<1>11. ASSUME NEW w \in Workers, Broken(w) PROVE AskedTells'
  BY <1>11 DEF Broken
<1>12. ASSUME NEW w \in Workers, Unmark(w) PROVE AskedTells'
  BY <1>12 DEF Unmark
<1>13. ASSUME NEW w \in Workers, Verify(w) PROVE AskedTells'
  BY <1>13 DEF Verify
<1>14. ASSUME NEW w \in Workers, AssertIdle(w) PROVE AskedTells'
  BY <1>14 DEF AssertIdle, Idle
<1>15. ASSUME NEW w \in Workers, Mark(w) PROVE AskedTells'
  BY <1>15 DEF Mark
<1>16. ASSUME NEW w \in Workers, SaveDraining(w) PROVE AskedTells'
  BY <1>16 DEF SaveDraining
<1>17. ASSUME NEW w \in Workers, AssertDrained(w) PROVE AskedTells'
  BY <1>17 DEF AssertDrained, Drained, Idle
<1>18. ASSUME NEW w \in Workers, SaveStopping(w) PROVE AskedTells'
  BY <1>18 DEF SaveStopping
<1>19. ASSUME NEW w \in Workers, Stop(w) PROVE AskedTells'
  BY <1>19 DEF Stop, PM2Stop, StopManager, Operations
<1>20. ASSUME NEW w \in Workers, Backup(w) PROVE AskedTells'
  BY <1>20 DEF Backup, Idle
<1>21. ASSUME NEW w \in Workers, Plan(w) PROVE AskedTells'
  BY <1>21 DEF Plan, Staged
<1>22. ASSUME NEW w \in Workers, Replace(w) PROVE AskedTells'
  BY <1>22 DEF Replace
<1>23. ASSUME NEW w \in Workers, Install(w) PROVE AskedTells'
  BY <1>23 DEF Install
<1>24. ASSUME NEW w \in Workers, SaveChecking(w) PROVE AskedTells'
  BY <1>24 DEF SaveChecking
<1>25. ASSUME NEW w \in Workers, Restart(w) PROVE AskedTells'
  BY <1>25 DEF Restart, PM2Restart, Installed, IsOld, IsNew
<1>26. ASSUME NEW w \in Workers, Health(w) PROVE AskedTells'
  BY <1>26 DEF Health
<1>27. ASSUME NEW w \in Workers, Succeed(w) PROVE AskedTells'
  BY <1>27 DEF Succeed
<1>28. ASSUME NEW w \in Workers, Preflight(w) PROVE AskedTells'
  BY <1>28 DEF Preflight, Drained, Idle
<1>29. ASSUME NEW w \in Workers, Prestart(w) PROVE AskedTells'
  <2>1. CASE pm2 = "up"
    <3> DEFINE s == [mem[w] EXCEPT !.phase = "rolling_back", !.stopped = TRUE, !.started = TRUE]
    <3>1. Fields(s, "rolling_back", TRUE, mem[w].items, mem[w].manual, TRUE)
      BY PrestartFields, Zenon
    <3>2. Save(w, s, "rollback") /\ pc[w] = "prestart" /\ UNCHANGED <<lock, mode, bounds, todo>>
      BY <1>29, <2>1 DEF Prestart
    <3> HIDE DEF s
    <3> QED
      BY <3>1, <3>2 DEF Fields
  <2>2. CASE pm2 # "up"
    BY <1>29, <2>2 DEF Prestart
  <2> QED
    BY <2>1, <2>2
<1>30. ASSUME NEW w \in Workers, Rollback(w) PROVE AskedTells'
  BY <1>30 DEF Rollback
<1>31. ASSUME NEW w \in Workers, StopForRestore(w) PROVE AskedTells'
  BY <1>31 DEF StopForRestore, PM2Stop, StopManager, Operations
<1>32. ASSUME NEW w \in Workers, Restore(w) PROVE AskedTells'
  BY <1>32 DEF Restore
<1>33. ASSUME NEW w \in Workers, PutAside(w) PROVE AskedTells'
  BY <1>33 DEF PutAside, Last
<1>34. ASSUME NEW w \in Workers, SkipRestored(w) PROVE AskedTells'
  BY <1>34 DEF SkipRestored, Last
<1>35. ASSUME NEW w \in Workers, PutBack(w) PROVE AskedTells'
  BY <1>35 DEF PutBack, Last
<1>36. ASSUME NEW w \in Workers, Restored(w) PROVE AskedTells'
  BY <1>36 DEF Restored
<1>37. ASSUME NEW w \in Workers, RestartOld(w) PROVE AskedTells'
  BY <1>37 DEF RestartOld, PM2Restart, Installed, IsOld, IsNew
<1>38. ASSUME NEW w \in Workers, HealthOld(w) PROVE AskedTells'
  BY <1>38 DEF HealthOld
<1>39. ASSUME NEW w \in Workers, RolledBack(w) PROVE AskedTells'
  BY <1>39 DEF RolledBack
<1>40. ASSUME NEW w \in Workers, Fault(w) PROVE AskedTells'
  BY <1>40 DEF Fault
<1>41. CASE InstallUpdate   BY <1>41 DEF InstallUpdate, Request, Online, Nothing
<1>42. CASE CancelUpdate    BY <1>42 DEF CancelUpdate, Request, Online, Nothing
<1>43. CASE RetryRecovery   BY <1>43 DEF RetryRecovery, Request, Online, Nothing
<1>44. CASE RequestRollback
  <2>1. Fields(ui', "rollback_requested", disk.stopped, disk.items, TRUE, FALSE)
    BY <1>44, RequestFields
  <2> QED
    BY <1>44, <2>1 DEF Fields, RequestRollback, Online, Nothing
<1>45. CASE SaveRollback    BY <1>45 DEF SaveRollback, Nothing
<1>46. ASSUME NEW o \in Operations, Begin(o) PROVE AskedTells'
  BY <1>46 DEF Begin, Online, Becomes, Others, Nothing
<1>47. ASSUME NEW o \in Operations, Enter(o) PROVE AskedTells'
  BY <1>47 DEF Enter, Becomes, Others, Nothing
<1>48. ASSUME NEW o \in Operations, Lease(o) PROVE AskedTells'
  BY <1>48 DEF Lease, Becomes, Others, Nothing
<1>49. ASSUME NEW o \in Operations, LookAgain(o) PROVE AskedTells'
  BY <1>49 DEF LookAgain, Becomes, Others, Nothing
<1>50. ASSUME NEW o \in Operations, Finish(o) PROVE AskedTells'
  BY <1>50 DEF Finish, Becomes, Others, Nothing
<1>51. ASSUME NEW o \in Operations, ClearRow(o) PROVE AskedTells'
  BY <1>51 DEF ClearRow, Online, Others, Nothing
<1>52. CASE Crash           BY <1>52 DEF Crash, StopManager, Operations
<1>53. CASE UNCHANGED vars  BY <1>53 DEF vars
<1> QED
  BY <1>1, <1>2, <1>3, <1>4, <1>5, <1>6, <1>7, <1>8, <1>9, <1>10, <1>11, <1>12,
    <1>13, <1>14, <1>15, <1>16, <1>17, <1>18, <1>19, <1>20, <1>21, <1>22, <1>23,
    <1>24, <1>25, <1>26, <1>27, <1>28, <1>29, <1>30, <1>31, <1>32, <1>33, <1>34,
    <1>35, <1>36, <1>37, <1>38, <1>39, <1>40, <1>41, <1>42, <1>43, <1>44, <1>45,
    <1>46, <1>47, <1>48, <1>49, <1>50, <1>51, <1>52, <1>53
    DEF Next, Main, Apply, Recover, Dashboard, Operation

LEMMA LockIsStaleStep ==
    ASSUME Alone, WorkerOK, LockOK, LockIsStale, [Next]_vars
    PROVE  LockIsStale'
<1> USE UpdateConstants DEF LockIsStale, WorkerOK, LockOK, Alone, Held, Steps, Terminal,
        Applying, Recovering, Items, Loop, At, Goto, NotSaved, NoMove,
        Save, SavePhase, Throw, Check, Move, manager, bounds
<1>1. ASSUME NEW w \in Workers, NEW m \in {"run", "files-only"}, Start(w, m) PROVE LockIsStale'
  BY <1>1 DEF Start
<1>2. ASSUME NEW w \in Workers, NothingToDo(w) PROVE LockIsStale'
  BY <1>2 DEF NothingToDo, End, Installed, IsOld, IsNew
<1>3. ASSUME NEW w \in Workers, TryLock(w) PROVE LockIsStale'
  <2>1. CASE lock = NoLock
    <3>1. lock' = Created(w) /\ pc' = [pc EXCEPT ![w] = "write"]
      BY <1>3, <2>1 DEF TryLock, SetLock
    <3> QED
      BY <2>1, <3>1, CreatedLock
  <2>2. CASE lock # NoLock
    BY <1>3, <2>2 DEF TryLock, SetLock
  <2> QED
    BY <2>1, <2>2
<1>4. ASSUME NEW w \in Workers, LeaveLocked(w) PROVE LockIsStale'
  BY <1>4 DEF LeaveLocked, End, Installed, IsOld, IsNew
<1>5. ASSUME NEW w \in Workers, JudgeStale(w) PROVE LockIsStale'
  BY <1>5 DEF JudgeStale, SetLock
<1>6. ASSUME NEW w \in Workers, RemoveLock(w) PROVE LockIsStale'
  BY <1>6 DEF RemoveLock, End, SetLock, Installed, IsOld, IsNew
<1>7. ASSUME NEW w \in Workers, LockAgain(w) PROVE LockIsStale'
  BY <1>7 DEF LockAgain, End, SetLock, Created, Installed, IsOld, IsNew
<1>8. ASSUME NEW w \in Workers, WriteLock(w) PROVE LockIsStale'
  BY <1>8 DEF WriteLock, SetLock, Dispatch
<1>9. ASSUME NEW w \in Workers, Unlock(w) PROVE LockIsStale'
  BY <1>9 DEF Unlock, End, Installed, IsOld, IsNew
<1>10. ASSUME NEW w \in Workers, Caught(w) PROVE LockIsStale'
  <2>1. CASE mem[w].stopped
    BY <1>10, <2>1 DEF Caught
  <2>2. CASE ~mem[w].stopped
    BY <1>10, <2>2 DEF Caught
  <2> QED
    BY <2>1, <2>2
<1>11. ASSUME NEW w \in Workers, Broken(w) PROVE LockIsStale'
  BY <1>11 DEF Broken
<1>12. ASSUME NEW w \in Workers, Unmark(w) PROVE LockIsStale'
  BY <1>12 DEF Unmark
<1>13. ASSUME NEW w \in Workers, Verify(w) PROVE LockIsStale'
  BY <1>13 DEF Verify
<1>14. ASSUME NEW w \in Workers, AssertIdle(w) PROVE LockIsStale'
  BY <1>14 DEF AssertIdle, Idle
<1>15. ASSUME NEW w \in Workers, Mark(w) PROVE LockIsStale'
  BY <1>15 DEF Mark
<1>16. ASSUME NEW w \in Workers, SaveDraining(w) PROVE LockIsStale'
  BY <1>16 DEF SaveDraining
<1>17. ASSUME NEW w \in Workers, AssertDrained(w) PROVE LockIsStale'
  BY <1>17 DEF AssertDrained, Drained, Idle
<1>18. ASSUME NEW w \in Workers, SaveStopping(w) PROVE LockIsStale'
  BY <1>18 DEF SaveStopping
<1>19. ASSUME NEW w \in Workers, Stop(w) PROVE LockIsStale'
  BY <1>19 DEF Stop, PM2Stop, StopManager, Operations
<1>20. ASSUME NEW w \in Workers, Backup(w) PROVE LockIsStale'
  BY <1>20 DEF Backup, Idle
<1>21. ASSUME NEW w \in Workers, Plan(w) PROVE LockIsStale'
  BY <1>21 DEF Plan, Staged
<1>22. ASSUME NEW w \in Workers, Replace(w) PROVE LockIsStale'
  BY <1>22 DEF Replace
<1>23. ASSUME NEW w \in Workers, Install(w) PROVE LockIsStale'
  BY <1>23 DEF Install
<1>24. ASSUME NEW w \in Workers, SaveChecking(w) PROVE LockIsStale'
  BY <1>24 DEF SaveChecking
<1>25. ASSUME NEW w \in Workers, Restart(w) PROVE LockIsStale'
  BY <1>25 DEF Restart, PM2Restart, Installed, IsOld, IsNew
<1>26. ASSUME NEW w \in Workers, Health(w) PROVE LockIsStale'
  BY <1>26 DEF Health
<1>27. ASSUME NEW w \in Workers, Succeed(w) PROVE LockIsStale'
  BY <1>27 DEF Succeed
<1>28. ASSUME NEW w \in Workers, Preflight(w) PROVE LockIsStale'
  BY <1>28 DEF Preflight, Drained, Idle
<1>29. ASSUME NEW w \in Workers, Prestart(w) PROVE LockIsStale'
  BY <1>29 DEF Prestart
<1>30. ASSUME NEW w \in Workers, Rollback(w) PROVE LockIsStale'
  BY <1>30 DEF Rollback
<1>31. ASSUME NEW w \in Workers, StopForRestore(w) PROVE LockIsStale'
  BY <1>31 DEF StopForRestore, PM2Stop, StopManager, Operations
<1>32. ASSUME NEW w \in Workers, Restore(w) PROVE LockIsStale'
  BY <1>32 DEF Restore
<1>33. ASSUME NEW w \in Workers, PutAside(w) PROVE LockIsStale'
  BY <1>33 DEF PutAside, Last
<1>34. ASSUME NEW w \in Workers, SkipRestored(w) PROVE LockIsStale'
  BY <1>34 DEF SkipRestored, Last
<1>35. ASSUME NEW w \in Workers, PutBack(w) PROVE LockIsStale'
  BY <1>35 DEF PutBack, Last
<1>36. ASSUME NEW w \in Workers, Restored(w) PROVE LockIsStale'
  BY <1>36 DEF Restored
<1>37. ASSUME NEW w \in Workers, RestartOld(w) PROVE LockIsStale'
  BY <1>37 DEF RestartOld, PM2Restart, Installed, IsOld, IsNew
<1>38. ASSUME NEW w \in Workers, HealthOld(w) PROVE LockIsStale'
  BY <1>38 DEF HealthOld
<1>39. ASSUME NEW w \in Workers, RolledBack(w) PROVE LockIsStale'
  BY <1>39 DEF RolledBack
<1>40. ASSUME NEW w \in Workers, Fault(w) PROVE LockIsStale'
  BY <1>40 DEF Fault
<1>41. CASE InstallUpdate   BY <1>41 DEF InstallUpdate, Request, Online, Nothing
<1>42. CASE CancelUpdate    BY <1>42 DEF CancelUpdate, Request, Online, Nothing
<1>43. CASE RetryRecovery   BY <1>43 DEF RetryRecovery, Request, Online, Nothing
<1>44. CASE RequestRollback BY <1>44 DEF RequestRollback, Online, Nothing
<1>45. CASE SaveRollback    BY <1>45 DEF SaveRollback, Nothing
<1>46. ASSUME NEW o \in Operations, Begin(o) PROVE LockIsStale'
  BY <1>46 DEF Begin, Online, Becomes, Others, Nothing
<1>47. ASSUME NEW o \in Operations, Enter(o) PROVE LockIsStale'
  BY <1>47 DEF Enter, Becomes, Others, Nothing
<1>48. ASSUME NEW o \in Operations, Lease(o) PROVE LockIsStale'
  BY <1>48 DEF Lease, Becomes, Others, Nothing
<1>49. ASSUME NEW o \in Operations, LookAgain(o) PROVE LockIsStale'
  BY <1>49 DEF LookAgain, Becomes, Others, Nothing
<1>50. ASSUME NEW o \in Operations, Finish(o) PROVE LockIsStale'
  BY <1>50 DEF Finish, Becomes, Others, Nothing
<1>51. ASSUME NEW o \in Operations, ClearRow(o) PROVE LockIsStale'
  BY <1>51 DEF ClearRow, Online, Others, Nothing
<1>52. CASE Crash           BY <1>52 DEF Crash, StopManager, Operations
<1>53. CASE UNCHANGED vars  BY <1>53 DEF vars
<1> QED
  BY <1>1, <1>2, <1>3, <1>4, <1>5, <1>6, <1>7, <1>8, <1>9, <1>10, <1>11, <1>12,
    <1>13, <1>14, <1>15, <1>16, <1>17, <1>18, <1>19, <1>20, <1>21, <1>22, <1>23,
    <1>24, <1>25, <1>26, <1>27, <1>28, <1>29, <1>30, <1>31, <1>32, <1>33, <1>34,
    <1>35, <1>36, <1>37, <1>38, <1>39, <1>40, <1>41, <1>42, <1>43, <1>44, <1>45,
    <1>46, <1>47, <1>48, <1>49, <1>50, <1>51, <1>52, <1>53
    DEF Next, Main, Apply, Recover, Dashboard, Operation

LEMMA StoppedTellsStep ==
    ASSUME Alone, WorkerOK, ManagerOK, LockIsStale, StoppedTells, [Next]_vars
    PROVE  StoppedTells'
<1> USE UpdateConstants DEF StoppedTells, WorkerOK, ManagerOK, LockIsStale, Alone, Boots, Held, Renaming,
        Steps, Terminal, Applying, Recovering, Loop, At, Goto, NotSaved, NoMove,
        Save, SavePhase, Throw, Check, Move, manager, bounds
<1>1. ASSUME NEW w \in Workers, NEW m \in {"run", "files-only"}, Start(w, m) PROVE StoppedTells'
  BY <1>1 DEF Start
<1>2. ASSUME NEW w \in Workers, NothingToDo(w) PROVE StoppedTells'
  BY <1>2 DEF NothingToDo, End, Installed, IsOld, IsNew
<1>3. ASSUME NEW w \in Workers, TryLock(w) PROVE StoppedTells'
  BY <1>3 DEF TryLock, SetLock, Created
<1>4. ASSUME NEW w \in Workers, LeaveLocked(w) PROVE StoppedTells'
  BY <1>4 DEF LeaveLocked, End, Installed, IsOld, IsNew
<1>5. ASSUME NEW w \in Workers, JudgeStale(w) PROVE StoppedTells'
  BY <1>5 DEF JudgeStale, SetLock
<1>6. ASSUME NEW w \in Workers, RemoveLock(w) PROVE StoppedTells'
  BY <1>6 DEF RemoveLock, End, SetLock, Installed, IsOld, IsNew
<1>7. ASSUME NEW w \in Workers, LockAgain(w) PROVE StoppedTells'
  BY <1>7 DEF LockAgain, End, SetLock, Created, Installed, IsOld, IsNew
<1>8. ASSUME NEW w \in Workers, WriteLock(w) PROVE StoppedTells'
  BY <1>8 DEF WriteLock, SetLock, Dispatch
<1>9. ASSUME NEW w \in Workers, Unlock(w) PROVE StoppedTells'
  BY <1>9 DEF Unlock, End, Installed, IsOld, IsNew
<1>10. ASSUME NEW w \in Workers, Caught(w) PROVE StoppedTells'
  <2>1. CASE mem[w].stopped
    BY <1>10, <2>1 DEF Caught
  <2>2. CASE ~mem[w].stopped
    BY <1>10, <2>2 DEF Caught
  <2> QED
    BY <2>1, <2>2
<1>11. ASSUME NEW w \in Workers, Broken(w) PROVE StoppedTells'
  BY <1>11 DEF Broken
<1>12. ASSUME NEW w \in Workers, Unmark(w) PROVE StoppedTells'
  BY <1>12 DEF Unmark
<1>13. ASSUME NEW w \in Workers, Verify(w) PROVE StoppedTells'
  BY <1>13 DEF Verify
<1>14. ASSUME NEW w \in Workers, AssertIdle(w) PROVE StoppedTells'
  BY <1>14 DEF AssertIdle, Idle
<1>15. ASSUME NEW w \in Workers, Mark(w) PROVE StoppedTells'
  BY <1>15 DEF Mark
<1>16. ASSUME NEW w \in Workers, SaveDraining(w) PROVE StoppedTells'
  BY <1>16 DEF SaveDraining
<1>17. ASSUME NEW w \in Workers, AssertDrained(w) PROVE StoppedTells'
  BY <1>17 DEF AssertDrained, Drained, Idle
<1>18. ASSUME NEW w \in Workers, SaveStopping(w) PROVE StoppedTells'
  BY <1>18 DEF SaveStopping
<1>19. ASSUME NEW w \in Workers, Stop(w) PROVE StoppedTells'
  BY <1>19 DEF Stop, PM2Stop, StopManager, Operations
<1>20. ASSUME NEW w \in Workers, Backup(w) PROVE StoppedTells'
  BY <1>20 DEF Backup, Idle
<1>21. ASSUME NEW w \in Workers, Plan(w) PROVE StoppedTells'
  BY <1>21 DEF Plan, Staged
<1>22. ASSUME NEW w \in Workers, Replace(w) PROVE StoppedTells'
  BY <1>22 DEF Replace
<1>23. ASSUME NEW w \in Workers, Install(w) PROVE StoppedTells'
  BY <1>23 DEF Install
<1>24. ASSUME NEW w \in Workers, SaveChecking(w) PROVE StoppedTells'
  BY <1>24 DEF SaveChecking
<1>25. ASSUME NEW w \in Workers, Restart(w) PROVE StoppedTells'
  BY <1>25 DEF Restart, PM2Restart, Installed, IsOld, IsNew
<1>26. ASSUME NEW w \in Workers, Health(w) PROVE StoppedTells'
  BY <1>26 DEF Health
<1>27. ASSUME NEW w \in Workers, Succeed(w) PROVE StoppedTells'
  BY <1>27 DEF Succeed
<1>28. ASSUME NEW w \in Workers, Preflight(w) PROVE StoppedTells'
  BY <1>28 DEF Preflight, Drained, Idle
<1>29. ASSUME NEW w \in Workers, Prestart(w) PROVE StoppedTells'
  BY <1>29 DEF Prestart
<1>30. ASSUME NEW w \in Workers, Rollback(w) PROVE StoppedTells'
  BY <1>30 DEF Rollback
<1>31. ASSUME NEW w \in Workers, StopForRestore(w) PROVE StoppedTells'
  BY <1>31 DEF StopForRestore, PM2Stop, StopManager, Operations
<1>32. ASSUME NEW w \in Workers, Restore(w) PROVE StoppedTells'
  BY <1>32 DEF Restore
<1>33. ASSUME NEW w \in Workers, PutAside(w) PROVE StoppedTells'
  BY <1>33 DEF PutAside, Last
<1>34. ASSUME NEW w \in Workers, SkipRestored(w) PROVE StoppedTells'
  BY <1>34 DEF SkipRestored, Last
<1>35. ASSUME NEW w \in Workers, PutBack(w) PROVE StoppedTells'
  BY <1>35 DEF PutBack, Last
<1>36. ASSUME NEW w \in Workers, Restored(w) PROVE StoppedTells'
  BY <1>36 DEF Restored
<1>37. ASSUME NEW w \in Workers, RestartOld(w) PROVE StoppedTells'
  BY <1>37 DEF RestartOld, PM2Restart, Installed, IsOld, IsNew
<1>38. ASSUME NEW w \in Workers, HealthOld(w) PROVE StoppedTells'
  BY <1>38 DEF HealthOld
<1>39. ASSUME NEW w \in Workers, RolledBack(w) PROVE StoppedTells'
  BY <1>39 DEF RolledBack
<1>40. ASSUME NEW w \in Workers, Fault(w) PROVE StoppedTells'
  BY <1>40 DEF Fault
<1>41. CASE InstallUpdate   BY <1>41 DEF InstallUpdate, Request, Online, Nothing
<1>42. CASE CancelUpdate    BY <1>42 DEF CancelUpdate, Request, Online, Nothing
<1>43. CASE RetryRecovery   BY <1>43 DEF RetryRecovery, Request, Online, Nothing
<1>44. CASE RequestRollback BY <1>44 DEF RequestRollback, Online, Nothing
<1>45. CASE SaveRollback    BY <1>45 DEF SaveRollback, Nothing
<1>46. ASSUME NEW o \in Operations, Begin(o) PROVE StoppedTells'
  BY <1>46 DEF Begin, Online, Becomes, Others, Nothing
<1>47. ASSUME NEW o \in Operations, Enter(o) PROVE StoppedTells'
  BY <1>47 DEF Enter, Becomes, Others, Nothing
<1>48. ASSUME NEW o \in Operations, Lease(o) PROVE StoppedTells'
  BY <1>48 DEF Lease, Becomes, Others, Nothing
<1>49. ASSUME NEW o \in Operations, LookAgain(o) PROVE StoppedTells'
  BY <1>49 DEF LookAgain, Becomes, Others, Nothing
<1>50. ASSUME NEW o \in Operations, Finish(o) PROVE StoppedTells'
  BY <1>50 DEF Finish, Becomes, Others, Nothing
<1>51. ASSUME NEW o \in Operations, ClearRow(o) PROVE StoppedTells'
  BY <1>51 DEF ClearRow, Online, Others, Nothing
<1>52. CASE Crash           BY <1>52 DEF Crash, StopManager, Operations
<1>53. CASE UNCHANGED vars  BY <1>53 DEF vars
<1> QED
  BY <1>1, <1>2, <1>3, <1>4, <1>5, <1>6, <1>7, <1>8, <1>9, <1>10, <1>11, <1>12,
    <1>13, <1>14, <1>15, <1>16, <1>17, <1>18, <1>19, <1>20, <1>21, <1>22, <1>23,
    <1>24, <1>25, <1>26, <1>27, <1>28, <1>29, <1>30, <1>31, <1>32, <1>33, <1>34,
    <1>35, <1>36, <1>37, <1>38, <1>39, <1>40, <1>41, <1>42, <1>43, <1>44, <1>45,
    <1>46, <1>47, <1>48, <1>49, <1>50, <1>51, <1>52, <1>53
    DEF Next, Main, Apply, Recover, Dashboard, Operation

LEMMA PhaseTellsStep ==
    ASSUME Alone, SavedOK, WorkerOK, AskedTells, PhaseTells, [Next]_vars
    PROVE  PhaseTells'
<1> USE UpdateConstants DEF PhaseTells, AskedTells, Scope, Asking, Agrees, SavedOK, WorkerOK, Alone,
        State, Phases, Terminal,
        Decided, Opening, Steps, Applying, Recovering, Items, Loop, At, Goto, NotSaved, NoMove,
        Save, SavePhase, Throw, Check, Move, manager, bounds
<1>1. ASSUME NEW w \in Workers, NEW m \in {"run", "files-only"}, Start(w, m) PROVE PhaseTells'
  BY <1>1 DEF Start
<1>2. ASSUME NEW w \in Workers, NothingToDo(w) PROVE PhaseTells'
  BY <1>2 DEF NothingToDo, End, Installed, IsOld, IsNew
<1>3. ASSUME NEW w \in Workers, TryLock(w) PROVE PhaseTells'
  BY <1>3 DEF TryLock, SetLock, Created
<1>4. ASSUME NEW w \in Workers, LeaveLocked(w) PROVE PhaseTells'
  BY <1>4 DEF LeaveLocked, End, Installed, IsOld, IsNew
<1>5. ASSUME NEW w \in Workers, JudgeStale(w) PROVE PhaseTells'
  BY <1>5 DEF JudgeStale, SetLock
<1>6. ASSUME NEW w \in Workers, RemoveLock(w) PROVE PhaseTells'
  BY <1>6 DEF RemoveLock, End, SetLock, Installed, IsOld, IsNew
<1>7. ASSUME NEW w \in Workers, LockAgain(w) PROVE PhaseTells'
  BY <1>7 DEF LockAgain, End, SetLock, Created, Installed, IsOld, IsNew
<1>8. ASSUME NEW w \in Workers, WriteLock(w) PROVE PhaseTells'
  BY <1>8 DEF WriteLock, SetLock, Dispatch
<1>9. ASSUME NEW w \in Workers, Unlock(w) PROVE PhaseTells'
  BY <1>9 DEF Unlock, End, Installed, IsOld, IsNew
<1>10. ASSUME NEW w \in Workers, Caught(w) PROVE PhaseTells'
  <2>1. CASE mem[w].stopped
    BY <1>10, <2>1 DEF Caught
  <2>2. CASE ~mem[w].stopped
    BY <1>10, <2>2 DEF Caught
  <2> QED
    BY <2>1, <2>2
<1>11. ASSUME NEW w \in Workers, Broken(w) PROVE PhaseTells'
  BY <1>11 DEF Broken
<1>12. ASSUME NEW w \in Workers, Unmark(w) PROVE PhaseTells'
  BY <1>12 DEF Unmark
<1>13. ASSUME NEW w \in Workers, Verify(w) PROVE PhaseTells'
  BY <1>13 DEF Verify
<1>14. ASSUME NEW w \in Workers, AssertIdle(w) PROVE PhaseTells'
  BY <1>14 DEF AssertIdle, Idle
<1>15. ASSUME NEW w \in Workers, Mark(w) PROVE PhaseTells'
  BY <1>15 DEF Mark
<1>16. ASSUME NEW w \in Workers, SaveDraining(w) PROVE PhaseTells'
  BY <1>16 DEF SaveDraining
<1>17. ASSUME NEW w \in Workers, AssertDrained(w) PROVE PhaseTells'
  BY <1>17 DEF AssertDrained, Drained, Idle
<1>18. ASSUME NEW w \in Workers, SaveStopping(w) PROVE PhaseTells'
  BY <1>18 DEF SaveStopping
<1>19. ASSUME NEW w \in Workers, Stop(w) PROVE PhaseTells'
  BY <1>19 DEF Stop, PM2Stop, StopManager, Operations
<1>20. ASSUME NEW w \in Workers, Backup(w) PROVE PhaseTells'
  BY <1>20 DEF Backup, Idle
<1>21. ASSUME NEW w \in Workers, Plan(w) PROVE PhaseTells'
  BY <1>21 DEF Plan, Staged
<1>22. ASSUME NEW w \in Workers, Replace(w) PROVE PhaseTells'
  BY <1>22 DEF Replace
<1>23. ASSUME NEW w \in Workers, Install(w) PROVE PhaseTells'
  BY <1>23 DEF Install
<1>24. ASSUME NEW w \in Workers, SaveChecking(w) PROVE PhaseTells'
  BY <1>24 DEF SaveChecking
<1>25. ASSUME NEW w \in Workers, Restart(w) PROVE PhaseTells'
  BY <1>25 DEF Restart, PM2Restart, Installed, IsOld, IsNew
<1>26. ASSUME NEW w \in Workers, Health(w) PROVE PhaseTells'
  BY <1>26 DEF Health
<1>27. ASSUME NEW w \in Workers, Succeed(w) PROVE PhaseTells'
  BY <1>27 DEF Succeed
<1>28. ASSUME NEW w \in Workers, Preflight(w) PROVE PhaseTells'
  BY <1>28 DEF Preflight, Drained, Idle
<1>29. ASSUME NEW w \in Workers, Prestart(w) PROVE PhaseTells'
  <2>1. CASE pm2 = "up"
    <3> DEFINE s == [mem[w] EXCEPT !.phase = "rolling_back", !.stopped = TRUE, !.started = TRUE]
    <3>1. Fields(s, "rolling_back", TRUE, mem[w].items, mem[w].manual, TRUE)
      BY PrestartFields, Zenon
    <3>2. Save(w, s, "rollback") /\ pc[w] = "prestart" /\ UNCHANGED <<lock, mode, bounds, todo>>
      BY <1>29, <2>1 DEF Prestart
    <3> HIDE DEF s
    <3> QED
      BY <3>1, <3>2 DEF Fields
  <2>2. CASE pm2 # "up"
    BY <1>29, <2>2 DEF Prestart
  <2> QED
    BY <2>1, <2>2
<1>30. ASSUME NEW w \in Workers, Rollback(w) PROVE PhaseTells'
  BY <1>30 DEF Rollback
<1>31. ASSUME NEW w \in Workers, StopForRestore(w) PROVE PhaseTells'
  BY <1>31 DEF StopForRestore, PM2Stop, StopManager, Operations
<1>32. ASSUME NEW w \in Workers, Restore(w) PROVE PhaseTells'
  BY <1>32 DEF Restore
<1>33. ASSUME NEW w \in Workers, PutAside(w) PROVE PhaseTells'
  BY <1>33 DEF PutAside, Last
<1>34. ASSUME NEW w \in Workers, SkipRestored(w) PROVE PhaseTells'
  BY <1>34 DEF SkipRestored, Last
<1>35. ASSUME NEW w \in Workers, PutBack(w) PROVE PhaseTells'
  BY <1>35 DEF PutBack, Last
<1>36. ASSUME NEW w \in Workers, Restored(w) PROVE PhaseTells'
  BY <1>36 DEF Restored
<1>37. ASSUME NEW w \in Workers, RestartOld(w) PROVE PhaseTells'
  BY <1>37 DEF RestartOld, PM2Restart, Installed, IsOld, IsNew
<1>38. ASSUME NEW w \in Workers, HealthOld(w) PROVE PhaseTells'
  BY <1>38 DEF HealthOld
<1>39. ASSUME NEW w \in Workers, RolledBack(w) PROVE PhaseTells'
  BY <1>39 DEF RolledBack
<1>40. ASSUME NEW w \in Workers, Fault(w) PROVE PhaseTells'
  BY <1>40 DEF Fault
<1>41. CASE InstallUpdate   BY <1>41 DEF InstallUpdate, Request, Online, Nothing
<1>42. CASE CancelUpdate    BY <1>42 DEF CancelUpdate, Request, Online, Nothing
<1>43. CASE RetryRecovery   BY <1>43 DEF RetryRecovery, Request, Online, Nothing
<1>44. CASE RequestRollback BY <1>44 DEF RequestRollback, Online, Nothing
<1>45. CASE SaveRollback    BY <1>45 DEF SaveRollback, Nothing
<1>46. ASSUME NEW o \in Operations, Begin(o) PROVE PhaseTells'
  BY <1>46 DEF Begin, Online, Becomes, Others, Nothing
<1>47. ASSUME NEW o \in Operations, Enter(o) PROVE PhaseTells'
  BY <1>47 DEF Enter, Becomes, Others, Nothing
<1>48. ASSUME NEW o \in Operations, Lease(o) PROVE PhaseTells'
  BY <1>48 DEF Lease, Becomes, Others, Nothing
<1>49. ASSUME NEW o \in Operations, LookAgain(o) PROVE PhaseTells'
  BY <1>49 DEF LookAgain, Becomes, Others, Nothing
<1>50. ASSUME NEW o \in Operations, Finish(o) PROVE PhaseTells'
  BY <1>50 DEF Finish, Becomes, Others, Nothing
<1>51. ASSUME NEW o \in Operations, ClearRow(o) PROVE PhaseTells'
  BY <1>51 DEF ClearRow, Online, Others, Nothing
<1>52. CASE Crash           BY <1>52 DEF Crash, StopManager, Operations
<1>53. CASE UNCHANGED vars  BY <1>53 DEF vars
<1> HIDE DEF PhaseTells
<1> QED
  BY <1>1, <1>2, <1>3, <1>4, <1>5, <1>6, <1>7, <1>8, <1>9, <1>10, <1>11, <1>12,
    <1>13, <1>14, <1>15, <1>16, <1>17, <1>18, <1>19, <1>20, <1>21, <1>22, <1>23,
    <1>24, <1>25, <1>26, <1>27, <1>28, <1>29, <1>30, <1>31, <1>32, <1>33, <1>34,
    <1>35, <1>36, <1>37, <1>38, <1>39, <1>40, <1>41, <1>42, <1>43, <1>44, <1>45,
    <1>46, <1>47, <1>48, <1>49, <1>50, <1>51, <1>52, <1>53
    DEF Next, Main, Apply, Recover, Dashboard, Operation

LEMMA DiskTellsStep ==
    ASSUME Alone, SavedOK, FilesOK, WorkerOK, AskedTells, PhaseTells, EarlyTells,
           DiskTells, NewRuns, PlacesTell, [Next]_vars
    PROVE  DiskTells'
<1> USE UpdateConstants DEF DiskTells, PlacesTell, Kept, Pristine, PhaseTells, AskedTells, Scope,
        Asking, Agrees, EarlyTells,
        SavedOK, FilesOK, WorkerOK, Alone, State, Phases, Terminal, Decided, Opening, Early,
        Preparing, Renaming, Places, Steps, Applying, Recovering, Items, IsOld, IsNew,
        Loop, At, Goto, NotSaved, NoMove,
        Save, SavePhase, Throw, Check, Move, manager, bounds
<1>1. ASSUME NEW w \in Workers, NEW m \in {"run", "files-only"}, Start(w, m) PROVE DiskTells'
  BY <1>1 DEF Start
<1>2. ASSUME NEW w \in Workers, NothingToDo(w) PROVE DiskTells'
  BY <1>2 DEF NothingToDo, End, Installed, IsOld, IsNew
<1>3. ASSUME NEW w \in Workers, TryLock(w) PROVE DiskTells'
  BY <1>3 DEF TryLock, SetLock, Created
<1>4. ASSUME NEW w \in Workers, LeaveLocked(w) PROVE DiskTells'
  BY <1>4 DEF LeaveLocked, End, Installed, IsOld, IsNew
<1>5. ASSUME NEW w \in Workers, JudgeStale(w) PROVE DiskTells'
  BY <1>5 DEF JudgeStale, SetLock
<1>6. ASSUME NEW w \in Workers, RemoveLock(w) PROVE DiskTells'
  BY <1>6 DEF RemoveLock, End, SetLock, Installed, IsOld, IsNew
<1>7. ASSUME NEW w \in Workers, LockAgain(w) PROVE DiskTells'
  BY <1>7 DEF LockAgain, End, SetLock, Created, Installed, IsOld, IsNew
<1>8. ASSUME NEW w \in Workers, WriteLock(w) PROVE DiskTells'
  BY <1>8 DEF WriteLock, SetLock, Dispatch
<1>9. ASSUME NEW w \in Workers, Unlock(w) PROVE DiskTells'
  BY <1>9 DEF Unlock, End, Installed, IsOld, IsNew
<1>10. ASSUME NEW w \in Workers, Caught(w) PROVE DiskTells'
  <2>1. CASE mem[w].stopped
    BY <1>10, <2>1 DEF Caught
  <2>2. CASE ~mem[w].stopped
    BY <1>10, <2>2 DEF Caught
  <2> QED
    BY <2>1, <2>2
<1>11. ASSUME NEW w \in Workers, Broken(w) PROVE DiskTells'
  BY <1>11 DEF Broken
<1>12. ASSUME NEW w \in Workers, Unmark(w) PROVE DiskTells'
  BY <1>12 DEF Unmark
<1>13. ASSUME NEW w \in Workers, Verify(w) PROVE DiskTells'
  BY <1>13 DEF Verify
<1>14. ASSUME NEW w \in Workers, AssertIdle(w) PROVE DiskTells'
  BY <1>14 DEF AssertIdle, Idle
<1>15. ASSUME NEW w \in Workers, Mark(w) PROVE DiskTells'
  BY <1>15 DEF Mark
<1>16. ASSUME NEW w \in Workers, SaveDraining(w) PROVE DiskTells'
  BY <1>16 DEF SaveDraining
<1>17. ASSUME NEW w \in Workers, AssertDrained(w) PROVE DiskTells'
  BY <1>17 DEF AssertDrained, Drained, Idle
<1>18. ASSUME NEW w \in Workers, SaveStopping(w) PROVE DiskTells'
  BY <1>18 DEF SaveStopping
<1>19. ASSUME NEW w \in Workers, Stop(w) PROVE DiskTells'
  BY <1>19 DEF Stop, PM2Stop, StopManager, Operations
<1>20. ASSUME NEW w \in Workers, Backup(w) PROVE DiskTells'
  BY <1>20 DEF Backup, Idle
<1>21. ASSUME NEW w \in Workers, Plan(w) PROVE DiskTells'
  BY <1>21 DEF Plan, Staged
<1>22. ASSUME NEW w \in Workers, Replace(w) PROVE DiskTells'
  <2> HIDE DEF Move, Throw, NoMove
  <2>1. PICK i \in Items : i \in todo[w] /\ (Move(w, i, "target", "previous", "install") \/ NoMove(w, "install"))
    BY <1>22 DEF Replace, First, Last
  <2>2. UNCHANGED <<disk, running>> /\ \A j \in Items \ {i} : at'["target"][j] = at["target"][j]
    BY <2>1, MoveGoes DEF Renamed, NoMove
  <2>3. pc[w] = "replace"
    BY <1>22 DEF Replace
  <2>4. disk.phase \notin Early \cup Decided
    BY <2>3
  <2>5. i \in disk.items
    BY <2>1, <2>3
  <2> QED
    BY <2>2, <2>4, <2>5
<1>23. ASSUME NEW w \in Workers, Install(w) PROVE DiskTells'
  <2> HIDE DEF Move, Throw, NoMove
  <2>1. PICK i \in Items : i \in todo[w] /\ (Move(w, i, "stage", "target", "replace"))
    BY <1>23 DEF Install, First, Last
  <2>2. UNCHANGED <<disk, running>> /\ \A j \in Items \ {i} : at'["target"][j] = at["target"][j]
    BY <2>1, MoveGoes DEF Renamed, NoMove
  <2>3. pc[w] = "install"
    BY <1>23 DEF Install
  <2>4. disk.phase \notin Early \cup Decided
    BY <2>3
  <2>5. i \in disk.items
    BY <2>1, <2>3
  <2> QED
    BY <2>2, <2>4, <2>5
<1>24. ASSUME NEW w \in Workers, SaveChecking(w) PROVE DiskTells'
  <2>1. /\ disk'.phase = "checking" /\ disk'.items = disk.items
        /\ UNCHANGED <<at, running>>
    BY <1>24 DEF SaveChecking
  <2>2. "checking" = "succeeded" => IsNew
    BY <1>24 DEF SaveChecking
  <2> QED
    BY <2>1, <2>2
<1>25. ASSUME NEW w \in Workers, Restart(w) PROVE DiskTells'
  BY <1>25 DEF Restart, PM2Restart, Installed, IsOld, IsNew
<1>26. ASSUME NEW w \in Workers, Health(w) PROVE DiskTells'
  BY <1>26 DEF Health
<1>27. ASSUME NEW w \in Workers, Succeed(w) PROVE DiskTells'
  <2>1. /\ disk'.phase = "succeeded" /\ disk'.items = disk.items
        /\ UNCHANGED <<at, running>>
    BY <1>27 DEF Succeed
  <2>2. "succeeded" = "succeeded" => IsNew
    BY <1>27 DEF Succeed
  <2> QED
    BY <2>1, <2>2
<1>28. ASSUME NEW w \in Workers, Preflight(w) PROVE DiskTells'
  <2>1. IsNew
    BY <1>28 DEF Preflight, NewRuns
  <2>2. mem[w].items = disk.items
    BY <1>28 DEF Preflight
  <2>3. UNCHANGED <<at, running>> /\ (disk' = disk \/ (disk'.phase = "succeeded" /\ disk'.items = disk.items))
    BY <1>28, <2>2 DEF Preflight, Idle
  <2> QED
    BY <2>1, <2>3
<1>29. ASSUME NEW w \in Workers, Prestart(w) PROVE DiskTells'
  <2>1. mem[w].items = disk.items
    BY <1>29 DEF Prestart
  <2>2. /\ UNCHANGED <<at, manager, todo, mode>>
        /\ \/ disk' = disk /\ Goto(w, "broken")
           \/ Fields(disk', "rolling_back", TRUE, mem[w].items, mem[w].manual, TRUE) /\ Goto(w, "rollback")
    <3> HIDE DEF SavedOK, manager, Goto
    <3> QED
      BY <1>29, PrestartDoes
  <2>3. UNCHANGED <<at, running>>
    BY <2>2
  <2>4. disk' = disk \/ (disk'.phase = "rolling_back" /\ disk'.items = disk.items)
    BY <2>1, <2>2 DEF Fields
  <2> QED
    BY <2>3, <2>4
<1>30. ASSUME NEW w \in Workers, Rollback(w) PROVE DiskTells'
  <2>1. /\ disk'.phase = "rolling_back" /\ disk'.items = disk.items
        /\ UNCHANGED <<at, running>>
    BY <1>30 DEF Rollback
  <2>2. "rolling_back" = "succeeded" => IsNew
    BY <1>30 DEF Rollback
  <2> QED
    BY <2>1, <2>2
<1>31. ASSUME NEW w \in Workers, StopForRestore(w) PROVE DiskTells'
  BY <1>31 DEF StopForRestore, PM2Stop, StopManager, Operations
<1>32. ASSUME NEW w \in Workers, Restore(w) PROVE DiskTells'
  BY <1>32 DEF Restore
<1>33. ASSUME NEW w \in Workers, PutAside(w) PROVE DiskTells'
  <2> HIDE DEF Move, Throw, NoMove
  <2>1. PICK i \in Items : i \in todo[w] /\ (Move(w, i, "target", "failed", "totarget") \/ NoMove(w, "totarget"))
    BY <1>33 DEF PutAside, First, Last
  <2>2. UNCHANGED <<disk, running>> /\ \A j \in Items \ {i} : at'["target"][j] = at["target"][j]
    BY <2>1, MoveGoes DEF Renamed, NoMove
  <2>3. pc[w] = "putback"
    BY <1>33 DEF PutAside
  <2>4. disk.phase \notin Early \cup Decided
    BY <2>3
  <2>5. i \in disk.items
    BY <2>1, <2>3
  <2> QED
    BY <2>2, <2>4, <2>5
<1>34. ASSUME NEW w \in Workers, SkipRestored(w) PROVE DiskTells'
  BY <1>34 DEF SkipRestored, Last
<1>35. ASSUME NEW w \in Workers, PutBack(w) PROVE DiskTells'
  <2> HIDE DEF Move, Throw, NoMove
  <2>1. PICK i \in Items : i \in todo[w] /\ (Move(w, i, "previous", "target", "putback") \/ NoMove(w, "putback"))
    BY <1>35 DEF PutBack, First, Last
  <2>2. UNCHANGED <<disk, running>> /\ \A j \in Items \ {i} : at'["target"][j] = at["target"][j]
    BY <2>1, MoveGoes DEF Renamed, NoMove
  <2>3. pc[w] = "totarget"
    BY <1>35 DEF PutBack
  <2>4. disk.phase \notin Early \cup Decided
    BY <2>3
  <2>5. i \in disk.items
    BY <2>1, <2>3
  <2> QED
    BY <2>2, <2>4, <2>5
<1>36. ASSUME NEW w \in Workers, Restored(w) PROVE DiskTells'
  BY <1>36 DEF Restored
<1>37. ASSUME NEW w \in Workers, RestartOld(w) PROVE DiskTells'
  BY <1>37 DEF RestartOld, PM2Restart, Installed, IsOld, IsNew
<1>38. ASSUME NEW w \in Workers, HealthOld(w) PROVE DiskTells'
  BY <1>38 DEF HealthOld
<1>39. ASSUME NEW w \in Workers, RolledBack(w) PROVE DiskTells'
  BY <1>39 DEF RolledBack
<1>40. ASSUME NEW w \in Workers, Fault(w) PROVE DiskTells'
  BY <1>40 DEF Fault
<1>41. CASE InstallUpdate   BY <1>41 DEF InstallUpdate, Request, Online, Nothing
<1>42. CASE CancelUpdate    BY <1>42 DEF CancelUpdate, Request, Online, Nothing
<1>43. CASE RetryRecovery   BY <1>43 DEF RetryRecovery, Request, Online, Nothing
<1>44. CASE RequestRollback BY <1>44 DEF RequestRollback, Online, Nothing
<1>45. CASE SaveRollback    BY <1>45 DEF SaveRollback, Nothing
<1>46. ASSUME NEW o \in Operations, Begin(o) PROVE DiskTells'
  BY <1>46 DEF Begin, Online, Becomes, Others, Nothing
<1>47. ASSUME NEW o \in Operations, Enter(o) PROVE DiskTells'
  BY <1>47 DEF Enter, Becomes, Others, Nothing
<1>48. ASSUME NEW o \in Operations, Lease(o) PROVE DiskTells'
  BY <1>48 DEF Lease, Becomes, Others, Nothing
<1>49. ASSUME NEW o \in Operations, LookAgain(o) PROVE DiskTells'
  BY <1>49 DEF LookAgain, Becomes, Others, Nothing
<1>50. ASSUME NEW o \in Operations, Finish(o) PROVE DiskTells'
  BY <1>50 DEF Finish, Becomes, Others, Nothing
<1>51. ASSUME NEW o \in Operations, ClearRow(o) PROVE DiskTells'
  BY <1>51 DEF ClearRow, Online, Others, Nothing
<1>52. CASE Crash           BY <1>52 DEF Crash, StopManager, Operations
<1>53. CASE UNCHANGED vars  BY <1>53 DEF vars
<1> HIDE DEF DiskTells
<1> QED
  BY <1>1, <1>2, <1>3, <1>4, <1>5, <1>6, <1>7, <1>8, <1>9, <1>10, <1>11, <1>12,
    <1>13, <1>14, <1>15, <1>16, <1>17, <1>18, <1>19, <1>20, <1>21, <1>22, <1>23,
    <1>24, <1>25, <1>26, <1>27, <1>28, <1>29, <1>30, <1>31, <1>32, <1>33, <1>34,
    <1>35, <1>36, <1>37, <1>38, <1>39, <1>40, <1>41, <1>42, <1>43, <1>44, <1>45,
    <1>46, <1>47, <1>48, <1>49, <1>50, <1>51, <1>52, <1>53
    DEF Next, Main, Apply, Recover, Dashboard, Operation

LEMMA NewRunsStep ==
    ASSUME Alone, Scope', SavedOK, WorkerOK, ManagerOK, BoundsOK, AskedTells, StoppedTells, PhaseTells,
           DiskTells, NewRuns, [Next]_vars
    PROVE  NewRuns'
<1> USE UpdateConstants DEF NewRuns, AskedTells, Scope, Asking, Agrees, StoppedTells, PhaseTells,
        SavedOK, WorkerOK, ManagerOK, BoundsOK, Alone, State, Phases, Terminal, Decided, Opening, Boots,
        Renaming, IsNew, Steps, Applying, Recovering, Loop, At, Goto, NotSaved, NoMove,
        Save, SavePhase, Throw, Check, Move, manager, bounds
<1>0. ASSUME NEW w \in Workers, NEW ok \in BOOLEAN, pc[w] # "off", End(w, ok) PROVE NewRuns'
  <2>1. UNCHANGED <<at, disk, ui>> /\ (running' = running \/ (mode[w] = "files-only" /\ running' = Installed))
    BY <1>0 DEF End
  <2>2. disk.phase = "succeeded" => Installed = "new"
    BY WholeInstalled DEF DiskTells
  <2>3. mode[w] = "files-only" => ui = NoLock /\ ~ disk.manual
    BY <1>0
  <2> QED
    BY <2>1, <2>2, <2>3
<1>1. ASSUME NEW w \in Workers, NEW m \in {"run", "files-only"}, Start(w, m) PROVE NewRuns'
  BY <1>1 DEF Start
<1>2. ASSUME NEW w \in Workers, NothingToDo(w) PROVE NewRuns'
  BY <1>2, <1>0 DEF NothingToDo
<1>3. ASSUME NEW w \in Workers, TryLock(w) PROVE NewRuns'
  BY <1>3 DEF TryLock, SetLock, Created
<1>4. ASSUME NEW w \in Workers, LeaveLocked(w) PROVE NewRuns'
  BY <1>4 DEF LeaveLocked, End, Installed, IsOld, IsNew
<1>5. ASSUME NEW w \in Workers, JudgeStale(w) PROVE NewRuns'
  BY <1>5 DEF JudgeStale, SetLock
<1>6. ASSUME NEW w \in Workers, RemoveLock(w) PROVE NewRuns'
  BY <1>6 DEF RemoveLock, End, SetLock, Installed, IsOld, IsNew
<1>7. ASSUME NEW w \in Workers, LockAgain(w) PROVE NewRuns'
  BY <1>7 DEF LockAgain, End, SetLock, Created, Installed, IsOld, IsNew
<1>8. ASSUME NEW w \in Workers, WriteLock(w) PROVE NewRuns'
  BY <1>8 DEF WriteLock, SetLock, Dispatch
<1>9. ASSUME NEW w \in Workers, Unlock(w) PROVE NewRuns'
  BY <1>9, <1>0 DEF Unlock
<1>10. ASSUME NEW w \in Workers, Caught(w) PROVE NewRuns'
  <2>1. CASE mem[w].stopped
    BY <1>10, <2>1 DEF Caught
  <2>2. CASE ~mem[w].stopped
    BY <1>10, <2>2 DEF Caught
  <2> QED
    BY <2>1, <2>2
<1>11. ASSUME NEW w \in Workers, Broken(w) PROVE NewRuns'
  BY <1>11 DEF Broken
<1>12. ASSUME NEW w \in Workers, Unmark(w) PROVE NewRuns'
  BY <1>12 DEF Unmark
<1>13. ASSUME NEW w \in Workers, Verify(w) PROVE NewRuns'
  BY <1>13 DEF Verify
<1>14. ASSUME NEW w \in Workers, AssertIdle(w) PROVE NewRuns'
  BY <1>14 DEF AssertIdle, Idle
<1>15. ASSUME NEW w \in Workers, Mark(w) PROVE NewRuns'
  BY <1>15 DEF Mark
<1>16. ASSUME NEW w \in Workers, SaveDraining(w) PROVE NewRuns'
  BY <1>16 DEF SaveDraining
<1>17. ASSUME NEW w \in Workers, AssertDrained(w) PROVE NewRuns'
  BY <1>17 DEF AssertDrained, Drained, Idle
<1>18. ASSUME NEW w \in Workers, SaveStopping(w) PROVE NewRuns'
  BY <1>18 DEF SaveStopping
<1>19. ASSUME NEW w \in Workers, Stop(w) PROVE NewRuns'
  BY <1>19 DEF Stop, PM2Stop, StopManager, Operations
<1>20. ASSUME NEW w \in Workers, Backup(w) PROVE NewRuns'
  BY <1>20 DEF Backup, Idle
<1>21. ASSUME NEW w \in Workers, Plan(w) PROVE NewRuns'
  BY <1>21 DEF Plan, Staged
<1>22. ASSUME NEW w \in Workers, Replace(w) PROVE NewRuns'
  BY <1>22 DEF Replace
<1>23. ASSUME NEW w \in Workers, Install(w) PROVE NewRuns'
  BY <1>23 DEF Install
<1>24. ASSUME NEW w \in Workers, SaveChecking(w) PROVE NewRuns'
  BY <1>24 DEF SaveChecking
<1>25. ASSUME NEW w \in Workers, Restart(w) PROVE NewRuns'
  BY <1>25 DEF Restart, PM2Restart, Installed, IsOld, IsNew
<1>26. ASSUME NEW w \in Workers, Health(w) PROVE NewRuns'
  BY <1>26 DEF Health
<1>27. ASSUME NEW w \in Workers, Succeed(w) PROVE NewRuns'
  BY <1>27 DEF Succeed
<1>28. ASSUME NEW w \in Workers, Preflight(w) PROVE NewRuns'
  BY <1>28 DEF Preflight, Drained, Idle
<1>29. ASSUME NEW w \in Workers, Prestart(w) PROVE NewRuns'
  BY <1>29 DEF Prestart
<1>30. ASSUME NEW w \in Workers, Rollback(w) PROVE NewRuns'
  BY <1>30 DEF Rollback
<1>31. ASSUME NEW w \in Workers, StopForRestore(w) PROVE NewRuns'
  BY <1>31 DEF StopForRestore, PM2Stop, StopManager, Operations
<1>32. ASSUME NEW w \in Workers, Restore(w) PROVE NewRuns'
  BY <1>32 DEF Restore
<1>33. ASSUME NEW w \in Workers, PutAside(w) PROVE NewRuns'
  BY <1>33 DEF PutAside, Last
<1>34. ASSUME NEW w \in Workers, SkipRestored(w) PROVE NewRuns'
  BY <1>34 DEF SkipRestored, Last
<1>35. ASSUME NEW w \in Workers, PutBack(w) PROVE NewRuns'
  BY <1>35 DEF PutBack, Last
<1>36. ASSUME NEW w \in Workers, Restored(w) PROVE NewRuns'
  BY <1>36 DEF Restored
<1>37. ASSUME NEW w \in Workers, RestartOld(w) PROVE NewRuns'
  BY <1>37 DEF RestartOld, PM2Restart, Installed, IsOld, IsNew
<1>38. ASSUME NEW w \in Workers, HealthOld(w) PROVE NewRuns'
  BY <1>38 DEF HealthOld
<1>39. ASSUME NEW w \in Workers, RolledBack(w) PROVE NewRuns'
  BY <1>39 DEF RolledBack
<1>40. ASSUME NEW w \in Workers, Fault(w) PROVE NewRuns'
  BY <1>40 DEF Fault
<1>41. CASE InstallUpdate   BY <1>41 DEF InstallUpdate, Request, Online, Nothing
<1>42. CASE CancelUpdate    BY <1>42 DEF CancelUpdate, Request, Online, Nothing
<1>43. CASE RetryRecovery   BY <1>43 DEF RetryRecovery, Request, Online, Nothing
<1>44. CASE RequestRollback
  <2>1. IsNew /\ running = "new" /\ UNCHANGED <<at, running, disk>>
    BY <1>44 DEF RequestRollback, Online, Nothing, DiskTells
  <2> QED
    BY <2>1
<1>45. CASE SaveRollback    BY <1>45 DEF SaveRollback, Nothing
<1>46. ASSUME NEW o \in Operations, Begin(o) PROVE NewRuns'
  BY <1>46 DEF Begin, Online, Becomes, Others, Nothing
<1>47. ASSUME NEW o \in Operations, Enter(o) PROVE NewRuns'
  BY <1>47 DEF Enter, Becomes, Others, Nothing
<1>48. ASSUME NEW o \in Operations, Lease(o) PROVE NewRuns'
  BY <1>48 DEF Lease, Becomes, Others, Nothing
<1>49. ASSUME NEW o \in Operations, LookAgain(o) PROVE NewRuns'
  BY <1>49 DEF LookAgain, Becomes, Others, Nothing
<1>50. ASSUME NEW o \in Operations, Finish(o) PROVE NewRuns'
  BY <1>50 DEF Finish, Becomes, Others, Nothing
<1>51. ASSUME NEW o \in Operations, ClearRow(o) PROVE NewRuns'
  BY <1>51 DEF ClearRow, Online, Others, Nothing
<1>52. CASE Crash           BY <1>52 DEF Crash, StopManager, Operations
<1>53. CASE UNCHANGED vars  BY <1>53 DEF vars
<1> QED
  BY <1>1, <1>2, <1>3, <1>4, <1>5, <1>6, <1>7, <1>8, <1>9, <1>10, <1>11, <1>12,
    <1>13, <1>14, <1>15, <1>16, <1>17, <1>18, <1>19, <1>20, <1>21, <1>22, <1>23,
    <1>24, <1>25, <1>26, <1>27, <1>28, <1>29, <1>30, <1>31, <1>32, <1>33, <1>34,
    <1>35, <1>36, <1>37, <1>38, <1>39, <1>40, <1>41, <1>42, <1>43, <1>44, <1>45,
    <1>46, <1>47, <1>48, <1>49, <1>50, <1>51, <1>52, <1>53
    DEF Next, Main, Apply, Recover, Dashboard, Operation

LEMMA PlacesTellStep ==
    ASSUME Alone, SavedOK, FilesOK, WorkerOK, AskedTells, StoppedTells, PhaseTells, Single,
           DiskTells, PlacesTell, [Next]_vars
    PROVE  PlacesTell'
<1> USE UpdateConstants DEF PlacesTell, DiskTells, Kept, Pristine, PhaseTells, AskedTells, Scope,
        Asking, Agrees, Single,
        StoppedTells, Boots, SavedOK, FilesOK, WorkerOK, Alone, State, Phases, Terminal, Decided,
        Opening, Early, Renaming, Places, Steps, Applying, Recovering, Items, IsOld, IsNew,
        Loop, At, Goto, NotSaved, NoMove,
        Save, SavePhase, Throw, Check, Move, manager, bounds
<1>1. ASSUME NEW w \in Workers, NEW m \in {"run", "files-only"}, Start(w, m) PROVE PlacesTell'
  BY <1>1 DEF Start
<1>2. ASSUME NEW w \in Workers, NothingToDo(w) PROVE PlacesTell'
  BY <1>2 DEF NothingToDo, End, Installed, IsOld, IsNew
<1>3. ASSUME NEW w \in Workers, TryLock(w) PROVE PlacesTell'
  BY <1>3 DEF TryLock, SetLock, Created
<1>4. ASSUME NEW w \in Workers, LeaveLocked(w) PROVE PlacesTell'
  BY <1>4 DEF LeaveLocked, End, Installed, IsOld, IsNew
<1>5. ASSUME NEW w \in Workers, JudgeStale(w) PROVE PlacesTell'
  BY <1>5 DEF JudgeStale, SetLock
<1>6. ASSUME NEW w \in Workers, RemoveLock(w) PROVE PlacesTell'
  BY <1>6 DEF RemoveLock, End, SetLock, Installed, IsOld, IsNew
<1>7. ASSUME NEW w \in Workers, LockAgain(w) PROVE PlacesTell'
  BY <1>7 DEF LockAgain, End, SetLock, Created, Installed, IsOld, IsNew
<1>8. ASSUME NEW w \in Workers, WriteLock(w) PROVE PlacesTell'
  BY <1>8 DEF WriteLock, SetLock, Dispatch
<1>9. ASSUME NEW w \in Workers, Unlock(w) PROVE PlacesTell'
  BY <1>9 DEF Unlock, End, Installed, IsOld, IsNew
<1>10. ASSUME NEW w \in Workers, Caught(w) PROVE PlacesTell'
  <2>1. CASE mem[w].stopped
    BY <1>10, <2>1 DEF Caught
  <2>2. CASE ~mem[w].stopped
    BY <1>10, <2>2 DEF Caught
  <2> QED
    BY <2>1, <2>2
<1>11. ASSUME NEW w \in Workers, Broken(w) PROVE PlacesTell'
  BY <1>11 DEF Broken
<1>12. ASSUME NEW w \in Workers, Unmark(w) PROVE PlacesTell'
  <2>1. pc[w] = "unmark" /\ pc' = [pc EXCEPT ![w] = "unlock"] /\ UNCHANGED <<at, disk, mode, todo>>
    BY <1>12 DEF Unmark
  <2>2. mode[w] = "run"
    BY <2>1
  <2> QED
    BY <2>1, <2>2
<1>13. ASSUME NEW w \in Workers, Verify(w) PROVE PlacesTell'
  BY <1>13 DEF Verify
<1>14. ASSUME NEW w \in Workers, AssertIdle(w) PROVE PlacesTell'
  BY <1>14 DEF AssertIdle, Idle
<1>15. ASSUME NEW w \in Workers, Mark(w) PROVE PlacesTell'
  BY <1>15 DEF Mark
<1>16. ASSUME NEW w \in Workers, SaveDraining(w) PROVE PlacesTell'
  BY <1>16 DEF SaveDraining
<1>17. ASSUME NEW w \in Workers, AssertDrained(w) PROVE PlacesTell'
  BY <1>17 DEF AssertDrained, Drained, Idle
<1>18. ASSUME NEW w \in Workers, SaveStopping(w) PROVE PlacesTell'
  BY <1>18 DEF SaveStopping
<1>19. ASSUME NEW w \in Workers, Stop(w) PROVE PlacesTell'
  BY <1>19 DEF Stop, PM2Stop, StopManager, Operations
<1>20. ASSUME NEW w \in Workers, Backup(w) PROVE PlacesTell'
  BY <1>20 DEF Backup, Idle
<1>21. ASSUME NEW w \in Workers, Plan(w) PROVE PlacesTell'
  BY <1>21 DEF Plan, Staged
<1>22. ASSUME NEW w \in Workers, Replace(w) PROVE PlacesTell'
  <2> HIDE DEF Move, Throw, NoMove, AskedTells
  <2>1. PICK i \in Items :
            /\ First(todo[w], i) /\ i \in todo[w] /\ pc[w] = "replace"
            /\ IF i \in Original THEN Move(w, i, "target", "previous", "install") ELSE NoMove(w, "install")
            /\ UNCHANGED <<todo, mode>>
    BY <1>22 DEF Replace, First
  <2>2. CASE Goto(w, "caught") /\ at' = at
    BY <2>1, <2>2
  <2>3. CASE Goto(w, "install") /\ Renamed(i, "target", "previous") /\ disk' = disk
    BY <2>1, <2>3 DEF Renamed, First
  <2>4. CASE i \notin Original /\ NoMove(w, "install")
    BY <2>1, <2>4 DEF NoMove, First
  <2> QED
    BY <2>1, <2>2, <2>3, <2>4, MoveGoes
<1>23. ASSUME NEW w \in Workers, Install(w) PROVE PlacesTell'
  <2> HIDE DEF Move, Throw, NoMove, AskedTells
  <2>1. PICK i \in Items :
            /\ First(todo[w], i) /\ i \in todo[w] /\ pc[w] = "install"
            /\ Move(w, i, "stage", "target", "replace")
            /\ todo' = [todo EXCEPT ![w] = @ \ {i}] /\ mode' = mode
    BY <1>23 DEF Install, First
  <2>2. CASE Goto(w, "caught") /\ at' = at
    BY <2>1, <2>2
  <2>3. CASE Goto(w, "replace") /\ Renamed(i, "stage", "target") /\ disk' = disk
    <3>1. \A j \in todo[w] : First(todo[w], j) => j = i
      BY <2>1 DEF First
    <3>2. disk.items = Items
      BY <2>1
    <3>3. /\ pc' = [pc EXCEPT ![w] = "replace"] /\ mode' = mode /\ todo' = [todo EXCEPT ![w] = @ \ {i}]
          /\ pc[w] = "install" /\ at["stage"][i] = "new"
      BY <2>1, <2>3
    <3> HIDE DEF PhaseTells, DiskTells, SavedOK, AskedTells, StoppedTells
    <3>4. \A j \in Items : IF j \in todo'[w] THEN at'["stage"][j] = "new" /\ Kept(j)' ELSE at'["target"][j] = "new"
      BY <2>1, <2>3, <3>1, <3>3 DEF Renamed
    <3>5. pc'[w] = "replace" /\ disk'.items = Items
      BY <2>3, <3>2, <3>3
    <3>6. \A v \in Workers \ {w} : pc'[v] = "off"
      BY <3>3
    <3> QED
      <4> HIDE DEF First, Last
      <4> QED
        BY <3>4, <3>5, <3>6
  <2> QED
    BY <2>1, <2>2, <2>3, MoveGoes
<1>24. ASSUME NEW w \in Workers, SaveChecking(w) PROVE PlacesTell'
  BY <1>24 DEF SaveChecking
<1>25. ASSUME NEW w \in Workers, Restart(w) PROVE PlacesTell'
  BY <1>25 DEF Restart, PM2Restart, Installed, IsOld, IsNew
<1>26. ASSUME NEW w \in Workers, Health(w) PROVE PlacesTell'
  BY <1>26 DEF Health
<1>27. ASSUME NEW w \in Workers, Succeed(w) PROVE PlacesTell'
  BY <1>27 DEF Succeed
<1>28. ASSUME NEW w \in Workers, Preflight(w) PROVE PlacesTell'
  BY <1>28 DEF Preflight, Drained, Idle
<1>29. ASSUME NEW w \in Workers, Prestart(w) PROVE PlacesTell'
  <2>1. UNCHANGED <<at, todo, mode>> /\ (Goto(w, "broken") \/ Goto(w, "rollback"))
    BY <1>29, PrestartDoes
  <2> QED
    BY <2>1
<1>30. ASSUME NEW w \in Workers, Rollback(w) PROVE PlacesTell'
  BY <1>30 DEF Rollback
<1>31. ASSUME NEW w \in Workers, StopForRestore(w) PROVE PlacesTell'
  BY <1>31 DEF StopForRestore, PM2Stop, StopManager, Operations
<1>32. ASSUME NEW w \in Workers, Restore(w) PROVE PlacesTell'
  <2>1. /\ pc[w] = "restore" /\ pc' = [pc EXCEPT ![w] = "putback"]
        /\ todo' = [todo EXCEPT ![w] = mem[w].items] /\ UNCHANGED <<at, mode>>
    BY <1>32 DEF Restore
  <2>2. mem[w].items = disk.items
    BY <2>1
  <2>3. disk'.items = disk.items
    BY <1>32, <2>2 DEF Restore
  <2> QED
    BY <2>1, <2>2, <2>3
<1>33. ASSUME NEW w \in Workers, PutAside(w) PROVE PlacesTell'
  <2> HIDE DEF Move, Throw, NoMove, AskedTells
  <2>1. PICK i \in Items :
            /\ Last(todo[w], i) /\ i \in todo[w] /\ pc[w] = "putback"
            /\ i \in Original => at["previous"][i] = "old"
            /\ IF at["target"][i] # "none" THEN Move(w, i, "target", "failed", "totarget")
               ELSE NoMove(w, "totarget")
            /\ UNCHANGED <<todo, mode>>
    BY <1>33 DEF PutAside, Last
  <2>2. CASE Goto(w, "broken") /\ at' = at
    BY <2>1, <2>2
  <2>3. CASE Goto(w, "totarget") /\ Renamed(i, "target", "failed") /\ disk' = disk
    BY <2>1, <2>3 DEF Renamed, Last
  <2>4. CASE at["target"][i] = "none" /\ NoMove(w, "totarget")
    BY <2>1, <2>4 DEF NoMove, Last
  <2> QED
    BY <2>1, <2>2, <2>3, <2>4, MoveGoes
<1>34. ASSUME NEW w \in Workers, SkipRestored(w) PROVE PlacesTell'
  BY <1>34 DEF SkipRestored, Last
<1>35. ASSUME NEW w \in Workers, PutBack(w) PROVE PlacesTell'
  <2> HIDE DEF Move, Throw, NoMove, AskedTells
  <2>1. PICK i \in Items :
            /\ Last(todo[w], i) /\ i \in todo[w] /\ pc[w] = "totarget"
            /\ IF i \in Original THEN Move(w, i, "previous", "target", "putback") ELSE NoMove(w, "putback")
            /\ todo' = [todo EXCEPT ![w] = @ \ {i}] /\ mode' = mode
    BY <1>35 DEF PutBack, Last
  <2>2. CASE Goto(w, "broken") /\ at' = at
    BY <2>1, <2>2
  <2>3. CASE i \in Original /\ Goto(w, "putback") /\ Renamed(i, "previous", "target") /\ disk' = disk
    BY <2>1, <2>3 DEF Renamed, Last
  <2>4. CASE i \notin Original /\ NoMove(w, "putback")
    BY <2>1, <2>4 DEF NoMove, Last
  <2>5. ASSUME i \in Original
        PROVE  /\ disk' = disk
               /\ \/ Renamed(i, "previous", "target") /\ Goto(w, "putback")
                  \/ at' = at /\ Goto(w, "broken")
    <3>1. Move(w, i, "previous", "target", "putback") /\ pc[w] \notin Applying
      BY <2>1, <2>5
    <3> HIDE DEF Goto, FilesOK
    <3> QED
      BY <3>1, MoveGoes
  <2> HIDE DEF PlacesTell, Goto
  <2> QED
    BY <2>1, <2>2, <2>3, <2>4, <2>5
<1>36. ASSUME NEW w \in Workers, Restored(w) PROVE PlacesTell'
  <2>1. /\ pc[w] = "putback" /\ todo[w] = {}
        /\ pc' = [pc EXCEPT ![w] = IF mode[w] = "run" THEN "rrestart" ELSE "unlock"]
        /\ UNCHANGED <<at, disk, mode, todo>>
    BY <1>36 DEF Restored
  <2>2. IsOld
    BY <2>1
  <2> QED
    BY <2>1, <2>2
<1>37. ASSUME NEW w \in Workers, RestartOld(w) PROVE PlacesTell'
  BY <1>37 DEF RestartOld, PM2Restart, Installed, IsOld, IsNew
<1>38. ASSUME NEW w \in Workers, HealthOld(w) PROVE PlacesTell'
  BY <1>38 DEF HealthOld
<1>39. ASSUME NEW w \in Workers, RolledBack(w) PROVE PlacesTell'
  BY <1>39 DEF RolledBack
<1>40. ASSUME NEW w \in Workers, Fault(w) PROVE PlacesTell'
  BY <1>40 DEF Fault
<1>41. CASE InstallUpdate   BY <1>41 DEF InstallUpdate, Request, Online, Nothing
<1>42. CASE CancelUpdate    BY <1>42 DEF CancelUpdate, Request, Online, Nothing
<1>43. CASE RetryRecovery   BY <1>43 DEF RetryRecovery, Request, Online, Nothing
<1>44. CASE RequestRollback BY <1>44 DEF RequestRollback, Online, Nothing
<1>45. CASE SaveRollback    BY <1>45 DEF SaveRollback, Nothing
<1>46. ASSUME NEW o \in Operations, Begin(o) PROVE PlacesTell'
  BY <1>46 DEF Begin, Online, Becomes, Others, Nothing
<1>47. ASSUME NEW o \in Operations, Enter(o) PROVE PlacesTell'
  BY <1>47 DEF Enter, Becomes, Others, Nothing
<1>48. ASSUME NEW o \in Operations, Lease(o) PROVE PlacesTell'
  BY <1>48 DEF Lease, Becomes, Others, Nothing
<1>49. ASSUME NEW o \in Operations, LookAgain(o) PROVE PlacesTell'
  BY <1>49 DEF LookAgain, Becomes, Others, Nothing
<1>50. ASSUME NEW o \in Operations, Finish(o) PROVE PlacesTell'
  BY <1>50 DEF Finish, Becomes, Others, Nothing
<1>51. ASSUME NEW o \in Operations, ClearRow(o) PROVE PlacesTell'
  BY <1>51 DEF ClearRow, Online, Others, Nothing
<1>52. CASE Crash           BY <1>52 DEF Crash, StopManager, Operations
<1>53. CASE UNCHANGED vars  BY <1>53 DEF vars
<1> HIDE DEF PlacesTell
<1> QED
  BY <1>1, <1>2, <1>3, <1>4, <1>5, <1>6, <1>7, <1>8, <1>9, <1>10, <1>11, <1>12,
    <1>13, <1>14, <1>15, <1>16, <1>17, <1>18, <1>19, <1>20, <1>21, <1>22, <1>23,
    <1>24, <1>25, <1>26, <1>27, <1>28, <1>29, <1>30, <1>31, <1>32, <1>33, <1>34,
    <1>35, <1>36, <1>37, <1>38, <1>39, <1>40, <1>41, <1>42, <1>43, <1>44, <1>45,
    <1>46, <1>47, <1>48, <1>49, <1>50, <1>51, <1>52, <1>53
    DEF Next, Main, Apply, Recover, Dashboard, Operation

-----------------------------------------------------------------------------
\* Steps that UpdatePromise does not see.
Still == UNCHANGED <<at, running, Verdict>>

\* The others.
Loud == CancelUpdate \/ SaveRollback \/ Crash \/ \E w \in Workers :
    \/ NothingToDo(w) \/ Unlock(w) \/ Caught(w) \/ Stop(w) \/ Replace(w) \/ Install(w)
    \/ Restart(w) \/ Succeed(w) \/ StopForRestore(w) \/ PutAside(w) \/ PutBack(w)
    \/ RestartOld(w) \/ RolledBack(w) \/ Preflight(w)

\* A step of UpdatePromise, as the mapping of KeepsPromise shows it.
Simulated == [Promise!Next]_(Promise!vars)

LEMMA StillStep ==
    ASSUME Alone, SavedOK, WorkerOK, LockOK, AskedTells, LockIsStale, StoppedTells, PhaseTells, [Next]_vars
    PROVE  Still \/ Loud
<1> USE UpdateConstants DEF Still, Verdict, LockIsStale, Held, PhaseTells, AskedTells, Scope, Asking,
        Agrees, SavedOK, WorkerOK,
        LockOK, Alone, State, Phases, Terminal, Decided, Steps, Applying, Recovering, Items,
        Loop, At, Goto, NotSaved, NoMove,
        Save, SavePhase, Throw, Check, Move, manager, bounds
<1>1. ASSUME NEW w \in Workers, NEW m \in {"run", "files-only"}, Start(w, m) PROVE Still \/ Loud
  BY <1>1 DEF Start
<1>2. ASSUME NEW w \in Workers, NothingToDo(w) PROVE Still \/ Loud
  BY <1>2 DEF Loud
<1>3. ASSUME NEW w \in Workers, TryLock(w) PROVE Still \/ Loud
  BY <1>3 DEF TryLock, SetLock, Created
<1>4. ASSUME NEW w \in Workers, LeaveLocked(w) PROVE Still \/ Loud
  BY <1>4 DEF LeaveLocked, End, Installed, IsOld, IsNew
<1>5. ASSUME NEW w \in Workers, JudgeStale(w) PROVE Still \/ Loud
  BY <1>5 DEF JudgeStale, SetLock
<1>6. ASSUME NEW w \in Workers, RemoveLock(w) PROVE Still \/ Loud
  BY <1>6 DEF RemoveLock, End, SetLock, Installed, IsOld, IsNew
<1>7. ASSUME NEW w \in Workers, LockAgain(w) PROVE Still \/ Loud
  BY <1>7 DEF LockAgain, End, SetLock, Created, Installed, IsOld, IsNew
<1>8. ASSUME NEW w \in Workers, WriteLock(w) PROVE Still \/ Loud
  BY <1>8 DEF WriteLock, SetLock, Dispatch
<1>9. ASSUME NEW w \in Workers, Unlock(w) PROVE Still \/ Loud
  BY <1>9 DEF Loud
<1>10. ASSUME NEW w \in Workers, Caught(w) PROVE Still \/ Loud
  BY <1>10 DEF Loud
<1>11. ASSUME NEW w \in Workers, Broken(w) PROVE Still \/ Loud
  BY <1>11 DEF Broken
<1>12. ASSUME NEW w \in Workers, Unmark(w) PROVE Still \/ Loud
  BY <1>12 DEF Unmark
<1>13. ASSUME NEW w \in Workers, Verify(w) PROVE Still \/ Loud
  BY <1>13 DEF Verify
<1>14. ASSUME NEW w \in Workers, AssertIdle(w) PROVE Still \/ Loud
  BY <1>14 DEF AssertIdle, Idle
<1>15. ASSUME NEW w \in Workers, Mark(w) PROVE Still \/ Loud
  BY <1>15 DEF Mark
<1>16. ASSUME NEW w \in Workers, SaveDraining(w) PROVE Still \/ Loud
  BY <1>16 DEF SaveDraining
<1>17. ASSUME NEW w \in Workers, AssertDrained(w) PROVE Still \/ Loud
  BY <1>17 DEF AssertDrained, Drained, Idle
<1>18. ASSUME NEW w \in Workers, SaveStopping(w) PROVE Still \/ Loud
  BY <1>18 DEF SaveStopping
<1>19. ASSUME NEW w \in Workers, Stop(w) PROVE Still \/ Loud
  BY <1>19 DEF Loud
<1>20. ASSUME NEW w \in Workers, Backup(w) PROVE Still \/ Loud
  BY <1>20 DEF Backup, Idle
<1>21. ASSUME NEW w \in Workers, Plan(w) PROVE Still \/ Loud
  BY <1>21 DEF Plan, Staged
<1>22. ASSUME NEW w \in Workers, Replace(w) PROVE Still \/ Loud
  BY <1>22 DEF Loud
<1>23. ASSUME NEW w \in Workers, Install(w) PROVE Still \/ Loud
  BY <1>23 DEF Loud
<1>24. ASSUME NEW w \in Workers, SaveChecking(w) PROVE Still \/ Loud
  BY <1>24 DEF SaveChecking
<1>25. ASSUME NEW w \in Workers, Restart(w) PROVE Still \/ Loud
  BY <1>25 DEF Loud
<1>26. ASSUME NEW w \in Workers, Health(w) PROVE Still \/ Loud
  BY <1>26 DEF Health
<1>27. ASSUME NEW w \in Workers, Succeed(w) PROVE Still \/ Loud
  BY <1>27 DEF Loud
<1>28. ASSUME NEW w \in Workers, Preflight(w) PROVE Still \/ Loud
  BY <1>28 DEF Loud
<1>29. ASSUME NEW w \in Workers, Prestart(w) PROVE Still \/ Loud
  <2>1. UNCHANGED <<at, running>> /\ (disk' = disk \/ disk'.phase = "rolling_back")
    BY <1>29, PrestartDoes DEF Fields
  <2>2. disk.phase \notin Terminal
    BY <1>29 DEF Prestart
  <2> QED
    BY <2>1, <2>2
<1>30. ASSUME NEW w \in Workers, Rollback(w) PROVE Still \/ Loud
  BY <1>30 DEF Rollback
<1>31. ASSUME NEW w \in Workers, StopForRestore(w) PROVE Still \/ Loud
  BY <1>31 DEF Loud
<1>32. ASSUME NEW w \in Workers, Restore(w) PROVE Still \/ Loud
  BY <1>32 DEF Restore
<1>33. ASSUME NEW w \in Workers, PutAside(w) PROVE Still \/ Loud
  BY <1>33 DEF Loud
<1>34. ASSUME NEW w \in Workers, SkipRestored(w) PROVE Still \/ Loud
  BY <1>34 DEF SkipRestored, Last
<1>35. ASSUME NEW w \in Workers, PutBack(w) PROVE Still \/ Loud
  BY <1>35 DEF Loud
<1>36. ASSUME NEW w \in Workers, Restored(w) PROVE Still \/ Loud
  BY <1>36 DEF Restored
<1>37. ASSUME NEW w \in Workers, RestartOld(w) PROVE Still \/ Loud
  BY <1>37 DEF Loud
<1>38. ASSUME NEW w \in Workers, HealthOld(w) PROVE Still \/ Loud
  BY <1>38 DEF HealthOld
<1>39. ASSUME NEW w \in Workers, RolledBack(w) PROVE Still \/ Loud
  BY <1>39 DEF Loud
<1>40. ASSUME NEW w \in Workers, Fault(w) PROVE Still \/ Loud
  BY <1>40 DEF Fault
<1>41. CASE InstallUpdate   BY <1>41 DEF InstallUpdate, Request, Online, Nothing
<1>42. CASE CancelUpdate    BY <1>42 DEF Loud
<1>43. CASE RetryRecovery   BY <1>43 DEF RetryRecovery, Request, Online, Nothing
<1>44. CASE RequestRollback BY <1>44 DEF RequestRollback, Online, Nothing
<1>45. CASE SaveRollback    BY <1>45 DEF Loud
<1>46. ASSUME NEW o \in Operations, Begin(o) PROVE Still \/ Loud
  BY <1>46 DEF Begin, Online, Becomes, Others, Nothing
<1>47. ASSUME NEW o \in Operations, Enter(o) PROVE Still \/ Loud
  BY <1>47 DEF Enter, Becomes, Others, Nothing
<1>48. ASSUME NEW o \in Operations, Lease(o) PROVE Still \/ Loud
  BY <1>48 DEF Lease, Becomes, Others, Nothing
<1>49. ASSUME NEW o \in Operations, LookAgain(o) PROVE Still \/ Loud
  BY <1>49 DEF LookAgain, Becomes, Others, Nothing
<1>50. ASSUME NEW o \in Operations, Finish(o) PROVE Still \/ Loud
  BY <1>50 DEF Finish, Becomes, Others, Nothing
<1>51. ASSUME NEW o \in Operations, ClearRow(o) PROVE Still \/ Loud
  BY <1>51 DEF ClearRow, Online, Others, Nothing
<1>52. CASE Crash           BY <1>52 DEF Loud
<1>53. CASE UNCHANGED vars  BY <1>53 DEF vars
<1> HIDE DEF Still
<1> QED
  BY <1>1, <1>2, <1>3, <1>4, <1>5, <1>6, <1>7, <1>8, <1>9, <1>10, <1>11, <1>12,
    <1>13, <1>14, <1>15, <1>16, <1>17, <1>18, <1>19, <1>20, <1>21, <1>22, <1>23,
    <1>24, <1>25, <1>26, <1>27, <1>28, <1>29, <1>30, <1>31, <1>32, <1>33, <1>34,
    <1>35, <1>36, <1>37, <1>38, <1>39, <1>40, <1>41, <1>42, <1>43, <1>44, <1>45,
    <1>46, <1>47, <1>48, <1>49, <1>50, <1>51, <1>52, <1>53
    DEF Next, Main, Apply, Recover, Dashboard, Operation

\* What a loud step needs to know to be one of UpdatePromise.
LEMMA Simulations ==
    /\ Still => Simulated
    /\ UNCHANGED <<at, Verdict>> /\ running' = "off" => Simulated
    /\ UNCHANGED <<at, Verdict>> /\ running' = Installed /\ Installed # "mixed" => Simulated
    /\ UNCHANGED <<running, Verdict>> /\ running = "off" /\ Verdict = "open" => Simulated
    /\ /\ UNCHANGED <<at, running>> /\ Verdict = "open" /\ Verdict' = Installed
       /\ Installed # "mixed" /\ running \in {Installed, "off"}
       /\ Installed = "new" => running = "new"
       => Simulated
    /\ UNCHANGED <<at, running>> /\ Verdict = "new" /\ Verdict' = "open" => Simulated
<1>1. at' = at => Installed' = Installed
  BY DEF Installed, IsOld, IsNew
<1>2. Installed' \in {"old", "new", "mixed"}
  BY DEF Installed
<1> QED
  BY <1>1, <1>2 DEF Still, Simulated, Promise!Next, Promise!vars, Promise!Stop, Promise!Serve,
    Promise!Replace, Promise!Conclude, Promise!Reopen

LEMMA PromiseStep ==
    ASSUME Alone, Types, EarlyTells, PromiseInv, [Next]_vars
    PROVE  Simulated
<1> USE DEF At, Loop, Goto, NotSaved, NoMove, Save, SavePhase, Verdict, Terminal
<1>a. /\ LockIsStale /\ StoppedTells /\ PhaseTells /\ DiskTells /\ NewRuns /\ PlacesTell
      /\ AskedTells /\ SavedOK /\ WorkerOK /\ LockOK /\ ManagerOK /\ FilesOK
  BY DEF PromiseInv, Types
<1>b. Still \/ Loud
  BY <1>a, Alone, StillStep
<1>c. ASSUME NEW w \in Workers, pc[w] \notin {"off", "look", "unmark", "unlock"}
      PROVE  disk.phase \notin Terminal /\ Verdict = "open"
  BY <1>a, <1>c DEF PhaseTells, Decided
<1>d. ASSUME NEW w \in Workers, End(w, TRUE) \/ End(w, FALSE), lock' = lock \/ lock' = NoLock,
             mode[w] = "files-only" => IsOld \/ IsNew
      PROVE  Simulated
  <2>1. UNCHANGED <<at, Verdict>> /\ (running' = running \/ (running' = Installed /\ mode[w] = "files-only"))
    BY <1>d DEF End
  <2> QED
    BY <1>d, <2>1, WholeInstalled, Simulations DEF Still
<1>1. ASSUME NEW w \in Workers, NothingToDo(w) PROVE Simulated
  <2>1. /\ pc[w] = "look" /\ mem[w].phase \in Decided
        /\ End(w, TRUE) /\ lock' = lock
    BY <1>1 DEF NothingToDo, Decided
  <2>2. \/ mem[w].phase = disk.phase
        \/ mem[w].phase = "ready" /\ disk.phase \in {"queued", "failed"}
        \/ disk.manual /\ ~ disk.started
    BY <1>a, <2>1 DEF PhaseTells, Decided
  <2>3. IsOld \/ IsNew
    BY <1>a, <2>1, <2>2, WholeInstalled DEF DiskTells, NewRuns, Decided, Early
  <2> QED
    BY <2>1, <2>3, <1>d
<1>2. ASSUME NEW w \in Workers, Unlock(w) PROVE Simulated
  <2>1. CASE pc[w] = "unlock" /\ mode[w] = "files-only"
    <3>1. IsOld /\ lock' = NoLock /\ (End(w, TRUE) \/ End(w, FALSE))
      BY <1>2, <2>1, <1>a DEF Unlock, PlacesTell, End
    <3> QED
      BY <3>1, <1>d
  <2>2. CASE ~(pc[w] = "unlock" /\ mode[w] = "files-only")
    <3>1. UNCHANGED <<at, disk, running>>
      BY <1>2, <2>2 DEF Unlock, End
    <3> QED
      BY <3>1, Simulations DEF Still
  <2> QED
    BY <2>1, <2>2
<1>3. ASSUME NEW w \in Workers, Caught(w) PROVE Simulated
  <2>1. pc[w] = "caught"
    BY <1>3 DEF Caught
  <2>2. CASE mem[w].stopped
    BY <1>3, <2>2, Simulations DEF Caught, Still, manager
  <2>3. CASE ~mem[w].stopped
    <3>1. disk.phase \in {"queued", "draining"}
      BY <1>a, <2>1, <2>3 DEF PhaseTells
    <3>2. Installed = "old" /\ running \in {"old", "off"} /\ Verdict = "open"
      BY <1>a, <3>1, WholeInstalled DEF DiskTells, Early
    <3>3. mem[w] \in State
      BY <1>a DEF SavedOK
    <3>4. UNCHANGED <<at, running>> /\ disk'.phase = "failed"
      BY <1>3, <2>3, <3>3 DEF Caught, State, manager
    <3> QED
      BY <3>2, <3>4, Simulations
  <2> QED
    BY <2>2, <2>3
<1>4. ASSUME NEW w \in Workers, Stop(w) \/ StopForRestore(w) PROVE Simulated
  <2>1. UNCHANGED <<at, disk>> /\ (running' = "off" \/ running' = running)
    BY <1>4 DEF Stop, StopForRestore, PM2Stop, StopManager, Throw, manager
  <2> QED
    BY <2>1, Simulations DEF Still
<1>5. ASSUME NEW w \in Workers, Replace(w) \/ Install(w) \/ PutAside(w) \/ PutBack(w)
      PROVE  Simulated
  <2>1. pc[w] \in Renaming /\ UNCHANGED <<disk, running>>
    BY <1>5 DEF Replace, Install, PutAside, PutBack, Move, Throw, manager, Renaming
  <2>2. running = "off" /\ Verdict = "open"
    BY <2>1, <1>a, <1>c DEF StoppedTells, Renaming
  <2> QED
    BY <2>1, <2>2, Simulations
<1>6. ASSUME NEW w \in Workers, Restart(w) \/ RestartOld(w) PROVE Simulated
  <2>1. pc[w] \in {"restart", "rrestart"} /\ UNCHANGED <<at, disk>>
        /\ (running' = Installed \/ running' = running)
    BY <1>6 DEF Restart, RestartOld, PM2Restart, Throw, manager
  <2>2. IsNew \/ IsOld
    BY <2>1, <1>a DEF PlacesTell
  <2> QED
    BY <2>1, <2>2, WholeInstalled, Simulations DEF Still
<1>7. ASSUME NEW w \in Workers, Succeed(w) PROVE Simulated
  <2>1. pc[w] = "succeed" /\ UNCHANGED <<at, running>> /\ disk'.phase = "succeeded"
    BY <1>7, <1>a DEF Succeed, manager, SavedOK, State
  <2>2. Installed = "new" /\ running = "new" /\ Verdict = "open"
    BY <2>1, <1>a, <1>c, WholeInstalled DEF PlacesTell, StoppedTells
  <2> QED
    BY <2>1, <2>2, Simulations
<1>8. ASSUME NEW w \in Workers, RolledBack(w) PROVE Simulated
  <2>1. pc[w] = "rolledback" /\ UNCHANGED <<at, running>> /\ disk'.phase = "rolled_back"
    BY <1>8, <1>a DEF RolledBack, manager, SavedOK, State
  <2>2. Installed = "old" /\ running \in {"old", "off"} /\ Verdict = "open"
    BY <2>1, <1>a, <1>c, WholeInstalled DEF PlacesTell, StoppedTells
  <2> QED
    BY <2>1, <2>2, Simulations
<1>9. CASE CancelUpdate
  <2>1. disk.phase = "ready" /\ disk'.phase = "failed" /\ UNCHANGED <<at, running>>
    BY <1>9, <1>a DEF CancelUpdate, Request, Nothing, SavedOK, State
  <2>2. Installed = "old" /\ running \in {"old", "off"} /\ Verdict = "open"
    BY <1>a, <2>1, WholeInstalled DEF DiskTells, Early
  <2> QED
    BY <2>1, <2>2, Simulations
<1>10. CASE Crash
  <2>1. UNCHANGED <<at, disk>> /\ running' = "off"
    BY <1>10 DEF Crash, StopManager
  <2> QED
    BY <2>1, Simulations
<1>11. ASSUME NEW w \in Workers, Preflight(w) PROVE Simulated
  <2>1. /\ pc[w] = "preflight" /\ UNCHANGED <<at, running>>
        /\ disk' = disk \/ disk'.phase = "succeeded"
    BY <1>11, <1>a DEF Preflight, manager, SavedOK, State
  <2>2. Installed = "new" /\ running = "new" /\ Verdict = "open"
    BY <2>1, <1>a, <1>c, WholeInstalled DEF PhaseTells, NewRuns
  <2> QED
    BY <2>1, <2>2, Simulations DEF Still
<1>12. CASE SaveRollback
  <2>1. disk.phase = "succeeded" /\ disk'.phase = "rollback_requested" /\ UNCHANGED <<at, running>>
    BY <1>12, <1>a DEF SaveRollback, Nothing, AskedTells
  <2> QED
    BY <2>1, Simulations
<1> QED
  BY <1>b, <1>1, <1>2, <1>3, <1>4, <1>5, <1>6, <1>7, <1>8, <1>9, <1>10, <1>11, <1>12, Simulations DEF Loud

\* Power losses and requests are only counted up.
LEMMA ScopeBack ==
    ASSUME BoundsOK, [Next]_vars
    PROVE  /\ Scope' => Scope
           /\ rollbacks' = 0 => rollbacks = 0
           /\ crashes' = 0 => crashes = 0
<1>1. crashes \in Nat /\ rollbacks \in Nat
  BY UpdateConstants DEF BoundsOK
<1>2. /\ crashes' = crashes \/ crashes' = crashes + 1
      /\ rollbacks' = rollbacks \/ rollbacks' = rollbacks + 1
  BY Frames DEF bounds, Crash, Fault, RequestRollback
<1> QED
  BY <1>1, <1>2 DEF Scope

LEMMA PromiseHolds ==
    ASSUME Alone
    PROVE  Spec => [](Scope => PromiseInv)
<1>1. Init => PromiseInv
  <2> SUFFICES ASSUME Init PROVE PromiseInv
    OBVIOUS
  <2>1. \A i \in Items : Kept(i) /\ at["stage"][i] = "new" /\ at["previous"][i] = "none"
    BY DEF Init, Places, Kept
  <2>2. DiskTells
    BY <2>1 DEF Init, Fresh, DiskTells, Pristine
  <2>3. PlacesTell /\ StoppedTells /\ LockIsStale /\ NewRuns
    BY DEF Init, Fresh, PlacesTell, StoppedTells, LockIsStale, Renaming, NewRuns
  <2>4. PhaseTells /\ AskedTells
    BY DEF Init, Fresh, PhaseTells, AskedTells, Scope, Opening, Applying, Recovering
  <2> QED
    BY <2>2, <2>3, <2>4 DEF PromiseInv
<1>2. Types /\ KeptInv /\ (Scope => PromiseInv) /\ [Next]_vars => (Scope' => PromiseInv')
  <2> SUFFICES ASSUME Types, KeptInv, Scope => PromiseInv, [Next]_vars, Scope' PROVE PromiseInv'
    OBVIOUS
  <2>0. Scope
    BY ScopeBack DEF Types
  <2>1. /\ AskedTells /\ LockIsStale /\ StoppedTells /\ PhaseTells /\ DiskTells /\ NewRuns /\ PlacesTell
        /\ SavedOK /\ WorkerOK /\ LockOK /\ ManagerOK /\ BoundsOK /\ FilesOK /\ Single /\ EarlyTells
    BY <2>0 DEF Types, KeptInv, PromiseInv
  <2>2. AskedTells' /\ LockIsStale' /\ StoppedTells' /\ PhaseTells'
    BY <2>1, Alone, AskedTellsStep, LockIsStaleStep, StoppedTellsStep, PhaseTellsStep
  <2>3. DiskTells' /\ NewRuns' /\ PlacesTell'
    BY <2>1, Alone, DiskTellsStep, NewRunsStep, PlacesTellStep
  <2> QED
    BY <2>2, <2>3 DEF PromiseInv
<1> QED
  BY <1>1, <1>2, TypesHold, KeptHolds, PTL DEF Spec

\* With one worker, every behaviour without a requested rollback, and every one
\* without a power loss, is one of UpdatePromise, whatever services fail: files
\* change only under a stopped Manager, which only ever runs a whole release,
\* and the verdict names the installed one.
THEOREM PromiseIsKept ==
    ASSUME Alone, MaxRollbacks = 0 \/ MaxCrashes = 0
    PROVE  Spec => KeepsPromise
<1>1. Init => Promise!Init
  <2> SUFFICES ASSUME Init PROVE Promise!Init
    OBVIOUS
  <2>1. IsOld
    BY DEF Init, IsOld, Places
  <2> QED
    BY <2>1, WholeInstalled DEF Init, Fresh, Verdict, Terminal, Promise!Init
<1>2. Types => Scope
  BY DEF Types, BoundsOK, Scope
<1>3. Types /\ KeptInv /\ (Scope => PromiseInv) /\ [Next]_vars => [Promise!Next]_(Promise!vars)
  BY <1>2, PromiseStep DEF KeptInv, Simulated
<1> QED
  BY <1>1, <1>3, TypesHold, KeptHolds, PromiseHolds, PTL DEF Spec, KeepsPromise, Promise!Spec

\* What the dashboard says of an update is what lies on the disk, in every
\* behaviour that keeps the promise.
THEOREM PromiseSuffices == KeepsPromise => [](Verdict # "open" => Installed = Verdict)
<1> DEFINE Says == Verdict # "open" => Installed = Verdict
<1>1. Promise!Init => Says
  BY DEF Promise!Init
<1>2. Says /\ [Promise!Next]_(Promise!vars) => Says'
  BY DEF Promise!Next, Promise!vars, Promise!Stop, Promise!Replace, Promise!Serve,
    Promise!Conclude, Promise!Reopen
<1> QED
  BY <1>1, <1>2, PTL DEF KeepsPromise, Promise!Spec

\* PM2 never starts a release of which only some items are replaced, until power
\* was lost and a rollback requested.
THEOREM WholeReleaseRuns ==
    ASSUME Alone
    PROVE  Spec => [](Scope => WholeRelease)
<1>1. Init => WholeRelease
  BY DEF Init, WholeRelease
<1>2. WholeRelease /\ [Promise!Next]_(Promise!vars) => WholeRelease'
  BY DEF WholeRelease, Promise!Next, Promise!vars, Promise!Stop, Promise!Replace, Promise!Serve,
    Promise!Conclude, Promise!Reopen
<1>3. Types /\ KeptInv /\ Scope /\ (Scope => PromiseInv) /\ [Next]_vars => [Promise!Next]_(Promise!vars)
  BY PromiseStep DEF KeptInv, Simulated
<1>4. Types /\ [Next]_vars => (Scope' => Scope)
  BY ScopeBack DEF Types
<1> QED
  BY <1>1, <1>2, <1>3, <1>4, TypesHold, KeptHolds, PromiseHolds, PTL DEF Spec

-----------------------------------------------------------------------------
\* Without a power loss the marker covers everything from the drain on, and PM2
\* is there, so that no worker runs for the boot task.
Covered == {"draining", "stopping", "activating", "checking", "rollback_requested", "rolling_back",
            "recovery_failed"}
Guarded == (Applying \ {"verify", "idle", "mark"}) \cup Recovering \cup {"broken", "unlockError"}
MarkerTells == crashes = 0 =>
    /\ pm2 = "up"
    /\ disk.phase \in Covered => marker
    /\ disk.phase \in {"ready", "queued", "draining"} => ~ disk.stopped
    /\ \A w \in Workers :
          /\ pc[w] # "off" => mode[w] = "run"
          /\ pc[w] \in Guarded => marker
          /\ pc[w] = "caught" /\ mem[w].stopped => marker
          /\ pc[w] \in {"verify", "idle", "mark", "drain", "drained", "stopping"} => ~ mem[w].stopped
          /\ pc[w] \in Opening \cup {"look"} /\ mem[w].phase = "queued" => ~ mem[w].stopped
          /\ pc[w] \in {"unmark", "unlock"} => disk.phase \in Terminal
          /\ pc[w] = "unlockError" => disk.phase \in {"recovery_failed", "rollback_requested"}
          /\ pc[w] \in Opening \cup {"off", "look"} => disk.phase # "draining"

\* And once the drain is over nothing runs in Manager that a stop would cut off.
Quiet == \A o \in Operations : op[o] # "working" /\ (o \in Requests => op[o] # "checked")
QuietTells == crashes = 0 =>
    /\ \A o \in Operations : op[o] \in {"leased", "working"} => o \in trace
    /\ running = "off" => \A o \in Operations : op[o] = "off"
    /\ disk.phase \in Covered \ {"draining"} => Quiet
    /\ \A w \in Workers :
          /\ pc[w] \in Guarded \ {"drain", "drained"} => Quiet
          /\ pc[w] = "caught" /\ mem[w].stopped => Quiet

LEMMA MarkerTellsStep ==
    ASSUME Alone, rollbacks' = 0, SavedOK, WorkerOK, ManagerOK, BoundsOK, AskedTells, PhaseTells,
           MarkerTells, [Next]_vars
    PROVE  MarkerTells'
<1> USE UpdateConstants DEF MarkerTells, Covered, Guarded, PhaseTells, AskedTells, Scope, Asking,
        Agrees, SavedOK, WorkerOK,
        ManagerOK, BoundsOK, Alone, State, Phases, Terminal, Decided, Opening, Steps, Applying,
        Recovering, Items, Loop, At, Goto, NotSaved, NoMove,
        Save, SavePhase, Throw, Check, Move, manager, bounds
<1>1. ASSUME NEW w \in Workers, NEW m \in {"run", "files-only"}, Start(w, m) PROVE MarkerTells'
  BY <1>1 DEF Start
<1>2. ASSUME NEW w \in Workers, NothingToDo(w) PROVE MarkerTells'
  BY <1>2 DEF NothingToDo, End, Installed, IsOld, IsNew
<1>3. ASSUME NEW w \in Workers, TryLock(w) PROVE MarkerTells'
  BY <1>3 DEF TryLock, SetLock, Created
<1>4. ASSUME NEW w \in Workers, LeaveLocked(w) PROVE MarkerTells'
  BY <1>4 DEF LeaveLocked, End, Installed, IsOld, IsNew
<1>5. ASSUME NEW w \in Workers, JudgeStale(w) PROVE MarkerTells'
  BY <1>5 DEF JudgeStale, SetLock
<1>6. ASSUME NEW w \in Workers, RemoveLock(w) PROVE MarkerTells'
  BY <1>6 DEF RemoveLock, End, SetLock, Installed, IsOld, IsNew
<1>7. ASSUME NEW w \in Workers, LockAgain(w) PROVE MarkerTells'
  BY <1>7 DEF LockAgain, End, SetLock, Created, Installed, IsOld, IsNew
<1>8. ASSUME NEW w \in Workers, WriteLock(w) PROVE MarkerTells'
  BY <1>8 DEF WriteLock, SetLock, Dispatch
<1>9. ASSUME NEW w \in Workers, Unlock(w) PROVE MarkerTells'
  BY <1>9 DEF Unlock, End, Installed, IsOld, IsNew
<1>10. ASSUME NEW w \in Workers, Caught(w) PROVE MarkerTells'
  <2>1. CASE mem[w].stopped
    BY <1>10, <2>1 DEF Caught
  <2>2. CASE ~mem[w].stopped
    BY <1>10, <2>2 DEF Caught
  <2> QED
    BY <2>1, <2>2
<1>11. ASSUME NEW w \in Workers, Broken(w) PROVE MarkerTells'
  BY <1>11 DEF Broken
<1>12. ASSUME NEW w \in Workers, Unmark(w) PROVE MarkerTells'
  BY <1>12 DEF Unmark
<1>13. ASSUME NEW w \in Workers, Verify(w) PROVE MarkerTells'
  BY <1>13 DEF Verify
<1>14. ASSUME NEW w \in Workers, AssertIdle(w) PROVE MarkerTells'
  BY <1>14 DEF AssertIdle, Idle
<1>15. ASSUME NEW w \in Workers, Mark(w) PROVE MarkerTells'
  BY <1>15 DEF Mark
<1>16. ASSUME NEW w \in Workers, SaveDraining(w) PROVE MarkerTells'
  BY <1>16 DEF SaveDraining
<1>17. ASSUME NEW w \in Workers, AssertDrained(w) PROVE MarkerTells'
  BY <1>17 DEF AssertDrained, Drained, Idle
<1>18. ASSUME NEW w \in Workers, SaveStopping(w) PROVE MarkerTells'
  BY <1>18 DEF SaveStopping
<1>19. ASSUME NEW w \in Workers, Stop(w) PROVE MarkerTells'
  BY <1>19 DEF Stop, PM2Stop, StopManager, Operations
<1>20. ASSUME NEW w \in Workers, Backup(w) PROVE MarkerTells'
  BY <1>20 DEF Backup, Idle
<1>21. ASSUME NEW w \in Workers, Plan(w) PROVE MarkerTells'
  BY <1>21 DEF Plan, Staged
<1>22. ASSUME NEW w \in Workers, Replace(w) PROVE MarkerTells'
  BY <1>22 DEF Replace
<1>23. ASSUME NEW w \in Workers, Install(w) PROVE MarkerTells'
  BY <1>23 DEF Install
<1>24. ASSUME NEW w \in Workers, SaveChecking(w) PROVE MarkerTells'
  BY <1>24 DEF SaveChecking
<1>25. ASSUME NEW w \in Workers, Restart(w) PROVE MarkerTells'
  BY <1>25 DEF Restart, PM2Restart, Installed, IsOld, IsNew
<1>26. ASSUME NEW w \in Workers, Health(w) PROVE MarkerTells'
  BY <1>26 DEF Health
<1>27. ASSUME NEW w \in Workers, Succeed(w) PROVE MarkerTells'
  BY <1>27 DEF Succeed
<1>28. ASSUME NEW w \in Workers, Preflight(w) PROVE MarkerTells'
  <2>1. FALSE
    BY <1>28 DEF Preflight
  <2> QED
    BY <2>1
<1>29. ASSUME NEW w \in Workers, Prestart(w) PROVE MarkerTells'
  <2>1. FALSE
    BY <1>29 DEF Prestart
  <2> QED
    BY <2>1
<1>30. ASSUME NEW w \in Workers, Rollback(w) PROVE MarkerTells'
  BY <1>30 DEF Rollback
<1>31. ASSUME NEW w \in Workers, StopForRestore(w) PROVE MarkerTells'
  BY <1>31 DEF StopForRestore, PM2Stop, StopManager, Operations
<1>32. ASSUME NEW w \in Workers, Restore(w) PROVE MarkerTells'
  BY <1>32 DEF Restore
<1>33. ASSUME NEW w \in Workers, PutAside(w) PROVE MarkerTells'
  BY <1>33 DEF PutAside, Last
<1>34. ASSUME NEW w \in Workers, SkipRestored(w) PROVE MarkerTells'
  BY <1>34 DEF SkipRestored, Last
<1>35. ASSUME NEW w \in Workers, PutBack(w) PROVE MarkerTells'
  BY <1>35 DEF PutBack, Last
<1>36. ASSUME NEW w \in Workers, Restored(w) PROVE MarkerTells'
  BY <1>36 DEF Restored
<1>37. ASSUME NEW w \in Workers, RestartOld(w) PROVE MarkerTells'
  BY <1>37 DEF RestartOld, PM2Restart, Installed, IsOld, IsNew
<1>38. ASSUME NEW w \in Workers, HealthOld(w) PROVE MarkerTells'
  BY <1>38 DEF HealthOld
<1>39. ASSUME NEW w \in Workers, RolledBack(w) PROVE MarkerTells'
  BY <1>39 DEF RolledBack
<1>40. ASSUME NEW w \in Workers, Fault(w) PROVE MarkerTells'
  BY <1>40 DEF Fault
<1>41. CASE InstallUpdate   BY <1>41 DEF InstallUpdate, Request, Online, Nothing
<1>42. CASE CancelUpdate    BY <1>42 DEF CancelUpdate, Request, Online, Nothing
<1>43. CASE RetryRecovery   BY <1>43 DEF RetryRecovery, Request, Online, Nothing
<1>44. CASE RequestRollback BY <1>44 DEF RequestRollback, Online, Nothing
<1>45. CASE SaveRollback    BY <1>45 DEF SaveRollback, Nothing
<1>46. ASSUME NEW o \in Operations, Begin(o) PROVE MarkerTells'
  BY <1>46 DEF Begin, Online, Becomes, Others, Nothing
<1>47. ASSUME NEW o \in Operations, Enter(o) PROVE MarkerTells'
  BY <1>47 DEF Enter, Becomes, Others, Nothing
<1>48. ASSUME NEW o \in Operations, Lease(o) PROVE MarkerTells'
  BY <1>48 DEF Lease, Becomes, Others, Nothing
<1>49. ASSUME NEW o \in Operations, LookAgain(o) PROVE MarkerTells'
  BY <1>49 DEF LookAgain, Becomes, Others, Nothing
<1>50. ASSUME NEW o \in Operations, Finish(o) PROVE MarkerTells'
  BY <1>50 DEF Finish, Becomes, Others, Nothing
<1>51. ASSUME NEW o \in Operations, ClearRow(o) PROVE MarkerTells'
  BY <1>51 DEF ClearRow, Online, Others, Nothing
<1>52. CASE Crash           BY <1>52 DEF Crash, StopManager, Operations
<1>53. CASE UNCHANGED vars  BY <1>53 DEF vars
<1> HIDE DEF MarkerTells
<1> QED
  BY <1>1, <1>2, <1>3, <1>4, <1>5, <1>6, <1>7, <1>8, <1>9, <1>10, <1>11, <1>12,
    <1>13, <1>14, <1>15, <1>16, <1>17, <1>18, <1>19, <1>20, <1>21, <1>22, <1>23,
    <1>24, <1>25, <1>26, <1>27, <1>28, <1>29, <1>30, <1>31, <1>32, <1>33, <1>34,
    <1>35, <1>36, <1>37, <1>38, <1>39, <1>40, <1>41, <1>42, <1>43, <1>44, <1>45,
    <1>46, <1>47, <1>48, <1>49, <1>50, <1>51, <1>52, <1>53
    DEF Next, Main, Apply, Recover, Dashboard, Operation

LEMMA QuietTellsStep ==
    ASSUME Alone, rollbacks' = 0, SavedOK, WorkerOK, ManagerOK, BoundsOK, AskedTells, PhaseTells,
           MarkerTells, QuietTells, [Next]_vars
    PROVE  QuietTells'
<1> USE UpdateConstants DEF QuietTells, Quiet, MarkerTells, Covered, Guarded, PhaseTells, AskedTells,
        Scope, Asking, Agrees,
        SavedOK, WorkerOK, ManagerOK, BoundsOK, Alone, State, Phases, Terminal, Decided, Opening,
        Steps, Applying, Recovering, Operations, Items, Loop, At, Goto, NotSaved, NoMove,
        Save, SavePhase, Throw, Check, Move, manager, bounds
<1>1. ASSUME NEW w \in Workers, NEW m \in {"run", "files-only"}, Start(w, m) PROVE QuietTells'
  BY <1>1 DEF Start
<1>2. ASSUME NEW w \in Workers, NothingToDo(w) PROVE QuietTells'
  BY <1>2 DEF NothingToDo, End, Installed, IsOld, IsNew
<1>3. ASSUME NEW w \in Workers, TryLock(w) PROVE QuietTells'
  BY <1>3 DEF TryLock, SetLock, Created
<1>4. ASSUME NEW w \in Workers, LeaveLocked(w) PROVE QuietTells'
  BY <1>4 DEF LeaveLocked, End, Installed, IsOld, IsNew
<1>5. ASSUME NEW w \in Workers, JudgeStale(w) PROVE QuietTells'
  BY <1>5 DEF JudgeStale, SetLock
<1>6. ASSUME NEW w \in Workers, RemoveLock(w) PROVE QuietTells'
  BY <1>6 DEF RemoveLock, End, SetLock, Installed, IsOld, IsNew
<1>7. ASSUME NEW w \in Workers, LockAgain(w) PROVE QuietTells'
  BY <1>7 DEF LockAgain, End, SetLock, Created, Installed, IsOld, IsNew
<1>8. ASSUME NEW w \in Workers, WriteLock(w) PROVE QuietTells'
  <2>1. /\ pc[w] = "write" /\ pc' = [pc EXCEPT ![w] = Dispatch(w)]
        /\ UNCHANGED <<disk, mem, running, op, trace, crashes>>
    BY <1>8 DEF WriteLock, SetLock
  <2>2. Dispatch(w) \in {"verify", "preflight", "rollback"}
    BY DEF Dispatch
  <2>3. crashes = 0 /\ Dispatch(w) # "verify" => disk.phase \in Covered \ {"draining"}
    <3>1. mem[w].phase \in Phases \ Decided /\ (crashes = 0 => disk.phase # "draining")
      BY <2>1
    <3>2. crashes = 0 /\ Dispatch(w) # "verify" => mem[w].phase # "queued"
      BY <2>1 DEF Dispatch
    <3> QED
      BY <2>1, <3>1, <3>2
  <2> QED
    BY <2>1, <2>2, <2>3
<1>9. ASSUME NEW w \in Workers, Unlock(w) PROVE QuietTells'
  BY <1>9 DEF Unlock, End, Installed, IsOld, IsNew
<1>10. ASSUME NEW w \in Workers, Caught(w) PROVE QuietTells'
  <2>1. CASE mem[w].stopped
    BY <1>10, <2>1 DEF Caught
  <2>2. CASE ~mem[w].stopped
    BY <1>10, <2>2 DEF Caught
  <2> QED
    BY <2>1, <2>2
<1>11. ASSUME NEW w \in Workers, Broken(w) PROVE QuietTells'
  BY <1>11 DEF Broken
<1>12. ASSUME NEW w \in Workers, Unmark(w) PROVE QuietTells'
  BY <1>12 DEF Unmark
<1>13. ASSUME NEW w \in Workers, Verify(w) PROVE QuietTells'
  BY <1>13 DEF Verify
<1>14. ASSUME NEW w \in Workers, AssertIdle(w) PROVE QuietTells'
  BY <1>14 DEF AssertIdle, Idle
<1>15. ASSUME NEW w \in Workers, Mark(w) PROVE QuietTells'
  BY <1>15 DEF Mark
<1>16. ASSUME NEW w \in Workers, SaveDraining(w) PROVE QuietTells'
  BY <1>16 DEF SaveDraining
<1>17. ASSUME NEW w \in Workers, AssertDrained(w) PROVE QuietTells'
  BY <1>17 DEF AssertDrained, Drained, Idle
<1>18. ASSUME NEW w \in Workers, SaveStopping(w) PROVE QuietTells'
  BY <1>18 DEF SaveStopping
<1>19. ASSUME NEW w \in Workers, Stop(w) PROVE QuietTells'
  BY <1>19 DEF Stop, PM2Stop, StopManager, Operations
<1>20. ASSUME NEW w \in Workers, Backup(w) PROVE QuietTells'
  BY <1>20 DEF Backup, Idle
<1>21. ASSUME NEW w \in Workers, Plan(w) PROVE QuietTells'
  BY <1>21 DEF Plan, Staged
<1>22. ASSUME NEW w \in Workers, Replace(w) PROVE QuietTells'
  BY <1>22 DEF Replace
<1>23. ASSUME NEW w \in Workers, Install(w) PROVE QuietTells'
  BY <1>23 DEF Install
<1>24. ASSUME NEW w \in Workers, SaveChecking(w) PROVE QuietTells'
  BY <1>24 DEF SaveChecking
<1>25. ASSUME NEW w \in Workers, Restart(w) PROVE QuietTells'
  BY <1>25 DEF Restart, PM2Restart, Installed, IsOld, IsNew
<1>26. ASSUME NEW w \in Workers, Health(w) PROVE QuietTells'
  BY <1>26 DEF Health
<1>27. ASSUME NEW w \in Workers, Succeed(w) PROVE QuietTells'
  BY <1>27 DEF Succeed
<1>28. ASSUME NEW w \in Workers, Preflight(w) PROVE QuietTells'
  <2>1. FALSE
    BY <1>28 DEF Preflight
  <2> QED
    BY <2>1
<1>29. ASSUME NEW w \in Workers, Prestart(w) PROVE QuietTells'
  <2>1. FALSE
    BY <1>29 DEF Prestart
  <2> QED
    BY <2>1
<1>30. ASSUME NEW w \in Workers, Rollback(w) PROVE QuietTells'
  BY <1>30 DEF Rollback
<1>31. ASSUME NEW w \in Workers, StopForRestore(w) PROVE QuietTells'
  BY <1>31 DEF StopForRestore, PM2Stop, StopManager, Operations
<1>32. ASSUME NEW w \in Workers, Restore(w) PROVE QuietTells'
  BY <1>32 DEF Restore
<1>33. ASSUME NEW w \in Workers, PutAside(w) PROVE QuietTells'
  BY <1>33 DEF PutAside, Last
<1>34. ASSUME NEW w \in Workers, SkipRestored(w) PROVE QuietTells'
  BY <1>34 DEF SkipRestored, Last
<1>35. ASSUME NEW w \in Workers, PutBack(w) PROVE QuietTells'
  BY <1>35 DEF PutBack, Last
<1>36. ASSUME NEW w \in Workers, Restored(w) PROVE QuietTells'
  BY <1>36 DEF Restored
<1>37. ASSUME NEW w \in Workers, RestartOld(w) PROVE QuietTells'
  BY <1>37 DEF RestartOld, PM2Restart, Installed, IsOld, IsNew
<1>38. ASSUME NEW w \in Workers, HealthOld(w) PROVE QuietTells'
  BY <1>38 DEF HealthOld
<1>39. ASSUME NEW w \in Workers, RolledBack(w) PROVE QuietTells'
  BY <1>39 DEF RolledBack
<1>40. ASSUME NEW w \in Workers, Fault(w) PROVE QuietTells'
  BY <1>40 DEF Fault
<1>41. CASE InstallUpdate   BY <1>41 DEF InstallUpdate, Request, Online, Nothing
<1>42. CASE CancelUpdate    BY <1>42 DEF CancelUpdate, Request, Online, Nothing
<1>43. CASE RetryRecovery   BY <1>43 DEF RetryRecovery, Request, Online, Nothing
<1>44. CASE RequestRollback BY <1>44 DEF RequestRollback, Online, Nothing
<1>45. CASE SaveRollback    BY <1>45 DEF SaveRollback, Nothing
<1>46. ASSUME NEW o \in Operations, Begin(o) PROVE QuietTells'
  BY <1>46 DEF Begin, Online, Becomes, Others, Nothing
<1>47. ASSUME NEW o \in Operations, Enter(o) PROVE QuietTells'
  BY <1>47 DEF Enter, Becomes, Others, Nothing
<1>48. ASSUME NEW o \in Operations, Lease(o) PROVE QuietTells'
  BY <1>48 DEF Lease, Becomes, Others, Nothing
<1>49. ASSUME NEW o \in Operations, LookAgain(o) PROVE QuietTells'
  BY <1>49 DEF LookAgain, Becomes, Others, Nothing
<1>50. ASSUME NEW o \in Operations, Finish(o) PROVE QuietTells'
  BY <1>50 DEF Finish, Becomes, Others, Nothing
<1>51. ASSUME NEW o \in Operations, ClearRow(o) PROVE QuietTells'
  BY <1>51 DEF ClearRow, Online, Others, Nothing
<1>52. CASE Crash           BY <1>52 DEF Crash, StopManager, Operations
<1>53. CASE UNCHANGED vars  BY <1>53 DEF vars
<1> HIDE DEF QuietTells
<1> QED
  BY <1>1, <1>2, <1>3, <1>4, <1>5, <1>6, <1>7, <1>8, <1>9, <1>10, <1>11, <1>12,
    <1>13, <1>14, <1>15, <1>16, <1>17, <1>18, <1>19, <1>20, <1>21, <1>22, <1>23,
    <1>24, <1>25, <1>26, <1>27, <1>28, <1>29, <1>30, <1>31, <1>32, <1>33, <1>34,
    <1>35, <1>36, <1>37, <1>38, <1>39, <1>40, <1>41, <1>42, <1>43, <1>44, <1>45,
    <1>46, <1>47, <1>48, <1>49, <1>50, <1>51, <1>52, <1>53
    DEF Next, Main, Apply, Recover, Dashboard, Operation

GuardInv == rollbacks = 0 => MarkerTells /\ QuietTells

LEMMA GuardHolds ==
    ASSUME Alone
    PROVE  Spec => []GuardInv
<1>1. Init => GuardInv
  BY DEF GuardInv, Init, Fresh, MarkerTells, QuietTells, Covered, Guarded, Applying, Recovering, Opening
<1>2. Types /\ (Scope => PromiseInv) /\ GuardInv /\ [Next]_vars => GuardInv'
  <2> SUFFICES ASSUME Types, Scope => PromiseInv, GuardInv, [Next]_vars, rollbacks' = 0
               PROVE  MarkerTells' /\ QuietTells'
    BY DEF GuardInv
  <2>1. rollbacks = 0 /\ SavedOK /\ WorkerOK /\ ManagerOK /\ BoundsOK /\ MarkerTells /\ QuietTells
    BY ScopeBack DEF Types, GuardInv
  <2>2. AskedTells /\ StoppedTells /\ PhaseTells
    BY <2>1 DEF Scope, PromiseInv
  <2> QED
    BY <2>1, <2>2, Alone, MarkerTellsStep, QuietTellsStep
<1> QED
  BY <1>1, <1>2, TypesHold, PromiseHolds, PTL DEF Spec

\* With one worker, without a power loss and before a rollback is requested, the
\* maintenance marker is there from the drain to the verdict, and on while a
\* recovery has failed, whatever services fail.
THEOREM UpdatesAreMarked ==
    ASSUME Alone
    PROVE  Spec => []MarkerCoversUpdate
<1>1. GuardInv => MarkerCoversUpdate
  BY DEF GuardInv, MarkerTells, MarkerCoversUpdate, Covered
<1> QED
  BY <1>1, GuardHolds, PTL

\* With one worker, without a power loss and before a rollback is requested, Manager
\* is stopped only when no operation runs in it: after the drain the marker keeps every new one out, through the recovery too.
THEOREM OperationsAreFinished ==
    ASSUME Alone
    PROVE  Spec => OperationsFinish
<1> DEFINE Cut == running' = "off" /\ crashes' = 0 /\ rollbacks = 0 => \A o \in Operations : op[o] # "working"
<1>1. ASSUME Types, Scope => PromiseInv, GuardInv, [Next]_vars PROVE Cut
  <2> SUFFICES ASSUME running' = "off", crashes' = 0, rollbacks = 0
               PROVE  \A o \in Operations : op[o] # "working"
    OBVIOUS
  <2>1. crashes = 0 /\ PromiseInv /\ QuietTells
    BY <1>1, ScopeBack DEF Types, Scope, GuardInv
  <2>2. Still \/ Loud
    BY <1>1, <2>1, Alone, StillStep DEF Types, PromiseInv
  <2>3. CASE running = "off"
    BY <2>1, <2>3 DEF QuietTells
  <2>4. CASE running # "off"
    <3>1. Installed # "off"
      BY DEF Installed
    <3>2. ~ Crash
      BY <1>1, UpdateConstants DEF Crash, Types, BoundsOK
    <3>3. PICK w \in Workers : Stop(w) \/ StopForRestore(w)
      BY <2>2, <2>4, <3>1, <3>2 DEF Still, Loud, CancelUpdate, SaveRollback, Request, Nothing, NothingToDo,
        Unlock, End, Caught, Replace, Install, Restart, Succeed, PutAside, PutBack, RestartOld, RolledBack,
        Preflight, PM2Restart, Move, Throw, Save, SavePhase, NoMove, manager
    <3>4. pc[w] \in Guarded \ {"drain", "drained"}
      BY <3>3 DEF Stop, StopForRestore, PM2Stop, At, Loop, Guarded, Applying, Recovering
    <3> QED
      BY <2>1, <3>4 DEF QuietTells, Quiet
  <2> QED
    BY <2>3, <2>4
<1>2. Types /\ (Scope => PromiseInv) /\ GuardInv /\ [Next]_vars => [Cut]_vars
  BY <1>1
<1> QED
  BY <1>2, TypesHold, PromiseHolds, GuardHolds, PTL DEF Spec, OperationsFinish
=============================================================================

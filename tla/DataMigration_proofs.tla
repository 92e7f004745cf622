---------------------- MODULE DataMigration_proofs ----------------------
(***************************************************************************)
(* That removed records are quiet, copies stay apart, a success is a copy  *)
(* and the services that records name exist, for any jobs, services, rows, *)
(* writes, faults and restarts.  Each part of the invariant has a lemma    *)
(* with one step per action.                                               *)
(***************************************************************************)
EXTENDS DataMigration, FiniteSetTheorems, TLAPS

\* A request whose row does not exist yet has no worker.
Unstarted == \A j \in Jobs : status[j] = "absent" /\ asked[j] # "done" => pc[j] = "none"

\* Nobody but its worker changes the status of a job that was never withdrawn.
WorkerKnowsStatus ==
    \A j \in Jobs \ withdrawn :
        /\ pc[j] \in {"pending", "claim"} => status[j] = "queued"
        /\ pc[j] \in {"look", "spawn", "copy", "copied", "exited", "promote", "mark"} => status[j] = "running"
        /\ pc[j] \in {"count", "sourceCounted", "targetCounted", "compare", "pass", "miss"} => status[j] = "validating"

\* What the check under the locks of both services is for.
ActiveApart ==
    \A j, k \in Jobs : j # k /\ status[j] \in ACTIVE /\ status[k] \in ACTIVE /\ Uses(j) \cap Uses(k) # {}
        => j \in withdrawn \/ k \in withdrawn

IInv == TypeOK /\ Unstarted /\ RemovedIsQuiet /\ WorkerKnowsStatus /\ ActiveApart /\ NamedServicesExist

LEMMA InitIInv == Init => IInv
  BY Requests DEF Init, IInv, TypeOK, Unstarted, RemovedIsQuiet, WorkerKnowsStatus, ActiveApart, NamedServicesExist,
                  Referenced, Uses, ACTIVE, FINISHED, Steps, Uncounted

LEMMA Apart == IInv => CopiesApart
  BY DEF IInv, CopiesApart, Writing, WorkerKnowsStatus, ActiveApart, ACTIVE

LEMMA TypeStep == ASSUME IInv, [Next]_vars PROVE TypeOK'
  <1> USE Requests DEF IInv, TypeOK, rows, memory, data, history, Go, Set, SetIf, OnlyStatus, ACTIVE, FINISHED, Steps, Uncounted
  <1>1. ASSUME NEW j \in Jobs, Preview(j) PROVE TypeOK'  BY <1>1 DEF Preview
  <1>2. ASSUME NEW j \in Jobs, StartDataMigration(j) PROVE TypeOK'  BY <1>2 DEF StartDataMigration, InUse
  <1>3. ASSUME NEW j \in Jobs, CancelDataMigration(j) PROVE TypeOK'  BY <1>3 DEF CancelDataMigration
  <1>4. ASSUME NEW j \in Jobs, ActivateDataMigration(j) PROVE TypeOK'  BY <1>4 DEF ActivateDataMigration
  <1>5. ASSUME NEW j \in Jobs, LockForRemoval(j) PROVE TypeOK'  BY <1>5 DEF LockForRemoval
  <1>6. ASSUME NEW j \in Jobs, DeleteDataMigration(j) PROVE TypeOK'  BY <1>6 DEF DeleteDataMigration, Removable, Executing
  <1>7. ASSUME NEW j \in Jobs, TryLock(j) PROVE TypeOK'  BY <1>7 DEF TryLock
  <1>8. ASSUME NEW j \in Jobs, Claim(j) PROVE TypeOK'  BY <1>8 DEF Claim
  <1>9. ASSUME NEW j \in Jobs, Look(j) PROVE TypeOK'  BY <1>9 DEF Look
  <1>10. ASSUME NEW j \in Jobs, Spawn(j) PROVE TypeOK'  BY <1>10 DEF Spawn
  <1>11. ASSUME NEW j \in Jobs, SlingReads(j) PROVE TypeOK'  BY <1>11 DEF SlingReads, Loaded
  <1>12. ASSUME NEW j \in Jobs, SlingEnds(j) PROVE TypeOK'
    <2>1. holds' \in [Services -> SUBSET Rows] /\ copied' \in [Jobs -> SUBSET Rows]
      BY <1>12 DEF SlingEnds, Loaded
    <2>2. pc' \in [Jobs -> Steps] /\ child' \in [Jobs -> {"none", "running", "killed"}]
      BY <1>12 DEF SlingEnds
    <2>3. recovered' \in BOOLEAN  BY <1>12, Zenon DEF SlingEnds
    <2>4. QED
      BY <1>12, <2>1, <2>2, <2>3 DEF SlingEnds
  <1>13. ASSUME NEW j \in Jobs, AfterCopy(j) PROVE TypeOK'  BY <1>13 DEF AfterCopy
  <1>14. ASSUME NEW j \in Jobs, Promote(j) PROVE TypeOK'
    <2>1. holds' \in [Services -> SUBSET Rows]
      BY <1>14 DEF Promote
    <2>2. pc' \in [Jobs -> Steps]
      <3>1. pc' = [pc EXCEPT ![j] = "mark"] \/ pc' = [pc EXCEPT ![j] = "caught"]
        BY <1>14 DEF Promote
      <3>2. QED
        BY <3>1
    <2>3. recovered' \in BOOLEAN  BY <1>14, Zenon DEF Promote
    <2>4. QED
      BY <1>14, <2>1, <2>2, <2>3 DEF Promote
  <1>15. ASSUME NEW j \in Jobs, Mark(j) PROVE TypeOK'  BY <1>15 DEF Mark
  <1>16. ASSUME NEW j \in Jobs, CountSource(j) PROVE TypeOK'  BY <1>16 DEF CountSource
  <1>17. ASSUME NEW j \in Jobs, CountTarget(j) PROVE TypeOK'  BY <1>17 DEF CountTarget
  <1>18. ASSUME NEW j \in Jobs, Compare(j) PROVE TypeOK'  BY <1>18 DEF Compare
  <1>19. ASSUME NEW j \in Jobs, Verdict(j) PROVE TypeOK'  BY <1>19 DEF Verdict
  <1>20. ASSUME NEW j \in Jobs, Logged(j) PROVE TypeOK'  BY <1>20 DEF Logged
  <1>21. ASSUME NEW j \in Jobs, Caught(j) PROVE TypeOK'  BY <1>21 DEF Caught
  <1>22. ASSUME NEW j \in Jobs, Fail(j) PROVE TypeOK'  BY <1>22 DEF Fail
  <1>23. ASSUME NEW j \in Jobs, Outer(j) PROVE TypeOK'  BY <1>23 DEF Outer
  <1>24. ASSUME NEW j \in Jobs, Leave(j) PROVE TypeOK'  BY <1>24 DEF Leave
  <1>25. ASSUME NEW j \in Jobs, Fault(j) PROVE TypeOK'  BY <1>25 DEF Fault
  <1>26. ASSUME NEW j \in Jobs, LoseLock(j) PROVE TypeOK'  BY <1>26 DEF LoseLock
  <1>27. ASSUME NEW s \in Services, DetachProjectDataService(s) PROVE TypeOK'  BY <1>27 DEF DetachProjectDataService
  <1>28. ASSUME NEW s \in Services, AppWrites(s) PROVE TypeOK'  BY <1>28 DEF AppWrites, Executing
  <1>29. ASSUME NEW s \in Services, NEW active \in BOOLEAN, SetApplicationPrimary(s, active) PROVE TypeOK'
    BY <1>29 DEF SetApplicationPrimary
  <1>30. ASSUME Restart PROVE TypeOK'
    <2>1. asked' \in [Jobs -> {"no", "plain", "confirmed", "done"}]  BY <1>30 DEF Restart
    <2>2. /\ pc' \in [Jobs -> Steps] /\ lock' \in [Jobs -> {"free", "worker", "removal"}]
          /\ child' \in [Jobs -> {"none", "running", "killed"}]
      BY <1>30 DEF Restart
    <2>3. events' \in 0..MaxEvents  BY <1>30 DEF Restart
    <2>4. recovered' \in BOOLEAN  BY <1>30, Zenon DEF Restart
    <2>5. copied' \in [Jobs -> SUBSET Rows] /\ counted' \in [Jobs -> [source : SUBSET Rows, target : SUBSET Rows]]
      BY <1>30 DEF Restart, Uncounted
    <2>6. QED
      BY <1>30, <2>1, <2>2, <2>3, <2>4, <2>5 DEF Restart
  <1>31. ASSUME RecoverInterruptedDataMigrations PROVE TypeOK'  BY <1>31 DEF RecoverInterruptedDataMigrations
  <1>32. ASSUME UNCHANGED vars PROVE TypeOK'  BY <1>32 DEF vars
  <1> HIDE DEF IInv, TypeOK, rows, memory, data, history, Go, Set, SetIf, OnlyStatus, ACTIVE, FINISHED, Steps, Uncounted
  <1> QED
    BY <1>1, <1>2, <1>3, <1>4, <1>5, <1>6, <1>7, <1>8, <1>9, <1>10, <1>11, <1>12, <1>13, <1>14,
       <1>15, <1>16, <1>17, <1>18, <1>19, <1>20, <1>21, <1>22, <1>23, <1>24, <1>25, <1>26, <1>27,
       <1>28, <1>29, <1>30, <1>31, <1>32 DEF Next, Step

LEMMA UnstartedStep == ASSUME IInv, [Next]_vars PROVE Unstarted'
  <1> USE Requests DEF IInv, TypeOK, rows, memory, data, history, Go, Set, SetIf, OnlyStatus, ACTIVE, FINISHED, Unstarted
  <1>1. ASSUME NEW j \in Jobs, Preview(j) PROVE Unstarted'  BY <1>1 DEF Preview
  <1>2. ASSUME NEW j \in Jobs, StartDataMigration(j) PROVE Unstarted'  BY <1>2 DEF StartDataMigration, InUse
  <1>3. ASSUME NEW j \in Jobs, CancelDataMigration(j) PROVE Unstarted'  BY <1>3 DEF CancelDataMigration
  <1>4. ASSUME NEW j \in Jobs, ActivateDataMigration(j) PROVE Unstarted'  BY <1>4 DEF ActivateDataMigration
  <1>5. ASSUME NEW j \in Jobs, LockForRemoval(j) PROVE Unstarted'  BY <1>5 DEF LockForRemoval
  <1>6. ASSUME NEW j \in Jobs, DeleteDataMigration(j) PROVE Unstarted'  BY <1>6 DEF DeleteDataMigration, Removable, Executing
  <1>7. ASSUME NEW j \in Jobs, TryLock(j) PROVE Unstarted'  BY <1>7 DEF TryLock
  <1>8. ASSUME NEW j \in Jobs, Claim(j) PROVE Unstarted'  BY <1>8 DEF Claim
  <1>9. ASSUME NEW j \in Jobs, Look(j) PROVE Unstarted'  BY <1>9 DEF Look
  <1>10. ASSUME NEW j \in Jobs, Spawn(j) PROVE Unstarted'  BY <1>10 DEF Spawn
  <1>11. ASSUME NEW j \in Jobs, SlingReads(j) PROVE Unstarted'  BY <1>11 DEF SlingReads, Loaded
  <1>12. ASSUME NEW j \in Jobs, SlingEnds(j) PROVE Unstarted'  BY <1>12 DEF SlingEnds, Loaded
  <1>13. ASSUME NEW j \in Jobs, AfterCopy(j) PROVE Unstarted'  BY <1>13 DEF AfterCopy
  <1>14. ASSUME NEW j \in Jobs, Promote(j) PROVE Unstarted'  BY <1>14 DEF Promote
  <1>15. ASSUME NEW j \in Jobs, Mark(j) PROVE Unstarted'  BY <1>15 DEF Mark
  <1>16. ASSUME NEW j \in Jobs, CountSource(j) PROVE Unstarted'  BY <1>16 DEF CountSource
  <1>17. ASSUME NEW j \in Jobs, CountTarget(j) PROVE Unstarted'  BY <1>17 DEF CountTarget
  <1>18. ASSUME NEW j \in Jobs, Compare(j) PROVE Unstarted'  BY <1>18 DEF Compare
  <1>19. ASSUME NEW j \in Jobs, Verdict(j) PROVE Unstarted'  BY <1>19 DEF Verdict
  <1>20. ASSUME NEW j \in Jobs, Logged(j) PROVE Unstarted'  BY <1>20 DEF Logged
  <1>21. ASSUME NEW j \in Jobs, Caught(j) PROVE Unstarted'  BY <1>21 DEF Caught
  <1>22. ASSUME NEW j \in Jobs, Fail(j) PROVE Unstarted'  BY <1>22 DEF Fail
  <1>23. ASSUME NEW j \in Jobs, Outer(j) PROVE Unstarted'  BY <1>23 DEF Outer
  <1>24. ASSUME NEW j \in Jobs, Leave(j) PROVE Unstarted'  BY <1>24 DEF Leave
  <1>25. ASSUME NEW j \in Jobs, Fault(j) PROVE Unstarted'  BY <1>25 DEF Fault
  <1>26. ASSUME NEW j \in Jobs, LoseLock(j) PROVE Unstarted'  BY <1>26 DEF LoseLock
  <1>27. ASSUME NEW s \in Services, DetachProjectDataService(s) PROVE Unstarted'  BY <1>27 DEF DetachProjectDataService
  <1>28. ASSUME NEW s \in Services, AppWrites(s) PROVE Unstarted'  BY <1>28 DEF AppWrites, Executing
  <1>29. ASSUME NEW s \in Services, NEW active \in BOOLEAN, SetApplicationPrimary(s, active) PROVE Unstarted'
    BY <1>29 DEF SetApplicationPrimary
  <1>30. ASSUME Restart PROVE Unstarted'  BY <1>30 DEF Restart
  <1>31. ASSUME RecoverInterruptedDataMigrations PROVE Unstarted'  BY <1>31 DEF RecoverInterruptedDataMigrations
  <1>32. ASSUME UNCHANGED vars PROVE Unstarted'  BY <1>32 DEF vars
  <1> HIDE DEF IInv, TypeOK, rows, memory, data, history, Go, Set, SetIf, OnlyStatus, ACTIVE, FINISHED, Unstarted
  <1> QED
    BY <1>1, <1>2, <1>3, <1>4, <1>5, <1>6, <1>7, <1>8, <1>9, <1>10, <1>11, <1>12, <1>13, <1>14,
       <1>15, <1>16, <1>17, <1>18, <1>19, <1>20, <1>21, <1>22, <1>23, <1>24, <1>25, <1>26, <1>27,
       <1>28, <1>29, <1>30, <1>31, <1>32 DEF Next, Step

LEMMA RemovedStep == ASSUME IInv, [Next]_vars PROVE RemovedIsQuiet'
  <1> USE Requests DEF IInv, TypeOK, rows, memory, data, history, Go, Set, SetIf, OnlyStatus, ACTIVE, FINISHED, Unstarted, RemovedIsQuiet
  <1>1. ASSUME NEW j \in Jobs, Preview(j) PROVE RemovedIsQuiet'  BY <1>1 DEF Preview
  <1>2. ASSUME NEW j \in Jobs, StartDataMigration(j) PROVE RemovedIsQuiet'  BY <1>2 DEF StartDataMigration, InUse
  <1>3. ASSUME NEW j \in Jobs, CancelDataMigration(j) PROVE RemovedIsQuiet'  BY <1>3 DEF CancelDataMigration
  <1>4. ASSUME NEW j \in Jobs, ActivateDataMigration(j) PROVE RemovedIsQuiet'  BY <1>4 DEF ActivateDataMigration
  <1>5. ASSUME NEW j \in Jobs, LockForRemoval(j) PROVE RemovedIsQuiet'  BY <1>5 DEF LockForRemoval
  <1>6. ASSUME NEW j \in Jobs, DeleteDataMigration(j) PROVE RemovedIsQuiet'  BY <1>6 DEF DeleteDataMigration, Removable, Executing
  <1>7. ASSUME NEW j \in Jobs, TryLock(j) PROVE RemovedIsQuiet'  BY <1>7 DEF TryLock
  <1>8. ASSUME NEW j \in Jobs, Claim(j) PROVE RemovedIsQuiet'  BY <1>8 DEF Claim
  <1>9. ASSUME NEW j \in Jobs, Look(j) PROVE RemovedIsQuiet'  BY <1>9 DEF Look
  <1>10. ASSUME NEW j \in Jobs, Spawn(j) PROVE RemovedIsQuiet'  BY <1>10 DEF Spawn
  <1>11. ASSUME NEW j \in Jobs, SlingReads(j) PROVE RemovedIsQuiet'  BY <1>11 DEF SlingReads, Loaded
  <1>12. ASSUME NEW j \in Jobs, SlingEnds(j) PROVE RemovedIsQuiet'  BY <1>12 DEF SlingEnds, Loaded
  <1>13. ASSUME NEW j \in Jobs, AfterCopy(j) PROVE RemovedIsQuiet'  BY <1>13 DEF AfterCopy
  <1>14. ASSUME NEW j \in Jobs, Promote(j) PROVE RemovedIsQuiet'  BY <1>14 DEF Promote
  <1>15. ASSUME NEW j \in Jobs, Mark(j) PROVE RemovedIsQuiet'  BY <1>15 DEF Mark
  <1>16. ASSUME NEW j \in Jobs, CountSource(j) PROVE RemovedIsQuiet'  BY <1>16 DEF CountSource
  <1>17. ASSUME NEW j \in Jobs, CountTarget(j) PROVE RemovedIsQuiet'  BY <1>17 DEF CountTarget
  <1>18. ASSUME NEW j \in Jobs, Compare(j) PROVE RemovedIsQuiet'  BY <1>18 DEF Compare
  <1>19. ASSUME NEW j \in Jobs, Verdict(j) PROVE RemovedIsQuiet'  BY <1>19 DEF Verdict
  <1>20. ASSUME NEW j \in Jobs, Logged(j) PROVE RemovedIsQuiet'  BY <1>20 DEF Logged
  <1>21. ASSUME NEW j \in Jobs, Caught(j) PROVE RemovedIsQuiet'  BY <1>21 DEF Caught
  <1>22. ASSUME NEW j \in Jobs, Fail(j) PROVE RemovedIsQuiet'  BY <1>22 DEF Fail
  <1>23. ASSUME NEW j \in Jobs, Outer(j) PROVE RemovedIsQuiet'  BY <1>23 DEF Outer
  <1>24. ASSUME NEW j \in Jobs, Leave(j) PROVE RemovedIsQuiet'  BY <1>24 DEF Leave
  <1>25. ASSUME NEW j \in Jobs, Fault(j) PROVE RemovedIsQuiet'  BY <1>25 DEF Fault
  <1>26. ASSUME NEW j \in Jobs, LoseLock(j) PROVE RemovedIsQuiet'  BY <1>26 DEF LoseLock
  <1>27. ASSUME NEW s \in Services, DetachProjectDataService(s) PROVE RemovedIsQuiet'  BY <1>27 DEF DetachProjectDataService
  <1>28. ASSUME NEW s \in Services, AppWrites(s) PROVE RemovedIsQuiet'  BY <1>28 DEF AppWrites, Executing
  <1>29. ASSUME NEW s \in Services, NEW active \in BOOLEAN, SetApplicationPrimary(s, active) PROVE RemovedIsQuiet'
    BY <1>29 DEF SetApplicationPrimary
  <1>30. ASSUME Restart PROVE RemovedIsQuiet'  BY <1>30 DEF Restart
  <1>31. ASSUME RecoverInterruptedDataMigrations PROVE RemovedIsQuiet'  BY <1>31 DEF RecoverInterruptedDataMigrations
  <1>32. ASSUME UNCHANGED vars PROVE RemovedIsQuiet'  BY <1>32 DEF vars
  <1> HIDE DEF IInv, TypeOK, rows, memory, data, history, Go, Set, SetIf, OnlyStatus, ACTIVE, FINISHED, Unstarted, RemovedIsQuiet
  <1> QED
    BY <1>1, <1>2, <1>3, <1>4, <1>5, <1>6, <1>7, <1>8, <1>9, <1>10, <1>11, <1>12, <1>13, <1>14,
       <1>15, <1>16, <1>17, <1>18, <1>19, <1>20, <1>21, <1>22, <1>23, <1>24, <1>25, <1>26, <1>27,
       <1>28, <1>29, <1>30, <1>31, <1>32 DEF Next, Step

LEMMA WorkerKnowsStep == ASSUME IInv, [Next]_vars PROVE WorkerKnowsStatus'
  <1> USE Requests DEF IInv, TypeOK, rows, memory, data, history, Go, Set, SetIf, OnlyStatus, ACTIVE, FINISHED, Unstarted, RemovedIsQuiet, WorkerKnowsStatus
  <1>1. ASSUME NEW j \in Jobs, Preview(j) PROVE WorkerKnowsStatus'  BY <1>1 DEF Preview
  <1>2. ASSUME NEW j \in Jobs, StartDataMigration(j) PROVE WorkerKnowsStatus'  BY <1>2 DEF StartDataMigration, InUse
  <1>3. ASSUME NEW j \in Jobs, CancelDataMigration(j) PROVE WorkerKnowsStatus'  BY <1>3 DEF CancelDataMigration
  <1>4. ASSUME NEW j \in Jobs, ActivateDataMigration(j) PROVE WorkerKnowsStatus'  BY <1>4 DEF ActivateDataMigration
  <1>5. ASSUME NEW j \in Jobs, LockForRemoval(j) PROVE WorkerKnowsStatus'  BY <1>5 DEF LockForRemoval
  <1>6. ASSUME NEW j \in Jobs, DeleteDataMigration(j) PROVE WorkerKnowsStatus'  BY <1>6 DEF DeleteDataMigration, Removable, Executing
  <1>7. ASSUME NEW j \in Jobs, TryLock(j) PROVE WorkerKnowsStatus'  BY <1>7 DEF TryLock
  <1>8. ASSUME NEW j \in Jobs, Claim(j) PROVE WorkerKnowsStatus'  BY <1>8 DEF Claim
  <1>9. ASSUME NEW j \in Jobs, Look(j) PROVE WorkerKnowsStatus'  BY <1>9 DEF Look
  <1>10. ASSUME NEW j \in Jobs, Spawn(j) PROVE WorkerKnowsStatus'  BY <1>10 DEF Spawn
  <1>11. ASSUME NEW j \in Jobs, SlingReads(j) PROVE WorkerKnowsStatus'  BY <1>11 DEF SlingReads, Loaded
  <1>12. ASSUME NEW j \in Jobs, SlingEnds(j) PROVE WorkerKnowsStatus'  BY <1>12 DEF SlingEnds, Loaded
  <1>13. ASSUME NEW j \in Jobs, AfterCopy(j) PROVE WorkerKnowsStatus'  BY <1>13 DEF AfterCopy
  <1>14. ASSUME NEW j \in Jobs, Promote(j) PROVE WorkerKnowsStatus'  BY <1>14 DEF Promote
  <1>15. ASSUME NEW j \in Jobs, Mark(j) PROVE WorkerKnowsStatus'  BY <1>15 DEF Mark
  <1>16. ASSUME NEW j \in Jobs, CountSource(j) PROVE WorkerKnowsStatus'  BY <1>16 DEF CountSource
  <1>17. ASSUME NEW j \in Jobs, CountTarget(j) PROVE WorkerKnowsStatus'  BY <1>17 DEF CountTarget
  <1>18. ASSUME NEW j \in Jobs, Compare(j) PROVE WorkerKnowsStatus'  BY <1>18 DEF Compare
  <1>19. ASSUME NEW j \in Jobs, Verdict(j) PROVE WorkerKnowsStatus'  BY <1>19 DEF Verdict
  <1>20. ASSUME NEW j \in Jobs, Logged(j) PROVE WorkerKnowsStatus'  BY <1>20 DEF Logged
  <1>21. ASSUME NEW j \in Jobs, Caught(j) PROVE WorkerKnowsStatus'  BY <1>21 DEF Caught
  <1>22. ASSUME NEW j \in Jobs, Fail(j) PROVE WorkerKnowsStatus'  BY <1>22 DEF Fail
  <1>23. ASSUME NEW j \in Jobs, Outer(j) PROVE WorkerKnowsStatus'  BY <1>23 DEF Outer
  <1>24. ASSUME NEW j \in Jobs, Leave(j) PROVE WorkerKnowsStatus'  BY <1>24 DEF Leave
  <1>25. ASSUME NEW j \in Jobs, Fault(j) PROVE WorkerKnowsStatus'  BY <1>25 DEF Fault
  <1>26. ASSUME NEW j \in Jobs, LoseLock(j) PROVE WorkerKnowsStatus'  BY <1>26 DEF LoseLock
  <1>27. ASSUME NEW s \in Services, DetachProjectDataService(s) PROVE WorkerKnowsStatus'  BY <1>27 DEF DetachProjectDataService
  <1>28. ASSUME NEW s \in Services, AppWrites(s) PROVE WorkerKnowsStatus'  BY <1>28 DEF AppWrites, Executing
  <1>29. ASSUME NEW s \in Services, NEW active \in BOOLEAN, SetApplicationPrimary(s, active) PROVE WorkerKnowsStatus'
    BY <1>29 DEF SetApplicationPrimary
  <1>30. ASSUME Restart PROVE WorkerKnowsStatus'  BY <1>30 DEF Restart
  <1>31. ASSUME RecoverInterruptedDataMigrations PROVE WorkerKnowsStatus'  BY <1>31 DEF RecoverInterruptedDataMigrations
  <1>32. ASSUME UNCHANGED vars PROVE WorkerKnowsStatus'  BY <1>32 DEF vars
  <1> HIDE DEF IInv, TypeOK, rows, memory, data, history, Go, Set, SetIf, OnlyStatus, ACTIVE, FINISHED, Unstarted, RemovedIsQuiet, WorkerKnowsStatus
  <1> QED
    BY <1>1, <1>2, <1>3, <1>4, <1>5, <1>6, <1>7, <1>8, <1>9, <1>10, <1>11, <1>12, <1>13, <1>14,
       <1>15, <1>16, <1>17, <1>18, <1>19, <1>20, <1>21, <1>22, <1>23, <1>24, <1>25, <1>26, <1>27,
       <1>28, <1>29, <1>30, <1>31, <1>32 DEF Next, Step

LEMMA ActiveApartStep == ASSUME IInv, [Next]_vars PROVE ActiveApart'
  <1> USE Requests DEF IInv, TypeOK, rows, memory, data, history, Go, Set, SetIf, OnlyStatus, ACTIVE, FINISHED, WorkerKnowsStatus, ActiveApart, Uses
  <1>1. ASSUME NEW j \in Jobs, Preview(j) PROVE ActiveApart'  BY <1>1 DEF Preview
  <1>2. ASSUME NEW j \in Jobs, StartDataMigration(j) PROVE ActiveApart'  BY <1>2 DEF StartDataMigration, InUse
  <1>3. ASSUME NEW j \in Jobs, CancelDataMigration(j) PROVE ActiveApart'  BY <1>3 DEF CancelDataMigration
  <1>4. ASSUME NEW j \in Jobs, ActivateDataMigration(j) PROVE ActiveApart'  BY <1>4 DEF ActivateDataMigration
  <1>5. ASSUME NEW j \in Jobs, LockForRemoval(j) PROVE ActiveApart'  BY <1>5 DEF LockForRemoval
  <1>6. ASSUME NEW j \in Jobs, DeleteDataMigration(j) PROVE ActiveApart'  BY <1>6 DEF DeleteDataMigration, Removable, Executing
  <1>7. ASSUME NEW j \in Jobs, TryLock(j) PROVE ActiveApart'  BY <1>7 DEF TryLock
  <1>8. ASSUME NEW j \in Jobs, Claim(j) PROVE ActiveApart'  BY <1>8 DEF Claim
  <1>9. ASSUME NEW j \in Jobs, Look(j) PROVE ActiveApart'  BY <1>9 DEF Look
  <1>10. ASSUME NEW j \in Jobs, Spawn(j) PROVE ActiveApart'  BY <1>10 DEF Spawn
  <1>11. ASSUME NEW j \in Jobs, SlingReads(j) PROVE ActiveApart'  BY <1>11 DEF SlingReads, Loaded
  <1>12. ASSUME NEW j \in Jobs, SlingEnds(j) PROVE ActiveApart'  BY <1>12 DEF SlingEnds, Loaded
  <1>13. ASSUME NEW j \in Jobs, AfterCopy(j) PROVE ActiveApart'  BY <1>13 DEF AfterCopy
  <1>14. ASSUME NEW j \in Jobs, Promote(j) PROVE ActiveApart'  BY <1>14 DEF Promote
  <1>15. ASSUME NEW j \in Jobs, Mark(j) PROVE ActiveApart'  BY <1>15 DEF Mark
  <1>16. ASSUME NEW j \in Jobs, CountSource(j) PROVE ActiveApart'  BY <1>16 DEF CountSource
  <1>17. ASSUME NEW j \in Jobs, CountTarget(j) PROVE ActiveApart'  BY <1>17 DEF CountTarget
  <1>18. ASSUME NEW j \in Jobs, Compare(j) PROVE ActiveApart'  BY <1>18 DEF Compare
  <1>19. ASSUME NEW j \in Jobs, Verdict(j) PROVE ActiveApart'  BY <1>19 DEF Verdict
  <1>20. ASSUME NEW j \in Jobs, Logged(j) PROVE ActiveApart'  BY <1>20 DEF Logged
  <1>21. ASSUME NEW j \in Jobs, Caught(j) PROVE ActiveApart'  BY <1>21 DEF Caught
  <1>22. ASSUME NEW j \in Jobs, Fail(j) PROVE ActiveApart'  BY <1>22 DEF Fail
  <1>23. ASSUME NEW j \in Jobs, Outer(j) PROVE ActiveApart'  BY <1>23 DEF Outer
  <1>24. ASSUME NEW j \in Jobs, Leave(j) PROVE ActiveApart'  BY <1>24 DEF Leave
  <1>25. ASSUME NEW j \in Jobs, Fault(j) PROVE ActiveApart'  BY <1>25 DEF Fault
  <1>26. ASSUME NEW j \in Jobs, LoseLock(j) PROVE ActiveApart'  BY <1>26 DEF LoseLock
  <1>27. ASSUME NEW s \in Services, DetachProjectDataService(s) PROVE ActiveApart'  BY <1>27 DEF DetachProjectDataService
  <1>28. ASSUME NEW s \in Services, AppWrites(s) PROVE ActiveApart'  BY <1>28 DEF AppWrites, Executing
  <1>29. ASSUME NEW s \in Services, NEW active \in BOOLEAN, SetApplicationPrimary(s, active) PROVE ActiveApart'
    BY <1>29 DEF SetApplicationPrimary
  <1>30. ASSUME Restart PROVE ActiveApart'  BY <1>30 DEF Restart
  <1>31. ASSUME RecoverInterruptedDataMigrations PROVE ActiveApart'  BY <1>31 DEF RecoverInterruptedDataMigrations
  <1>32. ASSUME UNCHANGED vars PROVE ActiveApart'  BY <1>32 DEF vars
  <1> HIDE DEF IInv, TypeOK, rows, memory, data, history, Go, Set, SetIf, OnlyStatus, ACTIVE, FINISHED, WorkerKnowsStatus, ActiveApart, Uses
  <1> QED
    BY <1>1, <1>2, <1>3, <1>4, <1>5, <1>6, <1>7, <1>8, <1>9, <1>10, <1>11, <1>12, <1>13, <1>14,
       <1>15, <1>16, <1>17, <1>18, <1>19, <1>20, <1>21, <1>22, <1>23, <1>24, <1>25, <1>26, <1>27,
       <1>28, <1>29, <1>30, <1>31, <1>32 DEF Next, Step

LEMMA NamedStep == ASSUME IInv, [Next]_vars PROVE NamedServicesExist'
  <1> USE Requests DEF IInv, TypeOK, rows, memory, data, history, Go, Set, SetIf, OnlyStatus, ACTIVE, FINISHED, NamedServicesExist, Referenced, Uses
  <1>1. ASSUME NEW j \in Jobs, Preview(j) PROVE NamedServicesExist'  BY <1>1 DEF Preview
  <1>2. ASSUME NEW j \in Jobs, StartDataMigration(j) PROVE NamedServicesExist'  BY <1>2 DEF StartDataMigration, InUse
  <1>3. ASSUME NEW j \in Jobs, CancelDataMigration(j) PROVE NamedServicesExist'  BY <1>3 DEF CancelDataMigration
  <1>4. ASSUME NEW j \in Jobs, ActivateDataMigration(j) PROVE NamedServicesExist'  BY <1>4 DEF ActivateDataMigration
  <1>5. ASSUME NEW j \in Jobs, LockForRemoval(j) PROVE NamedServicesExist'  BY <1>5 DEF LockForRemoval
  <1>6. ASSUME NEW j \in Jobs, DeleteDataMigration(j) PROVE NamedServicesExist'  BY <1>6 DEF DeleteDataMigration, Removable, Executing
  <1>7. ASSUME NEW j \in Jobs, TryLock(j) PROVE NamedServicesExist'  BY <1>7 DEF TryLock
  <1>8. ASSUME NEW j \in Jobs, Claim(j) PROVE NamedServicesExist'  BY <1>8 DEF Claim
  <1>9. ASSUME NEW j \in Jobs, Look(j) PROVE NamedServicesExist'  BY <1>9 DEF Look
  <1>10. ASSUME NEW j \in Jobs, Spawn(j) PROVE NamedServicesExist'  BY <1>10 DEF Spawn
  <1>11. ASSUME NEW j \in Jobs, SlingReads(j) PROVE NamedServicesExist'  BY <1>11 DEF SlingReads, Loaded
  <1>12. ASSUME NEW j \in Jobs, SlingEnds(j) PROVE NamedServicesExist'  BY <1>12 DEF SlingEnds, Loaded
  <1>13. ASSUME NEW j \in Jobs, AfterCopy(j) PROVE NamedServicesExist'  BY <1>13 DEF AfterCopy
  <1>14. ASSUME NEW j \in Jobs, Promote(j) PROVE NamedServicesExist'  BY <1>14 DEF Promote
  <1>15. ASSUME NEW j \in Jobs, Mark(j) PROVE NamedServicesExist'  BY <1>15 DEF Mark
  <1>16. ASSUME NEW j \in Jobs, CountSource(j) PROVE NamedServicesExist'  BY <1>16 DEF CountSource
  <1>17. ASSUME NEW j \in Jobs, CountTarget(j) PROVE NamedServicesExist'  BY <1>17 DEF CountTarget
  <1>18. ASSUME NEW j \in Jobs, Compare(j) PROVE NamedServicesExist'  BY <1>18 DEF Compare
  <1>19. ASSUME NEW j \in Jobs, Verdict(j) PROVE NamedServicesExist'  BY <1>19 DEF Verdict
  <1>20. ASSUME NEW j \in Jobs, Logged(j) PROVE NamedServicesExist'  BY <1>20 DEF Logged
  <1>21. ASSUME NEW j \in Jobs, Caught(j) PROVE NamedServicesExist'  BY <1>21 DEF Caught
  <1>22. ASSUME NEW j \in Jobs, Fail(j) PROVE NamedServicesExist'  BY <1>22 DEF Fail
  <1>23. ASSUME NEW j \in Jobs, Outer(j) PROVE NamedServicesExist'  BY <1>23 DEF Outer
  <1>24. ASSUME NEW j \in Jobs, Leave(j) PROVE NamedServicesExist'  BY <1>24 DEF Leave
  <1>25. ASSUME NEW j \in Jobs, Fault(j) PROVE NamedServicesExist'  BY <1>25 DEF Fault
  <1>26. ASSUME NEW j \in Jobs, LoseLock(j) PROVE NamedServicesExist'  BY <1>26 DEF LoseLock
  <1>27. ASSUME NEW s \in Services, DetachProjectDataService(s) PROVE NamedServicesExist'  BY <1>27 DEF DetachProjectDataService
  <1>28. ASSUME NEW s \in Services, AppWrites(s) PROVE NamedServicesExist'  BY <1>28 DEF AppWrites, Executing
  <1>29. ASSUME NEW s \in Services, NEW active \in BOOLEAN, SetApplicationPrimary(s, active) PROVE NamedServicesExist'
    BY <1>29 DEF SetApplicationPrimary
  <1>30. ASSUME Restart PROVE NamedServicesExist'  BY <1>30 DEF Restart
  <1>31. ASSUME RecoverInterruptedDataMigrations PROVE NamedServicesExist'  BY <1>31 DEF RecoverInterruptedDataMigrations
  <1>32. ASSUME UNCHANGED vars PROVE NamedServicesExist'  BY <1>32 DEF vars
  <1> HIDE DEF IInv, TypeOK, rows, memory, data, history, Go, Set, SetIf, OnlyStatus, ACTIVE, FINISHED, NamedServicesExist, Referenced, Uses
  <1> QED
    BY <1>1, <1>2, <1>3, <1>4, <1>5, <1>6, <1>7, <1>8, <1>9, <1>10, <1>11, <1>12, <1>13, <1>14,
       <1>15, <1>16, <1>17, <1>18, <1>19, <1>20, <1>21, <1>22, <1>23, <1>24, <1>25, <1>26, <1>27,
       <1>28, <1>29, <1>30, <1>31, <1>32 DEF Next, Step

LEMMA NextIInv == IInv /\ [Next]_vars => IInv'
  BY TypeStep, UnstartedStep, RemovedStep, WorkerKnowsStep, ActiveApartStep, NamedStep DEF IInv

LEMMA Inductive == Spec => []IInv
  BY InitIInv, NextIInv, PTL DEF Spec

\* Every row, lock and database keeps a value of its kind.
THEOREM TypeCorrect == Spec => []TypeOK
  <1>1. IInv => TypeOK  BY DEF IInv
  <1>2. QED  BY <1>1, Inductive, PTL

\* The record of a copy that still works on the databases cannot be removed, however many
\* connections are lost: the lock or executingJobs refuses the removal.
THEOREM RemovedStaysQuiet == Spec => []RemovedIsQuiet
  <1>1. IInv => RemovedIsQuiet  BY DEF IInv
  <1>2. QED  BY <1>1, Inductive, PTL

\* Two copies that share a database run together only after a cancellation or a restart.
THEOREM CopiesStayApart == Spec => []CopiesApart
  BY Apart, Inductive, PTL

\* No record names a service that is gone, and the primary is one that exists.
THEOREM NamedServicesStay == Spec => []NamedServicesExist
  <1>1. IInv => NamedServicesExist  BY DEF IInv
  <1>2. QED  BY <1>1, Inductive, PTL

-----------------------------------------------------------------------------
\* What a copy has read is in the source, what it has loaded is in the target, and what was counted
\* contains it, as long as no application and no withdrawn worker has been at either database.
CopyTells(j) ==
    /\ pc[j] \in {"copy", "copied", "promote", "mark", "count", "sourceCounted", "targetCounted", "compare", "pass"}
          => copied[j] \subseteq holds[SourceOf[j]]
    /\ pc[j] = "copied" /\ j \notin Staged => holds[TargetOf[j]] = copied[j]
    /\ pc[j] \in {"mark", "count", "sourceCounted", "targetCounted", "compare", "pass"} => holds[TargetOf[j]] = copied[j]
    /\ pc[j] \in {"sourceCounted", "compare", "pass"} => copied[j] \subseteq counted[j].source
    /\ pc[j] \in {"targetCounted", "compare", "pass"} => counted[j].target = copied[j]
    /\ pc[j] = "pass" => Equal(j)
Undisturbed(j) == j \notin disturbed /\ ~ Interfered(j)
CopiesTell == \A j \in Jobs : Undisturbed(j) => CopyTells(j)

\* Who writes to a database shares it with no job that copies or counts.
LEMMA WritesElsewhere ==
    ASSUME IInv, NEW j \in Jobs, NEW k \in Jobs, j # k, ~ Interfered(j),
           pc[j] \in {"copy", "copied", "promote", "mark", "count", "sourceCounted", "targetCounted", "compare", "pass"},
           pc[k] \in {"copy", "promote"}
    PROVE  TargetOf[k] # SourceOf[j] /\ TargetOf[k] # TargetOf[j]
  <1>1. SUFFICES ASSUME Uses(j) \cap Uses(k) # {} PROVE FALSE
    BY DEF Uses
  <1>2. SourceOf[j] \in Uses(j)
    BY DEF Uses
  <1>3. j \notin withdrawn /\ k \notin withdrawn
    BY <1>1, <1>2 DEF Interfered
  <1>4. QED
    BY <1>1, <1>3 DEF IInv, WorkerKnowsStatus, ActiveApart, ACTIVE

\* A step that leaves a job's worker, its rows and its two databases alone, or moves the worker out
\* of the copy, keeps what is known of it.
LEMMA Kept ==
    ASSUME NEW j \in Jobs, CopyTells(j), holds'[SourceOf[j]] = holds[SourceOf[j]],
           holds'[TargetOf[j]] = holds[TargetOf[j]], pc'[j] = pc[j], copied'[j] = copied[j], counted'[j] = counted[j]
    PROVE  CopyTells(j)'
  BY DEF CopyTells, Equal

LEMMA OutsideCopy ==
    ASSUME NEW j \in Jobs,
           pc'[j] \in {"none", "pending", "claim", "look", "spawn", "exited", "miss", "logged", "caught", "fail", "outer", "leave"}
    PROVE  CopyTells(j)'
  BY DEF CopyTells

\* A step of one job, which leaves the histories to grow, is looked at for that job and for the others.
LEMMA OneJob ==
    ASSUME IInv, CopiesTell, NEW k \in Jobs, withdrawn \subseteq withdrawn', disturbed \subseteq disturbed',
           \A j \in Jobs \ {k} : pc'[j] = pc[j] /\ copied'[j] = copied[j] /\ counted'[j] = counted[j],
           holds' = holds \/ (/\ pc[k] \in {"copy", "promote"}
                              /\ \A s \in Services \ {TargetOf[k]} : holds'[s] = holds[s]),
           Undisturbed(k) => CopyTells(k)'
    PROVE  CopiesTell'
  <1>1. SUFFICES ASSUME NEW j \in Jobs, Undisturbed(j)' PROVE CopyTells(j)'
    BY DEF CopiesTell
  <1>2. Undisturbed(j)
    BY <1>1 DEF Undisturbed, Interfered, Uses
  <1>3. CASE j = k
    BY <1>2, <1>3
  <1>4. CASE j # k
    <2>1. CopyTells(j)
      BY <1>2 DEF CopiesTell
    <2>2. CASE pc[j] \in {"copy", "copied", "promote", "mark", "count", "sourceCounted", "targetCounted", "compare", "pass"}
      <3>1. holds'[SourceOf[j]] = holds[SourceOf[j]] /\ holds'[TargetOf[j]] = holds[TargetOf[j]]
        BY <1>2, <1>4, <2>2, WritesElsewhere, Requests DEF Undisturbed
      <3>2. QED
        BY <1>4, <2>1, <3>1, Kept
    <2>3. CASE pc[j] \notin {"copy", "copied", "promote", "mark", "count", "sourceCounted", "targetCounted", "compare", "pass"}
      BY <1>4, <2>3 DEF CopyTells
    <2>4. QED
      BY <2>2, <2>3
  <1>5. QED
    BY <1>3, <1>4

LEMMA CopiesTellStep == ASSUME IInv, CopiesTell, [Next]_vars PROVE CopiesTell'
  <1> USE Requests DEF IInv, TypeOK, rows, memory, data, history, Go, OnlyStatus
  <1>1. ASSUME NEW k \in Jobs, Preview(k) \/ StartDataMigration(k) \/ CancelDataMigration(k) \/ ActivateDataMigration(k)
               \/ LockForRemoval(k) \/ DeleteDataMigration(k) \/ TryLock(k) \/ Claim(k) \/ Look(k) \/ Logged(k)
               \/ Caught(k) \/ Fail(k) \/ Outer(k) \/ Leave(k) \/ Verdict(k) \/ LoseLock(k) \/ Fault(k)
        PROVE  CopiesTell'
    <2>1. /\ holds' = holds /\ withdrawn \subseteq withdrawn' /\ disturbed' = disturbed
          /\ \A j \in Jobs \ {k} : pc'[j] = pc[j] /\ copied'[j] = copied[j] /\ counted'[j] = counted[j]
      BY <1>1 DEF Preview, StartDataMigration, CancelDataMigration, ActivateDataMigration, LockForRemoval,
         DeleteDataMigration, TryLock, Claim, Look, Logged, Caught, Fail, Outer, Leave, Verdict, LoseLock, Fault
    <2>2. \/ pc'[k] = pc[k] /\ copied'[k] = copied[k] /\ counted'[k] = counted[k]
          \/ pc'[k] \in {"none", "pending", "claim", "look", "spawn", "exited", "miss", "logged", "caught", "fail", "outer", "leave"}
      BY <1>1 DEF Preview, StartDataMigration, CancelDataMigration, ActivateDataMigration, LockForRemoval,
         DeleteDataMigration, TryLock, Claim, Look, Logged, Caught, Fail, Outer, Leave, Verdict, LoseLock, Fault
    <2>3. Undisturbed(k) => CopyTells(k)'
      BY <2>1, <2>2, Kept, OutsideCopy DEF CopiesTell
    <2>4. QED
      BY <2>1, <2>3, OneJob
  <1>2. ASSUME NEW k \in Jobs, Spawn(k) PROVE CopiesTell'
    <2>1. SUFFICES ASSUME NEW j \in Jobs, Undisturbed(j)' PROVE CopyTells(j)'
      BY DEF CopiesTell
    <2>2. CASE j = k
      BY <1>2, <2>2 DEF Spawn, CopyTells
    <2>3. CASE j # k
      <3>1. Undisturbed(j)
        BY <1>2, <2>1, <2>3 DEF Spawn, Undisturbed, Interfered, Uses
      <3>2. QED
        BY <1>2, <2>3, <3>1, Kept DEF Spawn, CopiesTell
    <2>4. QED
      BY <2>2, <2>3
  <1>3. ASSUME NEW k \in Jobs, SlingReads(k) \/ SlingEnds(k) \/ Promote(k) PROVE CopiesTell'
    <2>1. /\ withdrawn' = withdrawn /\ disturbed' = disturbed /\ pc[k] \in {"copy", "promote"}
          /\ \A j \in Jobs \ {k} : pc'[j] = pc[j] /\ copied'[j] = copied[j] /\ counted'[j] = counted[j]
          /\ \A s \in Services \ {TargetOf[k]} : holds'[s] = holds[s]
      BY <1>3 DEF SlingReads, SlingEnds, Promote, Loaded
    <2>2. Undisturbed(k) => CopyTells(k)'
      BY <1>3 DEF SlingReads, SlingEnds, Promote, Loaded, CopiesTell, CopyTells
    <2>3. QED
      BY <2>1, <2>2, OneJob
  <1>4. ASSUME NEW k \in Jobs, AfterCopy(k) \/ Mark(k) \/ CountSource(k) \/ CountTarget(k) \/ Compare(k) PROVE CopiesTell'
    <2>1. /\ withdrawn' = withdrawn /\ disturbed' = disturbed /\ holds' = holds
          /\ \A j \in Jobs \ {k} : pc'[j] = pc[j] /\ copied'[j] = copied[j] /\ counted'[j] = counted[j]
      BY <1>4 DEF AfterCopy, Mark, CountSource, CountTarget, Compare
    <2>2. Undisturbed(k) => CopyTells(k)'
      <3>1. CASE AfterCopy(k) \/ Mark(k)
        BY <3>1 DEF AfterCopy, Mark, CopiesTell, CopyTells
      <3>2. CASE CountSource(k) \/ CountTarget(k)
        BY <3>2 DEF CountSource, CountTarget, CopiesTell, CopyTells
      <3>3. CASE Compare(k)
        BY <3>3 DEF Compare, CopiesTell, CopyTells, Equal
      <3>4. QED
        BY <1>4, <3>1, <3>2, <3>3
    <2>3. QED
      BY <2>1, <2>2, OneJob
  <1>5. ASSUME NEW s \in Services, AppWrites(s) PROVE CopiesTell'
    <2>1. SUFFICES ASSUME NEW j \in Jobs, Undisturbed(j)' PROVE CopyTells(j)'
      BY DEF CopiesTell
    <2>2. Undisturbed(j) /\ CopyTells(j)
      BY <1>5, <2>1 DEF AppWrites, Undisturbed, Interfered, Uses, CopiesTell
    <2>3. CASE j \notin Executing
      BY <1>5, <2>3 DEF AppWrites, Executing, CopyTells
    <2>4. CASE j \in Executing
      <3>1. TargetOf[j] # s /\ (SourceOf[j] = s => holds[s] \subseteq holds'[s])
        BY <1>5, <2>1, <2>4 DEF AppWrites, Undisturbed
      <3>2. holds'[TargetOf[j]] = holds[TargetOf[j]] /\ holds[SourceOf[j]] \subseteq holds'[SourceOf[j]]
        BY <1>5, <3>1 DEF AppWrites
      <3>3. QED
        BY <1>5, <2>2, <3>2 DEF AppWrites, CopyTells, Equal
    <2>5. QED
      BY <2>3, <2>4
  <1>6. ASSUME NEW s \in Services, NEW b \in BOOLEAN, DetachProjectDataService(s) \/ SetApplicationPrimary(s, b)
        PROVE  CopiesTell'
    BY <1>6 DEF DetachProjectDataService, SetApplicationPrimary, CopiesTell, CopyTells, Undisturbed, Interfered, Uses, Equal
  <1>7. ASSUME Restart PROVE CopiesTell'
    BY <1>7 DEF Restart, CopiesTell, CopyTells
  <1>8. ASSUME RecoverInterruptedDataMigrations \/ UNCHANGED vars PROVE CopiesTell'
    <2>1. /\ withdrawn \subseteq withdrawn' /\ disturbed' = disturbed /\ holds' = holds /\ pc' = pc
          /\ copied' = copied /\ counted' = counted
      BY <1>8 DEF RecoverInterruptedDataMigrations, vars
    <2>2. \A j \in Jobs : Undisturbed(j)' => Undisturbed(j)
      BY <2>1 DEF Undisturbed, Interfered, Uses
    <2>3. QED
      BY <2>1, <2>2, Kept DEF CopiesTell
  <1> HIDE DEF IInv, TypeOK, rows, memory, data, history, Go, OnlyStatus
  <1>9. QED
    BY <1>1, <1>2, <1>3, <1>4, <1>5, <1>6, <1>7, <1>8 DEF Next, Step

\* Only the verdict after the counts makes a job successful.
LEMMA OnlyVerdictSucceeds ==
    ASSUME IInv, [Next]_vars, NEW j \in Jobs, status[j] # "succeeded", status'[j] = "succeeded"
    PROVE  pc[j] = "pass"
  <1> USE DEF IInv, TypeOK, rows, memory, data, history, Go, OnlyStatus, Set, SetIf
  <1>1. ASSUME NEW k \in Jobs, Preview(k) \/ StartDataMigration(k) \/ CancelDataMigration(k)
               \/ ActivateDataMigration(k) \/ LockForRemoval(k) \/ DeleteDataMigration(k) PROVE FALSE
    BY <1>1 DEF Preview, StartDataMigration, CancelDataMigration, ActivateDataMigration, LockForRemoval,
                DeleteDataMigration
  <1>2. ASSUME NEW k \in Jobs, TryLock(k) \/ Claim(k) \/ Look(k) \/ Spawn(k) \/ AfterCopy(k) \/ Promote(k)
               \/ Mark(k) \/ CountSource(k) \/ CountTarget(k) \/ Compare(k) \/ SlingReads(k) PROVE FALSE
    BY <1>2 DEF TryLock, Claim, Look, Spawn, AfterCopy, Promote, Mark, CountSource,
                CountTarget, Compare, SlingReads
  <1>3. ASSUME NEW k \in Jobs, Verdict(k) PROVE pc[j] = "pass"
    BY <1>3 DEF Verdict
  <1>4. ASSUME NEW k \in Jobs, Logged(k) \/ Caught(k) \/ Fail(k) \/ Outer(k) \/ Leave(k) \/ SlingEnds(k)
               \/ Fault(k) \/ LoseLock(k) PROVE FALSE
    BY <1>4 DEF Logged, Caught, Fail, Outer, Leave, SlingEnds, Fault, LoseLock
  <1>5. ASSUME NEW s \in Services, NEW b \in BOOLEAN, DetachProjectDataService(s) \/ AppWrites(s) \/ SetApplicationPrimary(s, b)
        PROVE  FALSE
    BY <1>5 DEF DetachProjectDataService, AppWrites, SetApplicationPrimary
  <1>6. ASSUME Restart \/ RecoverInterruptedDataMigrations \/ UNCHANGED vars PROVE FALSE
    BY <1>6 DEF Restart, RecoverInterruptedDataMigrations, vars
  <1>7. QED
    BY <1>1, <1>2, <1>3, <1>4, <1>5, <1>6 DEF Next, Step

\* What the counts prove: rows of the source, as many as the source has, are all of them.
LEMMA EqualMeansSame ==
    ASSUME IInv, NEW j \in Jobs, CopyTells(j), pc[j] = "pass"
    PROVE  holds[TargetOf[j]] = counted[j].source
  <1>1. /\ copied[j] \subseteq counted[j].source /\ counted[j].target = copied[j] /\ holds[TargetOf[j]] = copied[j]
        /\ Cardinality(counted[j].source) = Cardinality(copied[j])
    BY DEF CopyTells, Equal
  <1>2. counted[j].source \in SUBSET Rows
    BY DEF IInv, TypeOK
  <1>3. IsFiniteSet(counted[j].source)
    BY <1>2, FS_Subset, Requests
  <1>4. QED
    BY <1>1, <1>3, FS_Subset

\* A migration is reported successful only when the target holds exactly the rows the source had when
\* they were counted, unless an application wrote beside the copy or a withdrawn job's worker could.
\* Equal numbers suffice because copies stay apart and sling writes nothing but rows of the source.
THEOREM SuccessMeansCopied == Spec => SuccessIsACopy
  <1> DEFINE Copied == \A j \in Jobs : status[j] # "succeeded" /\ status'[j] = "succeeded"
                          => holds[TargetOf[j]] = counted[j].source \/ j \in disturbed \/ Interfered(j)
  <1>1. Init => CopiesTell
    BY DEF Init, CopiesTell, CopyTells
  <1>2. IInv /\ CopiesTell /\ [Next]_vars => CopiesTell'
    BY CopiesTellStep
  <1>3. IInv /\ CopiesTell /\ [Next]_vars => [Copied]_vars
    BY OnlyVerdictSucceeds, EqualMeansSame DEF CopiesTell, Undisturbed
  <1>4. QED
    BY <1>1, <1>2, <1>3, Inductive, PTL DEF Spec, SuccessIsACopy
=============================================================================

------------------------ MODULE DeployAdmission_proofs ------------------------
(***************************************************************************)
(* Proofs about DeployAdmission for every number of calls and operations:  *)
(* typing, mutual exclusion of running rows and project operations under   *)
(* the advisory lock, and that nobody takes the row of a working loop.     *)
(***************************************************************************)
EXTENDS DeployAdmission, TLAPS

\* What the advisory lock protects: the steps between taking and releasing it
\* belong to its holder, and a call that is about to insert, or an operation
\* that works, saw no running row and nobody can have inserted one since.
LockHeld ==
    /\ \A d \in Deployments : pc[d] \in {"check", "insert", "unlock"} => holder = d
    /\ \A o \in Operations : op[o] \in {"check", "working"} => holder = o

InsertSeesNoRow ==
    \A d \in Deployments : pc[d] = "insert" => Running = {}

IInv ==
    /\ TypeOK
    /\ LockHeld
    /\ InsertSeesNoRow
    /\ OperationExcludesRunningRow
    /\ AtMostOneRunning
    /\ LockHasItsUser

\* Every variable keeps its range: rows their status, the lock a session.
THEOREM TypeCorrect == Spec => []TypeOK
<1> USE AdmissionConstants
<1>1. Init => TypeOK
  BY DEF Init, TypeOK, PCs
<1>2. TypeOK /\ [Next]_vars => TypeOK'
  <2> SUFFICES ASSUME TypeOK, [Next]_vars PROVE TypeOK'
    OBVIOUS
  <2> USE DEF TypeOK, PCs, Admitting, Live, Unwinding, Ended, Goto, Running
  <2>1. ASSUME NEW d \in Deployments, Admission(d) PROVE TypeOK'
    <3>1. CASE Request(d)
      BY <3>1 DEF Request
    <3>2. CASE SelectRunning(d)
      BY <3>2 DEF SelectRunning
    <3>3. CASE FilterStale(d)
      BY <3>3 DEF FilterStale, StaleRows
    <3>4. CASE FailStale(d)
      BY <3>4 DEF FailStale
    <3>5. CASE DecideRunning(d)
      BY <3>5 DEF DecideRunning
    <3>6. CASE SetupIncomplete(d)
      BY <3>6 DEF SetupIncomplete
    <3>7. CASE TryLock(d)
      BY <3>7 DEF TryLock
    <3>8. CASE CheckUnderLock(d)
      BY <3>8 DEF CheckUnderLock, HolderAfterRefusal
    <3>9. CASE InsertRow(d)
      BY <3>9 DEF InsertRow
    <3>10. CASE Unlock(d)
      BY <3>10 DEF Unlock
    <3> QED BY <2>1, <3>1, <3>2, <3>3, <3>4, <3>5, <3>6, <3>7, <3>8, <3>9, <3>10
              DEF Admission
  <2>2. ASSUME NEW d \in Deployments, Loop(d) PROVE TypeOK'
    <3>1. CASE Register(d)
      BY <3>1 DEF Register
    <3>2. CASE Activate(d)
      BY <3>2 DEF Activate
    <3>3. CASE Accept(d)
      BY <3>3 DEF Accept
    <3>4. CASE Throw(d)
      BY <3>4 DEF Throw
    <3>5. CASE Finish(d)
      BY <3>5 DEF Finish, FinalStatus
    <3>6. CASE FinishFails(d)
      BY <3>6 DEF FinishFails, Fault
    <3>7. CASE Close(d)
      BY <3>7 DEF Close
    <3> QED BY <2>2, <3>1, <3>2, <3>3, <3>4, <3>5, <3>6, <3>7 DEF Loop
  <2>3. ASSUME NEW d \in Deployments, Cancel(d) PROVE TypeOK'
    BY <2>3 DEF Cancel, CancelRead, CancelFlag, CancelRow
  <2>4. ASSUME NEW o \in Operations, Operate(o) PROVE TypeOK'
    BY <2>4 DEF Operate, OpTryLock, OpCheck, OpRelease, HolderAfterRefusal
  <2>5. CASE System
    <3>1. ASSUME NEW d \in Deployments, Age(d) PROVE TypeOK'
      BY <3>1 DEF Age
    <3>2. ASSUME NEW late \in BOOLEAN, Restart(late) PROVE TypeOK'
      BY <3>2 DEF Restart
    <3>3. CASE SweepSelect \/ SweepUpdate \/ SweepFails
      BY <3>3 DEF SweepSelect, SweepUpdate, SweepFails, Swept, Fault
    <3> QED BY <2>5, <3>1, <3>2, <3>3 DEF System
  <2>6. CASE UNCHANGED vars
    BY <2>6 DEF vars
  <2> QED BY <2>1, <2>2, <2>3, <2>4, <2>5, <2>6 DEF Next
<1> QED BY <1>1, <1>2, PTL DEF Spec

\* Steps outside the lock only take rows out of status 'running' and leave the
\* holders of the lock where they are.
Harmless ==
    /\ \A e \in Deployments : status'[e] = "running" => status[e] = "running"
    /\ \A e \in Deployments : 
          pc[e] \in {"check", "insert", "unlock"} \/ pc'[e] \in {"check", "insert", "unlock"}
              => pc'[e] = pc[e]
    /\ UNCHANGED <<holder, op>>

LEMMA HarmlessKeepsIInv ==
    ASSUME IInv, TypeOK', Harmless PROVE IInv'
  BY DEF IInv, Harmless, LockHeld, InsertSeesNoRow, OperationExcludesRunningRow,
         AtMostOneRunning, LockHasItsUser, Running, TypeOK

LEMMA NextKeepsIInv == IInv /\ TypeOK' /\ [Next]_vars => IInv'
<1> USE AdmissionConstants
<1> SUFFICES ASSUME IInv, TypeOK', [Next]_vars PROVE IInv'
  OBVIOUS
<1> USE DEF Goto
<1>1. ASSUME NEW d \in Deployments, Admission(d) PROVE IInv'
  <2>1. CASE Request(d) \/ SelectRunning(d) \/ FilterStale(d)
             \/ DecideRunning(d) \/ SetupIncomplete(d)
    <3>1. Harmless
      BY <2>1 DEF Harmless, IInv, TypeOK, Request, SelectRunning, FilterStale,
                  DecideRunning, SetupIncomplete
    <3> QED BY <3>1, HarmlessKeepsIInv
  <2>2. CASE FailStale(d)
    <3>1. Harmless
      BY <2>2 DEF Harmless, IInv, TypeOK, FailStale
    <3> QED BY <3>1, HarmlessKeepsIInv
  <2>3. CASE TryLock(d)
    BY <2>3 DEF TryLock, IInv, TypeOK, LockHeld, InsertSeesNoRow,
                OperationExcludesRunningRow, AtMostOneRunning, LockHasItsUser, Running
  <2>4. CASE CheckUnderLock(d)
    BY <2>4 DEF CheckUnderLock, NoActiveRow, HolderAfterRefusal, IInv, TypeOK,
                LockHeld, InsertSeesNoRow, OperationExcludesRunningRow,
                AtMostOneRunning, LockHasItsUser, Running
  <2>5. CASE InsertRow(d)
    <3>1. Running = {} /\ holder = d
      BY <2>5 DEF InsertRow, IInv, LockHeld, InsertSeesNoRow
    <3>2. Running' = {d}
      BY <2>5, <3>1 DEF InsertRow, Running, IInv, TypeOK
    <3>3. LockHeld'
      BY <2>5 DEF InsertRow, LockHeld, IInv, TypeOK
    <3>4. InsertSeesNoRow'
      BY <2>5, <3>1 DEF InsertRow, InsertSeesNoRow, LockHeld, IInv, TypeOK
    <3>5. OperationExcludesRunningRow'
      BY <2>5, <3>1 DEF InsertRow, OperationExcludesRunningRow, LockHeld, IInv
    <3>6. AtMostOneRunning'
      BY <3>2 DEF AtMostOneRunning, LockHasItsUser, Running
    <3>7. LockHasItsUser'
      BY <2>5 DEF InsertRow, LockHasItsUser, IInv, TypeOK
    <3> QED BY <3>3, <3>4, <3>5, <3>6, <3>7 DEF IInv
  <2>6. CASE Unlock(d)
    BY <2>6 DEF Unlock, IInv, TypeOK, LockHeld, InsertSeesNoRow,
                OperationExcludesRunningRow, AtMostOneRunning, LockHasItsUser, Running
  <2> QED BY <1>1, <2>1, <2>2, <2>3, <2>4, <2>5, <2>6 DEF Admission
<1>2. ASSUME NEW d \in Deployments, Loop(d) PROVE IInv'
  <2>1. Harmless
    BY <1>2 DEF Loop, Register, Activate, Accept, Throw, Finish, FinalStatus,
                FinishFails, Close, Harmless, IInv, TypeOK
  <2> QED BY <2>1, HarmlessKeepsIInv
<1>3. ASSUME NEW d \in Deployments, Cancel(d) PROVE IInv'
  <2>1. Harmless
    BY <1>3 DEF Cancel, CancelRead, CancelFlag, CancelRow, Harmless, IInv, TypeOK
  <2> QED BY <2>1, HarmlessKeepsIInv
<1>4. ASSUME NEW o \in Operations, Operate(o) PROVE IInv'
  <2>1. CASE OpTryLock(o)
    BY <2>1 DEF OpTryLock, IInv, TypeOK, LockHeld, InsertSeesNoRow,
                OperationExcludesRunningRow, AtMostOneRunning, LockHasItsUser, Running
  <2>2. CASE OpCheck(o)
    BY <2>2 DEF OpCheck, NoActiveRow, HolderAfterRefusal, IInv, TypeOK, LockHeld,
                InsertSeesNoRow, OperationExcludesRunningRow, AtMostOneRunning, LockHasItsUser, Running
  <2>3. CASE OpRelease(o)
    BY <2>3 DEF OpRelease, IInv, TypeOK, LockHeld, InsertSeesNoRow,
                OperationExcludesRunningRow, AtMostOneRunning, LockHasItsUser, Running
  <2> QED BY <1>4, <2>1, <2>2, <2>3 DEF Operate
<1>5. CASE System
  <2>1. ASSUME NEW d \in Deployments, Age(d) PROVE IInv'
    <3>1. Harmless
      BY <2>1 DEF Age, Harmless
    <3> QED BY <3>1, HarmlessKeepsIInv
  <2>2. ASSUME NEW late \in BOOLEAN, Restart(late) PROVE IInv'
    BY <2>2 DEF Restart, Ended, IInv, TypeOK, LockHeld, InsertSeesNoRow,
                OperationExcludesRunningRow, AtMostOneRunning, LockHasItsUser, Running
  <2>3. CASE SweepSelect \/ SweepUpdate \/ SweepFails
    <3>1. Harmless
      BY <2>3 DEF SweepSelect, SweepUpdate, SweepFails, Swept, Harmless, IInv, TypeOK
    <3> QED BY <3>1, HarmlessKeepsIInv
  <2> QED BY <1>5, <2>1, <2>2, <2>3 DEF System
<1>6. CASE UNCHANGED vars
  <2>1. Harmless
    BY <1>6 DEF vars, Harmless
  <2> QED BY <2>1, HarmlessKeepsIInv
<1> QED BY <1>1, <1>2, <1>3, <1>4, <1>5, <1>6 DEF Next

LEMMA InitIInv == Init => IInv
  BY AdmissionConstants
     DEF Init, IInv, TypeOK, PCs, LockHeld, InsertSeesNoRow,
         OperationExcludesRunningRow, AtMostOneRunning, LockHasItsUser, Running

\* At most one row of an application is in status 'running', whatever the
\* number of callers, cancellations, stale rows and restarts.
THEOREM OneRunningRow == Spec => []AtMostOneRunning
<1>1. IInv => AtMostOneRunning
  BY DEF IInv
<1> QED BY <1>1, TypeCorrect, InitIInv, NextKeepsIInv, PTL DEF Spec

\* No operation works under the project lock beside a running row.
THEOREM OperationsExcludeRows == Spec => []OperationExcludesRunningRow
<1>1. IInv => OperationExcludesRunningRow
  BY DEF IInv
<1> QED BY <1>1, TypeCorrect, InitIInv, NextKeepsIInv, PTL DEF Spec

\* Of running rows and working operations there is at most one.
THEOREM OneWorks == Spec => []OneAtWork
<1>1. IInv => OneAtWork
  BY AdmissionConstants DEF IInv, OneAtWork, Working, Running, AtMostOneRunning,
     OperationExcludesRunningRow, LockHeld
<1> QED BY <1>1, TypeCorrect, InitIInv, NextKeepsIInv, PTL DEF Spec

\* The lock is never left behind by a refusal, an error or a restart.
THEOREM LockIsNotLeaked == Spec => []LockHasItsUser
<1>1. IInv => LockHasItsUser
  BY DEF IInv
<1> QED BY <1>1, TypeCorrect, InitIInv, NextKeepsIInv, PTL DEF Spec

-----------------------------------------------------------------------------
(* Whose row it is.  A row that somebody is about to fail as overdue is not  *)
(* the row of a loop that works, since a loop is in activeDeployments before *)
(* its row is old; a cancellation raises its flag before it takes the row.   *)

Holding == Live \cup {"unlock"}
Rowless == {"idle", "skipped", "refused"} \cup (Admitting \ {"unlock"})

Unborn     == \A d \in Deployments : pc[d] \in Rowless => status[d] = "none"
Aged       == \A d \in overdue : status[d] # "none" /\ pc[d] \notin {"unlock", "register"}
Registered == \A d \in Deployments : pc[d] \in Live \ {"register"} => d \in active
StaleDead  == \A d \in Deployments : \A r \in stale[d] : r \in overdue /\ pc[r] \notin Holding
Asked      == \A d \in Deployments : request[d] # "none" =>
                  /\ status[d] # "none"
                  /\ request[d] = "flagged" /\ pc[d] \in Holding => d \in cancelled
Owned      == \A d \in Deployments : pc[d] \in Holding =>
                  status[d] = "running" \/ d \in cancelled \/ d \in orphans
Selected   == /\ \A d \in orphans : status[d] # "none"
              /\ boot \in {"init", "initLate"} => orphans = {}

RowInv == TypeOK /\ Selected /\ Unborn /\ Aged /\ Registered /\ StaleDead /\ Asked /\ Owned

LEMMA InitRowInv == Init => RowInv
  BY AdmissionConstants DEF Init, RowInv, TypeOK, PCs, Selected, Unborn, Aged, Registered, StaleDead,
     Asked, Owned, Holding, Live

LEMMA NextKeepsRowInv == RowInv /\ TypeOK' /\ [Next]_vars => RowInv'
<1> USE AdmissionConstants
<1> SUFFICES ASSUME RowInv, TypeOK', [Next]_vars PROVE RowInv'
  OBVIOUS
<1> USE DEF Goto, RowInv, TypeOK, Selected, Unborn, Aged, Registered, StaleDead, Asked, Owned,
            Holding, Rowless, Live, Admitting
<1>1. ASSUME NEW d \in Deployments, Admission(d) PROVE RowInv'
  <2>1. CASE Request(d)
    BY <2>1 DEF Request
  <2>2. CASE SelectRunning(d)
    BY <2>2 DEF SelectRunning
  <2>3. CASE FilterStale(d)
    BY <2>3 DEF FilterStale, StaleRows
  <2>4. CASE FailStale(d)
    BY <2>4 DEF FailStale
  <2>5. CASE DecideRunning(d)
    BY <2>5 DEF DecideRunning
  <2>6. CASE SetupIncomplete(d)
    BY <2>6 DEF SetupIncomplete
  <2>7. CASE TryLock(d)
    BY <2>7 DEF TryLock
  <2>8. CASE CheckUnderLock(d)
    BY <2>8 DEF CheckUnderLock
  <2>9. CASE InsertRow(d)
    BY <2>9 DEF InsertRow
  <2>10. CASE Unlock(d)
    BY <2>10 DEF Unlock
  <2> QED BY <1>1, <2>1, <2>2, <2>3, <2>4, <2>5, <2>6, <2>7, <2>8, <2>9, <2>10 DEF Admission
<1>2. ASSUME NEW d \in Deployments, Loop(d) PROVE RowInv'
  <2>1. CASE Register(d)
    BY <2>1 DEF Register
  <2>2. CASE Activate(d) \/ Accept(d)
    BY <2>2 DEF Activate, Accept
  <2>3. CASE Throw(d)
    BY <2>3 DEF Throw
  <2>4. CASE Finish(d)
    <3>1. status[d] # "none" => status'[d] # "none"
      BY <2>4 DEF Finish, FinalStatus
    <3> QED BY <2>4, <3>1 DEF Finish, FinalStatus
  <2>5. CASE FinishFails(d)
    BY <2>5 DEF FinishFails
  <2>6. CASE Close(d)
    BY <2>6 DEF Close
  <2> QED BY <1>2, <2>1, <2>2, <2>3, <2>4, <2>5, <2>6 DEF Loop
<1>3. ASSUME NEW d \in Deployments, Cancel(d) PROVE RowInv'
  <2>1. CASE CancelRead(d)
    BY <2>1 DEF CancelRead
  <2>2. CASE CancelFlag(d)
    BY <2>2 DEF CancelFlag
  <2>3. CASE CancelRow(d)
    BY <2>3 DEF CancelRow
  <2> QED BY <1>3, <2>1, <2>2, <2>3 DEF Cancel
<1>4. ASSUME NEW o \in Operations, Operate(o) PROVE RowInv'
  BY <1>4 DEF Operate, OpTryLock, OpCheck, OpRelease
<1>5. CASE System
  <2>1. ASSUME NEW d \in Deployments, Age(d) PROVE RowInv'
    BY <2>1 DEF Age
  <2>2. ASSUME NEW late \in BOOLEAN, Restart(late) PROVE RowInv'
    BY <2>2 DEF Restart, Ended
  <2>3. CASE SweepSelect
    BY <2>3 DEF SweepSelect, Running
  <2>4. CASE SweepUpdate
    BY <2>4 DEF SweepUpdate, Swept
  <2>5. CASE SweepFails
    BY <2>5 DEF SweepFails
  <2> QED BY <1>5, <2>1, <2>2, <2>3, <2>4, <2>5 DEF System
<1>6. CASE UNCHANGED vars
  BY <1>6 DEF vars
<1> QED BY <1>1, <1>2, <1>3, <1>4, <1>5, <1>6 DEF Next

\* No caller's auto-fail of overdue rows, no operation and no other loop takes
\* the row of a loop that works: only its cancellation and the late sweep do.
THEOREM LoopsOwnTheirRows == Spec => []LoopOwnsItsRow
<1>1. RowInv => LoopOwnsItsRow
  BY DEF RowInv, Owned, Holding, LoopOwnsItsRow
<1> QED BY <1>1, TypeCorrect, InitRowInv, NextKeepsRowInv, PTL DEF Spec

=============================================================================

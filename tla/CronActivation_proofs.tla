------------------------ MODULE CronActivation_proofs ------------------------
(***************************************************************************)
(* CronActivation: jobs and activations exclude each other, for any number *)
(* of projects, deployments, jobs and callers.  The argument: both sides   *)
(* decide under a lock of the project, so whichever commits second has     *)
(* seen the row of the first.                                              *)
(***************************************************************************)
EXTENDS CronActivation, TLAPS

\* What the advisory locks stand for.
LocksHeld ==
    /\ \A d \in Deployments :
          loop[d] \in {"locked", "clear"} => holder[ProjectOf[d]] = d
    /\ \A c \in Callers :
          /\ pc[c] \in {"locking", "claimed"} =>
                \A p \in owners[c] : p \in waiting[c] \/ holder[p] = c
          /\ pc[c] = "claimed" => waiting[c] = {}

\* A caller that is not ousted still has the row it read and claimed.
RowsStand ==
    /\ \A c \in Callers :
          /\ pc[c] # "idle" => mine[c] \in Jobs
          /\ pc[c] # "idle" /\ c \notin ousted => owners[c] = OwnersOf(mine[c])
          /\ pc[c] = "executing" /\ c \notin ousted => last[mine[c]] = "running"
          /\ pc[c] = "claimed" => last[mine[c]] # "running"
    /\ \A c, k \in Callers :
          c # k /\ pc[c] = "claimed" /\ pc[k] = "claimed" => mine[c] # mine[k]

\* The phase on the row tells that the directory is being replaced.
PhaseTells ==
    \A d \in Deployments :
        loop[d] \in Window /\ status[d] = "running" => phase[d] \in {"activate", "health"}

\* Neither side commits against the other.
NeitherCommits ==
    \A d \in Deployments, c \in Callers :
        c \notin ousted /\ ProjectOf[d] \in owners[c] =>
            /\ ~(loop[d] = "clear" /\ pc[c] = "executing")
            /\ ~(loop[d] \in Window /\ status[d] = "running" /\ pc[c] = "claimed")

IInv ==
    /\ TypeOK
    /\ LocksHeld
    /\ RowsStand
    /\ PhaseTells
    /\ NeitherCommits
    /\ ActivationExcludesJobs
    /\ JobRunsOnce

-----------------------------------------------------------------------------
\* A claim locks the projects whose activation looks for its job.
LEMMA OwnersConcerned ==
    ASSUME NEW j \in Jobs, NEW p \in OwnersOf(j)
    PROVE  Concerns(j, p)
  BY DEF OwnersOf, Concerns, Rows

LEMMA OwnersTyped ==
    ASSUME TypeOK, NEW j \in Jobs
    PROVE  OwnersOf(j) \in SUBSET Projects
  BY DEF TypeOK, OwnersOf

\* Releasing one session's locks leaves those of the others.
LEMMA FreedValues ==
    ASSUME TypeOK, NEW who
    PROVE  /\ Freed(who) \in [Projects -> Deployments \cup Callers \cup {Nobody}]
           /\ \A p \in Projects : Freed(who)[p] = IF holder[p] = who THEN Nobody ELSE holder[p]
  BY DEF TypeOK, Freed

LEMMA Apart ==
    ASSUME NEW d \in Deployments, NEW c \in Callers
    PROVE  d # c /\ d # Nobody /\ c # Nobody /\ ProjectOf[d] \in Projects
  BY CronConstants

-----------------------------------------------------------------------------
(* Deadlock: a claim takes its locks in ascending order, so that what it     *)
(* holds is below what it waits for.                                         *)

LocksAscend ==
    \A c \in Callers, p \in Projects : holder[p] = c =>
        /\ pc[c] \in {"locking", "claimed"}
        /\ \A q \in waiting[c] : p < q

\* A step that only frees locks, or gives one to a deployment, and leaves the
\* claims alone.
LEMMA OthersKeepAscending ==
    ASSUME LocksAscend, TypeOK, UNCHANGED <<pc, waiting>>,
           \A p \in Projects : holder'[p] = holder[p] \/ holder'[p] \notin Callers
    PROVE  LocksAscend'
  BY DEF LocksAscend

\* A step of a caller that frees all its locks.
LEMMA CallerFrees ==
    ASSUME LocksAscend, TypeOK, NEW c \in Callers, holder' = Freed(c),
           \/ \E out : Returns(c, out)
           \/ pc' = [pc EXCEPT ![c] = "executing"] /\ UNCHANGED waiting
    PROVE  LocksAscend'
<1>1. \A p \in Projects : holder'[p] # c
  BY CronConstants DEF Freed
<1>2. \A p \in Projects : holder'[p] \in Callers => holder'[p] = holder[p]
  BY CronConstants DEF Freed
<1>3. \A k \in Callers : k # c => pc'[k] = pc[k] /\ waiting'[k] = waiting[k]
  BY DEF Returns, TypeOK
<1> QED BY <1>1, <1>2, <1>3 DEF LocksAscend

LEMMA NextKeepsAscending == TypeOK /\ LocksAscend /\ [Next]_vars => LocksAscend'
<1> SUFFICES ASSUME TypeOK, LocksAscend, [Next]_vars PROVE LocksAscend'
  OBVIOUS
<1> USE DEF LocksAscend
<1>1. ASSUME NEW d \in Deployments, DeploymentStep(d) PROVE LocksAscend'
  <2>1. UNCHANGED <<pc, waiting>>
    BY <1>1 DEF DeploymentStep, Verify, Cancel, Check, LockActivation, SelectRunningJobs,
       CommitActivation, ActivationQueryFails, TryAgain, GiveUp, Started, Healthy, Unhealthy,
       Finish, Restored, cron
  <2>2. \A p \in Projects : holder'[p] = holder[p] \/ holder'[p] \notin Callers
    <3>1. UNCHANGED holder \/ holder' = Freed(d) \/ holder' = [holder EXCEPT ![ProjectOf[d]] = d]
      BY <1>1 DEF DeploymentStep, Verify, Cancel, Check, LockActivation, SelectRunningJobs,
         CommitActivation, ActivationQueryFails, TryAgain, GiveUp, Started, Healthy, Unhealthy,
         Finish, Restored
    <3>2. Freed(d) \in [Projects -> Deployments \cup Callers \cup {Nobody}]
      BY FreedValues
    <3>3. \A p \in Projects : Freed(d)[p] \in {holder[p], Nobody}
      BY FreedValues
    <3>4. d \notin Callers /\ Nobody \notin Callers /\ ProjectOf[d] \in Projects
      BY CronConstants
    <3> QED BY <3>1, <3>3, <3>4 DEF TypeOK
  <2> QED BY <2>1, <2>2, OthersKeepAscending
<1>2. ASSUME NEW c \in Callers, CallerStep(c) PROVE LocksAscend'
  <2>1. ASSUME NEW j \in Jobs, Call(c, j) PROVE LocksAscend'
    BY <2>1 DEF Call
  <2>2. ASSUME NEW p \in Projects, LockOwner(c, p) PROVE LocksAscend'
    <3>1. waiting[c] \subseteq Projects /\ Projects \subseteq Nat
      BY CronConstants DEF TypeOK
    <3>2. \A q \in waiting'[c] : p < q
      <4>1. waiting'[c] = waiting[c] \ {p} /\ \A q \in waiting[c] : p <= q
        BY <2>2 DEF LockOwner, InOrder, TypeOK
      <4>2. \A q \in waiting'[c] : q # p /\ p <= q /\ q \in Nat /\ p \in Nat
        BY <4>1, <3>1
      <4> QED BY <4>2
    <3>3. pc' = pc /\ pc[c] = "locking" /\ holder' = [holder EXCEPT ![p] = c]
      BY <2>2 DEF LockOwner
    <3>4. \A k \in Callers : waiting'[k] \subseteq waiting[k]
      BY <2>2 DEF LockOwner, TypeOK
    <3> QED BY <3>2, <3>3, <3>4 DEF TypeOK
  <2>3. CASE Claim(c)
    <3>1. CASE holder' = holder /\ waiting' = waiting /\ pc' = [pc EXCEPT ![c] = "claimed"]
      BY <3>1 DEF TypeOK
    <3>2. CASE holder' = Freed(c) /\ Returns(c, {})
      BY <3>2, CallerFrees
    <3> QED BY <2>3, <3>1, <3>2 DEF Claim
  <2>4. CASE CommitClaim(c)
    BY <2>4, CallerFrees DEF CommitClaim
  <2>5. CASE ClaimFails(c)
    BY <2>5, CallerFrees DEF ClaimFails, Returns
  <2>6. CASE Record(c) \/ RecordFails(c)
    <3>1. pc[c] = "executing" /\ holder' = holder
      BY <2>6 DEF Record, RecordFails
    <3>2. \A k \in Callers : k # c => pc'[k] = pc[k] /\ waiting'[k] = waiting[k]
      BY <2>6 DEF Record, RecordFails, Returns, TypeOK
    <3> QED BY <3>1, <3>2
  <2> QED BY <1>2, <2>1, <2>2, <2>3, <2>4, <2>5, <2>6 DEF CallerStep
<1>3. ASSUME NEW j \in Jobs, NEW p \in Projects, Reassign(j, p) PROVE LocksAscend'
  BY <1>3 DEF Reassign
<1>4. ASSUME NEW r \in BOOLEAN, Restart(r) PROVE LocksAscend'
  BY <1>4, CronConstants DEF Restart
<1>5. CASE SweepDeployments \/ RecoverCron
  BY <1>5 DEF SweepDeployments, RecoverCron, cron
<1>6. CASE UNCHANGED vars
  BY <1>6 DEF vars, cron
<1> QED BY <1>1, <1>2, <1>3, <1>4, <1>5, <1>6 DEF Next

LEMMA InitAscends == Init => LocksAscend
  BY CronConstants DEF Init, LocksAscend

USE CronConstants
    DEF IInv, TypeOK, Loops, LocksHeld, RowsStand, PhaseTells, NeitherCommits,
        ActivationExcludesJobs, JobRunsOnce, Window, OwnersOf, deployment, cron, process

\* A caller that returns disturbs nobody but those it takes the row from.
LEMMA CallerReturns ==
    ASSUME IInv, NEW c \in Callers, NEW out \in SUBSET Callers, Returns(c, out),
           holder' = holder \/ holder' = Freed(c), UNCHANGED <<deployment, project>>,
           \A k \in Callers \ {c} : k \notin out \/ pc[k] = "claimed" => last'[mine[k]] = last[mine[k]]
    PROVE  LocksHeld' /\ RowsStand' /\ PhaseTells' /\ NeitherCommits'
           /\ ActivationExcludesJobs' /\ JobRunsOnce'
<1>1. /\ pc'[c] = "idle" /\ mine'[c] = NoJob /\ owners'[c] = {}
      /\ \A k \in Callers \ {c} : /\ pc'[k] = pc[k] /\ mine'[k] = mine[k]
                                  /\ owners'[k] = owners[k] /\ waiting'[k] = waiting[k]
                                  /\ k \notin ousted' => k \notin ousted /\ k \notin out
  BY DEF Returns
<1>2. \A p \in Projects : holder[p] # c => holder'[p] = holder[p]
  BY FreedValues
<1>3. UNCHANGED <<status, phase, loop, project>>
  OBVIOUS
<1>4. LocksHeld'
  <2>1. ASSUME NEW d \in Deployments, loop[d] \in {"locked", "clear"}
        PROVE  holder'[ProjectOf[d]] = d
    <3>1. holder[ProjectOf[d]] = d /\ ProjectOf[d] \in Projects
      BY <2>1
    <3>2. d # c
      BY Apart
    <3> HIDE DEF IInv
    <3> QED BY <1>2, <3>1, <3>2
  <2>2. ASSUME NEW k \in Callers \ {c}, pc[k] \in {"locking", "claimed"}
        PROVE  /\ \A p \in owners[k] : p \in waiting[k] \/ holder'[p] = k
               /\ pc[k] = "claimed" => waiting[k] = {}
    BY <1>2, <2>2
  <2> HIDE DEF IInv
  <2> QED BY <1>1, <1>3, <2>1, <2>2
<1>5. RowsStand'
  <2>1. ASSUME NEW k \in Callers \ {c}
        PROVE  /\ pc[k] # "idle" => mine'[k] \in Jobs
               /\ pc[k] # "idle" /\ k \notin ousted' => (owners[k] = OwnersOf(mine[k]))'
               /\ pc[k] = "executing" /\ k \notin ousted' => last'[mine[k]] = "running"
               /\ pc[k] = "claimed" => last'[mine[k]] # "running"
    <3>1. /\ pc[k] # "idle" => mine[k] \in Jobs
          /\ pc[k] # "idle" /\ k \notin ousted => owners[k] = OwnersOf(mine[k])
          /\ pc[k] = "executing" /\ k \notin ousted => last[mine[k]] = "running"
          /\ pc[k] = "claimed" => last[mine[k]] # "running"
      OBVIOUS
    <3>2. k \notin out \/ pc[k] = "claimed" => last'[mine[k]] = last[mine[k]]
      OBVIOUS
    <3>3. /\ mine'[k] = mine[k] /\ owners'[k] = owners[k] /\ project' = project
          /\ k \notin ousted' => k \notin ousted /\ k \notin out
      BY <1>1, <1>3
    <3> HIDE DEF IInv
    <3> QED BY <3>1, <3>2, <3>3
  <2>2. \A k, l \in Callers :
           k # l /\ pc'[k] = "claimed" /\ pc'[l] = "claimed" => mine'[k] # mine'[l]
    BY <1>1
  <2> HIDE DEF IInv
  <2> QED BY <1>1, <2>1, <2>2
<1>6. PhaseTells' /\ NeitherCommits' /\ ActivationExcludesJobs' /\ JobRunsOnce'
  BY <1>1, <1>3
<1> QED BY <1>4, <1>5, <1>6

LEMMA VerifyStep ==
    ASSUME IInv, NEW d \in Deployments, Verify(d)
    PROVE  IInv'
<1>1. TypeOK'
  BY DEF Verify
<1>2. LocksHeld'
  BY DEF Verify
<1>3. RowsStand'
  BY DEF Verify
<1>4. PhaseTells'
  BY DEF Verify
<1>5. NeitherCommits'
  BY DEF Verify
<1>6. ActivationExcludesJobs'
  BY DEF Verify
<1>7. JobRunsOnce'
  BY DEF Verify
<1> QED BY <1>1, <1>2, <1>3, <1>4, <1>5, <1>6, <1>7

LEMMA CancelStep ==
    ASSUME IInv, NEW d \in Deployments, Cancel(d)
    PROVE  IInv'
<1>1. TypeOK'
  BY DEF Cancel
<1>2. LocksHeld'
  BY DEF Cancel
<1>3. RowsStand'
  BY DEF Cancel
<1>4. PhaseTells'
  BY DEF Cancel
<1>5. NeitherCommits'
  BY DEF Cancel
<1>6. ActivationExcludesJobs'
  BY DEF Cancel
<1>7. JobRunsOnce'
  BY DEF Cancel
<1> QED BY <1>1, <1>2, <1>3, <1>4, <1>5, <1>6, <1>7

LEMMA CheckStep ==
    ASSUME IInv, NEW d \in Deployments, Check(d)
    PROVE  IInv'
<1>1. TypeOK'
  <2>1. loop' \in [Deployments -> Loops]
    BY DEF Check, Fails
  <2>2. /\ status' \in [Deployments -> {"none", "running", "failed", "success"}]
        /\ phase' \in [Deployments -> {"build", "activate", "health", "complete", "failed"}]
        /\ cancelled' \in [Deployments -> BOOLEAN]
    <3>1. CASE cancelled[d]
      <4>1. Fails(d)
        BY <3>1 DEF Check
      <4> QED BY <4>1 DEF Fails
    <3>2. CASE ~cancelled[d]
      BY <3>2 DEF Check
    <3> QED BY <3>1, <3>2
  <2> QED BY <2>1, <2>2 DEF Check
<1>2. LocksHeld'
  BY DEF Check, Fails
<1>3. RowsStand'
  BY DEF Check, Fails
<1>4. PhaseTells'
  BY DEF Check, Fails
<1>5. NeitherCommits'
  BY DEF Check, Fails
<1>6. ActivationExcludesJobs'
  BY DEF Check, Fails
<1>7. JobRunsOnce'
  BY DEF Check, Fails
<1> QED BY <1>1, <1>2, <1>3, <1>4, <1>5, <1>6, <1>7

LEMMA LockActivationStep ==
    ASSUME IInv, NEW d \in Deployments, LockActivation(d)
    PROVE  IInv'
<1>1. TypeOK'
  BY DEF LockActivation
<1>2. LocksHeld'
  <2>1. /\ holder[ProjectOf[d]] = Nobody /\ ProjectOf[d] \in Projects
        /\ \A p \in Projects : holder'[p] = IF p = ProjectOf[d] THEN d ELSE holder[p]
    BY DEF LockActivation
  <2>2. ASSUME NEW e \in Deployments, loop'[e] \in {"locked", "clear"}
        PROVE  holder'[ProjectOf[e]] = e
    BY <2>1, <2>2 DEF LockActivation
  <2>3. ASSUME NEW c \in Callers, NEW p \in owners[c], holder[p] = c
        PROVE  holder'[p] = c
    BY <2>1, <2>3, Apart
  <2> QED BY <2>2, <2>3 DEF LockActivation
<1>3. RowsStand'
  BY DEF LockActivation
<1>4. PhaseTells'
  BY DEF LockActivation
<1>5. NeitherCommits'
  BY DEF LockActivation
<1>6. ActivationExcludesJobs'
  BY DEF LockActivation
<1>7. JobRunsOnce'
  BY DEF LockActivation
<1> QED BY <1>1, <1>2, <1>3, <1>4, <1>5, <1>6, <1>7

LEMMA SelectRunningJobsStep ==
    ASSUME IInv, NEW d \in Deployments, SelectRunningJobs(d)
    PROVE  IInv'
<1>f. /\ Freed(d) \in [Projects -> Deployments \cup Callers \cup {Nobody}]
      /\ \A p \in Projects : Freed(d)[p] = IF holder[p] = d THEN Nobody ELSE holder[p]
  BY FreedValues
<1>1. TypeOK'
  BY OwnersConcerned, <1>f DEF SelectRunningJobs, Blocking
<1>2. LocksHeld'
  <2>1. \A e \in Deployments \ {d}, p \in Projects : holder[p] = e => holder'[p] = e
    BY <1>f DEF SelectRunningJobs
  <2>2. \A c \in Callers, p \in Projects : holder[p] = c => holder'[p] = c
    BY <1>f, Apart DEF SelectRunningJobs
  <2>3. loop'[d] = "clear" => holder'[ProjectOf[d]] = d
    BY DEF SelectRunningJobs
  <2>4. \A e \in Deployments \ {d} : loop'[e] = loop[e]
    BY DEF SelectRunningJobs
  <2>5. loop'[d] \in {"busy", "clear"}
    BY DEF SelectRunningJobs
  <2> QED BY <2>1, <2>2, <2>3, <2>4, <2>5, Apart DEF SelectRunningJobs
<1>3. RowsStand'
  BY OwnersConcerned, <1>f DEF SelectRunningJobs, Blocking
<1>4. PhaseTells'
  BY OwnersConcerned, <1>f DEF SelectRunningJobs, Blocking
<1>5. NeitherCommits'
  <2>1. ASSUME NEW c \in Callers, c \notin ousted, ProjectOf[d] \in owners[c],
               pc[c] = "executing"
        PROVE  loop'[d] = "busy"
    <3>1. mine[c] \in Jobs /\ last[mine[c]] = "running" /\ ProjectOf[d] \in OwnersOf(mine[c])
      BY <2>1
    <3>2. Concerns(mine[c], ProjectOf[d])
      BY <3>1, OwnersConcerned
    <3> QED BY <3>1, <3>2 DEF SelectRunningJobs, Blocking
  <2>2. loop'[d] \notin Window /\ \A e \in Deployments \ {d} : loop'[e] = loop[e]
    BY DEF SelectRunningJobs
  <2>3. UNCHANGED <<status, pc, owners, ousted>>
    BY DEF SelectRunningJobs
  <2> QED BY <2>1, <2>2, <2>3
<1>6. ActivationExcludesJobs'
  BY OwnersConcerned, <1>f DEF SelectRunningJobs, Blocking
<1>7. JobRunsOnce'
  BY OwnersConcerned, <1>f DEF SelectRunningJobs, Blocking
<1> QED BY <1>1, <1>2, <1>3, <1>4, <1>5, <1>6, <1>7

LEMMA CommitActivationStep ==
    ASSUME IInv, NEW d \in Deployments, CommitActivation(d)
    PROVE  IInv'
<1>f. /\ Freed(d) \in [Projects -> Deployments \cup Callers \cup {Nobody}]
      /\ \A p \in Projects : Freed(d)[p] = IF holder[p] = d THEN Nobody ELSE holder[p]
  BY FreedValues
<1>1. TypeOK'
  BY <1>f DEF CommitActivation
<1>2. LocksHeld'
  <2>1. \A e \in Deployments \ {d}, p \in Projects : holder[p] = e => holder'[p] = e
    BY <1>f DEF CommitActivation
  <2>2. \A c \in Callers, p \in Projects : holder[p] = c => holder'[p] = c
    BY <1>f, Apart DEF CommitActivation
  <2>3. loop'[d] = "activating" /\ \A e \in Deployments \ {d} : loop'[e] = loop[e]
    BY DEF CommitActivation
  <2>4. UNCHANGED <<pc, owners, waiting>>
    BY DEF CommitActivation
  <2>5. \A e \in Deployments : loop'[e] \in {"locked", "clear"} => holder'[ProjectOf[e]] = e
    BY <2>1, <2>3
  <2>6. ASSUME NEW k \in Callers, NEW p \in owners[k]
        PROVE  p \in Projects /\ (holder[p] = k => holder'[p] = k)
    <3>1. p \in Projects
      OBVIOUS
    <3> HIDE DEF IInv
    <3> QED BY <2>2, <3>1
  <2>7. \A k \in Callers : pc[k] = "claimed" => waiting[k] = {}
    OBVIOUS
  <2>8. ASSUME NEW k \in Callers, pc[k] \in {"locking", "claimed"}, NEW p \in owners[k]
        PROVE  p \in waiting[k] \/ holder'[p] = k
    BY <2>6, <2>8
  <2> QED BY <2>4, <2>5, <2>7, <2>8
<1>3. RowsStand'
  BY <1>f DEF CommitActivation
<1>4. PhaseTells'
  BY <1>f DEF CommitActivation
<1>5. NeitherCommits'
  <2>1. ASSUME NEW c \in Callers, ProjectOf[d] \in owners[c] PROVE pc[c] # "claimed"
    <3>1. holder[ProjectOf[d]] = d
      BY DEF CommitActivation
    <3>2. pc[c] = "claimed" => holder[ProjectOf[d]] = c
      BY <2>1
    <3> QED BY <3>1, <3>2, Apart
  <2>2. loop'[d] = "activating" /\ \A e \in Deployments \ {d} : loop'[e] = loop[e]
    BY DEF CommitActivation
  <2>3. UNCHANGED <<status, pc, owners, ousted>>
    BY DEF CommitActivation
  <2> QED BY <2>1, <2>2, <2>3
<1>6. ActivationExcludesJobs'
  BY <1>f DEF CommitActivation
<1>7. JobRunsOnce'
  BY <1>f DEF CommitActivation
<1> QED BY <1>1, <1>2, <1>3, <1>4, <1>5, <1>6, <1>7

LEMMA ActivationQueryFailsStep ==
    ASSUME IInv, NEW d \in Deployments, ActivationQueryFails(d)
    PROVE  IInv'
<1>f. /\ Freed(d) \in [Projects -> Deployments \cup Callers \cup {Nobody}]
      /\ \A p \in Projects : Freed(d)[p] = IF holder[p] = d THEN Nobody ELSE holder[p]
  BY FreedValues
<1>1. TypeOK'
  BY <1>f DEF ActivationQueryFails, Fails, Fault
<1>2. LocksHeld'
  <2>1. \A e \in Deployments \ {d}, p \in Projects : holder[p] = e => holder'[p] = e
    BY <1>f DEF ActivationQueryFails
  <2>2. \A c \in Callers, p \in Projects : holder[p] = c => holder'[p] = c
    BY <1>f, Apart DEF ActivationQueryFails
  <2>3. loop'[d] = "over" /\ \A e \in Deployments \ {d} : loop'[e] = loop[e]
    BY DEF ActivationQueryFails, Fails
  <2>4. UNCHANGED <<pc, owners, waiting>>
    BY DEF ActivationQueryFails, Fails, cron
  <2>5. ASSUME NEW e \in Deployments, loop'[e] \in {"locked", "clear"}
        PROVE  holder'[ProjectOf[e]] = e
    <3>1. e # d /\ loop[e] \in {"locked", "clear"}
      BY <2>3, <2>5
    <3>2. holder[ProjectOf[e]] = e
      BY <3>1
    <3> QED BY <2>1, <3>1, <3>2
  <2>6. ASSUME NEW c \in Callers, pc'[c] \in {"locking", "claimed"},
               NEW p \in owners'[c]
        PROVE  p \in waiting'[c] \/ holder'[p] = c
    <3>1. p \in owners[c] /\ (p \in waiting[c] \/ holder[p] = c)
      BY <2>4, <2>6
    <3>2. p \in Projects
      BY <3>1
    <3> QED BY <2>2, <2>4, <3>1, <3>2
  <2>7. \A c \in Callers : pc'[c] = "claimed" => waiting'[c] = {}
    BY <2>4
  <2> QED BY <2>5, <2>6, <2>7
<1>3. RowsStand'
  BY <1>f DEF ActivationQueryFails, Fails, Fault
<1>4. PhaseTells'
  BY <1>f DEF ActivationQueryFails, Fails, Fault
<1>5. NeitherCommits'
  BY <1>f DEF ActivationQueryFails, Fails, Fault
<1>6. ActivationExcludesJobs'
  BY <1>f DEF ActivationQueryFails, Fails, Fault
<1>7. JobRunsOnce'
  BY <1>f DEF ActivationQueryFails, Fails, Fault
<1> QED BY <1>1, <1>2, <1>3, <1>4, <1>5, <1>6, <1>7

LEMMA TryAgainStep ==
    ASSUME IInv, NEW d \in Deployments, TryAgain(d)
    PROVE  IInv'
<1>1. TypeOK'
  BY DEF TryAgain
<1>2. LocksHeld'
  BY DEF TryAgain
<1>3. RowsStand'
  BY DEF TryAgain
<1>4. PhaseTells'
  BY DEF TryAgain
<1>5. NeitherCommits'
  BY DEF TryAgain
<1>6. ActivationExcludesJobs'
  BY DEF TryAgain
<1>7. JobRunsOnce'
  BY DEF TryAgain
<1> QED BY <1>1, <1>2, <1>3, <1>4, <1>5, <1>6, <1>7

LEMMA GiveUpStep ==
    ASSUME IInv, NEW d \in Deployments, GiveUp(d)
    PROVE  IInv'
<1>1. TypeOK'
  BY DEF GiveUp, Fails
<1>2. LocksHeld'
  BY DEF GiveUp, Fails
<1>3. RowsStand'
  BY DEF GiveUp, Fails
<1>4. PhaseTells'
  BY DEF GiveUp, Fails
<1>5. NeitherCommits'
  BY DEF GiveUp, Fails
<1>6. ActivationExcludesJobs'
  BY DEF GiveUp, Fails
<1>7. JobRunsOnce'
  BY DEF GiveUp, Fails
<1> QED BY <1>1, <1>2, <1>3, <1>4, <1>5, <1>6, <1>7

LEMMA StartedStep ==
    ASSUME IInv, NEW d \in Deployments, Started(d)
    PROVE  IInv'
<1>1. TypeOK'
  BY DEF Started
<1>2. LocksHeld'
  BY DEF Started
<1>3. RowsStand'
  BY DEF Started
<1>4. PhaseTells'
  BY DEF Started
<1>5. NeitherCommits'
  BY DEF Started
<1>6. ActivationExcludesJobs'
  BY DEF Started
<1>7. JobRunsOnce'
  BY DEF Started
<1> QED BY <1>1, <1>2, <1>3, <1>4, <1>5, <1>6, <1>7

LEMMA HealthyStep ==
    ASSUME IInv, NEW d \in Deployments, Healthy(d)
    PROVE  IInv'
<1>1. TypeOK'
  BY DEF Healthy
<1>2. LocksHeld'
  BY DEF Healthy
<1>3. RowsStand'
  BY DEF Healthy
<1>4. PhaseTells'
  BY DEF Healthy
<1>5. NeitherCommits'
  BY DEF Healthy
<1>6. ActivationExcludesJobs'
  BY DEF Healthy
<1>7. JobRunsOnce'
  BY DEF Healthy
<1> QED BY <1>1, <1>2, <1>3, <1>4, <1>5, <1>6, <1>7

LEMMA UnhealthyStep ==
    ASSUME IInv, NEW d \in Deployments, Unhealthy(d)
    PROVE  IInv'
<1>1. TypeOK'
  BY DEF Unhealthy
<1>2. LocksHeld'
  BY DEF Unhealthy
<1>3. RowsStand'
  BY DEF Unhealthy
<1>4. PhaseTells'
  BY DEF Unhealthy
<1>5. NeitherCommits'
  BY DEF Unhealthy
<1>6. ActivationExcludesJobs'
  BY DEF Unhealthy
<1>7. JobRunsOnce'
  BY DEF Unhealthy
<1> QED BY <1>1, <1>2, <1>3, <1>4, <1>5, <1>6, <1>7

LEMMA FinishStep ==
    ASSUME IInv, NEW d \in Deployments, Finish(d)
    PROVE  IInv'
<1>1. TypeOK'
  BY DEF Finish
<1>2. LocksHeld'
  BY DEF Finish
<1>3. RowsStand'
  BY DEF Finish
<1>4. PhaseTells'
  BY DEF Finish
<1>5. NeitherCommits'
  BY DEF Finish
<1>6. ActivationExcludesJobs'
  BY DEF Finish
<1>7. JobRunsOnce'
  BY DEF Finish
<1> QED BY <1>1, <1>2, <1>3, <1>4, <1>5, <1>6, <1>7

LEMMA RestoredStep ==
    ASSUME IInv, NEW d \in Deployments, Restored(d)
    PROVE  IInv'
<1>1. TypeOK'
  BY DEF Restored, Fails
<1>2. LocksHeld'
  BY DEF Restored, Fails
<1>3. RowsStand'
  BY DEF Restored, Fails
<1>4. PhaseTells'
  BY DEF Restored, Fails
<1>5. NeitherCommits'
  BY DEF Restored, Fails
<1>6. ActivationExcludesJobs'
  BY DEF Restored, Fails
<1>7. JobRunsOnce'
  BY DEF Restored, Fails
<1> QED BY <1>1, <1>2, <1>3, <1>4, <1>5, <1>6, <1>7

LEMMA ClaimStep ==
    ASSUME IInv, NEW c \in Callers, Claim(c)
    PROVE  IInv'
<1>1. CASE ~Claimable(mine[c])
  <2>2. Returns(c, {}) /\ holder' = Freed(c) /\ UNCHANGED <<deployment, project, last>>
    BY <1>1 DEF Claim
  <2>3. UNCHANGED <<process, faults>>
    BY DEF Claim
  <2>4. TypeOK'
    BY <2>2, <2>3, FreedValues DEF Returns
  <2> QED BY <2>2, <2>4, CallerReturns
<1>2. CASE Claimable(mine[c])
  <2>1. /\ pc' = [pc EXCEPT ![c] = "claimed"] /\ pc[c] = "locking" /\ waiting[c] = {}
        /\ UNCHANGED <<deployment, project, last, holder, mine, owners, waiting, ousted, process, faults>>
    BY <1>2 DEF Claim
  <2>2. pc'[c] = "claimed" /\ \A k \in Callers \ {c} : pc'[k] = pc[k]
    BY <2>1
  <2>3. last[mine[c]] # "running"
    BY <1>2 DEF Claimable
  <2>4. \A k \in Callers : pc[k] = "claimed" => mine[k] # mine[c]
    BY DEF Claim, RowFree
  <2>5. TypeOK'
    BY <2>1
  <2>6. LocksHeld'
    BY <2>1, <2>2
  <2>7. RowsStand'
    BY <2>1, <2>2, <2>3, <2>4
  <2>8. ASSUME NEW d \in Deployments, ProjectOf[d] \in owners[c], c \notin ousted
        PROVE  ~(loop[d] \in Window /\ status[d] = "running")
    <3>1. mine[c] \in Jobs /\ ProjectOf[d] \in OwnersOf(mine[c])
      BY <2>1, <2>8
    <3>2. ~InActivation(d)
      BY <1>2, <3>1, OwnersConcerned DEF Claimable
    <3> QED BY <3>2 DEF InActivation
  <2>9. NeitherCommits'
    BY <2>1, <2>2, <2>8
  <2>10. PhaseTells' /\ ActivationExcludesJobs' /\ JobRunsOnce'
    BY <2>1, <2>2
  <2> QED BY <2>5, <2>6, <2>7, <2>9, <2>10
<1> QED BY <1>1, <1>2

LEMMA CommitClaimStep ==
    ASSUME IInv, NEW c \in Callers, CommitClaim(c)
    PROVE  IInv'
<1>f. /\ Freed(c) \in [Projects -> Deployments \cup Callers \cup {Nobody}]
      /\ \A p \in Projects : Freed(c)[p] = IF holder[p] = c THEN Nobody ELSE holder[p]
  BY FreedValues
<1>1. TypeOK'
  BY <1>f DEF CommitClaim
<1>2. LocksHeld'
  <2>1. \A k \in Callers \ {c}, p \in Projects : holder[p] = k => holder'[p] = k
    BY <1>f DEF CommitClaim
  <2>2. \A d \in Deployments, p \in Projects : holder[p] = d => holder'[p] = d
    BY <1>f, Apart DEF CommitClaim
  <2>3. pc'[c] = "executing" /\ \A k \in Callers \ {c} : pc'[k] = pc[k]
    BY DEF CommitClaim
  <2>4. UNCHANGED <<loop, owners, waiting>>
    BY DEF CommitClaim
  <2> QED BY <2>1, <2>2, <2>3, <2>4, Apart
<1>3. RowsStand'
  BY <1>f DEF CommitClaim
<1>4. PhaseTells'
  BY <1>f DEF CommitClaim
<1>5. NeitherCommits'
  <2>1. ASSUME NEW d \in Deployments, ProjectOf[d] \in owners[c] PROVE loop[d] # "clear"
    <3>1. holder[ProjectOf[d]] = c
      BY <2>1 DEF CommitClaim
    <3> QED BY <3>1, Apart
  <2>2. pc'[c] = "executing" /\ \A k \in Callers \ {c} : pc'[k] = pc[k]
    BY DEF CommitClaim
  <2>3. UNCHANGED <<status, loop, owners, ousted>>
    BY DEF CommitClaim
  <2> QED BY <2>1, <2>2, <2>3
<1>6. ActivationExcludesJobs'
  BY <1>f DEF CommitClaim
<1>7. JobRunsOnce'
  BY <1>f DEF CommitClaim
<1> QED BY <1>1, <1>2, <1>3, <1>4, <1>5, <1>6, <1>7

LEMMA ClaimFailsStep ==
    ASSUME IInv, NEW c \in Callers, ClaimFails(c)
    PROVE  IInv'
<1>1. TypeOK'
  BY FreedValues DEF ClaimFails, Returns, Fault
<1>2. Returns(c, {}) /\ holder' = Freed(c) /\ UNCHANGED <<deployment, project, last>>
  BY DEF ClaimFails
<1> QED BY <1>1, <1>2, CallerReturns

LEMMA RecordStep ==
    ASSUME IInv, NEW c \in Callers, Record(c)
    PROVE  IInv'
<1> DEFINE out == {k \in Callers : mine[k] = mine[c]}
<1>1. TypeOK'
  BY DEF Record, Returns
<1>2. Returns(c, out) /\ UNCHANGED <<holder, deployment, project>>
  BY DEF Record
<1>3. \A k \in Callers \ {c} : k \notin out \/ pc[k] = "claimed" => last'[mine[k]] = last[mine[k]]
  <2>1. last' = [last EXCEPT ![mine[c]] = "over"] /\ last \in [Jobs -> {"idle", "running", "over", "interrupted"}]
    BY DEF Record
  <2>2. \A k \in Callers \ {c} : k \notin out \/ pc[k] = "claimed" => mine[k] # mine[c]
    BY DEF Record, RowFree
  <2> QED BY <2>1, <2>2
<1> HIDE DEF out
<1>4. out \in SUBSET Callers
  BY DEF out
<1> QED BY <1>1, <1>2, <1>3, <1>4, CallerReturns

LEMMA RecordFailsStep ==
    ASSUME IInv, NEW c \in Callers, RecordFails(c)
    PROVE  IInv'
<1>1. TypeOK'
  BY DEF RecordFails, Returns, Fault
<1>2. Returns(c, {}) /\ UNCHANGED <<holder, deployment, project, last>>
  BY DEF RecordFails
<1> QED BY <1>1, <1>2, CallerReturns

LEMMA CallStep ==
    ASSUME IInv, NEW c \in Callers, NEW j \in Jobs, Call(c, j)
    PROVE  IInv'
<1>1. TypeOK'
  BY OwnersTyped DEF Call
<1>2. LocksHeld'
  BY OwnersTyped DEF Call
<1>3. RowsStand'
  <2>1. /\ pc'[c] = "locking" /\ mine'[c] = j /\ owners'[c] = OwnersOf(j)
        /\ \A k \in Callers \ {c} : pc'[k] = pc[k] /\ mine'[k] = mine[k] /\ owners'[k] = owners[k]
    BY DEF Call
  <2>2. UNCHANGED <<last, project, ousted>>
    BY DEF Call
  <2>3. ASSUME NEW k \in Callers \ {c}
        PROVE  /\ pc'[k] # "idle" => mine'[k] \in Jobs
               /\ pc'[k] # "idle" /\ k \notin ousted' => (owners[k] = OwnersOf(mine[k]))'
               /\ pc'[k] = "executing" /\ k \notin ousted' => last'[mine'[k]] = "running"
               /\ pc'[k] = "claimed" => last'[mine'[k]] # "running"
    <3>1. /\ pc[k] # "idle" => mine[k] \in Jobs
          /\ pc[k] # "idle" /\ k \notin ousted => owners[k] = OwnersOf(mine[k])
          /\ pc[k] = "executing" /\ k \notin ousted => last[mine[k]] = "running"
          /\ pc[k] = "claimed" => last[mine[k]] # "running"
      OBVIOUS
    <3>2. pc'[k] = pc[k] /\ mine'[k] = mine[k] /\ owners'[k] = owners[k]
      BY <2>1
    <3> HIDE DEF IInv
    <3> QED BY <2>2, <3>1, <3>2
  <2>4. (owners[c] = OwnersOf(mine[c]))'
    BY <2>1, <2>2
  <2>5. \A k, l \in Callers :
           k # l /\ pc'[k] = "claimed" /\ pc'[l] = "claimed" => mine'[k] # mine'[l]
    BY <2>1
  <2> HIDE DEF IInv
  <2> QED BY <2>1, <2>3, <2>4, <2>5
<1>4. PhaseTells'
  BY OwnersTyped DEF Call
<1>5. NeitherCommits'
  BY OwnersTyped DEF Call
<1>6. ActivationExcludesJobs'
  BY OwnersTyped DEF Call
<1>7. JobRunsOnce'
  BY OwnersTyped DEF Call
<1> QED BY <1>1, <1>2, <1>3, <1>4, <1>5, <1>6, <1>7

LEMMA LockOwnerStep ==
    ASSUME IInv, NEW c \in Callers, NEW p \in Projects, LockOwner(c, p)
    PROVE  IInv'
<1>1. TypeOK'
  BY DEF LockOwner, InOrder
<1>2. LocksHeld'
  BY DEF LockOwner, InOrder
<1>3. RowsStand'
  BY DEF LockOwner, InOrder
<1>4. PhaseTells'
  BY DEF LockOwner, InOrder
<1>5. NeitherCommits'
  BY DEF LockOwner, InOrder
<1>6. ActivationExcludesJobs'
  BY DEF LockOwner, InOrder
<1>7. JobRunsOnce'
  BY DEF LockOwner, InOrder
<1> QED BY <1>1, <1>2, <1>3, <1>4, <1>5, <1>6, <1>7

LEMMA ReassignStep ==
    ASSUME IInv, NEW j \in Jobs, NEW p \in Projects, Reassign(j, p)
    PROVE  IInv'
<1>1. TypeOK'
  BY DEF Reassign, RowFree
<1>2. LocksHeld'
  BY DEF Reassign, RowFree
<1>3. RowsStand'
  BY DEF Reassign, RowFree
<1>4. PhaseTells'
  BY DEF Reassign, RowFree
<1>5. NeitherCommits'
  BY DEF Reassign, RowFree
<1>6. ActivationExcludesJobs'
  BY DEF Reassign, RowFree
<1>7. JobRunsOnce'
  BY DEF Reassign, RowFree
<1> QED BY <1>1, <1>2, <1>3, <1>4, <1>5, <1>6, <1>7

LEMMA RestartStep ==
    ASSUME IInv, NEW m \in BOOLEAN, Restart(m)
    PROVE  IInv'
<1>1. TypeOK'
  BY DEF Restart
<1>2. LocksHeld'
  BY DEF Restart
<1>3. RowsStand'
  BY DEF Restart
<1>4. PhaseTells'
  BY DEF Restart
<1>5. NeitherCommits'
  BY DEF Restart
<1>6. ActivationExcludesJobs'
  BY DEF Restart
<1>7. JobRunsOnce'
  BY DEF Restart
<1> QED BY <1>1, <1>2, <1>3, <1>4, <1>5, <1>6, <1>7

LEMMA SweepDeploymentsStep ==
    ASSUME IInv, SweepDeployments
    PROVE  IInv'
<1>1. TypeOK'
  BY DEF SweepDeployments
<1>2. LocksHeld'
  BY DEF SweepDeployments
<1>3. RowsStand'
  BY DEF SweepDeployments
<1>4. PhaseTells'
  BY DEF SweepDeployments
<1>5. NeitherCommits'
  BY DEF SweepDeployments
<1>6. ActivationExcludesJobs'
  BY DEF SweepDeployments
<1>7. JobRunsOnce'
  BY DEF SweepDeployments
<1> QED BY <1>1, <1>2, <1>3, <1>4, <1>5, <1>6, <1>7

LEMMA RecoverCronStep ==
    ASSUME IInv, RecoverCron
    PROVE  IInv'
<1>1. TypeOK'
  BY DEF RecoverCron, RowFree
<1>2. LocksHeld'
  BY DEF RecoverCron, RowFree
<1>3. RowsStand'
  BY DEF RecoverCron, RowFree
<1>4. PhaseTells'
  BY DEF RecoverCron, RowFree
<1>5. NeitherCommits'
  BY DEF RecoverCron, RowFree
<1>6. ActivationExcludesJobs'
  BY DEF RecoverCron, RowFree
<1>7. JobRunsOnce'
  BY DEF RecoverCron, RowFree
<1> QED BY <1>1, <1>2, <1>3, <1>4, <1>5, <1>6, <1>7

LEMMA StutterStep ==
    ASSUME IInv, UNCHANGED vars
    PROVE  IInv'
<1>1. TypeOK'
  BY DEF vars
<1>2. LocksHeld'
  BY DEF vars
<1>3. RowsStand'
  BY DEF vars
<1>4. PhaseTells'
  BY DEF vars
<1>5. NeitherCommits'
  BY DEF vars
<1>6. ActivationExcludesJobs'
  BY DEF vars
<1>7. JobRunsOnce'
  BY DEF vars
<1> QED BY <1>1, <1>2, <1>3, <1>4, <1>5, <1>6, <1>7

HIDE DEF IInv, TypeOK, LocksHeld, RowsStand, PhaseTells, NeitherCommits,
         ActivationExcludesJobs, JobRunsOnce

LEMMA InitHolds == Init => IInv
<1> SUFFICES ASSUME Init PROVE IInv
  OBVIOUS
<1>1. TypeOK
  <2>1. MaxRestarts \in Nat /\ MaxFaults \in Nat
    BY CronConstants
  <2>2. project \in [Jobs -> Projects \cup {NoProject}]
    BY CronConstants DEF Init
  <2>3. 0 \in 0..MaxRestarts /\ 0 \in 0..MaxFaults
    BY <2>1
  <2> QED BY <2>2, <2>3 DEF Init, TypeOK, Loops
<1>2. /\ \A c \in Callers : pc[c] = "idle" /\ owners[c] = {}
      /\ \A d \in Deployments : loop[d] = "idle" /\ status[d] = "none"
  BY DEF Init
<1> QED BY <1>1, <1>2 DEF IInv, LocksHeld, RowsStand, PhaseTells, NeitherCommits,
         ActivationExcludesJobs, JobRunsOnce

LEMMA NextHolds == IInv /\ [Next]_vars => IInv'
<1> SUFFICES ASSUME IInv, [Next]_vars PROVE IInv'
  OBVIOUS
<1> QED
  BY VerifyStep, CancelStep, CheckStep, LockActivationStep,
     SelectRunningJobsStep, CommitActivationStep, ActivationQueryFailsStep,
     TryAgainStep, GiveUpStep, StartedStep, HealthyStep, UnhealthyStep,
     FinishStep, RestoredStep, ClaimStep, CommitClaimStep, ClaimFailsStep,
     RecordStep, RecordFailsStep, CallStep, LockOwnerStep, ReassignStep,
     RestartStep, SweepDeploymentsStep, RecoverCronStep, StutterStep
  DEF Next, DeploymentStep, CallerStep

LEMMA Inductive == Spec => []IInv
  BY InitHolds, NextHolds, PTL DEF Spec

\* Every variable of the protocol keeps its type.
THEOREM TypeCorrect == Spec => []TypeOK
<1>1. IInv => TypeOK
  BY DEF IInv
<1> QED BY Inductive, <1>1, PTL

\* beginReleaseActivation and executeCronJob exclude each other: no job works
\* in a project while its directory is replaced, whatever the number of
\* projects, jobs and calls, across restarts and failing transactions.
THEOREM JobsStayOut == Spec => []ActivationExcludesJobs
<1>1. IInv => ActivationExcludesJobs
  BY DEF IInv
<1> QED BY Inductive, <1>1, PTL

\* The claim in executeCronJob lets one execution of a job run at a time.
THEOREM OneExecution == Spec => []JobRunsOnce
<1>1. IInv => JobRunsOnce
  BY DEF IInv
<1> QED BY Inductive, <1>1, PTL

-----------------------------------------------------------------------------
\* Two claims never hold locks the other one waits for next.
THEOREM ClaimsDoNotDeadlock == Spec => []NoLockCycle
<1>1. IInv /\ LocksAscend => NoLockCycle
  <2> SUFFICES ASSUME IInv, LocksAscend, NEW c \in Callers, NEW k \in Callers, c # k,
                      WaitsFor(c, k), WaitsFor(k, c)
               PROVE  FALSE
    BY DEF NoLockCycle
  <2>1. PICK p \in waiting[c] : holder[p] = k
    BY DEF WaitsFor
  <2>2. PICK q \in waiting[k] : holder[q] = c
    BY DEF WaitsFor
  <2>3. p \in Nat /\ q \in Nat /\ p \in Projects /\ q \in Projects
    BY DEF IInv, TypeOK
  <2>4. q < p /\ p < q
    BY <2>1, <2>2, <2>3 DEF LocksAscend
  <2> QED BY <2>3, <2>4
<1>2. IInv => TypeOK
  BY DEF IInv
<1> QED BY <1>1, <1>2, Inductive, InitAscends, NextKeepsAscending, PTL DEF Spec

=============================================================================

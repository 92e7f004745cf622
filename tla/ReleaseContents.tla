--------------------------- MODULE ReleaseContents ---------------------------
(***************************************************************************)
(* DeploymentRelease in activation mode 'contents' (Windows): code moves   *)
(* path by path between the live root, the candidate and the archive of    *)
(* the previous release, under a journal that is replaced atomically.      *)
(*                                                                         *)
(* A path is an entry that planContentMoves would move as one piece; the   *)
(* directories above it are abstracted, except the root, which the first   *)
(* deployment has to create.  Contents are told apart by their origin.     *)
(* What the deployment loop does around the release (health, rollback) is  *)
(* the choice between Complete and BeginRollback.                          *)
(***************************************************************************)
EXTENDS Naturals

CONSTANT N      \* number of paths, in the order planContentMoves sorts them

ASSUME ReleaseConstants == N \in Nat

Paths == 1..N

\* "old": tracked code of the current release; "local": ignored or untracked;
\* "new": supplied by the candidate; "data": written by the started candidate.
Contents == {"none", "old", "local", "new", "data"}
Places   == {"root", "previous", "candidate"}
Halves   == {"out", "in"}     \* root -> previous, candidate -> root
States   == {"none", "planned", "pending", "done", "reverted"}
Phases   == {"none", "building", "activating", "complete", "restoring", "rolled-back"}

VARIABLES
    place,      \* what lies at each path of each directory
    rootDir,    \* the live root directory exists
    persistent, \* this.persistent, computed by prepare()
    phase, moves, created,  \* this.phase, .contentMoves, .createdLiveDirectories
    disk,       \* release.json, as last replaced
    pc,         \* where the release is
    at, half,   \* the move the loops are at
    cancelled,  \* the deployment's row has failed while its loop goes on
    next        \* prepare() of the following deployment

around == <<cancelled, next>>
vars == <<place, rootDir, persistent, phase, moves, created, disk, pc, at, half, around>>

Activating == {"plan", "archive", "move", "pending", "rename", "mark", "mkdir"}
Restoring  == {"reverse", "reverted", "rmdir"}
Stopped    == {"end", "attention", "crashed"}

TypeOK ==
    /\ place \in [Places -> [Paths -> Contents]]
    /\ rootDir \in BOOLEAN
    /\ persistent \subseteq Paths
    /\ phase \in Phases
    /\ moves \in [Paths -> [Halves -> States]]
    /\ created \in BOOLEAN
    /\ disk \in [phase : Phases, moves : [Paths -> [Halves -> States]], created : BOOLEAN]
    /\ pc \in {"start", "building", "ready", "activated", "failed"}
              \cup Activating \cup Restoring \cup Stopped
    /\ at \in 0..(N + 1)
    /\ half \in Halves
    /\ cancelled \in BOOLEAN
    /\ next \in {"none", "refused", "admitted", "early"}

Nothing == [p \in Paths |-> "none"]
NoMoves == [p \in Paths |-> [h \in Halves |-> "none"]]

Init ==
    /\ \E live \in [Paths -> {"none", "old", "local"}] :
          /\ place = [l \in Places |-> IF l = "root" THEN live ELSE Nothing]
          /\ rootDir \in {b \in BOOLEAN : b \/ live = Nothing}
    /\ persistent = {}
    /\ phase = "building" /\ moves = NoMoves /\ created = FALSE
    /\ disk = [phase |-> "none", moves |-> NoMoves, created |-> FALSE]
    /\ pc = "start" /\ at = 1 /\ half = "out"
    /\ cancelled = FALSE /\ next = "none"

\* journal(): temporary file, fsync, rename over release.json; on an error the
\* old file stays and the caller sees the exception.
Journal(then, thrown) ==
    \/ /\ disk' = [phase |-> phase', moves |-> moves', created |-> created']
       /\ pc' = then
    \/ disk' = disk /\ pc' = thrown

Exists(l, p) == place[l][p] # "none"
From(h) == IF h = "out" THEN "root" ELSE "candidate"
To(h)   == IF h = "out" THEN "previous" ELSE "root"

\* rename(): the destination is replaced if there is one.
Moved(l, k, p) ==
    [place EXCEPT ![l][p] = "none", ![k][p] = place[l][p]]

Marked(s) == [moves EXCEPT ![at][half] = s]

-----------------------------------------------------------------------------
(* prepare() and the build                                                 *)

\* git ls-files --others, with and without --ignored
LocalPaths == {p \in Paths : place["root"][p] = "local"}

Prepare ==
    /\ pc = "start"
    /\ persistent' = LocalPaths
    /\ UNCHANGED <<place, rootDir, phase, moves, created, at, half, around>>
    /\ Journal("building", "end")

\* The current release keeps running: it may write files that git ignores.
LocalWrite(p) ==
    /\ pc = "building" /\ rootDir /\ ~Exists("root", p)
    /\ place' = [place EXCEPT !["root"][p] = "local"]
    /\ UNCHANGED <<rootDir, persistent, phase, moves, created, disk, pc, at, half, around>>

Build ==
    /\ pc = "building"
    /\ \E built \in SUBSET Paths :
          place' = [place EXCEPT !["candidate"] =
                      [p \in Paths |-> IF p \in built THEN "new" ELSE "none"]]
    /\ pc' = "ready"
    /\ UNCHANGED <<rootDir, persistent, phase, moves, created, disk, at, half, around>>

BuildFails ==
    /\ pc \in {"building", "ready"}
    /\ pc' = "end"
    /\ UNCHANGED <<place, rootDir, persistent, phase, moves, created, disk, at, half, around>>

-----------------------------------------------------------------------------
(* activate() and activateContents()                                       *)

Activate ==
    /\ pc = "ready"
    /\ phase' = "activating"
    /\ UNCHANGED <<place, rootDir, persistent, moves, created, at, half, around>>
    /\ Journal("plan", "failed")

\* planContentMoves: persistent paths that exist in the root stay there.
Planned(p, h) ==
    /\ ~(p \in persistent /\ Exists("root", p))
    /\ Exists(From(h), p)

Plan ==
    /\ pc = "plan"
    /\ moves' = [p \in Paths |-> [h \in Halves |->
                    IF Planned(p, h) THEN "planned" ELSE "none"]]
    /\ at' = 1 /\ half' = "out"
    /\ UNCHANGED <<place, rootDir, persistent, phase, created, around>>
    /\ Journal("archive", "failed")

\* mkdir(this.previous)
MakeArchive ==
    /\ pc = "archive"
    /\ pc' \in {"move", "failed"}
    /\ UNCHANGED <<place, rootDir, persistent, phase, moves, created, disk, at, half, around>>

Forward ==
    IF half = "out" THEN half' = "in" /\ at' = at
                    ELSE half' = "out" /\ at' = at + 1

SkipMove ==
    /\ pc = "move" /\ at <= N /\ moves[at][half] # "planned"
    /\ Forward
    /\ UNCHANGED <<place, rootDir, persistent, phase, moves, created, disk, pc, around>>

\* The destination must be free; ensureLiveDirectory finds or makes the root.
CheckMove ==
    /\ pc = "move" /\ at <= N /\ moves[at][half] = "planned"
    /\ pc' = IF Exists(To(half), at) THEN "failed"
             ELSE IF half = "in" /\ ~rootDir THEN "mkdir" ELSE "pending"
    /\ UNCHANGED <<place, rootDir, persistent, phase, moves, created, disk, at, half, around>>

\* createdLiveDirectories.push; journal(); then mkdir.
RecordDirectory ==
    /\ pc = "mkdir" /\ ~created
    /\ created' = TRUE
    /\ UNCHANGED <<place, rootDir, persistent, phase, moves, at, half, around>>
    /\ Journal("mkdir", "failed")

MakeDirectory ==
    /\ pc = "mkdir" /\ created
    /\ \/ rootDir' = TRUE /\ pc' = "pending"
       \/ rootDir' = rootDir /\ pc' = "failed"
    /\ UNCHANGED <<place, persistent, phase, moves, created, disk, at, half, around>>

\* Mutant: the intent is kept in memory only.
RecordIntentLate(then, thrown) == disk' = disk /\ pc' = then

RecordIntent(then, thrown) == Journal(then, thrown)

\* move.state = 'pending', journaled before the rename.
MarkPending ==
    /\ pc = "pending"
    /\ moves' = Marked("pending")
    /\ UNCHANGED <<place, rootDir, persistent, phase, created, at, half, around>>
    /\ RecordIntent("rename", "failed")

RenameForward ==
    /\ pc = "rename"
    /\ \/ place' = Moved(From(half), To(half), at) /\ pc' = "mark"
       \/ place' = place /\ pc' = "failed"
    /\ UNCHANGED <<rootDir, persistent, phase, moves, created, disk, at, half, around>>

\* Mutant: the loop does not mark what it has moved.
DoneStateLost == "pending"

DoneState == "done"

\* move.state = 'done', journaled after it.
MarkDone ==
    /\ pc = "mark"
    /\ moves' = Marked(DoneState)
    /\ Forward
    /\ UNCHANGED <<place, rootDir, persistent, phase, created, around>>
    /\ Journal("move", "failed")

\* After the last move rebaseGeneratedLinks repairs the build's links.
RebaseLinks ==
    /\ pc = "move" /\ at = N + 1
    /\ pc' \in {"activated", "failed"}
    /\ UNCHANGED <<place, rootDir, persistent, phase, moves, created, disk, at, half, around>>

\* The started candidate writes next to its code.
CandidateWrite(p) ==
    /\ pc = "activated" /\ rootDir /\ ~Exists("root", p)
    /\ place' = [place EXCEPT !["root"][p] = "data"]
    /\ UNCHANGED <<rootDir, persistent, phase, moves, created, disk, pc, at, half, around>>

\* complete(); the release is accepted even if the journal cannot be written.
Complete ==
    /\ pc = "activated"
    /\ phase' = "complete"
    /\ UNCHANGED <<place, rootDir, persistent, moves, created, at, half, around>>
    /\ Journal("end", "end")

-----------------------------------------------------------------------------
(* rollback() and rollbackContents()                                       *)

BeginRollback ==
    /\ pc \in {"failed", "activated"}
    /\ phase' = "restoring"
    /\ at' = N /\ half' = "in"
    /\ UNCHANGED <<place, rootDir, persistent, moves, created, around>>
    /\ Journal("reverse", "attention")

Backward ==
    IF half = "in" THEN half' = "out" /\ at' = at
                   ELSE half' = "in" /\ at' = at - 1

SkipReverse ==
    /\ pc = "reverse" /\ at >= 1 /\ moves[at][half] # "done"
    /\ Backward
    /\ UNCHANGED <<place, rootDir, persistent, phase, moves, created, disk, pc, around>>

\* Mutant: rollback overwrites what is in its way.
RollbackBlockedNever(p, h) == FALSE

\* 'Rollback destination already exists; refusing to overwrite'
RollbackBlocked(p, h) == Exists(From(h), p)

RenameBack ==
    /\ pc = "reverse" /\ at >= 1 /\ moves[at][half] = "done"
    /\ \/ /\ ~RollbackBlocked(at, half)
          /\ place' = Moved(To(half), From(half), at) /\ pc' = "reverted"
       \/ place' = place /\ pc' = "attention"
    /\ UNCHANGED <<rootDir, persistent, phase, moves, created, disk, at, half, around>>

MarkReverted ==
    /\ pc = "reverted"
    /\ moves' = Marked("reverted")
    /\ Backward
    /\ UNCHANGED <<place, rootDir, persistent, phase, created, around>>
    /\ Journal("reverse", "attention")

RebaseBack ==
    /\ pc = "reverse" /\ at = 0
    /\ pc' \in {"rmdir", "attention"}
    /\ UNCHANGED <<place, rootDir, persistent, phase, moves, created, disk, at, half, around>>

\* rmdir of a directory activation made: only if it is empty again.
RemoveDirectory ==
    /\ pc = "rmdir" /\ created
    /\ rootDir' = (rootDir /\ place["root"] # Nothing)
    /\ created' = FALSE
    /\ UNCHANGED <<place, persistent, phase, moves, at, half, around>>
    /\ Journal("rmdir", "attention")

Settle ==
    /\ pc = "rmdir" /\ ~created
    /\ phase' = "rolled-back"
    /\ UNCHANGED <<place, rootDir, persistent, moves, created, at, half, around>>
    /\ Journal("end", "attention")

-----------------------------------------------------------------------------

\* The host or the Manager process dies: memory is gone, disk and tree stay.
Crash ==
    /\ pc \notin Stopped
    /\ pc' = "crashed"
    /\ UNCHANGED <<place, rootDir, persistent, phase, moves, created, disk, at, half, around>>

\* Mutant: only 'activating' counts as interrupted.
InterruptedOnlyActivating(j) == j = "activating"

Interrupted(j) == j \in {"activating", "restoring"}

\* A cancellation fails the row, which lets the following deployment in; the loop
\* goes on to its next check, of which there is none while files move.
Cancel ==
    /\ pc \notin Stopped /\ ~cancelled /\ cancelled' = TRUE
    /\ UNCHANGED <<place, rootDir, persistent, phase, moves, created, disk, pc, at, half, next>>

\* prepare() of the following deployment reads the journals of its siblings.  What
\* it does after that is not followed here.
PrepareNext ==
    /\ pc \in Stopped \/ cancelled
    /\ next \in {"none", "refused"}
    /\ next' = IF Interrupted(disk.phase) THEN "refused"
               ELSE IF pc \in Stopped THEN "admitted" ELSE "early"
    /\ UNCHANGED <<place, rootDir, persistent, phase, moves, created, disk, pc, at, half, cancelled>>

Next ==
    \/ Prepare \/ Build \/ BuildFails \/ Activate \/ Plan \/ MakeArchive
    \/ SkipMove \/ CheckMove \/ RecordDirectory \/ MakeDirectory
    \/ MarkPending \/ RenameForward \/ MarkDone \/ RebaseLinks \/ Complete
    \/ BeginRollback \/ SkipReverse \/ RenameBack \/ MarkReverted
    \/ RebaseBack \/ RemoveDirectory \/ Settle
    \/ \E p \in Paths : LocalWrite(p) \/ CandidateWrite(p)
    \/ Crash \/ Cancel \/ PrepareNext

Spec == Init /\ [][Next]_vars

-----------------------------------------------------------------------------
(* Properties.                                                             *)

PreviousTree == \A p \in Paths :
    place["previous"][p] = "none" /\ place["root"][p] # "new"

CandidateTree == \A p \in Paths :
    /\ place["root"][p] # "old"
    /\ place["candidate"][p] # "none" => p \in persistent

\* Whatever happens, crash, failed rename or failed journal write, the phase on
\* disk tells which tree is live: the previous one unless an activation has
\* begun, all of the candidate once it is complete.
PhaseTellsTree ==
    /\ disk.phase \in {"none", "building", "rolled-back"} => PreviousTree
    /\ disk.phase = "complete" => CandidateTree

\* Every piece of code that is not where it was before the activation has a
\* record in the journal on disk: the intent is written before the rename, so
\* whoever recovers after a crash finds all of them.
JournalCoversEveryMove ==
    \A p \in Paths :
        /\ place["previous"][p] # "none" => disk.moves[p]["out"] \in {"pending", "done"}
        /\ place["root"][p] = "new" => disk.moves[p]["in"] \in {"pending", "done"}

\* What release.json says of the release, and which trees the root is one of.
Stage == IF disk.phase \in {"none", "building"} THEN "open"
         ELSE IF disk.phase = "complete" THEN "accepted"
         ELSE IF disk.phase = "rolled-back" THEN "restored" ELSE "moving"
Whole == {r \in {"previous", "candidate"} :
             IF r = "previous" THEN PreviousTree ELSE CandidateTree}

Loop == IF pc \in Stopped THEN "over" ELSE IF cancelled THEN "cancelled" ELSE "running"

Promise == INSTANCE ReleasePromise WITH stage <- Stage, whole <- Whole, loop <- Loop

\* Every step is one of a release without paths and journals, or changes nothing
\* of it: files move only between the first and the last record of an activation,
\* a record that says how it ended is final, and the following deployment begins
\* on a whole tree only (activate, rollback, complete, prepare).
KeepsRelease == Promise!Spec

\* A deployment that begins after the loop has ended finds a whole tree, and keeps it.
NextSeesWholeTree == next = "admitted" => PreviousTree \/ CandidateTree

\* One that begins beside a cancelled loop finds a whole tree too, at that moment.
BeginsOnWholeTree ==
    [][next' # next /\ next' \in {"admitted", "early"} => PreviousTree \/ CandidateTree]_vars

\* The tree stays whole under one that began beside a cancelled loop.
\* The code does not keep this (README, section 6); no run checks it.
EarlyStaysWhole == next = "early" => PreviousTree \/ CandidateTree

\* No step destroys the last copy of anything: old code, local files, the
\* candidate, or what the started candidate wrote.
NothingLost ==
    [][\A p \in Paths, c \in Contents \ {"none"} :
          (\E l \in Places : place[l][p] = c) => (\E l \in Places : place'[l][p] = c)]_vars

\* docs/release-pipeline.md:19, "Ignored and untracked local paths are retained
\* across activation": a completed activation has not archived one.
\* The code does not keep this (README, section 6); no run checks it.
LocalPathsRetained ==
    disk.phase = "complete" => \A p \in Paths : place["previous"][p] # "local"

=============================================================================

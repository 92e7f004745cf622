------------------------ MODULE ReleaseContents_proofs ------------------------
(***************************************************************************)
(* Proofs about ReleaseContents for any number of paths: the journal       *)
(* covers every displaced path, the phase on disk tells which tree is live,*)
(* and no step destroys the last copy of anything.                         *)
(***************************************************************************)
EXTENDS ReleaseContents, Integers, TLAPS

\* The code of path p that move h carries is at its destination.
Displaced(p, h) ==
    IF h = "out" THEN place["previous"][p] # "none" ELSE place["root"][p] = "new"

Before(p, h) == p < at \/ (p = at /\ h = "out" /\ half = "in")
After(p, h)  == p > at \/ (p = at /\ h = "in" /\ half = "out")
AtCursor(p, h) == p = at /\ h = half

Early    == {"start", "building", "ready"}
Moving   == {"move", "pending", "rename", "mark", "mkdir"}

\* Where the contents can be: the archive never holds candidate code, the
\* candidate holds nothing else, and paths known to be local stay in place.
Contained ==
    \A p \in Paths :
        /\ place["previous"][p] # "new"
        /\ place["candidate"][p] \in {"none", "new"}
        /\ p \in persistent =>
              place["root"][p] = "local" /\ \A h \in Halves : moves[p][h] = "none"

\* The moves in memory and on disk say where things are.
Recorded ==
    \A p \in Paths, h \in Halves :
        /\ Displaced(p, h) =>
              /\ moves[p][h] \in {"pending", "done"}
              /\ disk.moves[p][h] \in {"pending", "done"}
        /\ Displaced(p, h) /\ moves[p][h] = "pending" =>
              (pc = "mark" /\ AtCursor(p, h)) \/ pc = "crashed"
        /\ moves[p][h] = "done" =>
              \/ Displaced(p, h)
              \/ pc = "reverted" /\ AtCursor(p, h)
              \/ pc = "crashed"

\* The forward loop has done what is before the cursor and not begun the rest.
ForwardLoop ==
    pc \in Moving =>
        /\ \A p \in Paths, h \in Halves :
              /\ Before(p, h) => moves[p][h] \in {"none", "done"}
              /\ After(p, h) => moves[p][h] \in {"none", "planned"}
              /\ AtCursor(p, h) => moves[p][h] \in
                    (IF pc = "move" THEN {"none", "planned"}
                     ELSE IF pc \in {"pending", "mkdir"} THEN {"planned"} ELSE {"pending"})
        /\ pc # "move" => at \in Paths
        /\ pc = "rename" => disk.moves[at][half] = "pending"
        /\ pc = "rename" => Exists(From(half), at)
        /\ pc = "mark" => place[From(half)][at] = "none" /\ Displaced(at, half)
        /\ at >= 1

\* Nothing that has to move is left out of the plan.
PlanComplete ==
    pc \in Moving \cup {"archive"} =>
        \A p \in Paths :
            /\ \A h \in Halves : moves[p][h] = "planned" => Exists(From(h), p)
            /\ place["root"][p] = "old" => moves[p]["out"] \in {"planned", "pending"}
            /\ place["candidate"][p] # "none" =>
                  p \in persistent \/ moves[p]["in"] \in {"planned", "pending"}

\* The reverse loop has put back what is after the cursor.
ReverseLoop ==
    /\ pc \in {"reverse", "reverted"} =>
          /\ \A p \in Paths, h \in Halves : After(p, h) => ~Displaced(p, h)
          /\ at <= N
    /\ pc = "reverted" => at \in Paths /\ ~Displaced(at, half) /\ moves[at][half] = "done"
    /\ pc = "rmdir" => \A p \in Paths, h \in Halves : ~Displaced(p, h)

\* The phases in memory and on disk at each place of the program.
PhaseOnDisk ==
    /\ pc \in Early => moves = NoMoves /\ disk.phase \in {"none", "building"}
    /\ pc = "plan" => moves = NoMoves
    /\ pc = "archive" =>
          /\ \A p \in Paths, h \in Halves : moves[p][h] \in {"none", "planned"}
          /\ at = 1 /\ half = "out"
    /\ pc \in Early => phase = "building"
    /\ pc \in Activating \cup {"activated"} => disk.phase = "activating" /\ phase = "activating"
    /\ pc \in Restoring => disk.phase = "restoring" /\ phase = "restoring"
    /\ pc = "activated" => CandidateTree
    /\ next = "admitted" => pc \in Stopped /\ ~Interrupted(disk.phase)

IInv ==
    /\ TypeOK
    /\ Contained
    /\ Recorded
    /\ ForwardLoop
    /\ PlanComplete
    /\ ReverseLoop
    /\ PhaseOnDisk
    /\ PhaseTellsTree

USE DEF around

-----------------------------------------------------------------------------
(* How the two-level updates of the model read.                            *)

LEMMA Update2 ==
    ASSUME NEW A, NEW B, NEW C, NEW f \in [A -> [B -> C]],
           NEW a \in A, NEW b \in B, NEW c \in C
    PROVE  /\ [f EXCEPT ![a][b] = c] \in [A -> [B -> C]]
           /\ \A x \in A, y \in B :
                 [f EXCEPT ![a][b] = c][x][y] = IF x = a /\ y = b THEN c ELSE f[x][y]
<1> DEFINE g == [f[a] EXCEPT ![b] = c]
<1>1. f[a] \in [B -> C]
  OBVIOUS
<1>2. g \in [B -> C]
  BY <1>1
<1>3. \A y \in B : g[y] = IF y = b THEN c ELSE f[a][y]
  BY <1>1
<1>4. [f EXCEPT ![a][b] = c] = [f EXCEPT ![a] = g]
  OBVIOUS
<1> HIDE DEF g
<1>5. [f EXCEPT ![a] = g] \in [A -> [B -> C]]
  BY <1>2
<1>6. \A x \in A : [f EXCEPT ![a] = g][x] = IF x = a THEN g ELSE f[x]
  OBVIOUS
<1> QED BY <1>3, <1>4, <1>5, <1>6

\* A move leaves everything but its two ends as it was.
LEMMA MovedValues ==
    ASSUME TypeOK, NEW l \in Places, NEW k \in Places, l # k, NEW p \in Paths
    PROVE  /\ Moved(l, k, p) \in [Places -> [Paths -> Contents]]
           /\ \A m \in Places, q \in Paths :
                 Moved(l, k, p)[m][q] = IF q = p /\ m = l THEN "none"
                                        ELSE IF q = p /\ m = k THEN place[l][p]
                                        ELSE place[m][q]
<1> DEFINE f == [place EXCEPT ![l][p] = "none"]
<1>1. place \in [Places -> [Paths -> Contents]] /\ "none" \in Contents
  BY DEF TypeOK, Contents
<1>2. /\ f \in [Places -> [Paths -> Contents]]
      /\ \A m \in Places, q \in Paths : f[m][q] = IF m = l /\ q = p THEN "none" ELSE place[m][q]
  BY <1>1, Update2
<1>3. place[l][p] \in Contents
  BY <1>1
<1>4. Moved(l, k, p) = [f EXCEPT ![k][p] = place[l][p]]
  BY DEF Moved
<1> HIDE DEF f
<1>5. /\ [f EXCEPT ![k][p] = place[l][p]] \in [Places -> [Paths -> Contents]]
      /\ \A m \in Places, q \in Paths :
            [f EXCEPT ![k][p] = place[l][p]][m][q]
               = IF m = k /\ q = p THEN place[l][p] ELSE f[m][q]
  BY <1>2, <1>3, Update2
<1> QED BY <1>2, <1>4, <1>5

LEMMA MarkedValues ==
    ASSUME TypeOK, at \in Paths, NEW s \in States
    PROVE  /\ Marked(s) \in [Paths -> [Halves -> States]]
           /\ \A p \in Paths, h \in Halves :
                 Marked(s)[p][h] = IF AtCursor(p, h) THEN s ELSE moves[p][h]
<1>1. moves \in [Paths -> [Halves -> States]] /\ half \in Halves
  BY DEF TypeOK
<1> QED BY <1>1, Update2 DEF Marked, AtCursor

-----------------------------------------------------------------------------
\* What the ranges of cursor, halves and places come to.
LEMMA Ranges ==
    ASSUME TypeOK
    PROVE  /\ Halves = {"out", "in"} /\ half \in Halves
           /\ at \in Int /\ 0 <= at /\ at <= N + 1
           /\ \A p \in Paths : p \in Int /\ 1 <= p /\ p <= N
           /\ \A i \in Int : 1 <= i /\ i <= N => i \in Paths
           /\ N \in Nat
           /\ \A h \in Halves : /\ From(h) \in Places /\ To(h) \in Places
                                /\ From(h) # To(h)
           /\ place \in [Places -> [Paths -> Contents]]
           /\ moves \in [Paths -> [Halves -> States]]
  BY ReleaseConstants DEF TypeOK, Paths, Halves, From, To, Places

\* A journal write either replaces the whole record or leaves it.
LEMMA JournalValues ==
    ASSUME TypeOK, NEW then, NEW thrown, Journal(then, thrown),
           phase' \in Phases, moves' \in [Paths -> [Halves -> States]], created' \in BOOLEAN
    PROVE  /\ disk' \in [phase : Phases, moves : [Paths -> [Halves -> States]], created : BOOLEAN]
           /\ \/ pc' = then /\ disk'.phase = phase' /\ disk'.moves = moves'
              \/ pc' = thrown /\ disk' = disk
  BY DEF TypeOK, Journal

\* One step of a loop leaves only the cursor's own move behind.
LEMMA ForwardOrder ==
    ASSUME TypeOK, Forward, NEW p \in Paths, NEW h \in Halves
    PROVE  /\ Before(p, h)' => Before(p, h) \/ AtCursor(p, h)
           /\ After(p, h)' \/ AtCursor(p, h)' => After(p, h)
<1>1. p \in Int /\ at \in Int /\ h \in {"out", "in"} /\ half \in {"out", "in"}
  BY Ranges
<1>2. CASE half = "out"
  BY <1>1, <1>2 DEF Forward, Before, After, AtCursor
<1>3. CASE half = "in"
  <2>1. half' = "out" /\ at' = at + 1
    BY <1>3 DEF Forward
  <2> QED BY <1>1, <1>3, <2>1 DEF Before, After, AtCursor
<1> QED BY <1>1, <1>2, <1>3

LEMMA BackwardOrder ==
    ASSUME TypeOK, Backward, NEW p \in Paths, NEW h \in Halves
    PROVE  After(p, h)' => After(p, h) \/ AtCursor(p, h)
<1>1. p \in Int /\ at \in Int /\ h \in {"out", "in"} /\ half \in {"out", "in"}
  BY Ranges
<1>2. CASE half = "in"
  BY <1>1, <1>2 DEF Backward, After, AtCursor
<1>3. CASE half = "out"
  <2>1. half' = "in" /\ at' = at - 1
    BY <1>3 DEF Backward
  <2> QED BY <1>1, <1>3, <2>1 DEF After, AtCursor
<1> QED BY <1>1, <1>2, <1>3

USE DEF Contained, Recorded, ForwardLoop, PlanComplete, ReverseLoop, PhaseOnDisk,
        PhaseTellsTree, PreviousTree, CandidateTree, Displaced, Before, After,
        AtCursor, Exists, From, To, Moving, Early, Activating, Restoring,
        Stopped, Places, Interrupted, NoMoves

LEMMA PrepareStep == ASSUME IInv, Prepare PROVE IInv'
<1>r. Halves = {"out", "in"} /\ TypeOK
  BY Ranges DEF IInv
<1>j. /\ disk' \in [phase : Phases, moves : [Paths -> [Halves -> States]], created : BOOLEAN]
      /\ \/ pc' = "building" /\ disk'.phase = phase' /\ disk'.moves = moves'
         \/ pc' = "end" /\ disk' = disk
  <2>1. Journal("building", "end")
    BY DEF Prepare
  <2> QED BY <1>r, <2>1, JournalValues DEF TypeOK, Phases, Prepare, LocalPaths
<1>1. TypeOK'
  BY <1>r, <1>j, Ranges DEF TypeOK, Phases, Prepare, LocalPaths
<1>2. Contained'
  BY <1>r, <1>j, <1>1, Ranges DEF IInv, Prepare, LocalPaths
<1>3. Recorded'
  BY <1>r, <1>j, <1>1, Ranges DEF IInv, Prepare, LocalPaths
<1>4. ForwardLoop'
  BY <1>r, <1>j, <1>1, Ranges DEF IInv, Prepare, LocalPaths
<1>5. PlanComplete'
  BY <1>r, <1>j, <1>1, Ranges DEF IInv, Prepare, LocalPaths
<1>6. ReverseLoop'
  BY <1>r, <1>j, <1>1, Ranges DEF IInv, Prepare, LocalPaths
<1>7. PhaseOnDisk'
  BY <1>r, <1>j, <1>1, Ranges DEF IInv, Prepare, LocalPaths
<1>8. PhaseTellsTree'
  BY <1>r, <1>j, <1>1, Ranges DEF IInv, Prepare, LocalPaths
<1> QED BY <1>1, <1>2, <1>3, <1>4, <1>5, <1>6, <1>7, <1>8 DEF IInv

LEMMA BuildStep == ASSUME IInv, Build PROVE IInv'
<1>r. Halves = {"out", "in"} /\ TypeOK
  BY Ranges DEF IInv
<1>m. /\ place' \in [Places -> [Paths -> Contents]]
      /\ \A m \in Places : m # "candidate" => place'[m] = place[m]
      /\ \A q \in Paths : place'["candidate"][q] \in {"none", "new"}
  <2>1. PICK built \in SUBSET Paths : place' = [place EXCEPT !["candidate"] =
                      [p \in Paths |-> IF p \in built THEN "new" ELSE "none"]]
    BY DEF Build
  <2>2. [p \in Paths |-> IF p \in built THEN "new" ELSE "none"] \in [Paths -> Contents]
    BY DEF Contents
  <2>3. place \in [Places -> [Paths -> Contents]]
    BY <1>r, Ranges
  <2> QED BY <2>1, <2>2, <2>3
<1>1. TypeOK'
  BY <1>r, <1>m, Ranges DEF TypeOK, Phases, Build
<1>2. Contained'
  BY <1>r, <1>m, <1>1, Ranges DEF IInv, Build
<1>3. Recorded'
  BY <1>r, <1>m, <1>1, Ranges DEF IInv, Build
<1>4. ForwardLoop'
  BY <1>r, <1>m, <1>1, Ranges DEF IInv, Build
<1>5. PlanComplete'
  BY <1>r, <1>m, <1>1, Ranges DEF IInv, Build
<1>6. ReverseLoop'
  BY <1>r, <1>m, <1>1, Ranges DEF IInv, Build
<1>7. PhaseOnDisk'
  BY <1>r, <1>m, <1>1, Ranges DEF IInv, Build
<1>8. PhaseTellsTree'
  BY <1>r, <1>m, <1>1, Ranges DEF IInv, Build
<1> QED BY <1>1, <1>2, <1>3, <1>4, <1>5, <1>6, <1>7, <1>8 DEF IInv

LEMMA BuildFailsStep == ASSUME IInv, BuildFails PROVE IInv'
<1>r. Halves = {"out", "in"} /\ TypeOK
  BY Ranges DEF IInv
<1>1. TypeOK'
  BY <1>r, Ranges DEF TypeOK, Phases, BuildFails
<1>2. Contained'
  BY <1>r, <1>1, Ranges DEF IInv, BuildFails
<1>3. Recorded'
  BY <1>r, <1>1, Ranges DEF IInv, BuildFails
<1>4. ForwardLoop'
  BY <1>r, <1>1, Ranges DEF IInv, BuildFails
<1>5. PlanComplete'
  BY <1>r, <1>1, Ranges DEF IInv, BuildFails
<1>6. ReverseLoop'
  BY <1>r, <1>1, Ranges DEF IInv, BuildFails
<1>7. PhaseOnDisk'
  BY <1>r, <1>1, Ranges DEF IInv, BuildFails
<1>8. PhaseTellsTree'
  BY <1>r, <1>1, Ranges DEF IInv, BuildFails
<1> QED BY <1>1, <1>2, <1>3, <1>4, <1>5, <1>6, <1>7, <1>8 DEF IInv

LEMMA ActivateStep == ASSUME IInv, Activate PROVE IInv'
<1>r. Halves = {"out", "in"} /\ TypeOK
  BY Ranges DEF IInv
<1>j. /\ disk' \in [phase : Phases, moves : [Paths -> [Halves -> States]], created : BOOLEAN]
      /\ \/ pc' = "plan" /\ disk'.phase = phase' /\ disk'.moves = moves'
         \/ pc' = "failed" /\ disk' = disk
  <2>1. Journal("plan", "failed")
    BY DEF Activate
  <2> QED BY <1>r, <2>1, JournalValues DEF TypeOK, Phases, Activate
<1>1. TypeOK'
  BY <1>r, <1>j, Ranges DEF TypeOK, Phases, Activate
<1>2. Contained'
  BY <1>r, <1>j, <1>1, Ranges DEF IInv, Activate
<1>3. Recorded'
  BY <1>r, <1>j, <1>1, Ranges DEF IInv, Activate
<1>4. ForwardLoop'
  BY <1>r, <1>j, <1>1, Ranges DEF IInv, Activate
<1>5. PlanComplete'
  BY <1>r, <1>j, <1>1, Ranges DEF IInv, Activate
<1>6. ReverseLoop'
  BY <1>r, <1>j, <1>1, Ranges DEF IInv, Activate
<1>7. PhaseOnDisk'
  BY <1>r, <1>j, <1>1, Ranges DEF IInv, Activate
<1>8. PhaseTellsTree'
  BY <1>r, <1>j, <1>1, Ranges DEF IInv, Activate
<1> QED BY <1>1, <1>2, <1>3, <1>4, <1>5, <1>6, <1>7, <1>8 DEF IInv

LEMMA PlanStep == ASSUME IInv, Plan PROVE IInv'
<1>r. Halves = {"out", "in"} /\ TypeOK
  BY Ranges DEF IInv
<1>m. /\ moves' \in [Paths -> [Halves -> States]]
      /\ \A p \in Paths, h \in Halves :
            moves'[p][h] = IF Planned(p, h) THEN "planned" ELSE "none"
  BY <1>r DEF States, Plan
<1>j. /\ disk' \in [phase : Phases, moves : [Paths -> [Halves -> States]], created : BOOLEAN]
      /\ \/ pc' = "archive" /\ disk'.phase = phase' /\ disk'.moves = moves'
         \/ pc' = "failed" /\ disk' = disk
  <2>1. Journal("archive", "failed")
    BY DEF Plan
  <2> QED BY <1>r, <1>m, <2>1, JournalValues DEF TypeOK, Phases, Plan, Planned
<1>1. TypeOK'
  BY <1>r, <1>m, <1>j, Ranges DEF TypeOK, Phases, Plan, Planned
<1>2. Contained'
  BY <1>r, <1>m, <1>j, <1>1, Ranges DEF IInv, Plan, Planned
<1>3. Recorded'
  BY <1>r, <1>m, <1>j, <1>1, Ranges DEF IInv, Plan, Planned
<1>4. ForwardLoop'
  BY <1>r, <1>m, <1>j, <1>1, Ranges DEF IInv, Plan, Planned
<1>5. PlanComplete'
  BY <1>r, <1>m, <1>j, <1>1, Ranges DEF IInv, Plan, Planned
<1>6. ReverseLoop'
  BY <1>r, <1>m, <1>j, <1>1, Ranges DEF IInv, Plan, Planned
<1>7. PhaseOnDisk'
  BY <1>r, <1>m, <1>j, <1>1, Ranges DEF IInv, Plan, Planned
<1>8. PhaseTellsTree'
  BY <1>r, <1>m, <1>j, <1>1, Ranges DEF IInv, Plan, Planned
<1> QED BY <1>1, <1>2, <1>3, <1>4, <1>5, <1>6, <1>7, <1>8 DEF IInv

LEMMA MakeArchiveStep == ASSUME IInv, MakeArchive PROVE IInv'
<1>r. Halves = {"out", "in"} /\ TypeOK
  BY Ranges DEF IInv
<1>1. TypeOK'
  BY <1>r, Ranges DEF TypeOK, Phases, MakeArchive
<1>2. Contained'
  BY <1>r, <1>1, Ranges DEF IInv, MakeArchive
<1>3. Recorded'
  BY <1>r, <1>1, Ranges DEF IInv, MakeArchive
<1>4. ForwardLoop'
  BY <1>r, <1>1, Ranges DEF IInv, MakeArchive
<1>5. PlanComplete'
  BY <1>r, <1>1, Ranges DEF IInv, MakeArchive
<1>6. ReverseLoop'
  BY <1>r, <1>1, Ranges DEF IInv, MakeArchive
<1>7. PhaseOnDisk'
  BY <1>r, <1>1, Ranges DEF IInv, MakeArchive
<1>8. PhaseTellsTree'
  BY <1>r, <1>1, Ranges DEF IInv, MakeArchive
<1> QED BY <1>1, <1>2, <1>3, <1>4, <1>5, <1>6, <1>7, <1>8 DEF IInv

LEMMA SkipMoveStep == ASSUME IInv, SkipMove PROVE IInv'
<1>r. Halves = {"out", "in"} /\ TypeOK
  BY Ranges DEF IInv
<1>1. TypeOK'
  BY <1>r, Ranges DEF TypeOK, Phases, SkipMove, Forward
<1>2. Contained'
  BY <1>r, <1>1, Ranges DEF IInv, SkipMove, Forward
<1>3. Recorded'
  BY <1>r, <1>1, Ranges DEF IInv, SkipMove, Forward
<1>4. ForwardLoop'
  <2>0. Forward
    BY DEF SkipMove
  <2>1. \A p \in Paths, h \in Halves : Before(p, h)' => Before(p, h) \/ AtCursor(p, h)
    BY <1>r, <2>0, ForwardOrder
  <2>2. \A p \in Paths, h \in Halves : After(p, h)' \/ AtCursor(p, h)' => After(p, h)
    BY <1>r, <2>0, ForwardOrder
  <2>3. at' >= 1
    BY <1>r, Ranges DEF IInv, SkipMove, Forward
  <2>4. \A p \in Paths, h \in Halves : AtCursor(p, h) => p = at /\ h = half
    OBVIOUS
  <2> HIDE DEF Before, After, AtCursor
  <2> QED BY <2>1, <2>2, <2>3, <2>4, <1>r, <1>1 DEF IInv, SkipMove
<1>5. PlanComplete'
  BY <1>r, <1>1, Ranges DEF IInv, SkipMove, Forward
<1>6. ReverseLoop'
  BY <1>r, <1>1, Ranges DEF IInv, SkipMove, Forward
<1>7. PhaseOnDisk'
  BY <1>r, <1>1, Ranges DEF IInv, SkipMove, Forward
<1>8. PhaseTellsTree'
  BY <1>r, <1>1, Ranges DEF IInv, SkipMove, Forward
<1> QED BY <1>1, <1>2, <1>3, <1>4, <1>5, <1>6, <1>7, <1>8 DEF IInv

LEMMA CheckMoveStep == ASSUME IInv, CheckMove PROVE IInv'
<1>r. Halves = {"out", "in"} /\ TypeOK
  BY Ranges DEF IInv
<1>1. TypeOK'
  BY <1>r, Ranges DEF TypeOK, Phases, CheckMove
<1>2. Contained'
  BY <1>r, <1>1, Ranges DEF IInv, CheckMove
<1>3. Recorded'
  BY <1>r, <1>1, Ranges DEF IInv, CheckMove
<1>4. ForwardLoop'
  BY <1>r, <1>1, Ranges DEF IInv, CheckMove
<1>5. PlanComplete'
  BY <1>r, <1>1, Ranges DEF IInv, CheckMove
<1>6. ReverseLoop'
  BY <1>r, <1>1, Ranges DEF IInv, CheckMove
<1>7. PhaseOnDisk'
  BY <1>r, <1>1, Ranges DEF IInv, CheckMove
<1>8. PhaseTellsTree'
  BY <1>r, <1>1, Ranges DEF IInv, CheckMove
<1> QED BY <1>1, <1>2, <1>3, <1>4, <1>5, <1>6, <1>7, <1>8 DEF IInv

LEMMA RecordDirectoryStep == ASSUME IInv, RecordDirectory PROVE IInv'
<1>r. Halves = {"out", "in"} /\ TypeOK
  BY Ranges DEF IInv
<1>j. /\ disk' \in [phase : Phases, moves : [Paths -> [Halves -> States]], created : BOOLEAN]
      /\ \/ pc' = "mkdir" /\ disk'.phase = phase' /\ disk'.moves = moves'
         \/ pc' = "failed" /\ disk' = disk
  <2>1. Journal("mkdir", "failed") /\ phase' = phase /\ moves' = moves
    BY DEF RecordDirectory
  <2>2. created' \in BOOLEAN
    BY DEF RecordDirectory
  <2>3. phase' \in Phases /\ moves' \in [Paths -> [Halves -> States]]
    BY <1>r, <2>1 DEF TypeOK
  <2> QED BY <1>r, <2>1, <2>2, <2>3, JournalValues
<1>1. TypeOK'
  BY <1>r, <1>j, Ranges DEF TypeOK, Phases, RecordDirectory
<1>2. Contained'
  BY <1>r, <1>j, <1>1, Ranges DEF IInv, RecordDirectory
<1>3. Recorded'
  BY <1>r, <1>j, <1>1, Ranges DEF IInv, RecordDirectory
<1>4. ForwardLoop'
  BY <1>r, <1>j, <1>1, Ranges DEF IInv, RecordDirectory
<1>5. PlanComplete'
  BY <1>r, <1>j, <1>1, Ranges DEF IInv, RecordDirectory
<1>6. ReverseLoop'
  BY <1>r, <1>j, <1>1, Ranges DEF IInv, RecordDirectory
<1>7. PhaseOnDisk'
  BY <1>r, <1>j, <1>1, Ranges DEF IInv, RecordDirectory
<1>8. PhaseTellsTree'
  BY <1>r, <1>j, <1>1, Ranges DEF IInv, RecordDirectory
<1> QED BY <1>1, <1>2, <1>3, <1>4, <1>5, <1>6, <1>7, <1>8 DEF IInv

LEMMA MakeDirectoryStep == ASSUME IInv, MakeDirectory PROVE IInv'
<1>r. Halves = {"out", "in"} /\ TypeOK
  BY Ranges DEF IInv
<1>1. TypeOK'
  <2>1. rootDir' \in BOOLEAN
    BY <1>r, Zenon DEF TypeOK, MakeDirectory
  <2> QED
    BY <1>r, <2>1, Ranges DEF TypeOK, Phases, MakeDirectory
<1>2. Contained'
  BY <1>r, <1>1, Ranges DEF IInv, MakeDirectory
<1>3. Recorded'
  BY <1>r, <1>1, Ranges DEF IInv, MakeDirectory
<1>4. ForwardLoop'
  BY <1>r, <1>1, Ranges DEF IInv, MakeDirectory
<1>5. PlanComplete'
  BY <1>r, <1>1, Ranges DEF IInv, MakeDirectory
<1>6. ReverseLoop'
  BY <1>r, <1>1, Ranges DEF IInv, MakeDirectory
<1>7. PhaseOnDisk'
  BY <1>r, <1>1, Ranges DEF IInv, MakeDirectory
<1>8. PhaseTellsTree'
  BY <1>r, <1>1, Ranges DEF IInv, MakeDirectory
<1> QED BY <1>1, <1>2, <1>3, <1>4, <1>5, <1>6, <1>7, <1>8 DEF IInv

LEMMA MarkPendingStep == ASSUME IInv, MarkPending PROVE IInv'
<1>r. Halves = {"out", "in"} /\ TypeOK
  BY Ranges DEF IInv
<1>0. at \in Paths
  BY <1>r, Ranges DEF IInv, MarkPending
<1>m. /\ moves' \in [Paths -> [Halves -> States]]
      /\ \A p \in Paths, h \in Halves :
            moves'[p][h] = IF AtCursor(p, h) THEN "pending" ELSE moves[p][h]
  BY <1>0, <1>r, MarkedValues DEF States, MarkPending, RecordIntent
<1>j. /\ disk' \in [phase : Phases, moves : [Paths -> [Halves -> States]], created : BOOLEAN]
      /\ \/ pc' = "rename" /\ disk'.phase = phase' /\ disk'.moves = moves'
         \/ pc' = "failed" /\ disk' = disk
  <2>1. Journal("rename", "failed")
    BY DEF MarkPending, RecordIntent
  <2> QED BY <1>r, <1>m, <2>1, JournalValues DEF TypeOK, Phases, MarkPending, RecordIntent
<1>1. TypeOK'
  BY <1>r, <1>0, <1>m, <1>j, Ranges DEF TypeOK, Phases, MarkPending, RecordIntent
<1>2. Contained'
  BY <1>r, <1>0, <1>m, <1>j, <1>1, Ranges DEF IInv, MarkPending, RecordIntent
<1>3. Recorded'
  BY <1>r, <1>0, <1>m, <1>j, <1>1, Ranges DEF IInv, MarkPending, RecordIntent
<1>4. ForwardLoop'
  BY <1>r, <1>0, <1>m, <1>j, <1>1, Ranges DEF IInv, MarkPending, RecordIntent
<1>5. PlanComplete'
  BY <1>r, <1>0, <1>m, <1>j, <1>1, Ranges DEF IInv, MarkPending, RecordIntent
<1>6. ReverseLoop'
  BY <1>r, <1>0, <1>m, <1>j, <1>1, Ranges DEF IInv, MarkPending, RecordIntent
<1>7. PhaseOnDisk'
  BY <1>r, <1>0, <1>m, <1>j, <1>1, Ranges DEF IInv, MarkPending, RecordIntent
<1>8. PhaseTellsTree'
  BY <1>r, <1>0, <1>m, <1>j, <1>1, Ranges DEF IInv, MarkPending, RecordIntent
<1> QED BY <1>1, <1>2, <1>3, <1>4, <1>5, <1>6, <1>7, <1>8 DEF IInv

LEMMA RenameForwardStep == ASSUME IInv, RenameForward PROVE IInv'
<1>r. Halves = {"out", "in"} /\ TypeOK
  BY Ranges DEF IInv
<1>0. at \in Paths
  BY <1>r, Ranges DEF IInv, RenameForward
<1>m. /\ Moved(From(half), To(half), at) \in [Places -> [Paths -> Contents]]
      /\ \A m \in Places, q \in Paths :
            Moved(From(half), To(half), at)[m][q] = IF q = at /\ m = From(half) THEN "none"
                  ELSE IF q = at /\ m = To(half) THEN place[From(half)][at] ELSE place[m][q]
  BY <1>0, <1>r, Ranges, MovedValues
<1>1. TypeOK'
  BY <1>r, <1>0, <1>m, Ranges DEF TypeOK, Phases, RenameForward
<1>2. Contained'
  BY <1>r, <1>0, <1>m, <1>1, Ranges DEF IInv, RenameForward
<1>3. Recorded'
  BY <1>r, <1>0, <1>m, <1>1, Ranges DEF IInv, RenameForward
<1>4. ForwardLoop'
  BY <1>r, <1>0, <1>m, <1>1, Ranges DEF IInv, RenameForward
<1>5. PlanComplete'
  BY <1>r, <1>0, <1>m, <1>1, Ranges DEF IInv, RenameForward
<1>6. ReverseLoop'
  BY <1>r, <1>0, <1>m, <1>1, Ranges DEF IInv, RenameForward
<1>7. PhaseOnDisk'
  BY <1>r, <1>0, <1>m, <1>1, Ranges DEF IInv, RenameForward
<1>8. PhaseTellsTree'
  BY <1>r, <1>0, <1>m, <1>1, Ranges DEF IInv, RenameForward
<1> QED BY <1>1, <1>2, <1>3, <1>4, <1>5, <1>6, <1>7, <1>8 DEF IInv

LEMMA MarkDoneStep == ASSUME IInv, MarkDone PROVE IInv'
<1>r. Halves = {"out", "in"} /\ TypeOK
  BY Ranges DEF IInv
<1>0. at \in Paths
  BY <1>r, Ranges DEF IInv, MarkDone
<1>m. /\ moves' \in [Paths -> [Halves -> States]]
      /\ \A p \in Paths, h \in Halves :
            moves'[p][h] = IF AtCursor(p, h) THEN "done" ELSE moves[p][h]
  BY <1>0, <1>r, MarkedValues DEF States, MarkDone, Forward, DoneState
<1>j. /\ disk' \in [phase : Phases, moves : [Paths -> [Halves -> States]], created : BOOLEAN]
      /\ \/ pc' = "move" /\ disk'.phase = phase' /\ disk'.moves = moves'
         \/ pc' = "failed" /\ disk' = disk
  <2>1. Journal("move", "failed")
    BY DEF MarkDone
  <2> QED BY <1>r, <1>m, <2>1, JournalValues DEF TypeOK, Phases, MarkDone, Forward, DoneState
<1>1. TypeOK'
  BY <1>r, <1>0, <1>m, <1>j, Ranges DEF TypeOK, Phases, MarkDone, Forward, DoneState
<1>2. Contained'
  BY <1>r, <1>0, <1>m, <1>j, <1>1, Ranges DEF IInv, MarkDone, Forward, DoneState
<1>3. Recorded'
  BY <1>r, <1>0, <1>m, <1>j, <1>1, Ranges DEF IInv, MarkDone, Forward, DoneState
<1>4. ForwardLoop'
  <2>0. Forward
    BY DEF MarkDone
  <2>1. \A p \in Paths, h \in Halves : Before(p, h)' => Before(p, h) \/ AtCursor(p, h)
    BY <1>r, <2>0, ForwardOrder
  <2>2. \A p \in Paths, h \in Halves : After(p, h)' \/ AtCursor(p, h)' => After(p, h)
    BY <1>r, <2>0, ForwardOrder
  <2>3. at' >= 1
    BY <1>r, Ranges DEF IInv, MarkDone, Forward
  <2>4. \A p \in Paths, h \in Halves : AtCursor(p, h) => p = at /\ h = half
    OBVIOUS
  <2> HIDE DEF Before, After, AtCursor
  <2> QED BY <2>1, <2>2, <2>3, <2>4, <1>r, <1>0, <1>m, <1>j, <1>1 DEF IInv, MarkDone, DoneState
<1>5. PlanComplete'
  BY <1>r, <1>0, <1>m, <1>j, <1>1, Ranges DEF IInv, MarkDone, Forward, DoneState
<1>6. ReverseLoop'
  BY <1>r, <1>0, <1>m, <1>j, <1>1, Ranges DEF IInv, MarkDone, Forward, DoneState
<1>7. PhaseOnDisk'
  BY <1>r, <1>0, <1>m, <1>j, <1>1, Ranges DEF IInv, MarkDone, Forward, DoneState
<1>8. PhaseTellsTree'
  BY <1>r, <1>0, <1>m, <1>j, <1>1, Ranges DEF IInv, MarkDone, Forward, DoneState
<1> QED BY <1>1, <1>2, <1>3, <1>4, <1>5, <1>6, <1>7, <1>8 DEF IInv

LEMMA RebaseLinksStep == ASSUME IInv, RebaseLinks PROVE IInv'
<1>r. Halves = {"out", "in"} /\ TypeOK
  BY Ranges DEF IInv
<1>1. TypeOK'
  BY <1>r, Ranges DEF TypeOK, Phases, RebaseLinks
<1>2. Contained'
  BY <1>r, <1>1, Ranges DEF IInv, RebaseLinks
<1>3. Recorded'
  BY <1>r, <1>1, Ranges DEF IInv, RebaseLinks
<1>4. ForwardLoop'
  BY <1>r, <1>1, Ranges DEF IInv, RebaseLinks
<1>5. PlanComplete'
  BY <1>r, <1>1, Ranges DEF IInv, RebaseLinks
<1>6. ReverseLoop'
  BY <1>r, <1>1, Ranges DEF IInv, RebaseLinks
<1>7. PhaseOnDisk'
  BY <1>r, <1>1, Ranges DEF IInv, RebaseLinks
<1>8. PhaseTellsTree'
  BY <1>r, <1>1, Ranges DEF IInv, RebaseLinks
<1> QED BY <1>1, <1>2, <1>3, <1>4, <1>5, <1>6, <1>7, <1>8 DEF IInv

LEMMA CompleteStep == ASSUME IInv, Complete PROVE IInv'
<1>r. Halves = {"out", "in"} /\ TypeOK
  BY Ranges DEF IInv
<1>j. /\ disk' \in [phase : Phases, moves : [Paths -> [Halves -> States]], created : BOOLEAN]
      /\ \/ pc' = "end" /\ disk'.phase = phase' /\ disk'.moves = moves'
         \/ pc' = "end" /\ disk' = disk
  <2>1. Journal("end", "end")
    BY DEF Complete
  <2> QED BY <1>r, <2>1, JournalValues DEF TypeOK, Phases, Complete
<1>1. TypeOK'
  BY <1>r, <1>j, Ranges DEF TypeOK, Phases, Complete
<1>2. Contained'
  BY <1>r, <1>j, <1>1, Ranges DEF IInv, Complete
<1>3. Recorded'
  BY <1>r, <1>j, <1>1, Ranges DEF IInv, Complete
<1>4. ForwardLoop'
  BY <1>r, <1>j, <1>1, Ranges DEF IInv, Complete
<1>5. PlanComplete'
  BY <1>r, <1>j, <1>1, Ranges DEF IInv, Complete
<1>6. ReverseLoop'
  BY <1>r, <1>j, <1>1, Ranges DEF IInv, Complete
<1>7. PhaseOnDisk'
  BY <1>r, <1>j, <1>1, Ranges DEF IInv, Complete
<1>8. PhaseTellsTree'
  BY <1>r, <1>j, <1>1, Ranges DEF IInv, Complete
<1> QED BY <1>1, <1>2, <1>3, <1>4, <1>5, <1>6, <1>7, <1>8 DEF IInv

LEMMA BeginRollbackStep == ASSUME IInv, BeginRollback PROVE IInv'
<1>r. Halves = {"out", "in"} /\ TypeOK
  BY Ranges DEF IInv
<1>j. /\ disk' \in [phase : Phases, moves : [Paths -> [Halves -> States]], created : BOOLEAN]
      /\ \/ pc' = "reverse" /\ disk'.phase = phase' /\ disk'.moves = moves'
         \/ pc' = "attention" /\ disk' = disk
  <2>1. Journal("reverse", "attention")
    BY DEF BeginRollback
  <2> QED BY <1>r, <2>1, JournalValues DEF TypeOK, Phases, BeginRollback
<1>1. TypeOK'
  BY <1>r, <1>j, Ranges DEF TypeOK, Phases, BeginRollback
<1>2. Contained'
  BY <1>r, <1>j, <1>1, Ranges DEF IInv, BeginRollback
<1>3. Recorded'
  BY <1>r, <1>j, <1>1, Ranges DEF IInv, BeginRollback
<1>4. ForwardLoop'
  BY <1>r, <1>j, <1>1, Ranges DEF IInv, BeginRollback
<1>5. PlanComplete'
  BY <1>r, <1>j, <1>1, Ranges DEF IInv, BeginRollback
<1>6. ReverseLoop'
  BY <1>r, <1>j, <1>1, Ranges DEF IInv, BeginRollback
<1>7. PhaseOnDisk'
  BY <1>r, <1>j, <1>1, Ranges DEF IInv, BeginRollback
<1>8. PhaseTellsTree'
  BY <1>r, <1>j, <1>1, Ranges DEF IInv, BeginRollback
<1> QED BY <1>1, <1>2, <1>3, <1>4, <1>5, <1>6, <1>7, <1>8 DEF IInv

LEMMA SkipReverseStep == ASSUME IInv, SkipReverse PROVE IInv'
<1>r. Halves = {"out", "in"} /\ TypeOK
  BY Ranges DEF IInv
<1>1. TypeOK'
  BY <1>r, Ranges DEF TypeOK, Phases, SkipReverse, Backward
<1>2. Contained'
  BY <1>r, <1>1, Ranges DEF IInv, SkipReverse, Backward
<1>3. Recorded'
  BY <1>r, <1>1, Ranges DEF IInv, SkipReverse, Backward
<1>4. ForwardLoop'
  BY <1>r, <1>1, Ranges DEF IInv, SkipReverse, Backward
<1>5. PlanComplete'
  BY <1>r, <1>1, Ranges DEF IInv, SkipReverse, Backward
<1>6. ReverseLoop'
  <2>0. Backward
    BY DEF SkipReverse
  <2>1. \A p \in Paths, h \in Halves : After(p, h)' => After(p, h) \/ AtCursor(p, h)
    BY <1>r, <2>0, BackwardOrder
  <2>2. at' <= N
    BY <1>r, Ranges DEF IInv, SkipReverse, Backward
  <2>3. \A p \in Paths, h \in Halves : AtCursor(p, h) => p = at /\ h = half
    OBVIOUS
  <2> HIDE DEF Before, After, AtCursor
  <2> QED BY <2>1, <2>2, <2>3, <1>r, <1>1 DEF IInv, SkipReverse
<1>7. PhaseOnDisk'
  BY <1>r, <1>1, Ranges DEF IInv, SkipReverse, Backward
<1>8. PhaseTellsTree'
  BY <1>r, <1>1, Ranges DEF IInv, SkipReverse, Backward
<1> QED BY <1>1, <1>2, <1>3, <1>4, <1>5, <1>6, <1>7, <1>8 DEF IInv

LEMMA RenameBackStep == ASSUME IInv, RenameBack PROVE IInv'
<1>r. Halves = {"out", "in"} /\ TypeOK
  BY Ranges DEF IInv
<1>0. at \in Paths
  BY <1>r, Ranges DEF IInv, RenameBack
<1>m. /\ Moved(To(half), From(half), at) \in [Places -> [Paths -> Contents]]
      /\ \A m \in Places, q \in Paths :
            Moved(To(half), From(half), at)[m][q] = IF q = at /\ m = To(half) THEN "none"
                  ELSE IF q = at /\ m = From(half) THEN place[To(half)][at] ELSE place[m][q]
  BY <1>0, <1>r, Ranges, MovedValues
<1>1. TypeOK'
  BY <1>r, <1>0, <1>m, Ranges DEF TypeOK, Phases, RenameBack, RollbackBlocked
<1>2. Contained'
  BY <1>r, <1>0, <1>m, <1>1, Ranges DEF IInv, RenameBack, RollbackBlocked
<1>3. Recorded'
  BY <1>r, <1>0, <1>m, <1>1, Ranges DEF IInv, RenameBack, RollbackBlocked
<1>4. ForwardLoop'
  BY <1>r, <1>0, <1>m, <1>1, Ranges DEF IInv, RenameBack, RollbackBlocked
<1>5. PlanComplete'
  BY <1>r, <1>0, <1>m, <1>1, Ranges DEF IInv, RenameBack, RollbackBlocked
<1>6. ReverseLoop'
  BY <1>r, <1>0, <1>m, <1>1, Ranges DEF IInv, RenameBack, RollbackBlocked
<1>7. PhaseOnDisk'
  BY <1>r, <1>0, <1>m, <1>1, Ranges DEF IInv, RenameBack, RollbackBlocked
<1>8. PhaseTellsTree'
  BY <1>r, <1>0, <1>m, <1>1, Ranges DEF IInv, RenameBack, RollbackBlocked
<1> QED BY <1>1, <1>2, <1>3, <1>4, <1>5, <1>6, <1>7, <1>8 DEF IInv

LEMMA MarkRevertedStep == ASSUME IInv, MarkReverted PROVE IInv'
<1>r. Halves = {"out", "in"} /\ TypeOK
  BY Ranges DEF IInv
<1>0. at \in Paths
  BY <1>r, Ranges DEF IInv, MarkReverted
<1>m. /\ moves' \in [Paths -> [Halves -> States]]
      /\ \A p \in Paths, h \in Halves :
            moves'[p][h] = IF AtCursor(p, h) THEN "reverted" ELSE moves[p][h]
  BY <1>0, <1>r, MarkedValues DEF States, MarkReverted, Backward
<1>j. /\ disk' \in [phase : Phases, moves : [Paths -> [Halves -> States]], created : BOOLEAN]
      /\ \/ pc' = "reverse" /\ disk'.phase = phase' /\ disk'.moves = moves'
         \/ pc' = "attention" /\ disk' = disk
  <2>1. Journal("reverse", "attention")
    BY DEF MarkReverted
  <2> QED BY <1>r, <1>m, <2>1, JournalValues DEF TypeOK, Phases, MarkReverted, Backward
<1>1. TypeOK'
  BY <1>r, <1>0, <1>m, <1>j, Ranges DEF TypeOK, Phases, MarkReverted, Backward
<1>2. Contained'
  <2>1. moves[at][half] = "done" /\ place' = place /\ persistent' = persistent
    BY DEF IInv, MarkReverted
  <2>2. \A p \in persistent \cap Paths, h \in Halves : ~ AtCursor(p, h) /\ moves[p][h] = "none"
    BY <2>1 DEF IInv
  <2> QED BY <2>1, <2>2, <1>m DEF IInv
<1>3. Recorded'
  BY <1>r, <1>0, <1>m, <1>j, <1>1, Ranges DEF IInv, MarkReverted, Backward
<1>4. ForwardLoop'
  BY <1>r, <1>0, <1>m, <1>j, <1>1, Ranges DEF IInv, MarkReverted, Backward
<1>5. PlanComplete'
  BY <1>r, <1>0, <1>m, <1>j, <1>1, Ranges DEF IInv, MarkReverted, Backward
<1>6. ReverseLoop'
  <2>0. Backward
    BY DEF MarkReverted
  <2>1. \A p \in Paths, h \in Halves : After(p, h)' => After(p, h) \/ AtCursor(p, h)
    BY <1>r, <2>0, BackwardOrder
  <2>2. at' <= N
    BY <1>r, Ranges DEF IInv, MarkReverted, Backward
  <2>3. \A p \in Paths, h \in Halves : AtCursor(p, h) => p = at /\ h = half
    OBVIOUS
  <2> HIDE DEF Before, After, AtCursor
  <2> QED BY <2>1, <2>2, <2>3, <1>r, <1>0, <1>m, <1>j, <1>1 DEF IInv, MarkReverted
<1>7. PhaseOnDisk'
  BY <1>r, <1>0, <1>m, <1>j, <1>1, Ranges DEF IInv, MarkReverted, Backward
<1>8. PhaseTellsTree'
  BY <1>r, <1>0, <1>m, <1>j, <1>1, Ranges DEF IInv, MarkReverted, Backward
<1> QED BY <1>1, <1>2, <1>3, <1>4, <1>5, <1>6, <1>7, <1>8 DEF IInv

LEMMA RebaseBackStep == ASSUME IInv, RebaseBack PROVE IInv'
<1>r. Halves = {"out", "in"} /\ TypeOK
  BY Ranges DEF IInv
<1>1. TypeOK'
  BY <1>r, Ranges DEF TypeOK, Phases, RebaseBack
<1>2. Contained'
  BY <1>r, <1>1, Ranges DEF IInv, RebaseBack
<1>3. Recorded'
  BY <1>r, <1>1, Ranges DEF IInv, RebaseBack
<1>4. ForwardLoop'
  BY <1>r, <1>1, Ranges DEF IInv, RebaseBack
<1>5. PlanComplete'
  BY <1>r, <1>1, Ranges DEF IInv, RebaseBack
<1>6. ReverseLoop'
  BY <1>r, <1>1, Ranges DEF IInv, RebaseBack
<1>7. PhaseOnDisk'
  BY <1>r, <1>1, Ranges DEF IInv, RebaseBack
<1>8. PhaseTellsTree'
  BY <1>r, <1>1, Ranges DEF IInv, RebaseBack
<1> QED BY <1>1, <1>2, <1>3, <1>4, <1>5, <1>6, <1>7, <1>8 DEF IInv

LEMMA RemoveDirectoryStep == ASSUME IInv, RemoveDirectory PROVE IInv'
<1>r. Halves = {"out", "in"} /\ TypeOK
  BY Ranges DEF IInv
<1>j. /\ disk' \in [phase : Phases, moves : [Paths -> [Halves -> States]], created : BOOLEAN]
      /\ \/ pc' = "rmdir" /\ disk'.phase = phase' /\ disk'.moves = moves'
         \/ pc' = "attention" /\ disk' = disk
  <2>1. Journal("rmdir", "attention") /\ phase' = phase /\ moves' = moves
    BY DEF RemoveDirectory
  <2>2. created' \in BOOLEAN
    BY DEF RemoveDirectory
  <2>3. phase' \in Phases /\ moves' \in [Paths -> [Halves -> States]]
    BY <1>r, <2>1 DEF TypeOK
  <2> QED BY <1>r, <2>1, <2>2, <2>3, JournalValues
<1>1. TypeOK'
  BY <1>r, <1>j, Ranges DEF TypeOK, Phases, RemoveDirectory
<1>2. Contained'
  BY <1>r, <1>j, <1>1, Ranges DEF IInv, RemoveDirectory
<1>3. Recorded'
  BY <1>r, <1>j, <1>1, Ranges DEF IInv, RemoveDirectory
<1>4. ForwardLoop'
  BY <1>r, <1>j, <1>1, Ranges DEF IInv, RemoveDirectory
<1>5. PlanComplete'
  BY <1>r, <1>j, <1>1, Ranges DEF IInv, RemoveDirectory
<1>6. ReverseLoop'
  BY <1>r, <1>j, <1>1, Ranges DEF IInv, RemoveDirectory
<1>7. PhaseOnDisk'
  BY <1>r, <1>j, <1>1, Ranges DEF IInv, RemoveDirectory
<1>8. PhaseTellsTree'
  BY <1>r, <1>j, <1>1, Ranges DEF IInv, RemoveDirectory
<1> QED BY <1>1, <1>2, <1>3, <1>4, <1>5, <1>6, <1>7, <1>8 DEF IInv

LEMMA SettleStep == ASSUME IInv, Settle PROVE IInv'
<1>r. Halves = {"out", "in"} /\ TypeOK
  BY Ranges DEF IInv
<1>j. /\ disk' \in [phase : Phases, moves : [Paths -> [Halves -> States]], created : BOOLEAN]
      /\ \/ pc' = "end" /\ disk'.phase = phase' /\ disk'.moves = moves'
         \/ pc' = "attention" /\ disk' = disk
  <2>1. Journal("end", "attention")
    BY DEF Settle
  <2> QED BY <1>r, <2>1, JournalValues DEF TypeOK, Phases, Settle
<1>1. TypeOK'
  BY <1>r, <1>j, Ranges DEF TypeOK, Phases, Settle
<1>2. Contained'
  BY <1>r, <1>j, <1>1, Ranges DEF IInv, Settle
<1>3. Recorded'
  BY <1>r, <1>j, <1>1, Ranges DEF IInv, Settle
<1>4. ForwardLoop'
  BY <1>r, <1>j, <1>1, Ranges DEF IInv, Settle
<1>5. PlanComplete'
  BY <1>r, <1>j, <1>1, Ranges DEF IInv, Settle
<1>6. ReverseLoop'
  BY <1>r, <1>j, <1>1, Ranges DEF IInv, Settle
<1>7. PhaseOnDisk'
  BY <1>r, <1>j, <1>1, Ranges DEF IInv, Settle
<1>8. PhaseTellsTree'
  BY <1>r, <1>j, <1>1, Ranges DEF IInv, Settle
<1> QED BY <1>1, <1>2, <1>3, <1>4, <1>5, <1>6, <1>7, <1>8 DEF IInv

LEMMA CrashStep == ASSUME IInv, Crash PROVE IInv'
<1>r. Halves = {"out", "in"} /\ TypeOK
  BY Ranges DEF IInv
<1>1. TypeOK'
  BY <1>r, Ranges DEF TypeOK, Phases, Crash
<1>2. Contained'
  BY <1>r, <1>1, Ranges DEF IInv, Crash
<1>3. Recorded'
  BY <1>r, <1>1, Ranges DEF IInv, Crash
<1>4. ForwardLoop'
  BY <1>r, <1>1, Ranges DEF IInv, Crash
<1>5. PlanComplete'
  BY <1>r, <1>1, Ranges DEF IInv, Crash
<1>6. ReverseLoop'
  BY <1>r, <1>1, Ranges DEF IInv, Crash
<1>7. PhaseOnDisk'
  BY <1>r, <1>1, Ranges DEF IInv, Crash
<1>8. PhaseTellsTree'
  BY <1>r, <1>1, Ranges DEF IInv, Crash
<1> QED BY <1>1, <1>2, <1>3, <1>4, <1>5, <1>6, <1>7, <1>8 DEF IInv

LEMMA CancelStep == ASSUME IInv, Cancel PROVE IInv'
<1>r. Halves = {"out", "in"} /\ TypeOK
  BY Ranges DEF IInv
<1>1. TypeOK'
  BY <1>r, Ranges DEF TypeOK, Phases, Cancel
<1>2. Contained'
  BY <1>r, <1>1, Ranges DEF IInv, Cancel
<1>3. Recorded'
  BY <1>r, <1>1, Ranges DEF IInv, Cancel
<1>4. ForwardLoop'
  BY <1>r, <1>1, Ranges DEF IInv, Cancel
<1>5. PlanComplete'
  BY <1>r, <1>1, Ranges DEF IInv, Cancel
<1>6. ReverseLoop'
  BY <1>r, <1>1, Ranges DEF IInv, Cancel
<1>7. PhaseOnDisk'
  BY <1>r, <1>1, Ranges DEF IInv, Cancel
<1>8. PhaseTellsTree'
  BY <1>r, <1>1, Ranges DEF IInv, Cancel
<1> QED BY <1>1, <1>2, <1>3, <1>4, <1>5, <1>6, <1>7, <1>8 DEF IInv

LEMMA PrepareNextStep == ASSUME IInv, PrepareNext PROVE IInv'
<1>r. Halves = {"out", "in"} /\ TypeOK
  BY Ranges DEF IInv
<1>1. TypeOK'
  BY <1>r, Ranges DEF TypeOK, Phases, PrepareNext
<1>2. Contained'
  BY <1>r, <1>1, Ranges DEF IInv, PrepareNext
<1>3. Recorded'
  BY <1>r, <1>1, Ranges DEF IInv, PrepareNext
<1>4. ForwardLoop'
  BY <1>r, <1>1, Ranges DEF IInv, PrepareNext
<1>5. PlanComplete'
  BY <1>r, <1>1, Ranges DEF IInv, PrepareNext
<1>6. ReverseLoop'
  BY <1>r, <1>1, Ranges DEF IInv, PrepareNext
<1>7. PhaseOnDisk'
  BY <1>r, <1>1, Ranges DEF IInv, PrepareNext
<1>8. PhaseTellsTree'
  BY <1>r, <1>1, Ranges DEF IInv, PrepareNext
<1> QED BY <1>1, <1>2, <1>3, <1>4, <1>5, <1>6, <1>7, <1>8 DEF IInv

LEMMA WriteStep ==
    ASSUME IInv, NEW w \in Paths, LocalWrite(w) \/ CandidateWrite(w)
    PROVE  IInv'
<1>r. Halves = {"out", "in"} /\ TypeOK
  BY Ranges DEF IInv
<1>a. /\ place' = [place EXCEPT !["root"][w] = "local"]
         \/ place' = [place EXCEPT !["root"][w] = "data"]
      /\ place["root"][w] = "none"
  BY DEF LocalWrite, CandidateWrite
<1>b. "root" \in Places /\ "local" \in Contents /\ "data" \in Contents
  BY DEF Contents
<1>m. /\ place' \in [Places -> [Paths -> Contents]]
      /\ \A m \in Places, q \in Paths :
            m # "root" \/ q # w => place'[m][q] = place[m][q]
      /\ place["root"][w] = "none" /\ place'["root"][w] \in {"local", "data"}
  <2>1. place \in [Places -> [Paths -> Contents]]
    BY <1>r, Ranges
  <2>2. PICK c \in {"local", "data"} : place' = [place EXCEPT !["root"][w] = c]
    BY <1>a
  <2>3. c \in Contents
    BY <1>b
  <2>4. /\ place' \in [Places -> [Paths -> Contents]]
        /\ \A x \in Places, y \in Paths :
              place'[x][y] = IF x = "root" /\ y = w THEN c ELSE place[x][y]
    BY <1>b, <2>1, <2>2, <2>3, Update2
  <2> QED BY <1>a, <1>b, <2>4
<1>1. TypeOK'
  BY <1>r, <1>m, Ranges DEF TypeOK, Phases, LocalWrite, CandidateWrite
<1>2. Contained'
  BY <1>r, <1>m, <1>1, Ranges DEF IInv, LocalWrite, CandidateWrite
<1>3. Recorded'
  BY <1>r, <1>m, <1>1, Ranges DEF IInv, LocalWrite, CandidateWrite
<1>4. ForwardLoop'
  BY <1>r, <1>m, <1>1, Ranges DEF IInv, LocalWrite, CandidateWrite
<1>5. PlanComplete'
  BY <1>r, <1>m, <1>1, Ranges DEF IInv, LocalWrite, CandidateWrite
<1>6. ReverseLoop'
  BY <1>r, <1>m, <1>1, Ranges DEF IInv, LocalWrite, CandidateWrite
<1>7. PhaseOnDisk'
  BY <1>r, <1>m, <1>1, Ranges DEF IInv, LocalWrite, CandidateWrite
<1>8. PhaseTellsTree'
  BY <1>r, <1>m, <1>1, Ranges DEF IInv, LocalWrite, CandidateWrite
<1> QED BY <1>1, <1>2, <1>3, <1>4, <1>5, <1>6, <1>7, <1>8 DEF IInv

LEMMA StutterStep == ASSUME IInv, UNCHANGED vars PROVE IInv'
  BY DEF vars, IInv, TypeOK

HIDE DEF Contained, Recorded, ForwardLoop, PlanComplete, ReverseLoop, PhaseOnDisk,
         PhaseTellsTree, PreviousTree, CandidateTree, Displaced, Before, After,
         AtCursor, Exists, From, To, Moving, Early, Activating, Restoring,
         Stopped, Places, Interrupted, NoMoves

LEMMA InitHolds == Init => IInv
<1> SUFFICES ASSUME Init PROVE IInv
  OBVIOUS
<1>1. TypeOK
  <2>1. place \in [Places -> [Paths -> Contents]]
    <3>1. PICK live \in [Paths -> {"none", "old", "local"}] :
             place = [l \in Places |-> IF l = "root" THEN live ELSE Nothing]
      BY DEF Init
    <3>2. live \in [Paths -> Contents] /\ Nothing \in [Paths -> Contents]
      BY DEF Nothing, Contents
    <3> QED BY <3>1, <3>2
  <2>2. NoMoves \in [Paths -> [Halves -> States]]
    BY DEF NoMoves, States
  <2>3. rootDir \in BOOLEAN /\ at \in 0..(N + 1)
    BY ReleaseConstants DEF Init
  <2> QED BY <2>1, <2>2, <2>3 DEF Init, TypeOK, Phases, Halves
<1>2. /\ pc = "start" /\ phase = "building" /\ disk.phase = "none" /\ next = "none"
      /\ persistent = {} /\ moves = NoMoves /\ disk.moves = NoMoves
  BY DEF Init
<1>3. \A p \in Paths : /\ place["previous"][p] = "none" /\ place["candidate"][p] = "none"
                       /\ place["root"][p] # "new"
  BY DEF Init, Places, Nothing
<1>4. Contained /\ PreviousTree
  BY <1>2, <1>3 DEF Contained, PreviousTree
<1>5. Recorded
  BY <1>2, <1>3 DEF Recorded, Displaced, NoMoves, Halves
<1>6. ForwardLoop /\ PlanComplete /\ ReverseLoop
  BY <1>2 DEF ForwardLoop, PlanComplete, ReverseLoop, Moving
<1>7. PhaseOnDisk /\ PhaseTellsTree
  BY <1>2, <1>4 DEF PhaseOnDisk, PhaseTellsTree, Early, Activating, Restoring, Stopped
<1> QED BY <1>1, <1>4, <1>5, <1>6, <1>7 DEF IInv

LEMMA NextHolds == IInv /\ [Next]_vars => IInv'
<1> SUFFICES ASSUME IInv, [Next]_vars PROVE IInv'
  OBVIOUS
<1> QED
  BY PrepareStep, BuildStep, BuildFailsStep, ActivateStep, PlanStep,
     MakeArchiveStep, SkipMoveStep, CheckMoveStep, RecordDirectoryStep,
     MakeDirectoryStep, MarkPendingStep, RenameForwardStep, MarkDoneStep,
     RebaseLinksStep, CompleteStep, BeginRollbackStep, SkipReverseStep,
     RenameBackStep, MarkRevertedStep, RebaseBackStep, RemoveDirectoryStep,
     SettleStep, CrashStep, CancelStep, PrepareNextStep, WriteStep, StutterStep
  DEF Next

LEMMA Inductive == Spec => []IInv
BY InitHolds, NextHolds, PTL DEF Spec

\* Every variable of the model of lib/deployment-release.ts keeps its range.
THEOREM TypeCorrect == Spec => []TypeOK
<1>1. IInv => TypeOK
  BY DEF IInv
<1> QED BY Inductive, <1>1, PTL

\* For any number of paths and whatever fails, release.json's phase tells which
\* tree is live: activateContents and rollbackContents journal in an order that
\* a crash cannot falsify.
THEOREM PhaseIsTrue == Spec => []PhaseTellsTree
<1>1. IInv => PhaseTellsTree
  BY DEF IInv
<1> QED BY Inductive, <1>1, PTL

\* Write-ahead: whatever a crash leaves displaced is in release.json's contentMoves.
THEOREM MovesAreJournaled == Spec => []JournalCoversEveryMove
<1>1. IInv => JournalCoversEveryMove
  BY DEF IInv, JournalCoversEveryMove, Recorded, Displaced, Halves
<1> QED BY Inductive, <1>1, PTL

\* What an admission finds.
Begins == next' # next /\ next' \in {"admitted", "early"} => PreviousTree \/ CandidateTree

\* prepare() of the following deployment never goes to work on a mixture of releases,
\* beside a cancelled loop either, and where the loop has ended the tree stays whole.
THEOREM AdmittedOnWholeTree == Spec => []NextSeesWholeTree /\ BeginsOnWholeTree
<1>1. IInv => NextSeesWholeTree
  <2> SUFFICES ASSUME IInv, next = "admitted" PROVE PreviousTree \/ CandidateTree
    BY DEF NextSeesWholeTree
  <2>1. ~Interrupted(disk.phase) /\ disk.phase \in Phases
    BY DEF IInv, PhaseOnDisk, TypeOK
  <2>2. disk.phase \in {"none", "building", "rolled-back", "complete"}
    BY <2>1 DEF Interrupted, Phases
  <2> QED BY <2>2 DEF IInv, PhaseTellsTree
<1>2. IInv /\ [Next]_vars => [Begins]_vars
  <2> SUFFICES ASSUME IInv, [Next]_vars, next' # next, next' \in {"admitted", "early"}
               PROVE  PreviousTree \/ CandidateTree
    BY DEF Begins
  <2>1. PrepareNext
    BY DEF Next, vars, Prepare, Build, BuildFails, Activate, Plan, MakeArchive, SkipMove, CheckMove,
      RecordDirectory, MakeDirectory, MarkPending, RenameForward, MarkDone, RebaseLinks, Complete,
      BeginRollback, SkipReverse, RenameBack, MarkReverted, RebaseBack, RemoveDirectory, Settle,
      LocalWrite, CandidateWrite, Crash, Cancel
  <2>2. ~Interrupted(disk.phase) /\ disk.phase \in Phases
    BY <2>1 DEF PrepareNext, IInv, TypeOK
  <2>3. disk.phase \in {"none", "building", "rolled-back", "complete"}
    BY <2>2 DEF Interrupted, Phases
  <2> QED BY <2>3 DEF IInv, PhaseTellsTree
<1> QED BY Inductive, <1>1, <1>2, PTL DEF Spec, BeginsOnWholeTree, Begins

-----------------------------------------------------------------------------
\* Where something is about to be put, nothing lies: the destination of the move
\* the loop is at, and the candidate's tree before the build.
FreeTells ==
    /\ pc \in {"start", "building"} => \A p \in Paths : place["candidate"][p] = "none"
    /\ pc \in {"pending", "mkdir", "rename"} => ~ Exists(To(half), at)

LEMMA FreeTellsStep ==
    ASSUME IInv, FreeTells, [Next]_vars
    PROVE  FreeTells'
<1> USE DEF FreeTells, Exists, To, Journal, Stopped
<1>1. ASSUME Prepare \/ BuildFails \/ Activate \/ Plan \/ MakeArchive PROVE FreeTells'
  BY <1>1 DEF Prepare, BuildFails, Activate, Plan, MakeArchive
<1>2. CASE Build
  BY <1>2 DEF Build
<1>3. ASSUME SkipMove \/ MarkDone \/ RebaseLinks \/ Complete PROVE FreeTells'
  BY <1>3 DEF SkipMove, MarkDone, RebaseLinks, Complete
<1>4. ASSUME CheckMove \/ RecordDirectory \/ MakeDirectory PROVE FreeTells'
  <2>1. UNCHANGED <<place, at, half>>
    BY <1>4 DEF CheckMove, RecordDirectory, MakeDirectory
  <2>2. pc' = "failed" \/ (pc' \in {"pending", "mkdir"} /\ ~ Exists(To(half), at))
    <3>1. CASE CheckMove
      BY <3>1 DEF CheckMove
    <3>2. CASE RecordDirectory
      BY <3>2 DEF RecordDirectory
    <3>3. CASE MakeDirectory
      BY <3>3 DEF MakeDirectory
    <3> QED
      BY <1>4, <3>1, <3>2, <3>3
  <2> QED
    BY <2>1, <2>2
<1>5. CASE MarkPending
  BY <1>5 DEF MarkPending, RecordIntent
<1>6. CASE RenameForward
  BY <1>6 DEF RenameForward
<1>7. ASSUME BeginRollback \/ SkipReverse \/ RenameBack \/ MarkReverted \/ RebaseBack PROVE FreeTells'
  BY <1>7 DEF BeginRollback, SkipReverse, RenameBack, MarkReverted, RebaseBack
<1>8. ASSUME RemoveDirectory \/ Settle \/ Crash \/ Cancel \/ PrepareNext PROVE FreeTells'
  BY <1>8 DEF RemoveDirectory, Settle, Crash, Cancel, PrepareNext
<1>9. ASSUME NEW p \in Paths, LocalWrite(p) PROVE FreeTells'
  <2>1. pc = "building" /\ pc' = pc /\ place' = [place EXCEPT !["root"][p] = "local"]
    BY <1>9 DEF LocalWrite
  <2>2. place["candidate"] = place'["candidate"]
    BY <2>1 DEF IInv, TypeOK, Places
  <2> QED
    BY <2>1, <2>2
<1>10. ASSUME NEW p \in Paths, CandidateWrite(p) PROVE FreeTells'
  BY <1>10 DEF CandidateWrite
<1>11. CASE UNCHANGED vars
  BY <1>11 DEF vars
<1> QED
  BY <1>1, <1>2, <1>3, <1>4, <1>5, <1>6, <1>7, <1>8, <1>9, <1>10, <1>11 DEF Next

\* What one step keeps of the contents of every path.
Keeps == \A p \in Paths, c \in Contents \ {"none"} :
    (\E l \in Places : place[l][p] = c) => (\E l \in Places : place'[l][p] = c)

\* A rename to a free place keeps the content of every path.
LEMMA RenameKeeps ==
    ASSUME TypeOK, NEW l \in Places, NEW k \in Places, l # k, NEW q \in Paths,
           place' = Moved(l, k, q), ~ Exists(k, q)
    PROVE  Keeps
<1>1. \A m \in Places, p \in Paths :
          place'[m][p] = IF p = q /\ m = l THEN "none"
                         ELSE IF p = q /\ m = k THEN place[l][q] ELSE place[m][p]
  BY MovedValues
<1> QED
  BY <1>1 DEF Keeps, Exists

LEMMA StepKeeps ==
    ASSUME IInv, FreeTells, [Next]_vars
    PROVE  Keeps
<1>1. CASE place' = place
  BY <1>1 DEF Keeps
<1>2. CASE Build
  <2>1. \A p \in Paths : place["candidate"][p] = "none"
    BY <1>2 DEF Build, FreeTells
  <2>2. place'["root"] = place["root"] /\ place'["previous"] = place["previous"]
    BY <1>2 DEF Build, IInv, TypeOK, Places
  <2> QED
    BY <2>1, <2>2 DEF Keeps, Places
<1>3. ASSUME NEW q \in Paths, LocalWrite(q) \/ CandidateWrite(q) PROVE Keeps
  <2>1. PICK c \in Contents : place' = [place EXCEPT !["root"][q] = c]
    BY <1>3 DEF LocalWrite, CandidateWrite, Contents
  <2>2. place["root"][q] = "none"
    BY <1>3 DEF LocalWrite, CandidateWrite, Exists
  <2>3. \A m \in Places, p \in Paths : place'[m][p] = IF m = "root" /\ p = q THEN c ELSE place[m][p]
    <3>1. place \in [Places -> [Paths -> Contents]] /\ "root" \in Places
      BY DEF IInv, TypeOK, Places
    <3> QED
      BY <2>1, <3>1, Update2
  <2> QED
    BY <2>2, <2>3 DEF Keeps
<1>4. CASE RenameForward /\ place' # place
  <2>1. place' = Moved(From(half), To(half), at) /\ pc = "rename"
    BY <1>4 DEF RenameForward
  <2>2. at \in Paths /\ ~ Exists(To(half), at)
    BY <2>1 DEF IInv, ForwardLoop, Moving, FreeTells
  <2> QED
    BY <2>1, <2>2, Ranges, RenameKeeps DEF IInv
<1>5. CASE RenameBack /\ place' # place
  <2>1. /\ place' = Moved(To(half), From(half), at) /\ pc = "reverse" /\ at >= 1
        /\ ~ Exists(From(half), at)
    BY <1>5 DEF RenameBack, RollbackBlocked
  <2>2. at \in Paths
    BY <2>1, Ranges DEF IInv, ReverseLoop
  <2> QED
    BY <2>1, <2>2, Ranges, RenameKeeps DEF IInv
<1>6. \/ place' = place \/ Build \/ RenameForward \/ RenameBack
      \/ \E p \in Paths : LocalWrite(p) \/ CandidateWrite(p)
  <2>1. ASSUME Prepare \/ BuildFails \/ Activate \/ Plan \/ MakeArchive \/ SkipMove \/ CheckMove
               \/ RecordDirectory \/ MakeDirectory \/ MarkPending \/ MarkDone \/ RebaseLinks \/ Complete
        PROVE  place' = place
    BY <2>1 DEF Prepare, BuildFails, Activate, Plan, MakeArchive, SkipMove, CheckMove, RecordDirectory,
      MakeDirectory, MarkPending, MarkDone, RebaseLinks, Complete
  <2>2. ASSUME BeginRollback \/ SkipReverse \/ MarkReverted \/ RebaseBack \/ RemoveDirectory \/ Settle
               \/ Crash \/ Cancel \/ PrepareNext \/ UNCHANGED vars
        PROVE  place' = place
    BY <2>2 DEF BeginRollback, SkipReverse, MarkReverted, RebaseBack, RemoveDirectory, Settle, Crash,
      Cancel, PrepareNext, vars
  <2> QED
    BY <2>1, <2>2 DEF Next
<1> QED
  BY <1>1, <1>2, <1>3, <1>4, <1>5, <1>6

\* No step destroys the last copy of anything, for any number of paths and whatever
\* fails: activateContents checks a destination before it writes its intent, and
\* rollbackContents before each rename.
THEOREM NothingIsLost == Spec => NothingLost
<1>1. Init => FreeTells
  <2> SUFFICES ASSUME Init PROVE FreeTells
    OBVIOUS
  <2>1. pc = "start" /\ \A p \in Paths : place["candidate"][p] = "none"
    BY DEF Init, Places, Nothing
  <2> QED
    BY <2>1 DEF FreeTells
<1>2. IInv /\ FreeTells /\ [Next]_vars => FreeTells'
  BY FreeTellsStep
<1>3. IInv /\ FreeTells /\ [Next]_vars => [Keeps]_vars
  BY StepKeeps
<1> QED
  BY <1>1, <1>2, <1>3, Inductive, PTL DEF Spec, NothingLost, Keeps

-----------------------------------------------------------------------------
\* A release that could not record its beginning does not look final.
EndTells == pc = "failed" => disk.phase \in {"none", "building", "activating"}

LEMMA EndTellsStep ==
    ASSUME IInv, EndTells, [Next]_vars
    PROVE  EndTells'
<1> USE DEF EndTells, Journal, IInv, PhaseOnDisk, Activating, Restoring, Early, Stopped
<1>1. ASSUME Prepare \/ Build \/ BuildFails PROVE EndTells'
  BY <1>1 DEF Prepare, Build, BuildFails
<1>2. ASSUME Activate \/ Plan PROVE EndTells'
  BY <1>2 DEF Activate, Plan
<1>3. ASSUME MakeArchive \/ SkipMove \/ CheckMove \/ MakeDirectory \/ RenameForward \/ RebaseLinks
      PROVE  EndTells'
  BY <1>3 DEF MakeArchive, SkipMove, CheckMove, MakeDirectory, RenameForward, RebaseLinks
<1>4. ASSUME RecordDirectory \/ MarkPending \/ MarkDone PROVE EndTells'
  BY <1>4 DEF RecordDirectory, MarkPending, RecordIntent, MarkDone
<1>5. ASSUME Complete \/ BeginRollback \/ SkipReverse \/ RenameBack \/ MarkReverted \/ RebaseBack
      PROVE  EndTells'
  BY <1>5 DEF Complete, BeginRollback, SkipReverse, RenameBack, MarkReverted, RebaseBack
<1>6. ASSUME RemoveDirectory \/ Settle \/ Crash \/ Cancel \/ PrepareNext PROVE EndTells'
  BY <1>6 DEF RemoveDirectory, Settle, Crash, Cancel, PrepareNext
<1>7. ASSUME NEW p \in Paths, LocalWrite(p) \/ CandidateWrite(p) PROVE EndTells'
  BY <1>7 DEF LocalWrite, CandidateWrite
<1>8. CASE UNCHANGED vars
  BY <1>8 DEF vars
<1> QED
  BY <1>1, <1>2, <1>3, <1>4, <1>5, <1>6, <1>7, <1>8 DEF Next

\* The trees change only with what lies in them, and with what is kept of them.
LEMMA WholeStays ==
    ASSUME UNCHANGED <<place, persistent>>
    PROVE  Whole' = Whole
  BY DEF Whole, PreviousTree, CandidateTree

\* A step of ReleasePromise, as the mapping of KeepsRelease shows it.
Simulated == [Promise!Next]_(Promise!vars)

\* A loop that has ended takes no step; only the following deployment does.
LEMMA EndedRests ==
    ASSUME pc \in Stopped, [Next]_vars
    PROVE  UNCHANGED <<place, persistent, disk, pc, cancelled>> /\ (next' = next \/ PrepareNext)
<1>1. pc \in {"end", "attention", "crashed"}
  BY DEF Stopped
<1>2. ~ (Prepare \/ Build \/ BuildFails \/ Activate \/ Plan \/ MakeArchive \/ SkipMove \/ CheckMove)
  BY <1>1 DEF Prepare, Build, BuildFails, Activate, Plan, MakeArchive, SkipMove, CheckMove
<1>3. ~ (RecordDirectory \/ MakeDirectory \/ MarkPending \/ RenameForward \/ MarkDone \/ RebaseLinks)
  BY <1>1 DEF RecordDirectory, MakeDirectory, MarkPending, RenameForward, MarkDone, RebaseLinks
<1>4. ~ (Complete \/ BeginRollback \/ SkipReverse \/ RenameBack \/ MarkReverted \/ RebaseBack)
  BY <1>1 DEF Complete, BeginRollback, SkipReverse, RenameBack, MarkReverted, RebaseBack
<1>5. ~ (RemoveDirectory \/ Settle \/ Crash \/ Cancel)
  BY <1>1 DEF RemoveDirectory, Settle, Crash, Cancel, Stopped
<1>6. \A p \in Paths : ~ (LocalWrite(p) \/ CandidateWrite(p))
  BY <1>1 DEF LocalWrite, CandidateWrite
<1>7. PrepareNext \/ UNCHANGED vars
  BY <1>2, <1>3, <1>4, <1>5, <1>6 DEF Next
<1> QED
  BY <1>7 DEF PrepareNext, vars

\* prepare() of the following deployment is the promise's.
LEMMA FollowingStep == ASSUME TypeOK, PrepareNext PROVE Promise!Following
<1>1. UNCHANGED <<place, persistent, disk, pc, cancelled>>
  BY DEF PrepareNext
<1>2. Stage' = Stage /\ Whole' = Whole /\ Loop' = Loop
  BY <1>1, WholeStays DEF Stage, Loop
<1>3. Interrupted(disk.phase) <=> Stage = "moving"
  BY DEF Interrupted, Stage, Phases, TypeOK
<1>4. /\ Loop # "running"
      /\ Loop = "over" <=> pc \in Stopped
  BY DEF PrepareNext, Loop
<1> QED
  BY <1>2, <1>3, <1>4 DEF PrepareNext, Promise!Following

\* Everything else is the loop's own, or the cancellation.
LEMMA LoopGoes ==
    ASSUME [Next]_vars, pc \notin Stopped, ~ PrepareNext, ~ Cancel
    PROVE  next' = next /\ Loop # "over" /\ Loop' \in {Loop, "over"}
<1>1. UNCHANGED around
  BY DEF Next, vars, Prepare, Build, BuildFails, Activate, Plan, MakeArchive, SkipMove, CheckMove,
    RecordDirectory, MakeDirectory, MarkPending, RenameForward, MarkDone, RebaseLinks, Complete,
    BeginRollback, SkipReverse, RenameBack, MarkReverted, RebaseBack, RemoveDirectory, Settle,
    LocalWrite, CandidateWrite, Crash
<1> QED
  BY <1>1 DEF Loop

LEMMA ReleaseStep ==
    ASSUME IInv, IInv', EndTells, [Next]_vars
    PROVE  Simulated
<1> USE DEF Simulated, Promise!Next, Promise!vars, Journal
<1>a. CASE PrepareNext
  BY <1>a, FollowingStep DEF IInv
<1>b. CASE pc \in Stopped /\ ~ PrepareNext
  BY <1>b, EndedRests, WholeStays DEF Stage, Loop
<1>c. CASE Cancel
  <2>1. Stage' = Stage /\ Whole' = Whole /\ next' = next
    BY <1>c, WholeStays DEF Cancel, Stage
  <2>2. Loop = "running" /\ Loop' = "cancelled"
    BY <1>c DEF Cancel, Loop
  <2> QED
    BY <2>1, <2>2 DEF Promise!Cancel
<1> SUFFICES ASSUME pc \notin Stopped, ~ PrepareNext, ~ Cancel PROVE Simulated
  BY <1>a, <1>b, <1>c
<1>0. Promise!Works
  BY LoopGoes DEF Promise!Works
<1>d. Loop' \in {Loop, "over"}
  BY LoopGoes
<1>1. Whole \subseteq {"previous", "candidate"} /\ Whole' \subseteq {"previous", "candidate"}
  BY DEF Whole
<1>2. /\ PreviousTree <=> "previous" \in Whole
      /\ PreviousTree' <=> "previous" \in Whole'
      /\ CandidateTree <=> "candidate" \in Whole
  BY DEF Whole
<1>3. ASSUME Stage' = Stage, UNCHANGED <<place, persistent>> PROVE Simulated
  BY <1>0, <1>d, <1>3, WholeStays, LoopGoes DEF Promise!End
<1>4. ASSUME Stage = "open", Stage' = "open" PROVE Simulated
  <2>1. PreviousTree'
    BY <1>4 DEF Stage, IInv, PhaseTellsTree
  <2> QED
    BY <1>0, <1>1, <1>2, <1>4, <2>1 DEF Promise!Work, Promise!Releases
<1>5. ASSUME Stage = "moving", Stage' = "moving" PROVE Simulated
  BY <1>0, <1>1, <1>5 DEF Promise!Move, Promise!Releases
<1>6. /\ pc \in Early => Stage = "open"
      /\ pc \in Activating \cup Restoring \cup {"activated"} => Stage = "moving"
  BY DEF IInv, PhaseOnDisk, Stage
<1>7. disk.phase \in Phases
  BY DEF IInv, TypeOK
<1>8. CASE Prepare
  <2>1. disk'.phase \in {"none", "building"}
    BY <1>8 DEF Prepare, Early, IInv, PhaseOnDisk
  <2> QED
    BY <1>4, <1>6, <1>8, <2>1 DEF Prepare, Early, Stage
<1>9. ASSUME Build \/ BuildFails \/ \E p \in Paths : LocalWrite(p) PROVE Simulated
  BY <1>4, <1>6, <1>9 DEF Build, BuildFails, LocalWrite, Early, Stage
<1>10. CASE Activate
  <2>1. UNCHANGED <<place, persistent>> /\ Stage = "open"
    BY <1>6, <1>10 DEF Activate, Early
  <2>2. Stage' \in {Stage, "moving"}
    BY <1>10 DEF Activate, Stage
  <2> QED
    BY <1>0, <1>3, <2>1, <2>2, WholeStays DEF Promise!Begin
<1>11. ASSUME Plan \/ RecordDirectory \/ MarkPending \/ MarkDone PROVE Simulated
  <2>1. Stage = "moving"
    BY <1>6, <1>11 DEF Plan, RecordDirectory, MarkPending, MarkDone, Activating
  <2>2. disk'.phase \in {disk.phase, "activating"}
    <3>1. phase = "activating"
      BY <1>11 DEF Plan, RecordDirectory, MarkPending, MarkDone, Activating, IInv, PhaseOnDisk
    <3> QED
      BY <1>11, <3>1 DEF Plan, RecordDirectory, MarkPending, RecordIntent, MarkDone
  <2> QED
    BY <1>5, <2>1, <2>2 DEF Stage
<1>12. ASSUME MakeArchive \/ SkipMove \/ CheckMove \/ MakeDirectory \/ RebaseLinks PROVE Simulated
  BY <1>3, <1>12 DEF MakeArchive, SkipMove, CheckMove, MakeDirectory, RebaseLinks, Stage
<1>13. ASSUME RenameForward \/ RenameBack \/ \E p \in Paths : CandidateWrite(p) PROVE Simulated
  BY <1>5, <1>6, <1>13 DEF RenameForward, RenameBack, CandidateWrite, Activating, Restoring, Stage
<1>14. CASE Complete
  <2>1. UNCHANGED <<place, persistent>> /\ Stage = "moving" /\ CandidateTree
    BY <1>6, <1>14 DEF Complete, IInv, PhaseOnDisk
  <2>2. Stage' \in {Stage, "accepted"}
    BY <1>14 DEF Complete, Stage
  <2> QED
    BY <1>0, <1>2, <1>3, <2>1, <2>2, WholeStays DEF Promise!Accept
<1>15. CASE BeginRollback
  <2>1. UNCHANGED <<place, persistent>> /\ Stage \in {"open", "moving"}
    BY <1>6, <1>15 DEF BeginRollback, EndTells, Stage
  <2>2. Stage' \in {Stage, "moving"}
    BY <1>15 DEF BeginRollback, Stage
  <2> QED
    BY <1>0, <1>3, <2>1, <2>2, WholeStays DEF Promise!Begin
<1>16. ASSUME SkipReverse \/ RebaseBack \/ Crash PROVE Simulated
  BY <1>3, <1>16 DEF SkipReverse, RebaseBack, Crash, Stage
<1>17. ASSUME MarkReverted \/ RemoveDirectory PROVE Simulated
  <2>1. Stage = "moving"
    BY <1>6, <1>17 DEF MarkReverted, RemoveDirectory, Restoring
  <2>2. disk'.phase \in {disk.phase, "restoring"}
    <3>1. phase = "restoring"
      BY <1>17 DEF MarkReverted, RemoveDirectory, Restoring, IInv, PhaseOnDisk
    <3> QED
      BY <1>17, <3>1 DEF MarkReverted, RemoveDirectory
  <2> QED
    BY <1>5, <2>1, <2>2 DEF Stage
<1>18. CASE Settle
  <2>1. UNCHANGED <<place, persistent>> /\ Stage = "moving"
    BY <1>6, <1>18 DEF Settle, Restoring
  <2>2. CASE Stage' = Stage
    BY <1>3, <2>1, <2>2
  <2>3. CASE disk'.phase = "rolled-back"
    <3>1. PreviousTree
      BY <1>2, <2>1, <2>3, WholeStays DEF IInv, PhaseTellsTree
    <3> QED
      BY <1>0, <1>2, <2>1, <2>3, <3>1, WholeStays DEF Stage, Promise!GiveBack
  <2> QED
    BY <1>18, <2>2, <2>3 DEF Settle, Stage
<1>20. CASE UNCHANGED vars
  BY <1>3, <1>20 DEF vars, Stage
<1> QED
  BY <1>8, <1>9, <1>10, <1>11, <1>12, <1>13, <1>14, <1>15, <1>16, <1>17, <1>18, <1>20 DEF Next

\* Whatever fails, a release in pieces is to those around it one of ReleasePromise:
\* files move only between the first and the last record of an activation, a record
\* that says how it ended is final, and the next deployment begins on a whole tree.
THEOREM ReleaseIsKept == Spec => KeepsRelease
<1>1. Init => EndTells
  BY DEF Init, EndTells
<1>2. IInv /\ EndTells /\ [Next]_vars => EndTells'
  BY EndTellsStep
<1>3. Init => Promise!Init
  <2> SUFFICES ASSUME Init PROVE Promise!Init
    OBVIOUS
  <2>1. disk.phase = "none" /\ next = "none" /\ PreviousTree /\ pc = "start" /\ ~cancelled
    <3>1. disk.phase = "none" /\ IInv /\ pc = "start" /\ ~cancelled
      BY InitHolds DEF Init
    <3> QED
      BY <3>1 DEF IInv, PhaseTellsTree, Init
  <2> QED
    BY <2>1 DEF Promise!Init, Promise!Releases, Stage, Whole, Loop, Stopped
<1>4. IInv /\ IInv' /\ EndTells /\ [Next]_vars => [Promise!Next]_(Promise!vars)
  BY ReleaseStep DEF Simulated
<1> QED
  BY <1>1, <1>2, <1>3, <1>4, Inductive, PTL DEF Spec, KeepsRelease, Promise!Spec

\* What a reader of the promise may conclude, whoever keeps it: the two properties
\* that speak of one release at a time need nothing of paths and journals.
THEOREM PromiseSuffices == KeepsRelease => [](PhaseTellsTree /\ NextSeesWholeTree)
<1> DEFINE Says ==
      /\ Stage \in {"open", "restored"} => "previous" \in Whole
      /\ Stage = "accepted" => "candidate" \in Whole
      /\ next = "admitted" => Stage \in {"open", "accepted", "restored"} /\ Loop = "over"
<1>1. Promise!Init => Says
  BY DEF Promise!Init
<1>2. Says /\ [Promise!Next]_(Promise!vars) => Says'
  <2> SUFFICES ASSUME Says, [Promise!Next]_(Promise!vars) PROVE Says'
    OBVIOUS
  <2>1. CASE Promise!Work
    BY <2>1 DEF Promise!Work, Promise!Works
  <2>2. CASE Promise!Begin
    BY <2>2 DEF Promise!Begin, Promise!Works
  <2>3. CASE Promise!Move
    BY <2>3 DEF Promise!Move, Promise!Works
  <2>4. CASE Promise!Accept
    BY <2>4 DEF Promise!Accept, Promise!Works
  <2>5. CASE Promise!GiveBack
    BY <2>5 DEF Promise!GiveBack, Promise!Works
  <2>6. CASE Promise!Following
    <3>1. Stage \in {"open", "moving", "accepted", "restored"}
      BY DEF Stage
    <3> QED
      BY <2>6, <3>1 DEF Promise!Following
  <2>7. CASE UNCHANGED Promise!vars
    BY <2>7 DEF Promise!vars
  <2>8. CASE Promise!End \/ Promise!Cancel
    BY <2>8 DEF Promise!End, Promise!Cancel, Promise!Works
  <2> QED
    BY <2>1, <2>2, <2>3, <2>4, <2>5, <2>6, <2>7, <2>8 DEF Promise!Next
<1>3. Says => PhaseTellsTree /\ NextSeesWholeTree
  BY DEF Stage, Whole, PhaseTellsTree, NextSeesWholeTree
<1> QED
  BY <1>1, <1>2, <1>3, PTL DEF KeepsRelease, Promise!Spec
=============================================================================

---------------------------- MODULE ReleasePromise ----------------------------
(***************************************************************************)
(* What a release promises to the deployments around it, without paths,    *)
(* journals and processes: the project's root is a whole tree of the       *)
(* previous release, of the candidate, or (where they do not differ) of    *)
(* both, except while the record says that it moves; a record that is      *)
(* closed is final; and the following deployment begins where nothing      *)
(* moves.  It may begin as soon as the row lets it, which is before the    *)
(* loop has ended when the deployment was cancelled.                       *)
(***************************************************************************)
VARIABLES
    stage,      \* what is recorded of it
    whole,      \* the releases of which the root is a whole tree
    loop,       \* the loop that moves the files
    next        \* what has become of the following deployment

vars == <<stage, whole, loop, next>>

Stages   == {"open", "moving", "accepted", "restored"}
Releases == {"previous", "candidate"}

Init ==
    /\ stage = "open" /\ "previous" \in whole /\ whole \subseteq Releases
    /\ loop = "running" /\ next = "none"

\* A cancelled loop goes on to its next check, and any step may be its last.
Works == loop # "over" /\ loop' \in {loop, "over"} /\ UNCHANGED next

\* The candidate is built, and the project writes its own files.
Work ==
    /\ Works /\ stage = "open"
    /\ "previous" \in whole' /\ whole' \subseteq Releases
    /\ UNCHANGED stage

Begin ==
    /\ Works /\ stage = "open" /\ stage' = "moving"
    /\ UNCHANGED whole

Move ==
    /\ Works /\ stage = "moving" /\ whole' \subseteq Releases
    /\ UNCHANGED stage

Accept ==
    /\ Works /\ stage = "moving" /\ "candidate" \in whole /\ stage' = "accepted"
    /\ UNCHANGED whole

GiveBack ==
    /\ Works /\ stage = "moving" /\ "previous" \in whole /\ stage' = "restored"
    /\ UNCHANGED whole

End == Works /\ loop' = "over" /\ UNCHANGED <<stage, whole>>

Cancel ==
    /\ loop = "running" /\ loop' = "cancelled"
    /\ UNCHANGED <<stage, whole, next>>

\* It reads the record, and refuses to begin on what may be a mixture.
Following ==
    /\ loop # "running" /\ next \in {"none", "refused"}
    /\ next' = IF stage = "moving" THEN "refused"
               ELSE IF loop = "over" THEN "admitted" ELSE "early"
    /\ UNCHANGED <<stage, whole, loop>>

Next == Work \/ Begin \/ Move \/ Accept \/ GiveBack \/ End \/ Cancel \/ Following
Spec == Init /\ [][Next]_vars
=============================================================================

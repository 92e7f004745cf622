--------------------------- MODULE MCCronActivation ---------------------------
(***************************************************************************)
(* CronActivation for TLC.                                                 *)
(***************************************************************************)
EXTENDS CronActivation, TLC

\* Two applications; d1 deploys the first, further deployments the second.
MCProjectOf == [d \in Deployments |-> IF d = "d1" THEN 1 ELSE CHOOSE p \in Projects : \A q \in Projects : p >= q]

SharedRoot == [p \in Projects |-> "rootA"]

\* The first job is linked to project 1, a second one is from before jobs had
\* projects and has only its directory.
MCFirstProject == [j \in Jobs |-> IF j = "j1" THEN 1 ELSE NoProject]

=============================================================================

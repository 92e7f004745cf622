---------------------------- MODULE MCDatabaseMove ----------------------------
(* Two applications that share a database, the first with a worker and a scheduled job. *)
EXTENDS DatabaseMove

MCOwnerOf == [p \in Workers \cup Crons |-> "a1"]
=============================================================================

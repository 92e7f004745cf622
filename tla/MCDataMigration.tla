-------------------------- MODULE MCDataMigration --------------------------
(* There and back: j1 writes its target directly, j2 through staging.      *)
EXTENDS DataMigration

MCSourceOf == [j \in Jobs |-> IF j = "j1" THEN "a" ELSE "b"]
MCTargetOf == [j \in Jobs |-> IF j = "j1" THEN "b" ELSE "a"]
MCFirstRows == [s \in Services |-> IF s = "a" THEN {1} ELSE {}]
=============================================================================

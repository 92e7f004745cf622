---------------------------- MODULE UpdatePromise ----------------------------
(***************************************************************************)
(* What an update of Manager promises, without workers, journals and crash *)
(* recovery: the files change only while Manager is stopped, Manager only  *)
(* ever runs a whole release, and the verdict says which one is installed. *)
(***************************************************************************)
VARIABLES installed, serving, verdict

vars == <<installed, serving, verdict>>

Init == installed = "old" /\ serving = "old" /\ verdict = "open"

Stop == serving' = "off" /\ UNCHANGED <<installed, verdict>>

Replace ==
    /\ serving = "off" /\ verdict = "open"
    /\ installed' \in {"old", "new", "mixed"}
    /\ UNCHANGED <<serving, verdict>>

Serve ==
    /\ installed # "mixed"
    /\ serving' = installed
    /\ UNCHANGED <<installed, verdict>>

\* The new release counts as installed only while it runs.
Conclude ==
    /\ verdict = "open" /\ installed # "mixed"
    /\ serving \in {installed, "off"} /\ (installed = "new" => serving = "new")
    /\ verdict' = installed
    /\ UNCHANGED <<installed, serving>>

\* An administrator asks for the previous release back.
Reopen == verdict = "new" /\ verdict' = "open" /\ UNCHANGED <<installed, serving>>

Next == Stop \/ Replace \/ Serve \/ Conclude \/ Reopen
Spec == Init /\ [][Next]_vars
=============================================================================

-------------------------- MODULE MCDeployAdmission --------------------------
(***************************************************************************)
(* DeployAdmission for TLC: interchangeable calls and operations.          *)
(***************************************************************************)
EXTENDS DeployAdmission, TLC

Symmetry == Permutations(Deployments) \cup Permutations(Operations)
=============================================================================

-------------------------- MODULE MCReleaseContents --------------------------
(***************************************************************************)
(* ReleaseContents for TLC: the bounds are in the configurations.          *)
(***************************************************************************)
EXTENDS ReleaseContents
=============================================================================

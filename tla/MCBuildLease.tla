---------------------------- MODULE MCBuildLease ----------------------------
(* Small instances of BuildLease. *)
EXTENDS BuildLease

CONSTANTS shared, other
=============================================================================

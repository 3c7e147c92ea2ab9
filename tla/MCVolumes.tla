----------------------------- MODULE MCVolumes -----------------------------
(* Small instances of Volumes: two servers of one location, one volume.   *)
EXTENDS Volumes
=============================================================================

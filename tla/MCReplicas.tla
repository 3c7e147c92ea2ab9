----------------------------- MODULE MCReplicas -----------------------------
(* Small instances of Replicas: two servers. *)
EXTENDS Replicas

Spread == <<1, 1>>
Second == <<0, 2>>
Both == {Spread, Second}
=============================================================================

------------------------------ MODULE MCVipProxy ------------------------------
(* A small instance of VipProxy: one app with or without its pool, two nft
   commands in flight. *)
EXTENDS VipProxy

CONSTANTS web, one
=============================================================================

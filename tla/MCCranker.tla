----------------------------- MODULE MCCranker -----------------------------
(***************************************************************************)
(* A small instance of the vault's update driven by a client and others.   *)
(***************************************************************************)
EXTENDS CrankerProperties

CONSTANT c1
=============================================================================

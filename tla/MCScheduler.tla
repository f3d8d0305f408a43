---------------------------- MODULE MCScheduler -----------------------------
(***************************************************************************)
(* An instance of the unified scheduler for TLC.                           *)
(***************************************************************************)
EXTENDS UnifiedScheduler

CONSTANTS a1, a2
=============================================================================

----------------------------- MODULE MCThreads ------------------------------
(***************************************************************************)
(* An instance of the scheduler's threads for TLC.                         *)
(***************************************************************************)
EXTENDS ThreadProperties

CONSTANTS a1, h1, h2

(* Readers and writers of one address.                                     *)
OneAddress == {[a \in {a1} |-> u] : u \in RequestedUsages}

(* A block fills up only in production.  Panics, which both modes handle   *)
(* alike, are left to verification.                                        *)
FailuresOfMode == [mode \in Modes |->
  IF mode = "BlockVerification" THEN {"Err", "Panicked"} ELSE {"Err", "OkFull", "Retry"}]
=============================================================================

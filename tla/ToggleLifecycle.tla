-------------------------- MODULE ToggleLifecycle --------------------------
(***************************************************************************)
(* What an opt-in relation promises, in epochs and without slots: it does  *)
(* not exist, or is in one of four phases, and a requested change of phase *)
(* takes effect after one full epoch has passed, by itself.                *)
(***************************************************************************)
EXTENDS Integers

VARIABLES
  epoch,
  phase,
  since      \* the epoch of the last request

vars == <<epoch, phase, since>>

Init ==
  /\ epoch \in Nat
  /\ phase = "Absent"
  /\ since = 0

Create == phase = "Absent" /\ phase' = "Inactive" /\ since' = epoch /\ epoch' = epoch

WarmUp == phase = "Inactive" /\ phase' = "WarmUp" /\ since' = epoch /\ epoch' = epoch

Cooldown == phase = "Active" /\ phase' = "Cooldown" /\ since' = epoch /\ epoch' = epoch

PhaseAfter(e) ==
  IF e <= since + 1 THEN phase
  ELSE IF phase = "WarmUp" THEN "Active"
  ELSE IF phase = "Cooldown" THEN "Inactive"
  ELSE phase

EpochPasses ==
  /\ epoch' = epoch + 1
  /\ phase' = PhaseAfter(epoch + 1)
  /\ since' = since

Next == Create \/ WarmUp \/ Cooldown \/ EpochPasses

Spec == Init /\ [][Next]_vars
=============================================================================

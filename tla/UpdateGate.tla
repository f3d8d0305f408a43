----------------------------- MODULE UpdateGate -----------------------------
(***************************************************************************)
(* What the rest of the system sees of a vault's epoch update: the vault   *)
(* falls behind when an epoch passes, catches up in one step, and accepts  *)
(* the instructions of its other parts only while it is up to date and not *)
(* paused.  Vault.tla implements it with trackers and cranks.              *)
(***************************************************************************)
EXTENDS SlotToggle

VARIABLES
  slot,
  last_full_state_update_slot,
  is_paused

vars == <<slot, last_full_state_update_slot, is_paused>>

is_update_needed == get_epoch(last_full_state_update_slot) < get_epoch(slot)

Operational == ~is_update_needed /\ ~is_paused

Init ==
  /\ slot \in Nat
  /\ last_full_state_update_slot = slot
  /\ is_paused = FALSE

Update ==
  /\ is_update_needed
  /\ ~is_paused
  /\ last_full_state_update_slot' = slot
  /\ UNCHANGED <<slot, is_paused>>

SetIsPaused ==
  /\ is_paused' \in BOOLEAN
  /\ UNCHANGED <<slot, last_full_state_update_slot>>

SlotPasses ==
  /\ slot' = slot + 1
  /\ UNCHANGED <<last_full_state_update_slot, is_paused>>

Next == Update \/ SetIsPaused \/ SlotPasses

Spec == Init /\ [][Next]_vars
=============================================================================

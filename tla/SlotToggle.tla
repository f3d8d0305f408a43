----------------------------- MODULE SlotToggle -----------------------------
(***************************************************************************)
(* The SlotToggle every opt-in relation is built on: two slots from which  *)
(* the state of the relation is derived whenever it is asked for.          *)
(***************************************************************************)
EXTENDS Integers

CONSTANT EpochLength      \* slots per epoch

ASSUME EpochLengthAssumption == EpochLength \in Nat \ {0}

SlotToggles == [slot_added : Nat, slot_removed : Nat]

get_epoch(s) == s \div EpochLength

(* Equal slots mean Inactive, whatever the slot.                           *)
new(s) == [slot_added |-> s, slot_removed |-> s]

(* One full epoch lies between the epoch of slot s and the current one.    *)
FullEpochPassed(s, current) == get_epoch(current) > get_epoch(s) + 1

(* Mutant: the end of a cooldown is an epoch late.                         *)
InactiveLate(t, current) ==
  IF t.slot_added = t.slot_removed THEN "Inactive"
  ELSE IF t.slot_added < t.slot_removed
       THEN IF get_epoch(current) > get_epoch(t.slot_removed) + 2 THEN "Inactive" ELSE "Cooldown"
       ELSE IF FullEpochPassed(t.slot_added, current) THEN "Active" ELSE "WarmUp"

state(t, current) ==
  IF t.slot_added = t.slot_removed THEN "Inactive"
  ELSE IF t.slot_added < t.slot_removed
       THEN IF FullEpochPassed(t.slot_removed, current) THEN "Inactive" ELSE "Cooldown"
       ELSE IF FullEpochPassed(t.slot_added, current) THEN "Active" ELSE "WarmUp"

(* activate returns true.  A toggle made in this very slot is refused,     *)
(* since equal slots would keep it Inactive.                               *)
CanActivate(t, current) == state(t, current) = "Inactive" /\ t.slot_added # current

activate(t, current) == [t EXCEPT !.slot_added = current]

(* deactivate returns true.                                                *)
CanDeactivate(t, current) == state(t, current) = "Active"

deactivate(t, current) == [t EXCEPT !.slot_removed = current]
=============================================================================

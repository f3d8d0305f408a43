-------------------------- MODULE DelegationState --------------------------
(***************************************************************************)
(* The DelegationState struct that a vault, each VaultOperatorDelegation   *)
(* and each VaultUpdateStateTracker embed: supported tokens staked with an *)
(* operator, enqueued for cooldown, and cooling down.                      *)
(***************************************************************************)
EXTENDS Integers

DelegationStates == [staked : Nat, enqueued : Nat, cooling : Nat]

DefaultState == [staked |-> 0, enqueued |-> 0, cooling |-> 0]

total_security(d) == d.staked + d.enqueued + d.cooling

(* Mutant: what was cooling is never released.                             *)
UpdateKeepsCooling(d) ==
  [staked |-> d.staked, enqueued |-> 0, cooling |-> d.cooling + d.enqueued]

(* One epoch passes: what was cooling is released, what was enqueued cools. *)
update(d) == [staked |-> d.staked, enqueued |-> 0, cooling |-> d.enqueued]

(* Two moves empty the pipeline, so later epochs change nothing more.      *)
update_epochs(d, epoch_diff) ==
  IF epoch_diff = 0 THEN d
  ELSE IF epoch_diff = 1 THEN update(d) ELSE update(update(d))

(* Enabled only when amount is positive and at most d.staked.              *)
cooldown(d, amount) ==
  [d EXCEPT !.staked = @ - amount, !.enqueued = @ + amount]

delegate(d, amount) == [d EXCEPT !.staked = @ + amount]

(* Mutant: cooling stake is not accumulated.                               *)
AccumulateWithoutCooling(d, e) ==
  [staked |-> d.staked + e.staked, enqueued |-> d.enqueued + e.enqueued,
   cooling |-> d.cooling]

accumulate(d, e) ==
  [staked   |-> d.staked + e.staked,
   enqueued |-> d.enqueued + e.enqueued,
   cooling  |-> d.cooling + e.cooling]
=============================================================================

--------------------------- MODULE UpdateProtocol ---------------------------
(***************************************************************************)
(* The epoch update of a vault without its amounts: who has been cranked,  *)
(* how far each tracker is and when the last full update was.  Clients     *)
(* that drive an update see no more than this.  An operator is named by    *)
(* the index of its VaultOperatorDelegation.  Vault.tla implements this    *)
(* module, with more reasons to refuse an instruction.                     *)
(***************************************************************************)
EXTENDS SlotToggle, Sequences

CONSTANTS
  InitSlot, MaxSlot,      \* bounds of the clock
  MaxOperators,           \* bound on the number of operators
  PauseValues             \* arguments of SetIsPaused

VARIABLES
  slot,
  operator_count,
  last_update_slot,       \* operator index -> slot of its last crank
  trackers,               \* epoch of a tracker that exists -> last_updated_index
  last_full_state_update_slot,
  is_paused

vars == <<slot, operator_count, last_update_slot, trackers,
          last_full_state_update_slot, is_paused>>

ASSUME ProtocolAssumption ==
  /\ MaxSlot \in Nat /\ InitSlot \in 0 .. MaxSlot
  /\ MaxOperators \in Nat
  /\ PauseValues \subseteq BOOLEAN

NotStarted == -1          \* stands for u64::MAX in last_updated_index

CurrentEpoch == get_epoch(slot)

is_update_needed == get_epoch(last_full_state_update_slot) < CurrentEpoch

Init ==
  /\ slot = InitSlot
  /\ operator_count = 0
  /\ last_update_slot = [i \in {} |-> 0]
  /\ trackers = [e \in {} |-> 0]
  /\ last_full_state_update_slot = slot
  /\ is_paused = FALSE

(* Mutant: an operator may join while the vault is behind.                 *)
AddOperatorAnyTime ==
  /\ operator_count < MaxOperators
  /\ ~is_paused
  /\ operator_count' = operator_count + 1
  /\ last_update_slot' = [i \in 0 .. operator_count |->
                            IF i = operator_count THEN slot ELSE last_update_slot[i]]
  /\ UNCHANGED <<slot, trackers, last_full_state_update_slot, is_paused>>

AddOperator ==
  /\ operator_count < MaxOperators
  /\ ~is_update_needed /\ ~is_paused
  /\ operator_count' = operator_count + 1
  /\ last_update_slot' = [i \in 0 .. operator_count |->
                            IF i = operator_count THEN slot ELSE last_update_slot[i]]
  /\ UNCHANGED <<slot, trackers, last_full_state_update_slot, is_paused>>

(* The tracker's address holds the epoch e the client had in mind.         *)
StartUpdate(e) ==
  /\ e = CurrentEpoch
  /\ is_update_needed /\ ~is_paused
  /\ e \notin DOMAIN trackers
  /\ trackers' = [f \in DOMAIN trackers \cup {e} |->
                    IF f = e THEN NotStarted ELSE trackers[f]]
  /\ UNCHANGED <<slot, operator_count, last_update_slot,
                 last_full_state_update_slot, is_paused>>

check_is_already_updated(i, s) == get_epoch(last_update_slot[i]) >= get_epoch(s)

NextIndex(e) ==
  IF trackers[e] = NotStarted THEN e % operator_count
  ELSE (trackers[e] + 1) % operator_count

(* A transaction with one crank instruction for each operator of batch, in *)
(* order; it fails as a whole.                                             *)
Crank(e, batch) ==
  /\ e = CurrentEpoch
  /\ e \in DOMAIN trackers
  /\ ~is_paused
  /\ Len(batch) \in 1 .. operator_count
  /\ \A k \in DOMAIN batch :
       /\ batch[k] = (NextIndex(e) + k - 1) % operator_count
       /\ ~check_is_already_updated(batch[k], slot)
  /\ trackers' = [trackers EXCEPT ![e] = batch[Len(batch)]]
  /\ last_update_slot' = [i \in DOMAIN last_update_slot |->
                            IF \E k \in DOMAIN batch : batch[k] = i
                            THEN slot ELSE last_update_slot[i]]
  /\ UNCHANGED <<slot, operator_count, last_full_state_update_slot, is_paused>>

(* Asked by the program with the vault's operator_count and by the client  *)
(* with the number of operators it knows.                                  *)
all_operators_updated(e, last_index, num_operators) ==
  LET start == e % num_operators
  IN  /\ last_index # NotStarted
      /\ last_index = IF start = 0 THEN num_operators - 1 ELSE start - 1

Close(e) ==
  /\ e \in DOMAIN trackers
  /\ ~is_paused
  /\ (e = CurrentEpoch /\ operator_count > 0) =>
       all_operators_updated(e, trackers[e], operator_count)
  /\ last_full_state_update_slot' =
       IF e = CurrentEpoch THEN slot ELSE last_full_state_update_slot
  /\ trackers' = [f \in DOMAIN trackers \ {e} |-> trackers[f]]
  /\ UNCHANGED <<slot, operator_count, last_update_slot, is_paused>>

SetIsPaused(paused) ==
  /\ is_paused' = paused
  /\ UNCHANGED <<slot, operator_count, last_update_slot, trackers,
                 last_full_state_update_slot>>

Tick ==
  /\ slot < MaxSlot
  /\ slot' = slot + 1
  /\ UNCHANGED <<operator_count, last_update_slot, trackers,
                 last_full_state_update_slot, is_paused>>

(* Any sender: operators are cranked one at a time here, since a batch is  *)
(* the same as its instructions one after the other.                       *)
Next ==
  \/ AddOperator
  \/ StartUpdate(CurrentEpoch)
  \/ \E i \in 0 .. operator_count - 1 : Crank(CurrentEpoch, <<i>>)
  \/ \E e \in DOMAIN trackers : Close(e)
  \/ \E p \in PauseValues : SetIsPaused(p)
  \/ Tick

Spec == Init /\ [][Next]_vars
=============================================================================

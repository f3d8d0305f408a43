-------------------------- MODULE VaultProperties --------------------------
(***************************************************************************)
(* What the vault's instructions promise together.  Most of these relate   *)
(* an aggregate the vault keeps to the accounts it summarises.             *)
(***************************************************************************)
EXTENDS Vault, FiniteSetsExt

LiveTickets == {t \in Tickets : tickets[t] # None}
LiveOperators == {o \in Operators : operator_delegations[o] # None}

TicketVrt(S) == MapThenSumSet(LAMBDA t : tickets[t].vrt_amount, S)

OperatorEpoch(o) == get_epoch(operator_delegations[o].last_update_slot)

SumOfOperators(S) ==
  LET amount(kind) ==
        MapThenSumSet(LAMBDA o : operator_delegations[o].delegation_state[kind], S)
  IN  [staked |-> amount("staked"), enqueued |-> amount("enqueued"),
       cooling |-> amount("cooling")]

CurrentTrackers == {r \in trackers : r.ncn_epoch = CurrentEpoch}

Pool == INSTANCE SharePool WITH shares <- vrt_supply, assets <- tokens_deposited

Gate == INSTANCE UpdateGate

OperatorAt(i) == CHOOSE o \in LiveOperators : operator_delegations[o].index = i

TrackerOf(e) == CHOOSE r \in trackers : r.ncn_epoch = e

Protocol == INSTANCE UpdateProtocol WITH
  MaxOperators <- U64Max,
  last_update_slot <- [i \in 0 .. operator_count - 1 |->
                         operator_delegations[OperatorAt(i)].last_update_slot],
  trackers <- [e \in {r.ncn_epoch : r \in trackers} |->
                 IF TrackerOf(e).last_updated_index = U64Max THEN -1
                 ELSE TrackerOf(e).last_updated_index]

-----------------------------------------------------------------------------
(* Deposits, rewards, reward fees and burns implement the share pool: no   *)
(* instruction of anyone dilutes the VRT the others hold.                  *)
ImplementsSharePool == Pool!Spec

(* Each VRT stays backed by at least one ST, and the vault's ST account    *)
(* holds at least what is booked, so a burn that passes its checks is paid. *)
Backed == vrt_supply <= tokens_deposited /\ tokens_deposited <= st_balance

(* Every VRT is accounted for: vrt_supply is what the burn vault, the      *)
(* holders and the tickets' token accounts own.  MintTo, UpdateVaultBalance *)
(* and BurnWithdrawalTicket split amounts into fees that round up and must *)
(* neither lose nor invent VRT.                                            *)
VrtConservation ==
  vrt_supply = InitTokens
               + MapThenSumSet(LAMBDA h : vrt_balance[h], Holders)
               + MapThenSumSet(LAMBDA t : tickets[t].token_balance, LiveTickets)

(* The three VRT buckets hold exactly the tickets of the matching age: at  *)
(* the last full update, epoch E, "enqueued" are the tickets of E,         *)
(* "cooling" those of E - 1 and "ready" all older ones.  Closing a tracker *)
(* late shifts at most twice and burning a ticket subtracts from "ready";  *)
(* a mismatch would make a withdrawable ticket unburnable.                 *)
QueueMatchesTickets ==
  LET age(t) == LastFullEpoch - get_epoch(tickets[t].slot_unstaked)
      sum(P(_)) == TicketVrt({t \in LiveTickets : P(age(t))})
  IN  vrt_queue = [enqueued |-> sum(LAMBDA a : a <= 0),
                   cooling |-> sum(LAMBDA a : a = 1),
                   ready |-> sum(LAMBDA a : a >= 2)]

(* "The delegation state shall match the sum of all operator delegations"  *)
(* whenever the vault is up to date, and while an update is running the    *)
(* tracker holds the sum over the operators already cranked this epoch.    *)
DelegationMatchesOperators ==
  /\ ~is_update_needed => delegation_state = SumOfOperators(LiveOperators)
  /\ \A r \in CurrentTrackers :
       r.delegation_state =
         SumOfOperators({o \in LiveOperators : OperatorEpoch(o) = CurrentEpoch})

(* No token is promised twice: what secures operators never exceeds what   *)
(* the vault has booked, nor the sum over operators what the vault says.   *)
SecurityCovered ==
  /\ total_security(delegation_state) <= tokens_deposited
  /\ total_security(SumOfOperators(LiveOperators)) <= total_security(delegation_state)

(* While an update is running, the stake still to be unstaked can be taken *)
(* from operators that were not cranked since the last full update.  So    *)
(* CloseVaultUpdateStateTracker never meets the case it logs as "This      *)
(* should not happen", over abandoned and resumed updates included.        *)
UnstakingCovered ==
  additional_assets_need_unstaking <=
    SumOfOperators({o \in LiveOperators : OperatorEpoch(o) <= LastFullEpoch}).staked

(* A started update can always go on: the operator whose index is next has *)
(* not been cranked this epoch, or all are done and nothing is left to     *)
(* unstake.                                                                *)
UpdateCanProceed ==
  \A r \in CurrentTrackers :
    \/ /\ operator_count > 0 => all_operators_updated(r)
       /\ additional_assets_need_unstaking = 0
    \/ \E o \in LiveOperators :
         /\ operator_delegations[o].index = NextIndex(r)
         /\ OperatorEpoch(o) < CurrentEpoch

(* "Withdraw tickets can be burned after one full epoch of being           *)
(* enqueued": on an up-to-date vault every withdrawable ticket passes all  *)
(* the checks of BurnWithdrawalTicket, but for the ST of a single VRT.     *)
(* The reserve is sized two updates ahead, from the aggregate of all       *)
(* tickets, while other tickets burn, rewards arrive and stake is          *)
(* delegated.  The one VRT is what rounding up two fees for each ticket    *)
(* and not for their sum takes from the reserve.                           *)
WithdrawableTicketsCovered ==
  ~is_update_needed =>
    \A t \in LiveTickets : is_withdrawable(tickets[t]) =>
      /\ out_amount(saturating_sub(BurnSummaryOf(tickets[t]).burn, 1),
                    vrt_supply, tokens_deposited) <= MaxWithdrawable
      /\ tickets[t].vrt_amount <= vrt_queue.ready
      /\ tickets[t].vrt_amount <= tickets[t].token_balance

-----------------------------------------------------------------------------
(* A vault counts as updated only when every operator was cranked in the   *)
(* current epoch, and at most once per epoch.  The tracker knows only the  *)
(* last index; operators may join between updates and trackers of earlier  *)
(* epochs may still exist.                                                 *)
FullUpdateIsComplete ==
  [][last_full_state_update_slot' # last_full_state_update_slot =>
       /\ is_update_needed
       /\ \A o \in LiveOperators : OperatorEpoch(o) = CurrentEpoch]_vars

(* To the tickets of NCNs and slashers the whole cycle of trackers, cranks *)
(* and closes looks like one step that brings a vault which is behind, and *)
(* not paused, up to date: trackers left over from earlier epochs never    *)
(* complete an update a second time.                                       *)
ImplementsUpdateGate == Gate!Spec

(* Without its amounts the update is the UpdateProtocol the clients drive: *)
(* operators are told apart by an index that never changes hands, and an   *)
(* epoch has one tracker at most.                                          *)
ImplementsUpdateProtocol == Protocol!Spec

(* The fees of a withdrawal change only while no operator has been cranked *)
(* since the last full update: a resumed update keeps the fees its reserve *)
(* was sized with.                                                         *)
FeesStableDuringUpdate ==
  [][<<fees.withdrawal, fees.program>>' # <<fees.withdrawal, fees.program>> =>
       /\ is_update_needed
       /\ \A o \in LiveOperators : OperatorEpoch(o) <= LastFullEpoch]_vars

(* A withdrawal fee that takes effect respects the cap and the rate of     *)
(* change against the fee it replaces, although it was checked when it was *)
(* announced, epochs earlier, against the fee of that time.                *)
WithdrawalFeeRateBounded ==
  [][LET increase == fees'.withdrawal - fees.withdrawal
     IN  /\ fees'.withdrawal <= DEPOSIT_WITHDRAWAL_FEE_CAP_BPS
         /\ increase > FEE_BUMP_BPS =>
              increase * MAX_BPS < (FEE_RATE_OF_CHANGE_BPS + 1) * fees.withdrawal]_vars

-----------------------------------------------------------------------------
(* Liveness.  The cranker polls the vaults for ever and sends the three    *)
(* instructions of an update to every vault that needs one; slots pass.    *)
Fairness ==
  /\ WF_vars(InitializeVaultUpdateStateTracker)
  /\ WF_vars(\E o \in Operators : CrankVaultUpdateStateTracker(o))
  /\ WF_vars(CloseCurrentTracker)
  /\ WF_vars(Tick)

FairSpec == Spec /\ Fairness

(* A vault that needs an update is updated, or its admin pauses it, or the *)
(* epoch ends first and the update is resumed in the next one; with a      *)
(* clock that stops at MaxSlot it must succeed in the last epoch at least. *)
UpdateCompletes == is_update_needed ~> (~is_update_needed \/ is_paused)

(* Every ticket enqueued early enough for its cooldown to end within the   *)
(* bound becomes burnable, unless the admin pauses the vault.              *)
TicketEventuallyBurnable ==
  \A t \in Tickets :
    (tickets[t] # None /\ get_epoch(tickets[t].slot_unstaked) + 1 < get_epoch(MaxSlot))
      ~> (tickets[t] = None \/ ENABLED BurnWithdrawalTicket(t) \/ is_paused)
=============================================================================

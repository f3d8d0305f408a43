------------------------------- MODULE Vault -------------------------------
(***************************************************************************)
(* One vault of the vault program, with the accounts its instructions      *)
(* touch: the VaultOperatorDelegations, the VaultUpdateStateTrackers (one  *)
(* per epoch), the VaultStakerWithdrawalTickets with their VRT token       *)
(* accounts, the vault's ST token account and the VRT balances of its      *)
(* holders.  An instruction executes atomically and an error undoes it,    *)
(* so every handler is one action whose guard is the absence of an error.  *)
(* Transactions of different senders interleave in any order, and slots    *)
(* pass between any two of them.                                           *)
(*                                                                         *)
(* Signer and account-address checks are left out: an action stands for    *)
(* the instruction sent by whoever is entitled to send it.                 *)
(***************************************************************************)
EXTENDS VaultMath, DelegationState

CONSTANTS
  EpochLength,          \* slots per epoch
  U64Max,               \* largest u64; small in the runs, so also a bound
  InitSlot,             \* slot in which the vault is created
  MaxSlot,              \* bound on the clock
  None,                 \* an account that does not exist, a fee not given
  Operators, Tickets,
  Holders,              \* owners of VRT token accounts
  Stakers,              \* the holders who deposit and withdraw
  VaultFeeWallet, ProgramFeeWallet,
  InitTokens,           \* initialize_token_amount
  InitialFees,          \* fee settings the vault may be created with
  DepositAmounts, WithdrawalAmounts, RewardAmounts, DelegationAmounts,
  ExtraVrtAmounts,      \* VRT third parties may send to a ticket
  FeeRequests,          \* arguments of SetFees
  ProgramFees,          \* arguments of SetProgramFee
  Capacities,           \* arguments of SetDepositCapacity
  PauseValues           \* arguments of SetIsPaused

VARIABLES
  slot,                 \* Clock::get()?.slot
  vrt_supply, tokens_deposited, deposit_capacity,
  st_balance,           \* balance of the vault's ST token account
  vrt_balance,          \* VRT each holder owns outside tickets
  vrt_queue,            \* vrt_{enqueued_for_cooldown,cooling_down,ready_to_claim}_amount
  tickets,              \* ticket address -> withdrawal ticket or None
  fees, config_program_fee_bps, last_fee_change_slot,
  delegation_state,     \* the vault's own, aggregated over operators
  operator_delegations, \* operator -> VaultOperatorDelegation or None
  operator_count,
  additional_assets_need_unstaking,
  last_full_state_update_slot, last_start_state_update_slot,
  trackers,             \* the VaultUpdateStateTrackers that exist
  is_paused

poolVars   == <<vrt_supply, tokens_deposited>>
tokenVars  == <<st_balance, vrt_balance>>
ticketVars == <<vrt_queue, tickets>>
feeVars    == <<fees, config_program_fee_bps, last_fee_change_slot>>
delegVars  == <<delegation_state, operator_delegations, operator_count>>
updateVars == <<additional_assets_need_unstaking, last_full_state_update_slot,
                last_start_state_update_slot, trackers>>
adminVars  == <<deposit_capacity, is_paused>>
vars       == <<slot, poolVars, tokenVars, ticketVars, feeVars, delegVars,
                updateVars, adminVars>>

-----------------------------------------------------------------------------
Bps == 0 .. MAX_BPS

Fees == [deposit : Bps, withdrawal : Bps, next_withdrawal : Bps,
         reward : Bps, program : Bps]

WithdrawalTickets ==
  [staker : Holders, vrt_amount : Nat, slot_unstaked : Nat, token_balance : Nat]

OperatorDelegations ==
  [index : Nat, delegation_state : DelegationStates, last_update_slot : Nat]

Trackers ==
  [ncn_epoch : Nat, last_updated_index : Nat, delegation_state : DelegationStates]

ASSUME ConstantAssumption ==
  /\ EpochLength \in Nat \ {0}
  /\ U64Max \in Nat \ {0}
  /\ MaxSlot \in Nat /\ InitSlot \in 0 .. MaxSlot
  /\ Stakers \subseteq Holders
  /\ VaultFeeWallet \in Holders /\ ProgramFeeWallet \in Holders
  /\ InitTokens \in 1 .. U64Max
  /\ \A f \in InitialFees :
       /\ f \in [deposit : 0 .. DEPOSIT_WITHDRAWAL_FEE_CAP_BPS,
                 withdrawal : 0 .. DEPOSIT_WITHDRAWAL_FEE_CAP_BPS,
                 reward : Bps, program : Bps]
  /\ DepositAmounts \subseteq Nat /\ WithdrawalAmounts \subseteq Nat
  /\ RewardAmounts \subseteq Nat /\ DelegationAmounts \subseteq Nat
  /\ ExtraVrtAmounts \subseteq Nat
  /\ \A r \in FeeRequests :
       r \in [deposit : Nat \cup {None}, withdrawal : Nat \cup {None},
              reward : Nat \cup {None}]
  /\ ProgramFees \subseteq Nat
  /\ Capacities \subseteq 0 .. U64Max
  /\ PauseValues \subseteq BOOLEAN
  /\ None \notin WithdrawalTickets /\ None \notin OperatorDelegations
  /\ None \notin Nat

TypeOK ==
  /\ slot \in Nat
  /\ vrt_supply \in Nat /\ tokens_deposited \in Nat
  /\ deposit_capacity \in 0 .. U64Max
  /\ st_balance \in 0 .. U64Max
  /\ vrt_balance \in [Holders -> Nat]
  /\ vrt_queue \in [enqueued : Nat, cooling : Nat, ready : Nat]
  /\ tickets \in [Tickets -> WithdrawalTickets \cup {None}]
  /\ fees \in Fees /\ config_program_fee_bps \in Bps
  /\ last_fee_change_slot \in Nat
  /\ delegation_state \in DelegationStates
  /\ operator_delegations \in [Operators -> OperatorDelegations \cup {None}]
  /\ operator_count \in Nat
  /\ additional_assets_need_unstaking \in Nat
  /\ last_full_state_update_slot \in Nat
  /\ last_start_state_update_slot \in Nat
  /\ trackers \subseteq Trackers
  /\ is_paused \in BOOLEAN

-----------------------------------------------------------------------------
get_epoch(s) == s \div EpochLength

CurrentEpoch == get_epoch(slot)
LastFullEpoch == get_epoch(last_full_state_update_slot)
LastStartEpoch == get_epoch(last_start_state_update_slot)

is_update_needed == LastFullEpoch < CurrentEpoch

(* check_update_state_ok and check_is_paused together.                     *)
Operational == ~is_update_needed /\ ~is_paused

(* initialize_vault: Vault::new, then the initial deposit at par, whose    *)
(* VRT goes to the burn vault and is never spent.                          *)
Init ==
  /\ slot = InitSlot
  /\ vrt_supply = InitTokens /\ tokens_deposited = InitTokens
  /\ deposit_capacity = U64Max
  /\ st_balance = InitTokens
  /\ vrt_balance = [h \in Holders |-> 0]
  /\ vrt_queue = [enqueued |-> 0, cooling |-> 0, ready |-> 0]
  /\ tickets = [t \in Tickets |-> None]
  /\ \E f \in InitialFees :
       /\ fees = [deposit |-> f.deposit, withdrawal |-> f.withdrawal,
                  next_withdrawal |-> f.withdrawal, reward |-> f.reward,
                  program |-> f.program]
       /\ config_program_fee_bps = f.program
  /\ last_fee_change_slot = slot
  /\ delegation_state = DefaultState
  /\ operator_delegations = [o \in Operators |-> None]
  /\ operator_count = 0
  /\ additional_assets_need_unstaking = 0
  /\ last_full_state_update_slot = slot
  /\ last_start_state_update_slot = slot
  /\ trackers = {}
  /\ is_paused = FALSE

-----------------------------------------------------------------------------
(* Deposits and rewards *)

(* The slippage bound min_amount_out only rejects; a sender who passes 0   *)
(* is never rejected by it, so the action leaves it out.                   *)
MintTo(depositor, amount_in) ==
  LET minted == calculate_vrt_mint_amount(amount_in, vrt_supply, tokens_deposited)
      fee    == calculate_fee(minted, fees.deposit)
  IN  /\ Operational
      /\ amount_in > 0
      /\ tokens_deposited + amount_in <= deposit_capacity
      /\ minted - fee > 0
      /\ vrt_supply + minted <= U64Max
      /\ st_balance + amount_in <= U64Max
      /\ vrt_supply' = vrt_supply + minted
      /\ tokens_deposited' = tokens_deposited + amount_in
      /\ st_balance' = st_balance + amount_in
      /\ vrt_balance' = [vrt_balance EXCEPT ![depositor] = @ + (minted - fee),
                                            ![VaultFeeWallet] = @ + fee]
      /\ UNCHANGED <<slot, ticketVars, feeVars, delegVars, updateVars, adminVars>>

(* Rewards, and gifts, are plain ST transfers into the vault's account.    *)
ReceiveSt(amount) ==
  /\ amount > 0
  /\ st_balance + amount <= U64Max
  /\ st_balance' = st_balance + amount
  /\ UNCHANGED <<slot, poolVars, vrt_balance, ticketVars, feeVars, delegVars,
                 updateVars, adminVars>>

(* The reward fee is priced against the balance without the fee, and the   *)
(* whole balance is booked afterwards.                                     *)
UpdateVaultBalance ==
  LET st_rewards == saturating_sub(st_balance, tokens_deposited)
      st_fee     == calculate_fee(st_rewards, fees.reward)
      vrt_fee    == calculate_vrt_mint_amount(st_fee, vrt_supply, st_balance - st_fee)
  IN  /\ Operational
      /\ st_fee <= st_balance
      /\ vrt_supply + vrt_fee <= U64Max
      /\ check_reward_fee_effective_rate(st_rewards, vrt_fee, fees.reward,
                                         vrt_supply + vrt_fee, st_balance)
      /\ tokens_deposited' = st_balance
      /\ vrt_supply' = vrt_supply + vrt_fee
      /\ vrt_balance' = [vrt_balance EXCEPT ![VaultFeeWallet] = @ + vrt_fee]
      /\ UNCHANGED <<slot, st_balance, ticketVars, feeVars, delegVars,
                     updateVars, adminVars>>

-----------------------------------------------------------------------------
(* Withdrawals *)

(* VRT that was in the ticket's token account before the ticket existed is *)
(* treated like VRT sent to it afterwards.                                 *)
EnqueueWithdrawal(staker, t, vrt_amount) ==
  /\ Operational
  /\ tickets[t] = None
  /\ vrt_amount > 0
  /\ vrt_amount <= vrt_balance[staker]
  /\ vrt_queue.enqueued + vrt_amount <= U64Max
  /\ tickets' = [tickets EXCEPT ![t] =
       [staker |-> staker, vrt_amount |-> vrt_amount,
        slot_unstaked |-> slot, token_balance |-> vrt_amount]]
  /\ vrt_queue' = [vrt_queue EXCEPT !.enqueued = @ + vrt_amount]
  /\ vrt_balance' = [vrt_balance EXCEPT ![staker] = @ - vrt_amount]
  /\ UNCHANGED <<slot, poolVars, st_balance, feeVars, delegVars, updateVars,
                 adminVars>>

(* Anyone may send VRT to the token account of a ticket.                   *)
SendVrtToTicket(holder, t, amount) ==
  /\ tickets[t] # None
  /\ amount > 0 /\ amount <= vrt_balance[holder]
  /\ tickets' = [tickets EXCEPT ![t].token_balance = @ + amount]
  /\ vrt_balance' = [vrt_balance EXCEPT ![holder] = @ - amount]
  /\ UNCHANGED <<slot, poolVars, st_balance, vrt_queue, feeVars, delegVars,
                 updateVars, adminVars>>

ChangeWithdrawalTicketOwner(t, new_owner) ==
  /\ tickets[t] # None
  /\ ~is_paused
  /\ tickets' = [tickets EXCEPT ![t].staker = new_owner]
  /\ UNCHANGED <<slot, poolVars, tokenVars, vrt_queue, feeVars, delegVars,
                 updateVars, adminVars>>

is_withdrawable(ticket) == CurrentEpoch > get_epoch(ticket.slot_unstaked) + 1

BurnSummaryOf(ticket) ==
  calculate_burn_summary(ticket.vrt_amount, fees,
                         ticket.staker = ProgramFeeWallet,
                         ticket.staker = VaultFeeWallet,
                         vrt_supply, tokens_deposited)

(* Mutant: stake in cooldown counts as free.                               *)
CooldownCountsAsFree == tokens_deposited - delegation_state.staked

MaxWithdrawable == tokens_deposited - total_security(delegation_state)

(* Mutant: VRT sent to the ticket's token account is forgotten.            *)
ExtraVrtLost(ticket, burn) == burn.program_fee

(* VRT that third parties sent to the ticket goes with the program fee.    *)
ToProgramFeeWallet(ticket, burn) ==
  burn.program_fee + (ticket.token_balance - ticket.vrt_amount)

BurnWithdrawalTicket(t) ==
  LET ticket == tickets[t]
      amount == ticket.vrt_amount
      burn   == BurnSummaryOf(ticket)
  IN  /\ Operational
      /\ ticket # None
      /\ is_withdrawable(ticket)
      /\ amount > 0 /\ amount <= vrt_supply
      /\ burn.out <= MaxWithdrawable
      /\ amount <= ticket.token_balance
      /\ amount <= vrt_queue.ready
      /\ burn.out <= st_balance
      /\ vrt_supply' = vrt_supply - burn.burn
      /\ tokens_deposited' = tokens_deposited - burn.out
      /\ vrt_queue' = [vrt_queue EXCEPT !.ready = @ - amount]
      /\ vrt_balance' = [vrt_balance EXCEPT
           ![VaultFeeWallet]   = @ + burn.vault_fee,
           ![ProgramFeeWallet] = @ + ToProgramFeeWallet(ticket, burn)]
      /\ tickets' = [tickets EXCEPT ![t] = None]
      /\ st_balance' = st_balance - burn.out
      /\ UNCHANGED <<slot, feeVars, delegVars, updateVars, adminVars>>

-----------------------------------------------------------------------------
(* Delegation *)

InitializeVaultOperatorDelegation(o) ==
  /\ Operational
  /\ operator_delegations[o] = None
  /\ operator_count < U64Max
  /\ operator_delegations' = [operator_delegations EXCEPT ![o] =
       [index |-> operator_count, delegation_state |-> DefaultState,
        last_update_slot |-> slot]]
  /\ operator_count' = operator_count + 1
  /\ UNCHANGED <<slot, poolVars, tokenVars, ticketVars, feeVars,
                 delegation_state, updateVars, adminVars>>

(* Mutant: newly enqueued tickets are left out of the reserve.             *)
ReserveWithoutEnqueued == vrt_queue.cooling + vrt_queue.ready

vrt_reserve == vrt_queue.enqueued + vrt_queue.cooling + vrt_queue.ready

(* ST set aside for every outstanding ticket, whoever holds it.            *)
calculate_supported_assets_requested_for_withdrawal(withdrawal_fees) ==
  IF vrt_supply = 0 THEN 0
  ELSE calculate_burn_summary(vrt_reserve, withdrawal_fees, FALSE, FALSE,
                              vrt_supply, tokens_deposited).out

AddDelegation(o, amount) ==
  LET d == operator_delegations[o]
  IN  /\ Operational
      /\ d # None
      /\ amount > 0
      /\ tokens_deposited > 0 /\ vrt_supply > 0
      /\ amount + calculate_supported_assets_requested_for_withdrawal(fees)
           <= MaxWithdrawable
      /\ delegation_state' = delegate(delegation_state, amount)
      /\ operator_delegations' = [operator_delegations EXCEPT
           ![o].delegation_state = delegate(@, amount)]
      /\ UNCHANGED <<slot, poolVars, tokenVars, ticketVars, feeVars,
                     operator_count, updateVars, adminVars>>

CooldownDelegation(o, amount) ==
  LET d == operator_delegations[o]
  IN  /\ Operational
      /\ d # None
      /\ amount > 0
      /\ amount <= d.delegation_state.staked
      /\ amount <= delegation_state.staked
      /\ operator_delegations' = [operator_delegations EXCEPT
           ![o].delegation_state = cooldown(@, amount)]
      /\ delegation_state' = cooldown(delegation_state, amount)
      /\ UNCHANGED <<slot, poolVars, tokenVars, ticketVars, feeVars,
                     operator_count, updateVars, adminVars>>

-----------------------------------------------------------------------------
(* The epoch update: initialize a tracker, crank every operator, close it *)

EpochsSinceFullUpdate == CurrentEpoch - LastFullEpoch

(* The state is only simulated here; cranking the operators realises it.  *)
DelegationAfterUpdate == update_epochs(delegation_state, EpochsSinceFullUpdate)

(* Undelegated assets, and those an update will have put in cooldown, are  *)
(* available; what the tickets need beyond them must be unstaked.          *)
AvailableForWithdrawal ==
  LET after == DelegationAfterUpdate
  IN  (tokens_deposited - total_security(after)) + (after.enqueued + after.cooling)

(* Mutant: the subtraction does not saturate when more is available.       *)
UnstakeDifference(withdrawal_fees) ==
  calculate_supported_assets_requested_for_withdrawal(withdrawal_fees)
    - AvailableForWithdrawal

calculate_additional_supported_assets_needed_to_unstake(withdrawal_fees) ==
  saturating_sub(calculate_supported_assets_requested_for_withdrawal(withdrawal_fees),
                 AvailableForWithdrawal)

(* Mutant: every update starts from scratch.                               *)
NeverRecover == FALSE

(* An update started in an earlier epoch was never closed.                 *)
NeedsToRecover == LastFullEpoch # LastStartEpoch

(* Pending fees take effect here, before the reserve is sized, unless an   *)
(* unfinished update is being resumed.                                     *)
InitializeVaultUpdateStateTracker ==
  LET new_fees == IF NeedsToRecover THEN fees
                  ELSE [fees EXCEPT !.withdrawal = fees.next_withdrawal,
                                    !.program = config_program_fee_bps]
  IN  /\ is_update_needed
      /\ ~is_paused
      /\ \A r \in trackers : r.ncn_epoch # CurrentEpoch
      /\ ~NeedsToRecover =>
           total_security(DelegationAfterUpdate) <= tokens_deposited
      /\ fees' = new_fees
      /\ additional_assets_need_unstaking' =
           IF NeedsToRecover THEN additional_assets_need_unstaking
           ELSE calculate_additional_supported_assets_needed_to_unstake(new_fees)
      /\ last_start_state_update_slot' = slot
      /\ trackers' = trackers \cup
           {[ncn_epoch |-> CurrentEpoch, last_updated_index |-> U64Max,
             delegation_state |-> DefaultState]}
      /\ UNCHANGED <<slot, poolVars, tokenVars, ticketVars,
                     config_program_fee_bps, last_fee_change_slot, delegVars,
                     last_full_state_update_slot, adminVars>>

(* Mutant: every update starts at index 0.                                 *)
StartAtZero(r) ==
  IF r.last_updated_index = U64Max THEN 0
  ELSE (r.last_updated_index + 1) % operator_count

(* Operators are cranked in index order, starting where the epoch says.    *)
NextIndex(r) ==
  IF r.last_updated_index = U64Max THEN r.ncn_epoch % operator_count
  ELSE (r.last_updated_index + 1) % operator_count

CrankVaultUpdateStateTracker(o) ==
  LET d     == operator_delegations[o]
      epoch == get_epoch(d.last_update_slot)
      unstake == IF LastFullEpoch < epoch THEN 0
                 ELSE IF d.delegation_state.staked < additional_assets_need_unstaking
                      THEN d.delegation_state.staked
                      ELSE additional_assets_need_unstaking
      after == update_epochs(cooldown(d.delegation_state, unstake),
                             CurrentEpoch - epoch)
  IN  /\ d # None
      /\ ~is_paused
      /\ epoch < CurrentEpoch
      /\ \E r \in trackers :
           /\ r.ncn_epoch = CurrentEpoch
           /\ d.index = NextIndex(r)
           /\ trackers' = (trackers \ {r}) \cup
                {[r EXCEPT !.last_updated_index = d.index,
                           !.delegation_state = accumulate(@, after)]}
      /\ additional_assets_need_unstaking' = additional_assets_need_unstaking - unstake
      /\ operator_delegations' = [operator_delegations EXCEPT
           ![o] = [@ EXCEPT !.delegation_state = after, !.last_update_slot = slot]]
      /\ UNCHANGED <<slot, poolVars, tokenVars, ticketVars, feeVars,
                     delegation_state, operator_count,
                     last_full_state_update_slot, last_start_state_update_slot,
                     adminVars>>

(* Mutant: the rotation of the start index is forgotten.                   *)
LastIndexUpdated(r) == r.last_updated_index = operator_count - 1

all_operators_updated(r) ==
  LET start == r.ncn_epoch % operator_count
  IN  /\ r.last_updated_index # U64Max
      /\ r.last_updated_index = IF start = 0 THEN operator_count - 1 ELSE start - 1

shift(q) == [enqueued |-> 0, cooling |-> q.enqueued, ready |-> q.ready + q.cooling]

(* Mutant: a late update still moves the tickets a single epoch.           *)
ShiftOnce(q, epoch_diff) == IF epoch_diff = 0 THEN q ELSE shift(q)

shift_epochs(q, epoch_diff) ==
  IF epoch_diff = 0 THEN q
  ELSE IF epoch_diff = 1 THEN shift(q) ELSE shift(shift(q))

(* Closing the tracker of the current epoch completes the update.          *)
CloseCurrentTracker ==
  \E r \in trackers :
    /\ ~is_paused
    /\ r.ncn_epoch = CurrentEpoch
    /\ operator_count > 0 => all_operators_updated(r)
    /\ additional_assets_need_unstaking = 0
    /\ delegation_state' = r.delegation_state
    /\ last_full_state_update_slot' = slot
    /\ vrt_queue' = shift_epochs(vrt_queue, EpochsSinceFullUpdate)
    /\ trackers' = trackers \ {r}
    /\ UNCHANGED <<slot, poolVars, tokenVars, tickets, feeVars,
                   operator_delegations, operator_count,
                   additional_assets_need_unstaking,
                   last_start_state_update_slot, adminVars>>

(* Mutant: an old tracker still counts as the update of its epoch.         *)
OldTrackerCompletes ==
  \E r \in trackers :
    /\ ~is_paused
    /\ r.ncn_epoch # CurrentEpoch
    /\ trackers' = trackers \ {r}
    /\ last_full_state_update_slot' = r.ncn_epoch * EpochLength
    /\ UNCHANGED <<slot, poolVars, tokenVars, ticketVars, feeVars, delegVars,
                   additional_assets_need_unstaking,
                   last_start_state_update_slot, adminVars>>

(* Closing an abandoned tracker of an earlier epoch only returns its rent. *)
CloseOldTracker ==
  \E r \in trackers :
    /\ ~is_paused
    /\ r.ncn_epoch # CurrentEpoch
    /\ trackers' = trackers \ {r}
    /\ UNCHANGED <<slot, poolVars, tokenVars, ticketVars, feeVars, delegVars,
                   additional_assets_need_unstaking, last_full_state_update_slot,
                   last_start_state_update_slot, adminVars>>

-----------------------------------------------------------------------------
(* Administration *)

check_can_modify_fees == CurrentEpoch > get_epoch(last_fee_change_slot) + 1

(* A withdrawal fee is only announced here; deposit and reward fees change *)
(* at once.                                                                *)
SetFees(request) ==
  /\ check_can_modify_fees
  /\ \E kind \in {"deposit", "withdrawal", "reward"} : request[kind] # None
  /\ request.deposit # None => check_fee_change_ok(fees.deposit, request.deposit)
  /\ request.withdrawal # None =>
       check_fee_change_ok(fees.withdrawal, request.withdrawal)
  /\ request.reward # None => request.reward <= MAX_BPS
  /\ fees' = [fees EXCEPT
       !.deposit = IF request.deposit = None THEN @ ELSE request.deposit,
       !.next_withdrawal = IF request.withdrawal = None THEN @ ELSE request.withdrawal,
       !.reward = IF request.reward = None THEN @ ELSE request.reward]
  /\ last_fee_change_slot' = slot
  /\ UNCHANGED <<slot, poolVars, tokenVars, ticketVars, config_program_fee_bps,
                 delegVars, updateVars, adminVars>>

SetProgramFee(new_fee_bps) ==
  /\ new_fee_bps <= MAX_BPS
  /\ config_program_fee_bps' = new_fee_bps
  /\ UNCHANGED <<slot, poolVars, tokenVars, ticketVars, fees,
                 last_fee_change_slot, delegVars, updateVars, adminVars>>

SetDepositCapacity(capacity) ==
  /\ deposit_capacity' = capacity
  /\ UNCHANGED <<slot, poolVars, tokenVars, ticketVars, feeVars, delegVars,
                 updateVars, is_paused>>

SetIsPaused(paused) ==
  /\ is_paused' = paused
  /\ UNCHANGED <<slot, poolVars, tokenVars, ticketVars, feeVars, delegVars,
                 updateVars, deposit_capacity>>

(* The cluster's clock; bounded by MaxSlot.                                *)
Tick ==
  /\ slot < MaxSlot
  /\ slot' = slot + 1
  /\ UNCHANGED <<poolVars, tokenVars, ticketVars, feeVars, delegVars,
                 updateVars, adminVars>>

-----------------------------------------------------------------------------
Next ==
  \/ \E h \in Stakers, a \in DepositAmounts : MintTo(h, a)
  \/ \E a \in RewardAmounts : ReceiveSt(a)
  \/ UpdateVaultBalance
  \/ \E h \in Stakers, t \in Tickets, a \in WithdrawalAmounts :
       EnqueueWithdrawal(h, t, a)
  \/ \E h \in Stakers, t \in Tickets, a \in ExtraVrtAmounts :
       SendVrtToTicket(h, t, a)
  \/ \E t \in Tickets, h \in Stakers : ChangeWithdrawalTicketOwner(t, h)
  \/ \E t \in Tickets : BurnWithdrawalTicket(t)
  \/ \E o \in Operators : InitializeVaultOperatorDelegation(o)
  \/ \E o \in Operators, a \in DelegationAmounts : AddDelegation(o, a)
  \/ \E o \in Operators, a \in DelegationAmounts : CooldownDelegation(o, a)
  \/ InitializeVaultUpdateStateTracker
  \/ \E o \in Operators : CrankVaultUpdateStateTracker(o)
  \/ CloseCurrentTracker
  \/ CloseOldTracker
  \/ \E r \in FeeRequests : SetFees(r)
  \/ \E f \in ProgramFees : SetProgramFee(f)
  \/ \E c \in Capacities : SetDepositCapacity(c)
  \/ \E p \in PauseValues : SetIsPaused(p)
  \/ Tick

Spec == Init /\ [][Next]_vars
=============================================================================

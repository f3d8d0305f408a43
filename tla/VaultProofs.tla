---------------------------- MODULE VaultProofs ----------------------------
EXTENDS VaultProperties, TLAPS

-----------------------------------------------------------------------------
(* Integer division rounds down: the quotient times the divisor does not   *)
(* exceed the dividend.  Every payout and every mint of the vault is such  *)
(* a quotient.                                                             *)
LEMMA DivFloor ==
  ASSUME NEW a \in Nat, NEW b \in Nat, b > 0
  PROVE  a \div b \in Nat /\ (a \div b) * b <= a
  OBVIOUS

(* Multiplying by an amount keeps the order: used for fees and prices.     *)
LEMMA MulMono ==
  ASSUME NEW a \in Nat, NEW b \in Nat, NEW c \in Nat, a <= b
  PROVE  a * c <= b * c /\ a * c \in Nat
  OBVIOUS

(* The constants of Config and vault_core, for provers that do not compute. *)
LEMMA BpsFacts ==
  /\ MAX_BPS \in Nat /\ MAX_BPS > 0
  /\ DEPOSIT_WITHDRAWAL_FEE_CAP_BPS \in Nat
  /\ DEPOSIT_WITHDRAWAL_FEE_CAP_BPS <= MAX_BPS
  BY SMTT(30) DEF MAX_BPS, DEPOSIT_WITHDRAWAL_FEE_CAP_BPS

(* What passes a check of SetFees against the fee cap or against 100% is a *)
(* number of basis points.                                                 *)
LEMMA BpsBound ==
  ASSUME NEW x \in Nat, x <= DEPOSIT_WITHDRAWAL_FEE_CAP_BPS \/ x <= MAX_BPS
  PROVE  x \in Bps
  BY SMTT(30), BpsFacts DEF Bps

(* A fee in basis points never exceeds the amount it is taken from, for    *)
(* all that it rounds up.                                                  *)
LEMMA FeeBound ==
  ASSUME NEW a \in Nat, NEW bps \in Bps
  PROVE  calculate_fee(a, bps) \in Nat /\ calculate_fee(a, bps) <= a
<1>1. ASSUME NEW m \in Nat, m > 0, NEW p \in Nat, p <= a * m
      PROVE  (p + m - 1) \div m \in Nat /\ (p + m - 1) \div m <= a
  BY <1>1, SMTT(30)
<1>2. bps \in Nat /\ bps <= MAX_BPS
  BY BpsFacts DEF Bps
<1>3. a * bps \in Nat /\ a * bps <= a * MAX_BPS
  BY <1>2, BpsFacts, MulMono
<1>. QED
  BY <1>1, <1>3, BpsFacts, SMTT(30) DEF calculate_fee, div_ceil

(* What a burn pays out is worth at most the VRT it destroys, and what it  *)
(* destroys is part of what was handed in.                                 *)
LEMMA BurnBound ==
  ASSUME NEW a \in Nat, NEW f \in Fees, NEW p \in BOOLEAN, NEW v \in BOOLEAN,
         NEW S \in Nat, NEW T \in Nat, S > 0
  PROVE  LET b == calculate_burn_summary(a, f, p, v, S, T)
         IN  /\ b.program_fee \in Nat /\ b.vault_fee \in Nat
             /\ b.burn \in Nat /\ b.burn <= a
             /\ b.out \in Nat /\ b.out * S <= b.burn * T
<1>. DEFINE program == program_fee_amount(a, f, p)
            vault == vault_fee_amount(a, f, v)
            burn == a - program - vault
<1>1. f.program \in Bps /\ f.withdrawal \in Bps
  BY DEF Fees
<1>2. /\ calculate_fee(a, f.program) \in Nat /\ calculate_fee(a, f.program) <= a
      /\ calculate_fee(a, f.withdrawal) \in Nat /\ calculate_fee(a, f.withdrawal) <= a
  BY <1>1, FeeBound
<1>3. program \in Nat /\ vault \in Nat /\ program + vault <= a
  BY <1>2 DEF program_fee_amount, vault_fee_amount
<1>4. burn \in Nat /\ burn <= a
  BY <1>3
<1>5. burn * T \in Nat
  BY <1>4
<1>6. out_amount(burn, S, T) \in Nat /\ out_amount(burn, S, T) * S <= burn * T
  BY <1>5, DivFloor DEF out_amount
<1>. QED
  BY <1>3, <1>4, <1>6 DEF calculate_burn_summary

(* VRT minted for an amount of ST is worth at most that amount.            *)
LEMMA MintBound ==
  ASSUME NEW a \in Nat, NEW S \in Nat, NEW T \in Nat
  PROVE  LET m == calculate_vrt_mint_amount(a, S, T)
         IN  m \in Nat /\ m * T <= a * S
<1>1. a * S \in Nat
  OBVIOUS
<1>2. CASE T = 0
  BY <1>1, <1>2 DEF calculate_vrt_mint_amount
<1>3. CASE T > 0
  BY <1>1, <1>3, DivFloor DEF calculate_vrt_mint_amount
<1>. QED
  BY <1>2, <1>3

(* A pool at or above par stays there when shares are issued or redeemed   *)
(* for at most their value.                                                *)
LEMMA IssueAbovePar ==
  ASSUME NEW S \in Nat, NEW T \in Nat, NEW m \in Nat, NEW a \in Nat,
         S <= T, m * T <= a * S, T > 0
  PROVE  m <= a
<1>1. a * S <= a * T
  BY MulMono
<1>2. m * T <= a * T
  BY <1>1
<1>. QED
  BY <1>2

(* Burning VRT for at most its value leaves the vault at or above par.     *)
LEMMA RedeemAbovePar ==
  ASSUME NEW S \in Nat, NEW T \in Nat, NEW b \in Nat, NEW out \in Nat,
         S <= T, b <= S, S > 0, out * S <= b * T
  PROVE  out <= T /\ S - b <= T - out
<1>1. (T - S) * b <= (T - S) * S
  BY MulMono
<1>2. out * S <= (b + (T - S)) * S
  BY <1>1
<1>. QED
  BY <1>2

-----------------------------------------------------------------------------
(* Type correctness.  It carries Backed along: the ST account covers what  *)
(* is booked, so rewards are never negative and payouts never fail.        *)
Inv == TypeOK /\ Backed

(* initialize_vault leaves a well-typed vault at par.                      *)
LEMMA InitInv == Init => Inv
<1>. SUFFICES ASSUME Init PROVE Inv
  OBVIOUS
<1>1. fees \in Fees /\ config_program_fee_bps \in Bps
  <2>1. PICK f \in InitialFees :
          /\ fees = [deposit |-> f.deposit, withdrawal |-> f.withdrawal,
                     next_withdrawal |-> f.withdrawal, reward |-> f.reward,
                     program |-> f.program]
          /\ config_program_fee_bps = f.program
    BY DEF Init
  <2>2. f \in [deposit : 0 .. DEPOSIT_WITHDRAWAL_FEE_CAP_BPS,
               withdrawal : 0 .. DEPOSIT_WITHDRAWAL_FEE_CAP_BPS,
               reward : Bps, program : Bps]
    BY ConstantAssumption
  <2>3. /\ f.deposit \in 0 .. DEPOSIT_WITHDRAWAL_FEE_CAP_BPS
        /\ f.withdrawal \in 0 .. DEPOSIT_WITHDRAWAL_FEE_CAP_BPS
        /\ f.reward \in Bps /\ f.program \in Bps
    BY SMTT(30), <2>2
  <2>4. \A x \in 0 .. DEPOSIT_WITHDRAWAL_FEE_CAP_BPS : x \in Bps
    BY BpsFacts, BpsBound
  <2>. QED
    BY <2>1, <2>3, <2>4 DEF Fees
<1>2. delegation_state \in DelegationStates
  BY DEF Init, DelegationStates, DefaultState
<1>3. TypeOK
  <2>1. /\ InitTokens \in 0 .. U64Max /\ U64Max \in 0 .. U64Max
        /\ InitTokens \in Nat /\ InitSlot \in Nat
    BY ConstantAssumption
  <2>2. vrt_queue \in [enqueued : Nat, cooling : Nat, ready : Nat]
    BY DEF Init
  <2>3. /\ tickets \in [Tickets -> WithdrawalTickets \cup {None}]
        /\ operator_delegations \in [Operators -> OperatorDelegations \cup {None}]
        /\ vrt_balance \in [Holders -> Nat]
    BY DEF Init
  <2>. QED
    BY ZenonT(30), <1>1, <1>2, <2>1, <2>2, <2>3 DEF Init, TypeOK
<1>4. Backed
  BY ConstantAssumption DEF Init, Backed
<1>. QED
  BY <1>3, <1>4 DEF Inv

(* mint_to keeps the invariant, and mints at most the value deposited.     *)
LEMMA MintToInv ==
  ASSUME Inv, NEW h \in Stakers, NEW a \in DepositAmounts, MintTo(h, a)
  PROVE  /\ Inv'
         /\ vrt_supply' >= vrt_supply /\ tokens_deposited' >= tokens_deposited
         /\ (vrt_supply' - vrt_supply) * tokens_deposited
              <= (tokens_deposited' - tokens_deposited) * vrt_supply
<1>. DEFINE m == calculate_vrt_mint_amount(a, vrt_supply, tokens_deposited)
            fee == calculate_fee(m, fees.deposit)
<1>1. a \in Nat /\ h \in Holders /\ VaultFeeWallet \in Holders /\ U64Max \in Nat
  BY ConstantAssumption
<1>2. /\ vrt_supply \in Nat /\ tokens_deposited \in Nat /\ fees.deposit \in Bps
      /\ vrt_supply <= tokens_deposited /\ tokens_deposited <= st_balance
      /\ st_balance \in Nat /\ vrt_balance \in [Holders -> Nat]
  BY <1>1 DEF Inv, TypeOK, Backed, Fees
<1>3. m \in Nat /\ m * tokens_deposited <= a * vrt_supply
  BY ZenonT(30), <1>1, <1>2, MintBound
<1>4. fee \in Nat /\ fee <= m
  BY <1>2, <1>3, FeeBound
<1>5. m <= a
  <2>1. CASE tokens_deposited = 0
    BY <1>1, <2>1 DEF calculate_vrt_mint_amount
  <2>2. CASE tokens_deposited > 0
    BY <1>1, <1>2, <1>3, <2>2, IssueAbovePar
  <2>. QED
    BY <1>2, <2>1, <2>2
<1>6. /\ vrt_supply' = vrt_supply + m /\ tokens_deposited' = tokens_deposited + a
      /\ st_balance' = st_balance + a /\ st_balance' <= U64Max
      /\ vrt_balance' = [vrt_balance EXCEPT ![h] = @ + (m - fee), ![VaultFeeWallet] = @ + fee]
      /\ UNCHANGED <<slot, ticketVars, feeVars, delegVars, updateVars, adminVars>>
  BY DEF MintTo
<1>. HIDE DEF m, fee
<1>7. vrt_balance' \in [Holders -> Nat]
  BY <1>1, <1>2, <1>3, <1>4, <1>6
<1>8. Backed'
  BY <1>1, <1>2, <1>3, <1>5, <1>6 DEF Backed
<1>9. TypeOK'
  BY <1>1, <1>2, <1>3, <1>6, <1>7
  DEF Inv, TypeOK, ticketVars, feeVars, delegVars, updateVars, adminVars
<1>10. vrt_supply' - vrt_supply = m /\ tokens_deposited' - tokens_deposited = a
  BY <1>1, <1>2, <1>3, <1>6
<1>. QED
  BY <1>1, <1>2, <1>3, <1>6, <1>8, <1>9, <1>10 DEF Inv

(* update_vault_balance books the rewards; its fee is worth at most what   *)
(* they add.                                                               *)
LEMMA UpdateVaultBalanceInv ==
  ASSUME Inv, UpdateVaultBalance
  PROVE  /\ Inv'
         /\ vrt_supply' >= vrt_supply /\ tokens_deposited' >= tokens_deposited
         /\ (vrt_supply' - vrt_supply) * tokens_deposited
              <= (tokens_deposited' - tokens_deposited) * vrt_supply
<1>. DEFINE r == saturating_sub(st_balance, tokens_deposited)
            f == calculate_fee(r, fees.reward)
            v == calculate_vrt_mint_amount(f, vrt_supply, st_balance - f)
<1>1. /\ VaultFeeWallet \in Holders /\ U64Max \in Nat
      /\ vrt_supply \in Nat /\ tokens_deposited \in Nat /\ fees.reward \in Bps
      /\ vrt_supply <= tokens_deposited /\ tokens_deposited <= st_balance
      /\ st_balance \in Nat /\ vrt_balance \in [Holders -> Nat]
  BY ConstantAssumption DEF Inv, TypeOK, Backed, Fees
<1>2. r \in Nat /\ r = st_balance - tokens_deposited
  BY <1>1 DEF saturating_sub
<1>3. f \in Nat /\ f <= r
  BY <1>1, <1>2, FeeBound
<1>4. st_balance - f \in Nat /\ tokens_deposited <= st_balance - f
  BY <1>1, <1>2, <1>3
<1>5. v \in Nat /\ v * (st_balance - f) <= f * vrt_supply
  BY ZenonT(30), <1>1, <1>3, <1>4, MintBound
<1>6. /\ vrt_supply' = vrt_supply + v /\ tokens_deposited' = st_balance
      /\ vrt_balance' = [vrt_balance EXCEPT ![VaultFeeWallet] = @ + v]
      /\ UNCHANGED <<slot, st_balance, ticketVars, feeVars, delegVars,
                     updateVars, adminVars>>
  BY DEF UpdateVaultBalance
<1>7. v <= f
  <2>1. CASE st_balance - f = 0
    BY <1>1, <1>3, <2>1 DEF calculate_vrt_mint_amount
  <2>2. CASE st_balance - f > 0
    BY <1>1, <1>3, <1>4, <1>5, <2>2, IssueAbovePar
  <2>. QED
    BY <1>4, <2>1, <2>2
<1>. HIDE DEF r, f, v
<1>8. v * tokens_deposited <= r * vrt_supply
  <2>1. v * tokens_deposited <= v * (st_balance - f)
    BY <1>1, <1>4, <1>5, MulMono
  <2>2. f * vrt_supply <= r * vrt_supply
    BY <1>1, <1>2, <1>3, MulMono
  <2>3. v * tokens_deposited \in Nat /\ r * vrt_supply \in Nat
        /\ v * (st_balance - f) \in Nat /\ f * vrt_supply \in Nat
    BY <1>1, <1>2, <1>3, <1>4, <1>5
  <2>. QED
    BY <1>5, <2>1, <2>2, <2>3
<1>9. Backed'
  BY <1>1, <1>2, <1>3, <1>5, <1>6, <1>7 DEF Backed
<1>10. TypeOK'
  BY <1>1, <1>5, <1>6
  DEF Inv, TypeOK, ticketVars, feeVars, delegVars, updateVars, adminVars
<1>. QED
  BY <1>1, <1>2, <1>5, <1>6, <1>8, <1>9, <1>10 DEF Inv

(* An ST transfer into the vault's token account is not booked.            *)
LEMMA ReceiveStInv ==
  ASSUME Inv, NEW a \in RewardAmounts, ReceiveSt(a)
  PROVE  Inv'
<1>1. a \in Nat /\ U64Max \in Nat
  BY ConstantAssumption
<1>. QED
  BY <1>1 DEF Inv, TypeOK, Backed, ReceiveSt, poolVars, ticketVars, feeVars,
              delegVars, updateVars, adminVars

(* enqueue_withdrawal moves a staker's VRT into a new ticket.              *)
LEMMA EnqueueWithdrawalInv ==
  ASSUME Inv, NEW h \in Stakers, NEW t \in Tickets, NEW a \in WithdrawalAmounts,
         EnqueueWithdrawal(h, t, a)
  PROVE  Inv'
<1>1. a \in Nat /\ h \in Holders
  BY ConstantAssumption
<1>2. [staker |-> h, vrt_amount |-> a, slot_unstaked |-> slot, token_balance |-> a]
        \in WithdrawalTickets
  BY <1>1 DEF Inv, TypeOK, WithdrawalTickets
<1>3. tickets' \in [Tickets -> WithdrawalTickets \cup {None}]
  BY <1>2 DEF Inv, TypeOK, EnqueueWithdrawal
<1>4. vrt_balance' \in [Holders -> Nat]
  BY <1>1 DEF Inv, TypeOK, EnqueueWithdrawal
<1>5. vrt_queue' \in [enqueued : Nat, cooling : Nat, ready : Nat]
  BY <1>1 DEF Inv, TypeOK, EnqueueWithdrawal
<1>. QED
  BY <1>3, <1>4, <1>5
  DEF Inv, TypeOK, Backed, EnqueueWithdrawal, poolVars, feeVars, delegVars,
      updateVars, adminVars

(* VRT sent to a ticket's token account leaves the pool alone.             *)
LEMMA SendVrtToTicketInv ==
  ASSUME Inv, NEW h \in Stakers, NEW t \in Tickets, NEW a \in ExtraVrtAmounts,
         SendVrtToTicket(h, t, a)
  PROVE  Inv'
<1>1. a \in Nat /\ h \in Holders
  BY ConstantAssumption
<1>2. tickets[t] \in WithdrawalTickets
  BY DEF Inv, TypeOK, SendVrtToTicket
<1>3. [tickets[t] EXCEPT !.token_balance = @ + a] \in WithdrawalTickets
  BY <1>1, <1>2 DEF WithdrawalTickets
<1>4. tickets' \in [Tickets -> WithdrawalTickets \cup {None}]
  BY <1>3 DEF Inv, TypeOK, SendVrtToTicket
<1>5. vrt_balance' \in [Holders -> Nat]
  BY <1>1 DEF Inv, TypeOK, SendVrtToTicket
<1>. QED
  BY <1>4, <1>5
  DEF Inv, TypeOK, Backed, SendVrtToTicket, poolVars, feeVars, delegVars,
      updateVars, adminVars

(* change_withdrawal_ticket_owner replaces only the staker.                *)
LEMMA ChangeWithdrawalTicketOwnerInv ==
  ASSUME Inv, NEW t \in Tickets, NEW h \in Stakers, ChangeWithdrawalTicketOwner(t, h)
  PROVE  Inv'
<1>1. h \in Holders
  BY ConstantAssumption
<1>2. tickets[t] \in WithdrawalTickets
  BY DEF Inv, TypeOK, ChangeWithdrawalTicketOwner
<1>3. [tickets[t] EXCEPT !.staker = h] \in WithdrawalTickets
  BY <1>1, <1>2 DEF WithdrawalTickets
<1>4. tickets' \in [Tickets -> WithdrawalTickets \cup {None}]
  BY <1>3 DEF Inv, TypeOK, ChangeWithdrawalTicketOwner
<1>. QED
  BY <1>4
  DEF Inv, TypeOK, Backed, ChangeWithdrawalTicketOwner, poolVars, tokenVars,
      feeVars, delegVars, updateVars, adminVars

(* burn_withdrawal_ticket pays at most the value of the VRT it burns.      *)
LEMMA BurnWithdrawalTicketInv ==
  ASSUME Inv, NEW t \in Tickets, BurnWithdrawalTicket(t)
  PROVE  /\ Inv'
         /\ vrt_supply' <= vrt_supply /\ tokens_deposited' <= tokens_deposited
         /\ (tokens_deposited - tokens_deposited') * vrt_supply
              <= (vrt_supply - vrt_supply') * tokens_deposited
<1>. DEFINE ticket == tickets[t]
            b == BurnSummaryOf(ticket)
<1>1. /\ VaultFeeWallet \in Holders /\ ProgramFeeWallet \in Holders
      /\ vrt_supply \in Nat /\ tokens_deposited \in Nat /\ fees \in Fees
      /\ vrt_supply <= tokens_deposited /\ tokens_deposited <= st_balance
      /\ st_balance \in Nat /\ vrt_balance \in [Holders -> Nat]
  BY ConstantAssumption DEF Inv, TypeOK, Backed
<1>2. ticket \in WithdrawalTickets
  BY DEF Inv, TypeOK, BurnWithdrawalTicket
<1>3. ticket.vrt_amount \in Nat /\ ticket.token_balance \in Nat
  BY <1>2 DEF WithdrawalTickets
<1>4. /\ ticket.vrt_amount > 0 /\ ticket.vrt_amount <= vrt_supply
      /\ ticket.vrt_amount <= ticket.token_balance
      /\ ticket.vrt_amount <= vrt_queue.ready
      /\ b.out <= st_balance
      /\ vrt_supply' = vrt_supply - b.burn
      /\ tokens_deposited' = tokens_deposited - b.out
      /\ st_balance' = st_balance - b.out
      /\ vrt_queue' = [vrt_queue EXCEPT !.ready = @ - ticket.vrt_amount]
      /\ vrt_balance' = [vrt_balance EXCEPT
            ![VaultFeeWallet]   = @ + b.vault_fee,
            ![ProgramFeeWallet] = @ + ToProgramFeeWallet(ticket, b)]
      /\ tickets' = [tickets EXCEPT ![t] = None]
      /\ UNCHANGED <<slot, feeVars, delegVars, updateVars, adminVars>>
  BY DEF BurnWithdrawalTicket
<1>5. /\ b.program_fee \in Nat /\ b.vault_fee \in Nat
      /\ b.burn \in Nat /\ b.burn <= ticket.vrt_amount
      /\ b.out \in Nat /\ b.out * vrt_supply <= b.burn * tokens_deposited
  <2>. DEFINE p == ticket.staker = ProgramFeeWallet
              v == ticket.staker = VaultFeeWallet
  <2>1. p \in BOOLEAN /\ v \in BOOLEAN /\ vrt_supply > 0
    BY <1>1, <1>3, <1>4
  <2>2. b = calculate_burn_summary(ticket.vrt_amount, fees, p, v,
                                   vrt_supply, tokens_deposited)
    BY DEF BurnSummaryOf
  <2>. HIDE DEF p, v, b, ticket
  <2>. QED
    BY ZenonT(30), <1>1, <1>3, <2>1, <2>2, BurnBound
<1>6. ToProgramFeeWallet(ticket, b) \in Nat
  BY <1>3, <1>4, <1>5 DEF ToProgramFeeWallet
<1>. HIDE DEF ticket, b
<1>7. b.out <= tokens_deposited /\ vrt_supply - b.burn <= tokens_deposited - b.out
  <2>1. b.burn <= vrt_supply /\ vrt_supply > 0
    BY <1>1, <1>3, <1>4, <1>5
  <2>. QED
    BY <1>1, <1>5, <2>1, RedeemAbovePar
<1>8. Backed'
  BY <1>1, <1>4, <1>5, <1>7 DEF Backed
<1>9. vrt_balance' \in [Holders -> Nat]
  BY <1>1, <1>4, <1>5, <1>6
<1>10. vrt_queue' \in [enqueued : Nat, cooling : Nat, ready : Nat]
  BY <1>3, <1>4 DEF Inv, TypeOK
<1>11. tickets' \in [Tickets -> WithdrawalTickets \cup {None}]
  BY <1>4 DEF Inv, TypeOK
<1>12. /\ vrt_supply' \in Nat /\ tokens_deposited' \in Nat /\ st_balance' \in 0 .. U64Max
  BY <1>1, <1>3, <1>4, <1>5, <1>7, ConstantAssumption DEF Inv, TypeOK
<1>13. TypeOK'
  BY <1>4, <1>9, <1>10, <1>11, <1>12
  DEF Inv, TypeOK, feeVars, delegVars, updateVars, adminVars
<1>. QED
  BY <1>1, <1>4, <1>5, <1>8, <1>13 DEF Inv

(* The DelegationState operations stay within the struct's type.           *)
LEMMA DelegationStateTypes ==
  ASSUME NEW d \in DelegationStates
  PROVE  /\ DefaultState \in DelegationStates
         /\ total_security(d) \in Nat
         /\ \A n : update_epochs(d, n) \in DelegationStates
         /\ \A a \in Nat : delegate(d, a) \in DelegationStates
         /\ \A a \in Nat : a <= d.staked => cooldown(d, a) \in DelegationStates
         /\ \A e \in DelegationStates : accumulate(d, e) \in DelegationStates
<1>1. /\ d.staked \in Nat /\ d.enqueued \in Nat /\ d.cooling \in Nat
      /\ d = [staked |-> d.staked, enqueued |-> d.enqueued, cooling |-> d.cooling]
  BY DEF DelegationStates
<1>2. DefaultState \in DelegationStates
  BY DEF DefaultState, DelegationStates
<1>3. total_security(d) \in Nat
  BY <1>1 DEF total_security
<1>4. update(d) \in DelegationStates /\ update(update(d)) \in DelegationStates
  BY <1>1 DEF update, DelegationStates
<1>5. ASSUME NEW n PROVE update_epochs(d, n) \in DelegationStates
  BY <1>4 DEF update_epochs
<1>6. ASSUME NEW a \in Nat PROVE delegate(d, a) \in DelegationStates
  BY <1>1 DEF delegate, DelegationStates
<1>7. ASSUME NEW a \in Nat, a <= d.staked PROVE cooldown(d, a) \in DelegationStates
  <2>1. d.staked - a \in Nat /\ d.enqueued + a \in Nat
    BY <1>1, <1>7
  <2>2. [d EXCEPT !.staked = d.staked - a] \in DelegationStates
    BY <2>1 DEF DelegationStates
  <2>3. [[d EXCEPT !.staked = d.staked - a] EXCEPT !.enqueued = d.enqueued + a]
          \in DelegationStates
    BY ZenonT(30), <2>1, <2>2 DEF DelegationStates
  <2>4. cooldown(d, a) =
          [[d EXCEPT !.staked = d.staked - a] EXCEPT !.enqueued = d.enqueued + a]
    BY DEF cooldown, DelegationStates
  <2>. QED
    BY <2>3, <2>4
<1>8. ASSUME NEW e \in DelegationStates PROVE accumulate(d, e) \in DelegationStates
  BY <1>1 DEF accumulate, DelegationStates
<1>. QED
  BY <1>2, <1>3, <1>5, <1>6, <1>7, <1>8

(* initialize_vault_operator_delegation adds an operator with no stake.    *)
LEMMA InitializeVaultOperatorDelegationInv ==
  ASSUME Inv, NEW o \in Operators, InitializeVaultOperatorDelegation(o)
  PROVE  Inv'
<1>1. DefaultState \in DelegationStates
  BY DelegationStateTypes DEF Inv, TypeOK
<1>2. [index |-> operator_count, delegation_state |-> DefaultState,
       last_update_slot |-> slot] \in OperatorDelegations
  BY <1>1 DEF Inv, TypeOK, OperatorDelegations
<1>3. operator_delegations' \in [Operators -> OperatorDelegations \cup {None}]
  BY <1>2 DEF Inv, TypeOK, InitializeVaultOperatorDelegation
<1>. QED
  BY <1>3
  DEF Inv, TypeOK, Backed, InitializeVaultOperatorDelegation, poolVars,
      tokenVars, ticketVars, feeVars, updateVars, adminVars

(* add_delegation moves stake in the vault's and the operator's state.     *)
LEMMA AddDelegationInv ==
  ASSUME Inv, NEW o \in Operators, NEW a \in DelegationAmounts, AddDelegation(o, a)
  PROVE  Inv' /\ operator_delegations'[o] \in OperatorDelegations
<1>. DEFINE d == operator_delegations[o]
<1>1. a \in Nat
  BY ConstantAssumption
<1>2. d \in OperatorDelegations
  BY DEF Inv, TypeOK, AddDelegation
<1>3. d.delegation_state \in DelegationStates
  BY SMTT(30), <1>2 DEF OperatorDelegations
<1>4. /\ delegate(d.delegation_state, a) \in DelegationStates
      /\ delegate(delegation_state, a) \in DelegationStates
  BY ZenonT(30), <1>1, <1>3, DelegationStateTypes DEF Inv, TypeOK
<1>5. [d EXCEPT !.delegation_state = delegate(@, a)] \in OperatorDelegations
  BY <1>2, <1>4 DEF OperatorDelegations
<1>6. /\ operator_delegations' \in [Operators -> OperatorDelegations \cup {None}]
      /\ operator_delegations'[o] \in OperatorDelegations
  BY <1>5 DEF Inv, TypeOK, AddDelegation
<1>7. delegation_state' \in DelegationStates
  BY <1>4 DEF AddDelegation
<1>. QED
  BY <1>6, <1>7
  DEF Inv, TypeOK, Backed, AddDelegation, poolVars, tokenVars, ticketVars,
      feeVars, updateVars, adminVars

(* cooldown_delegation checks the stake it moves in both states.           *)
LEMMA CooldownDelegationInv ==
  ASSUME Inv, NEW o \in Operators, NEW a \in DelegationAmounts, CooldownDelegation(o, a)
  PROVE  Inv' /\ operator_delegations'[o] \in OperatorDelegations
<1>. DEFINE d == operator_delegations[o]
<1>1. a \in Nat
  BY ConstantAssumption
<1>2. d \in OperatorDelegations
  BY DEF Inv, TypeOK, CooldownDelegation
<1>3. d.delegation_state \in DelegationStates
  BY <1>2 DEF OperatorDelegations
<1>4. /\ cooldown(d.delegation_state, a) \in DelegationStates
      /\ cooldown(delegation_state, a) \in DelegationStates
  BY ZenonT(30), <1>1, <1>3, DelegationStateTypes DEF Inv, TypeOK, CooldownDelegation
<1>5. [d EXCEPT !.delegation_state = cooldown(@, a)] \in OperatorDelegations
  BY <1>2, <1>4 DEF OperatorDelegations
<1>6. /\ operator_delegations' \in [Operators -> OperatorDelegations \cup {None}]
      /\ operator_delegations'[o] \in OperatorDelegations
  BY <1>5 DEF Inv, TypeOK, CooldownDelegation
<1>7. delegation_state' \in DelegationStates
  BY <1>4 DEF CooldownDelegation
<1>. QED
  BY <1>6, <1>7
  DEF Inv, TypeOK, Backed, CooldownDelegation, poolVars, tokenVars, ticketVars,
      feeVars, updateVars, adminVars

(* The stake an update must free is a natural: the reserve is one, and the *)
(* subtraction saturates.                                                  *)
LEMMA AdditionalType ==
  ASSUME Inv, NEW f \in Fees
  PROVE  calculate_additional_supported_assets_needed_to_unstake(f) \in Nat
<1>. DEFINE n == calculate_supported_assets_requested_for_withdrawal(f)
            after == DelegationAfterUpdate
<1>1. n \in Nat
  <2>1. vrt_reserve \in Nat /\ vrt_supply \in Nat /\ tokens_deposited \in Nat
    BY DEF Inv, TypeOK, vrt_reserve
  <2>2. CASE vrt_supply = 0
    BY <2>2 DEF calculate_supported_assets_requested_for_withdrawal
  <2>3. CASE vrt_supply > 0
    <3>1. calculate_burn_summary(vrt_reserve, f, FALSE, FALSE, vrt_supply,
                                 tokens_deposited).out \in Nat
      BY ZenonT(30), <2>1, <2>3, BurnBound
    <3>. QED
      BY ZenonT(30), <2>1, <2>3, <3>1 DEF calculate_supported_assets_requested_for_withdrawal
  <2>. QED
    BY <2>1, <2>2, <2>3
<1>2. after \in DelegationStates
  BY DelegationStateTypes DEF Inv, TypeOK, DelegationAfterUpdate
<1>3. /\ total_security(after) \in Nat /\ after.enqueued \in Nat /\ after.cooling \in Nat
      /\ tokens_deposited \in Nat
  BY <1>2, DelegationStateTypes DEF DelegationStates, Inv, TypeOK
<1>. HIDE DEF n, after
<1>4. saturating_sub(n, (tokens_deposited - total_security(after))
                          + (after.enqueued + after.cooling)) \in Nat
  BY <1>1, <1>3 DEF saturating_sub
<1>. QED
  BY <1>4 DEF calculate_additional_supported_assets_needed_to_unstake,
              AvailableForWithdrawal, n, after

(* get_epoch of a slot is a natural.                                       *)
LEMMA EpochType ==
  ASSUME NEW s \in Nat
  PROVE  get_epoch(s) \in Nat
<1>1. EpochLength \in Nat /\ EpochLength > 0
  BY SMTT(30), ConstantAssumption
<1>. QED
  BY <1>1, DivFloor DEF get_epoch

(* initialize_vault_update_state_tracker applies pending fees, sizes the   *)
(* reserve and adds a tracker.                                             *)
LEMMA InitializeVaultUpdateStateTrackerInv ==
  ASSUME Inv, InitializeVaultUpdateStateTracker
  PROVE  Inv'
<1>. DEFINE new_fees == IF NeedsToRecover THEN fees
                        ELSE [fees EXCEPT !.withdrawal = fees.next_withdrawal,
                                          !.program = config_program_fee_bps]
<1>1. new_fees \in Fees
  <2>1. fees \in Fees /\ fees.next_withdrawal \in Bps /\ config_program_fee_bps \in Bps
    BY DEF Inv, TypeOK, Fees
  <2>2. [fees EXCEPT !.withdrawal = fees.next_withdrawal,
                     !.program = config_program_fee_bps] \in Fees
    BY ZenonT(30), <2>1 DEF Fees
  <2>. QED
    BY <2>1, <2>2
<1>2. /\ calculate_additional_supported_assets_needed_to_unstake(new_fees) \in Nat
      /\ additional_assets_need_unstaking \in Nat
  BY <1>1, AdditionalType DEF Inv, TypeOK
<1>3. /\ fees' = new_fees
      /\ additional_assets_need_unstaking' =
           IF NeedsToRecover THEN additional_assets_need_unstaking
           ELSE calculate_additional_supported_assets_needed_to_unstake(new_fees)
      /\ last_start_state_update_slot' = slot
      /\ trackers' = trackers \cup
           {[ncn_epoch |-> CurrentEpoch, last_updated_index |-> U64Max,
             delegation_state |-> DefaultState]}
      /\ UNCHANGED <<slot, poolVars, tokenVars, ticketVars,
                     config_program_fee_bps, last_fee_change_slot, delegVars,
                     last_full_state_update_slot, adminVars>>
  BY DEF InitializeVaultUpdateStateTracker
<1>. HIDE DEF new_fees
<1>4. additional_assets_need_unstaking' \in Nat
  BY <1>2, <1>3
<1>5. trackers' \subseteq Trackers
  <2>1. CurrentEpoch \in Nat /\ DefaultState \in DelegationStates /\ U64Max \in Nat
    BY ZenonT(30), EpochType, DelegationStateTypes, ConstantAssumption
    DEF Inv, TypeOK, CurrentEpoch
  <2>2. [ncn_epoch |-> CurrentEpoch, last_updated_index |-> U64Max,
         delegation_state |-> DefaultState] \in Trackers
    BY <2>1 DEF Trackers
  <2>. QED
    BY <1>3, <2>2 DEF Inv, TypeOK
<1>. QED
  BY <1>1, <1>3, <1>4, <1>5
  DEF Inv, TypeOK, Backed, poolVars, tokenVars, ticketVars, delegVars, adminVars

(* crank_vault_update_state_tracker unstakes no more than the operator has *)
(* staked and no more than is still needed.                                *)
LEMMA CrankVaultUpdateStateTrackerInv ==
  ASSUME Inv, NEW o \in Operators, CrankVaultUpdateStateTracker(o)
  PROVE  Inv' /\ operator_delegations'[o] \in OperatorDelegations
<1>. DEFINE d == operator_delegations[o]
            epoch == get_epoch(d.last_update_slot)
            unstake == IF LastFullEpoch < epoch THEN 0
                 ELSE IF d.delegation_state.staked < additional_assets_need_unstaking
                      THEN d.delegation_state.staked
                      ELSE additional_assets_need_unstaking
            after == update_epochs(cooldown(d.delegation_state, unstake),
                                   CurrentEpoch - epoch)
<1>1. d \in OperatorDelegations
  BY DEF Inv, TypeOK, CrankVaultUpdateStateTracker
<1>2. /\ d.delegation_state \in DelegationStates /\ d.index \in Nat
      /\ d.delegation_state.staked \in Nat
      /\ additional_assets_need_unstaking \in Nat
  BY <1>1 DEF OperatorDelegations, DelegationStates, Inv, TypeOK
<1>3. PICK r \in trackers :
        trackers' = (trackers \ {r}) \cup
          {[r EXCEPT !.last_updated_index = d.index,
                     !.delegation_state = accumulate(@, after)]}
  BY ZenonT(30) DEF CrankVaultUpdateStateTracker
<1>4. /\ additional_assets_need_unstaking' = additional_assets_need_unstaking - unstake
      /\ operator_delegations' = [operator_delegations EXCEPT
           ![o] = [@ EXCEPT !.delegation_state = after, !.last_update_slot = slot]]
      /\ UNCHANGED <<slot, poolVars, tokenVars, ticketVars, feeVars,
                     delegation_state, operator_count,
                     last_full_state_update_slot, last_start_state_update_slot,
                     adminVars>>
  BY SMTT(30) DEF CrankVaultUpdateStateTracker
<1>5. /\ unstake \in Nat /\ unstake <= d.delegation_state.staked
      /\ unstake <= additional_assets_need_unstaking
  BY SMTT(30), <1>2
<1>6. after \in DelegationStates
  <2>1. cooldown(d.delegation_state, unstake) \in DelegationStates
    BY ZenonT(30), <1>2, <1>5, DelegationStateTypes
  <2>. QED
    BY SMTT(30), <2>1, DelegationStateTypes
<1>. HIDE DEF d, epoch, unstake, after
<1>7. trackers' \subseteq Trackers
  <2>1. /\ r \in Trackers /\ r.delegation_state \in DelegationStates
    BY DEF Inv, TypeOK, Trackers
  <2>2. accumulate(r.delegation_state, after) \in DelegationStates
    BY ZenonT(30), <1>6, <2>1, DelegationStateTypes
  <2>3. [r EXCEPT !.last_updated_index = d.index,
                  !.delegation_state = accumulate(r.delegation_state, after)] \in Trackers
    BY ZenonT(30), <1>2, <2>1, <2>2 DEF Trackers
  <2>. QED
    BY <1>3, <2>3 DEF Inv, TypeOK
<1>8. /\ operator_delegations' \in [Operators -> OperatorDelegations \cup {None}]
      /\ operator_delegations'[o] \in OperatorDelegations
  <2>1. [d EXCEPT !.delegation_state = after, !.last_update_slot = slot]
          \in OperatorDelegations
    BY ZenonT(30), <1>1, <1>6 DEF OperatorDelegations, Inv, TypeOK
  <2>. QED
    BY <1>4, <2>1 DEF Inv, TypeOK, d
<1>9. additional_assets_need_unstaking' \in Nat
  BY <1>2, <1>4, <1>5
<1>. QED
  BY <1>4, <1>7, <1>8, <1>9
  DEF Inv, TypeOK, Backed, poolVars, tokenVars, ticketVars, feeVars, adminVars

(* close_update_state_tracker, of the current epoch, shifts the VRT queue. *)
LEMMA CloseCurrentTrackerInv ==
  ASSUME Inv, CloseCurrentTracker
  PROVE  Inv'
<1>1. PICK r \in trackers :
        /\ delegation_state' = r.delegation_state
        /\ last_full_state_update_slot' = slot
        /\ vrt_queue' = shift_epochs(vrt_queue, EpochsSinceFullUpdate)
        /\ trackers' = trackers \ {r}
        /\ UNCHANGED <<slot, poolVars, tokenVars, tickets, feeVars,
                       operator_delegations, operator_count,
                       additional_assets_need_unstaking,
                       last_start_state_update_slot, adminVars>>
  BY DEF CloseCurrentTracker
<1>2. delegation_state' \in DelegationStates
  BY <1>1 DEF Inv, TypeOK, Trackers
<1>3. vrt_queue' \in [enqueued : Nat, cooling : Nat, ready : Nat]
  <2>. DEFINE Q == [enqueued : Nat, cooling : Nat, ready : Nat]
  <2>1. \A q \in Q : shift(q) \in Q
    BY DEF shift
  <2>. HIDE DEF Q
  <2>2. \A q \in Q : shift_epochs(q, EpochsSinceFullUpdate) \in Q
    BY <2>1 DEF shift_epochs
  <2>3. vrt_queue \in Q
    BY DEF Inv, TypeOK, Q
  <2>4. vrt_queue' \in Q
    BY <1>1, <2>2, <2>3
  <2>. QED
    BY <2>4 DEF Q
<1>. QED
  BY <1>1, <1>2, <1>3
  DEF Inv, TypeOK, Backed, poolVars, tokenVars, feeVars, adminVars

(* close_update_state_tracker, of an earlier epoch, drops the tracker.     *)
LEMMA CloseOldTrackerInv ==
  ASSUME Inv, CloseOldTracker
  PROVE  Inv'
<1>1. PICK r \in trackers : trackers' = trackers \ {r}
  BY DEF CloseOldTracker
<1>2. UNCHANGED <<slot, poolVars, tokenVars, ticketVars, feeVars, delegVars,
                  additional_assets_need_unstaking, last_full_state_update_slot,
                  last_start_state_update_slot, adminVars>>
  BY SMTT(30) DEF CloseOldTracker
<1>. QED
  BY <1>1, <1>2
  DEF Inv, TypeOK, Backed, poolVars, tokenVars, ticketVars, feeVars, delegVars,
      adminVars

(* set_fees checks every fee it is given before it stores one.             *)
LEMMA SetFeesInv ==
  ASSUME Inv, NEW q \in FeeRequests, SetFees(q)
  PROVE  Inv'
<1>1. /\ q.deposit \in Nat \cup {None} /\ q.withdrawal \in Nat \cup {None}
      /\ q.reward \in Nat \cup {None}
  <2>1. q \in [deposit : Nat \cup {None}, withdrawal : Nat \cup {None},
               reward : Nat \cup {None}]
    BY ConstantAssumption
  <2>. QED
    BY <2>1
<1>. DEFINE d == IF q.deposit = None THEN fees.deposit ELSE q.deposit
            w == IF q.withdrawal = None THEN fees.next_withdrawal ELSE q.withdrawal
            r == IF q.reward = None THEN fees.reward ELSE q.reward
<1>2. fees \in Fees
  BY DEF Inv, TypeOK
<1>3. fees.deposit \in Bps /\ fees.next_withdrawal \in Bps /\ fees.reward \in Bps
  BY <1>2 DEF Fees
<1>4. d \in Bps /\ w \in Bps /\ r \in Bps
  <2>1. /\ q.deposit # None => q.deposit <= DEPOSIT_WITHDRAWAL_FEE_CAP_BPS
        /\ q.withdrawal # None => q.withdrawal <= DEPOSIT_WITHDRAWAL_FEE_CAP_BPS
        /\ q.reward # None => q.reward <= MAX_BPS
    BY DEF SetFees, check_fee_change_ok
  <2>2. \A x \in Nat :
          (x <= DEPOSIT_WITHDRAWAL_FEE_CAP_BPS \/ x <= MAX_BPS) => x \in Bps
    BY BpsBound
  <2>3. q.deposit # None => q.deposit \in Bps
    BY <1>1, <2>1, <2>2
  <2>4. q.withdrawal # None => q.withdrawal \in Bps
    BY <1>1, <2>1, <2>2
  <2>5. q.reward # None => q.reward \in Bps
    BY <1>1, <2>1, <2>2
  <2>. QED
    BY <1>3, <2>3, <2>4, <2>5
<1>5. fees' = [fees EXCEPT !.deposit = d, !.next_withdrawal = w, !.reward = r]
  BY <1>2 DEF SetFees, Fees
<1>. HIDE DEF d, w, r
<1>6. fees' \in Fees
  BY ZenonT(30), <1>2, <1>4, <1>5 DEF Fees
<1>. QED
  BY <1>6 DEF SetFees, Inv, TypeOK, Backed, poolVars, tokenVars, ticketVars,
              delegVars, updateVars, adminVars

(* set_program_fee, set_deposit_capacity, set_is_paused and the clock.     *)
LEMMA AdministrationInv ==
  ASSUME Inv,
         \/ \E f \in ProgramFees : SetProgramFee(f)
         \/ \E c \in Capacities : SetDepositCapacity(c)
         \/ \E p \in PauseValues : SetIsPaused(p)
         \/ Tick
  PROVE  Inv'
<1>1. ASSUME NEW f \in ProgramFees, SetProgramFee(f) PROVE Inv'
  <2>1. f \in Nat
    BY ConstantAssumption
  <2>2. f <= MAX_BPS
    BY Zenon, <1>1 DEF SetProgramFee
  <2>3. f \in Bps
    BY <2>1, <2>2, BpsBound
  <2>. QED
    BY <1>1, <2>3 DEF SetProgramFee, Inv, TypeOK, Backed, poolVars, tokenVars,
                      ticketVars, delegVars, updateVars, adminVars
<1>2. ASSUME NEW c \in Capacities, SetDepositCapacity(c) PROVE Inv'
  <2>1. c \in 0 .. U64Max
    BY ConstantAssumption
  <2>. QED
    BY <1>2, <2>1 DEF SetDepositCapacity, Inv, TypeOK, Backed, poolVars, tokenVars,
                      ticketVars, feeVars, delegVars, updateVars
<1>3. ASSUME NEW p \in PauseValues, SetIsPaused(p) PROVE Inv'
  <2>1. p \in BOOLEAN
    BY SMTT(30), ConstantAssumption
  <2>. QED
    BY <1>3, <2>1 DEF SetIsPaused, Inv, TypeOK, Backed, poolVars, tokenVars,
                      ticketVars, feeVars, delegVars, updateVars
<1>4. CASE Tick
  BY <1>4 DEF Tick, Inv, TypeOK, Backed, poolVars, tokenVars, ticketVars, feeVars,
              delegVars, updateVars, adminVars
<1>. QED
  BY <1>1, <1>2, <1>3, <1>4

(* Every instruction keeps the invariant.                                  *)
LEMMA NextInv == Inv /\ [Next]_vars => Inv'
<1>. SUFFICES ASSUME Inv, [Next]_vars PROVE Inv'
  OBVIOUS
<1>1. CASE UNCHANGED vars
  BY SMTT(30), <1>1 DEF vars, Inv, TypeOK, Backed, poolVars, tokenVars, ticketVars, feeVars,
              delegVars, updateVars, adminVars
<1>2. CASE Next
  BY <1>2, MintToInv, ReceiveStInv, UpdateVaultBalanceInv, EnqueueWithdrawalInv,
     SendVrtToTicketInv, ChangeWithdrawalTicketOwnerInv, BurnWithdrawalTicketInv,
     InitializeVaultOperatorDelegationInv, AddDelegationInv, CooldownDelegationInv,
     InitializeVaultUpdateStateTrackerInv, CrankVaultUpdateStateTrackerInv,
     CloseCurrentTrackerInv, CloseOldTrackerInv, SetFeesInv, AdministrationInv
  DEF Next
<1>. QED
  BY <1>1, <1>2

(* Every reachable state of the vault program is well typed: the amounts   *)
(* its handlers subtract never go below zero and its fees stay basis       *)
(* points, for every epoch length, set of accounts and amount.             *)
THEOREM TypeCorrect == Spec => []TypeOK
<1>1. Inv => TypeOK
  BY DEF Inv
<1>. QED
  BY <1>1, InitInv, NextInv, PTL DEF Spec

(* Each VRT stays backed by at least one booked ST and each booked ST by   *)
(* one in the vault's token account, through mint_to, update_vault_balance *)
(* and burn_withdrawal_ticket with every rounding and every fee.           *)
THEOREM AlwaysBacked == Spec => []Backed
<1>1. Inv => Backed
  BY SMTT(30) DEF Inv
<1>. QED
  BY <1>1, InitInv, NextInv, PTL DEF Spec

(* Only mint_to, update_vault_balance and burn_withdrawal_ticket move VRT  *)
(* supply or booked ST, and each is a step of the share pool.              *)
LEMMA PoolStep == Inv /\ [Next]_vars => [Pool!Next]_<<vrt_supply, tokens_deposited>>
<1>. SUFFICES ASSUME Inv, [Next]_vars
              PROVE  Pool!Next \/ UNCHANGED poolVars
  BY SMTT(30) DEF poolVars
<1>1. /\ vrt_supply' \in Nat /\ tokens_deposited' \in Nat
  BY NextInv DEF Inv, TypeOK
<1>2. ASSUME NEW h \in Stakers, NEW a \in DepositAmounts, MintTo(h, a)
      PROVE  Pool!Issue
  BY <1>1, <1>2, MintToInv DEF Pool!Issue
<1>3. CASE UpdateVaultBalance
  BY <1>1, <1>3, UpdateVaultBalanceInv DEF Pool!Issue, Pool!Next
<1>4. ASSUME NEW t \in Tickets, BurnWithdrawalTicket(t)
      PROVE  Pool!Redeem
  BY <1>1, <1>4, BurnWithdrawalTicketInv DEF Pool!Redeem
<1>5. CASE \/ \E a \in RewardAmounts : ReceiveSt(a)
           \/ \E h \in Stakers, t \in Tickets, a \in WithdrawalAmounts :
                EnqueueWithdrawal(h, t, a)
           \/ \E h \in Stakers, t \in Tickets, a \in ExtraVrtAmounts :
                SendVrtToTicket(h, t, a)
           \/ \E t \in Tickets, h \in Stakers : ChangeWithdrawalTicketOwner(t, h)
  BY <1>5 DEF ReceiveSt, EnqueueWithdrawal, SendVrtToTicket,
              ChangeWithdrawalTicketOwner
<1>6. CASE \/ \E o \in Operators : InitializeVaultOperatorDelegation(o)
           \/ \E o \in Operators, a \in DelegationAmounts : AddDelegation(o, a)
           \/ \E o \in Operators, a \in DelegationAmounts : CooldownDelegation(o, a)
  BY SMTT(30), <1>6 DEF InitializeVaultOperatorDelegation, AddDelegation, CooldownDelegation
<1>7. CASE \/ InitializeVaultUpdateStateTracker
           \/ \E o \in Operators : CrankVaultUpdateStateTracker(o)
           \/ CloseCurrentTracker
           \/ CloseOldTracker
  BY ZenonT(30), <1>7 DEF InitializeVaultUpdateStateTracker, CrankVaultUpdateStateTracker,
              CloseCurrentTracker, CloseOldTracker
<1>8. CASE \/ \E r \in FeeRequests : SetFees(r)
           \/ \E f \in ProgramFees : SetProgramFee(f)
           \/ \E c \in Capacities : SetDepositCapacity(c)
           \/ \E p \in PauseValues : SetIsPaused(p)
           \/ Tick
           \/ UNCHANGED vars
  BY ZenonT(30), <1>8 DEF SetFees, SetProgramFee, SetDepositCapacity, SetIsPaused, Tick, vars
<1>. QED
  BY <1>2, <1>3, <1>4, <1>5, <1>6, <1>7, <1>8 DEF Next, Pool!Next

(* The vault implements the share pool: no interleaving of deposits,       *)
(* rewards, fees and burns dilutes the VRT the other holders own.          *)
THEOREM VaultImplementsSharePool == Spec => ImplementsSharePool
<1>1. Init => Pool!Init
  BY ConstantAssumption DEF Init, Pool!Init
<1>. QED
  BY <1>1, InitInv, NextInv, PoolStep, PTL DEF Spec, ImplementsSharePool, Pool!Spec
=============================================================================

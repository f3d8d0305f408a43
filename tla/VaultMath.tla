----------------------------- MODULE VaultMath -----------------------------
(***************************************************************************)
(* The arithmetic of vault_core: fees in basis points, VRT minted for a    *)
(* deposit, ST paid out for a burn, and the two checks that bound how fees *)
(* may move.  Amounts are naturals; the Rust code computes in u128 and     *)
(* fails the instruction when the result leaves u64, so the modules that   *)
(* use these operators guard the stored results with U64Max.               *)
(***************************************************************************)
EXTENDS Integers

MAX_BPS == 10000

(* Config::new fixes these three; no instruction changes them.             *)
DEPOSIT_WITHDRAWAL_FEE_CAP_BPS == 2000
FEE_RATE_OF_CHANGE_BPS == 2500
FEE_BUMP_BPS == 10

MAX_REWARD_DELTA_BPS == 50

saturating_sub(a, b) == IF a > b THEN a - b ELSE 0

div_ceil(a, b) == (a + b - 1) \div b

-----------------------------------------------------------------------------
(* Fees round up: calculate_deposit_fee, calculate_withdrawal_fee,         *)
(* calculate_program_fee and calculate_st_reward_fee share this formula.   *)
calculate_fee(amount, bps) == div_ceil(amount * bps, MAX_BPS)

(* Mutant: VRT minted rounding up instead of down.                         *)
MintRoundedUp(amount, vrt_supply, tokens_deposited) ==
  IF tokens_deposited = 0 THEN amount
  ELSE div_ceil(amount * vrt_supply, tokens_deposited)

calculate_vrt_mint_amount(amount, vrt_supply, tokens_deposited) ==
  IF tokens_deposited = 0 THEN amount
  ELSE (amount * vrt_supply) \div tokens_deposited

(* The fees of burning amount_in VRT.  The program fee has priority over   *)
(* the vault fee; each fee wallet is exempt from its own fee, after the    *)
(* priority rule has been applied.                                         *)
program_fee_amount(amount_in, fees, is_program_wallet) ==
  IF is_program_wallet THEN 0 ELSE calculate_fee(amount_in, fees.program)

vault_fee_amount(amount_in, fees, is_vault_wallet) ==
  LET program == calculate_fee(amount_in, fees.program)
      vault   == calculate_fee(amount_in, fees.withdrawal)
  IN  IF is_vault_wallet THEN 0
      ELSE IF program + vault > amount_in THEN amount_in - program ELSE vault

(* ST paid for burning burn_amount VRT, rounded down.                      *)
out_amount(burn_amount, vrt_supply, tokens_deposited) ==
  (burn_amount * tokens_deposited) \div vrt_supply

(* Mutant: the payout is computed before the fees are taken off.           *)
PayoutIgnoresFees(amount_in, fees, is_program_wallet, is_vault_wallet, vrt_supply, tokens_deposited) ==
  LET program == program_fee_amount(amount_in, fees, is_program_wallet)
      vault   == vault_fee_amount(amount_in, fees, is_vault_wallet)
  IN  [program_fee |-> program, vault_fee |-> vault,
       burn |-> amount_in - program - vault,
       out |-> out_amount(amount_in, vrt_supply, tokens_deposited)]

calculate_burn_summary(amount_in, fees, is_program_wallet, is_vault_wallet, vrt_supply, tokens_deposited) ==
  LET program == program_fee_amount(amount_in, fees, is_program_wallet)
      vault   == vault_fee_amount(amount_in, fees, is_vault_wallet)
      burn    == amount_in - program - vault
  IN  [program_fee |-> program, vault_fee |-> vault, burn |-> burn,
       out |-> out_amount(burn, vrt_supply, tokens_deposited)]

-----------------------------------------------------------------------------
(* Mutant: only the cap is checked.                                        *)
FeeChangeUnbounded(current, new) == new <= DEPOSIT_WITHDRAWAL_FEE_CAP_BPS

(* Increases are bounded by a flat bump or by a rate relative to the       *)
(* current fee; an increase from zero beyond the bump never passes.        *)
check_fee_change_ok(current, new) ==
  LET delta == saturating_sub(new, current)
  IN  /\ new <= DEPOSIT_WITHDRAWAL_FEE_CAP_BPS
      /\ delta > FEE_BUMP_BPS =>
           /\ current > 0
           /\ (delta * MAX_BPS) \div current <= FEE_RATE_OF_CHANGE_BPS

(* vrt_supply and tokens_deposited are the values after the reward has     *)
(* been booked.  A division by zero or a rate beyond u16 fails the check.  *)
check_reward_fee_effective_rate(st_rewards, vrt_reward_fee, reward_fee_bps, vrt_supply, tokens_deposited) ==
  LET ratio     == (tokens_deposited * MAX_BPS) \div vrt_supply
      in_vrt    == (st_rewards * MAX_BPS) \div ratio
      effective == (vrt_reward_fee * MAX_BPS) \div in_vrt
  IN  \/ vrt_reward_fee = 0 /\ (st_rewards = 0 \/ reward_fee_bps = 0)
      \/ /\ vrt_reward_fee > 0
         /\ vrt_supply > 0 /\ ratio > 0 /\ in_vrt > 0
         /\ effective < 2^16
         /\ effective - reward_fee_bps \in
              (0 - MAX_REWARD_DELTA_BPS) .. MAX_REWARD_DELTA_BPS
=============================================================================

------------------------------ MODULE MCVault ------------------------------
(***************************************************************************)
(* Small instances of the vault.  Amounts are a few tokens where only sums *)
(* matter and thousands where the rounding of fees does.                   *)
(***************************************************************************)
EXTENDS VaultProperties, TLC

CONSTANTS
  s1,           \* an ordinary staker
  vw, pw,       \* the fee wallets of the vault and of the program
  t1, t2,       \* withdrawal tickets
  o1, o2, o3    \* operators

(* Tickets and operators are interchangeable: where a CHOOSE ranges over   *)
(* them, one fits.                                                         *)
MCSymmetry == Permutations({t1, t2}) \cup Permutations({o1, o2})
TicketSymmetry == Permutations({t1, t2})
ThreeOperatorSymmetry == Permutations({o1, o2, o3})

WithdrawalFees == {[deposit |-> 0, withdrawal |-> 2000, reward |-> 0, program |-> 1000]}

(* Tickets of 5 and 1 pay out 3 and 0; the reserve for both of them is 2.  *)
EqualFees == {[deposit |-> 0, withdrawal |-> 2000, reward |-> 0, program |-> 2000]}

(* Moderate fees, and fees at their caps whose sum exceeds the amount.     *)
AllFees == {[deposit |-> 1000, withdrawal |-> 1500, reward |-> 1000, program |-> 500],
            [deposit |-> 1, withdrawal |-> 2000, reward |-> 10000, program |-> 9000]}

StartFees == {[deposit |-> 100, withdrawal |-> 100, reward |-> 0, program |-> 0]}

(* From 100 bps, 125 is the largest increase the rate of change admits.    *)
FeeRequestSet ==
  {[deposit |-> None, withdrawal |-> w, reward |-> None] : w \in {80, 125, 126}}
    \cup {[deposit |-> 110, withdrawal |-> None, reward |-> 300]}
=============================================================================

CONSTANTS
  EpochLength = 1
  U64Max = 11
  InitSlot = 0
  MaxSlot = 3
  None = None
  s1 = s1
  vw = vw
  pw = pw
  t1 = t1
  t2 = t2
  o1 = o1
  o2 = o2
  o3 = o3
  Operators = {o1, o2}
  Tickets = {t1, t2}
  Holders = {s1, vw, pw}
  Stakers = {s1}
  VaultFeeWallet = vw
  ProgramFeeWallet = pw
  InitTokens = 2
  InitialFees <- EqualFees
  DepositAmounts = {8}
  WithdrawalAmounts = {1, 5}
  RewardAmounts = {1}
  DelegationAmounts = {5}
  ExtraVrtAmounts = {}
  FeeRequests = {}
  ProgramFees = {2000}
  Capacities = {}
  PauseValues = {}
SPECIFICATION Spec
SYMMETRY MCSymmetry
INVARIANTS TypeOK QueueMatchesTickets DelegationMatchesOperators SecurityCovered UnstakingCovered UpdateCanProceed WithdrawableTicketsCovered

CONSTANTS
  EpochLength = 1
  U64Max = 10
  InitSlot = 0
  MaxSlot = 5
  None = None
  s1 = s1
  vw = vw
  pw = pw
  t1 = t1
  t2 = t2
  o1 = o1
  o2 = o2
  o3 = o3
  Operators = {o1}
  Tickets = {t1}
  Holders = {s1, vw, pw}
  Stakers = {vw}
  VaultFeeWallet = vw
  ProgramFeeWallet = pw
  InitTokens = 2
  InitialFees <- WithdrawalFees
  DepositAmounts = {8}
  WithdrawalAmounts = {5}
  RewardAmounts = {}
  DelegationAmounts = {10}
  ExtraVrtAmounts = {}
  FeeRequests = {}
  ProgramFees = {1000}
  Capacities = {}
  PauseValues = {}
SPECIFICATION FairSpec
PROPERTIES TicketEventuallyBurnable

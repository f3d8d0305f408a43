CONSTANTS
  EpochLength = 2
  U64Max = 12500
  InitSlot = 0
  MaxSlot = 4
  None = None
  s1 = s1
  vw = vw
  pw = pw
  t1 = t1
  t2 = t2
  o1 = o1
  o2 = o2
  o3 = o3
  Operators = {}
  Tickets = {t1, t2}
  Holders = {s1, vw, pw}
  Stakers = {s1, vw}
  VaultFeeWallet = vw
  ProgramFeeWallet = pw
  InitTokens = 10000
  InitialFees <- AllFees
  DepositAmounts = {1001}
  WithdrawalAmounts = {1, 899}
  RewardAmounts = {701}
  DelegationAmounts = {}
  ExtraVrtAmounts = {450}
  FeeRequests = {}
  ProgramFees = {}
  Capacities = {12000}
  PauseValues = {}
SPECIFICATION Spec
SYMMETRY TicketSymmetry
INVARIANTS VrtConservation Backed
PROPERTIES ImplementsSharePool

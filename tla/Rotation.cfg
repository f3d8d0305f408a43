CONSTANTS
  EpochLength = 1
  U64Max = 4
  InitSlot = 1
  MaxSlot = 4
  None = None
  s1 = s1
  vw = vw
  pw = pw
  t1 = t1
  t2 = t2
  o1 = o1
  o2 = o2
  o3 = o3
  Operators = {o1, o2, o3}
  Tickets = {}
  Holders = {s1, vw, pw}
  Stakers = {s1}
  VaultFeeWallet = vw
  ProgramFeeWallet = pw
  InitTokens = 2
  InitialFees <- StartFees
  DepositAmounts = {}
  WithdrawalAmounts = {}
  RewardAmounts = {}
  DelegationAmounts = {1}
  ExtraVrtAmounts = {}
  FeeRequests <- FeeRequestSet
  ProgramFees = {300}
  Capacities = {}
  PauseValues = {TRUE, FALSE}
SPECIFICATION Spec
SYMMETRY ThreeOperatorSymmetry
PROPERTIES FullUpdateIsComplete ImplementsUpdateGate ImplementsUpdateProtocol FeesStableDuringUpdate WithdrawalFeeRateBounded

SPECIFICATION Spec
CONSTANTS
  VerifiedBanks = {v1, v2}
  ProducedBanks = {}
  MaxSchedulers = 2
SYMMETRY Symmetry
INVARIANTS
  OutcomeIsOwn
  AssertionsHold
  ActiveBanksAreTimed
CHECK_DEADLOCK FALSE

SPECIFICATION FairSpec
CONSTANTS
  VerifiedBanks = {v1}
  ProducedBanks = {p1}
  MaxSchedulers = 2
INVARIANTS
  SchedulersOwnedOnce
PROPERTIES
  AbandonedBanksGoStale
  UninstallReturns
CHECK_DEADLOCK FALSE

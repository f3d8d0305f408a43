SPECIFICATION Spec
CONSTANTS
  n1 = n1  o1 = o1  v1 = v1  sl1 = sl1  sl2 = sl2
  None = None
  Ncns = {n1}
  Operators = {o1}
  Vaults = {v1}
  Slashers = {sl1, sl2}
  SlashLimits = {1}
  PauseValues = {TRUE}
  EpochLength = 1
  MaxSlot = 6
  MaxTickets = 3
  MaxOptIns = 1
SYMMETRY AnySlasher
CONSTRAINT FewOptIns
CHECK_DEADLOCK FALSE
INVARIANTS TicketsNumbered TicketsRestOnTickets
PROPERTIES OptInsFollowLifecycle

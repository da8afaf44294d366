SPECIFICATION BetSpec
CONSTANTS
  BetIds = {b1, b2}
  FullSchema = FALSE
INVARIANT CreatedIsStored
CHECK_DEADLOCK FALSE

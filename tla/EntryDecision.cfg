SPECIFICATION EntrySpec
CONSTANTS
  MinWindow = 3
  Grace = 2
  WarmAt = 2
  FailThreshold = 2
INVARIANT EscalatesAutomatically
CHECK_DEADLOCK FALSE

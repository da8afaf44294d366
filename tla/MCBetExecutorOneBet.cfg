SPECIFICATION Spec
CONSTANTS
    c1 = c1
    c2 = c2
    c3 = c3
    r1 = r1
    r2 = r2
    None = None
    Calls <- MCCalls
    Rounds <- MCRounds
    RoundOf <- MCRoundOf
    DryRunCalls <- MCDryRunCalls
    MaxPlacementRetries = 1
INVARIANT OnePhysicalBetPerRound
CHECK_DEADLOCK FALSE

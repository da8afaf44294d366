SPECIFICATION FairSpec
CONSTANTS
    s1 = s1
    s2 = s2
    Starts <- MCStarts
    Rounds <- MCRounds
    RoundOf <- MCRoundOf
    MaxPlacementRetries = 1
INVARIANTS
    TypeOK
    OnePlacementAtATime
    ClicksBounded
    CashOutsAnswerPlacements
    LateClicksBounded
PROPERTIES
    StopDrains
\* The rounds run out.
CHECK_DEADLOCK FALSE

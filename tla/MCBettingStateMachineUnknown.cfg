SPECIFICATION Spec
CONSTANTS
    None = None
    Rounds = {r1}
    Bets = {b1}
    RoundStates <- MCRoundStates
    Impairments = {"browser", "balance"}
    MinConfidence = "high"
    MaxConsecutiveErrors = 2
    MaxCashOutFailures = 2
    ForceTargets <- MCForceTargets
    ErrorCap = 3
PROPERTY DoubtKeepsTheBet

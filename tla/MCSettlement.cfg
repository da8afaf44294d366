SPECIFICATION FairSpec
CONSTANTS
    Orders <- MCOrders
    Wager <- MCWager
    Payouts <- MCPayouts
    Sweeps = {boot, tick}
    BootSweeps = {boot}
    BatchSize = 2
    None = None
    Waiting = Waiting
INVARIANTS
    TypeOK
    LedgerMatchesStatus
    SettledAsEvidenced
PROPERTIES
    SettledIsFinal
    EvidenceSettles

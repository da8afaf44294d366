SPECIFICATION FairSpec
CONSTANTS
    Orders <- MCOrders
    Wager <- MCWager
    Payouts <- MCPayouts
    Sweeps = {tick}
    BootSweeps = {}
    BatchSize = 1
    None = None
    Waiting = Waiting
PROPERTY StuckOrdersAreReconciled

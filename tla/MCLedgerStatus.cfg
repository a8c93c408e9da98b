SPECIFICATION Spec
CONSTANTS
    Accounts = {1, 2, 3}
    Claims <- LaterToo
    Spends <- MCSpends
    Allocation <- MCAllocation
    Funding <- MCFunding
    MaxPool = 3
    MaxPerPayer = 2
    MaxBody = 2
    MaxHeight = 2
    MaxIssued = 0
    EndOfTime = 0
    Payouts <- MCPayouts
    Escrow <- MCEscrow
    Deadline = 1
    NoClaim = NoClaim
    MaxCrashes = 0
CHECK_DEADLOCK FALSE
INVARIANTS
    RejectedMeansUnpaid

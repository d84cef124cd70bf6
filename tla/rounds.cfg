CONSTANTS
    Parties = {0, 1, 2}
    L1 = 3
    L2 = 1
    NumQueries = 6
    Expected = 1
    Schedule <- MCSchedule
    Avail <- MCAvail
    ChanCap = 3
    MaxCrashes = 0
SPECIFICATION FairSpec
INVARIANTS TypeOK SharesMatch LinkBound ExhaustedTogether DeathlessInv

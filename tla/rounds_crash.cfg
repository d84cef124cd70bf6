CONSTANTS
    Parties = {0, 1, 2}
    L1 = 3
    L2 = 1
    NumQueries = 1
    Expected = 1
    Schedule <- MCSchedule
    Avail <- MCAvail
    ChanCap = 1
    MaxCrashes = 2
SPECIFICATION FairSpec
INVARIANTS TokenComplete CleanExit PanicOnlyAfterCrash RoundsInv
PROPERTIES RefinesLockstep EveryQuerySigned EveryoneStops

SPECIFICATION Spec
CONSTANTS
    Parties = {0, 1, 2}
    QueryFrames <- StreamFrames
    Queries = 2
    Greeting = 2
    Cap = 2
    Word = 9
    MaxCrashes = 1
INVARIANTS
    FramesIntact
    ReportExact
    FramesInv
PROPERTIES
    RefinesRounds
    EveryoneFinishes
    EveryoneStops

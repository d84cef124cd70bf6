CONSTANTS
    NumServers = 3
    IdRange = 3
    InOrder = TRUE
    MaxCrashes = 2
    MaxErrors = 3
SPECIFICATION FairSpec
INVARIANTS ReadyComplete HandshakesApart LoopSurvives FactoryInv
PROPERTIES EveryoneStarts

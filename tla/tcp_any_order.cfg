CONSTANTS
    NumServers = 3
    IdRange = 3
    InOrder = FALSE
    MaxCrashes = 0
    MaxErrors = 0
SPECIFICATION FairSpec
PROPERTIES EveryoneStarts

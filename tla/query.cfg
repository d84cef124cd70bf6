CONSTANTS
    N = 4
    Order = 131
    L1 = 5
    L2 = 2
    PeerSeeds = {1, 8}
    QuerySeeds = {1, 2, 6}
    DbSeeds = {4, 9}
    Rnd <- MCRnd
SPECIFICATION Spec
INVARIANTS GatesCorrect OheCorrect RecordCorrect ConversionCorrect
    TokenOpensToRecord TokenVerifies PlanFollowed

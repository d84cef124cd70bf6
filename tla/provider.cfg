SPECIFICATION Spec
CONSTANTS
    Lengths = {1, 2, 3, 5}
    MaxBuilds = 6
    MaxHeld = 2
    MaxFree = 3
INVARIANTS
    NeverPanics
    OutputsOwn
    TicketsDisjoint
    LayersRunnable

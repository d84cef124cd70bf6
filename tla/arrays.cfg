SPECIFICATION Spec
CONSTANTS
    Slots = {s1, s2}
    Sizes = {1, 2, 5}
    ByteBits = 2
    Align = 2
SYMMETRY SlotSymmetry
INVARIANTS
    AccessesInside
    ArraysInv
PROPERTIES
    RefinesVectors

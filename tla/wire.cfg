SPECIFICATION Spec
CONSTANTS
    Base = 4
    Width = 2
    ByteBits = 2
    CommitLen = 3
    Senders = {1}
    BitSizes = {1, 2, 3}
    Values = {0, 3}
    MaxCmds = 2
INVARIANTS
    Delivered
CHECK_DEADLOCK FALSE

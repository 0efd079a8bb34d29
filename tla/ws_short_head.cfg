SPECIFICATION Spec
CONSTANTS
    Radix = 32
    Short = 2
    Long = 5
    XorByte <- MCXorByte
    Plans <- MCPlans
    Pieces = {1, 3}
    MaskKeys <- MCMaskKeys
    MaxOutstanding = 2
CHECK_DEADLOCK FALSE
INVARIANTS
    FrameSizeIsPositive

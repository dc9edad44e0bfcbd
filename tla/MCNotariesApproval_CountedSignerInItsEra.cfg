CONSTANTS
    Keys <- MCKeys
    Outsider = Outsider
    EraKeys <- MCEraKeys
    Slots = {1, 2}
    MinSigs = 2
    MaxApprovals = 3
    Garbage = Garbage
    StackResidue <- MCKeys
SPECIFICATION Spec
CHECK_DEADLOCK FALSE
INVARIANT CountedSignerInItsEra

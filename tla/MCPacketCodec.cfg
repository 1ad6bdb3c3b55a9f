SPECIFICATION Spec
CONSTANTS
    Spelling <- MCSpelling
    Bits <- MCBits
    Keys <- MCKeys
    Leaves <- MCLeaves
    MaxSteps = 4
INVARIANTS
    ReadAsMeant
    SizeIsExact
CHECK_DEADLOCK FALSE

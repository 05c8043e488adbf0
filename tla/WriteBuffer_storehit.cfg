SPECIFICATION Spec
CONSTANTS
    Lanes = {0}
    Values = {0, 1}
INVARIANT
    LoadReturnsStored

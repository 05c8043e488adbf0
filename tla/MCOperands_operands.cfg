SPECIFICATION Spec
CONSTANTS
    NWords = 2
    Ops <- DataOps
    CsrAddrs = {}
    PowerOn = {1}
    NRegs = 2
    Values = {0, 1}
INVARIANTS
    OperandsCurrent
    NewestCopy

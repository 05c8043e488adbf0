SPECIFICATION Spec
CONSTANTS
    NWords = 2
    Ops <- AluOps
    CsrAddrs = {}
    PowerOn = {1}
    NRegs = 2
    Values = {0, 1}
INVARIANT
    PcOperand

SPECIFICATION Spec
CONSTANTS
    NWords = 2
    Ops <- TrapOps
    CsrAddrs = {}
    PowerOn = {1}
INVARIANTS
    ElderTrapWins

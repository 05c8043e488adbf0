SPECIFICATION Spec
CONSTANTS
    NWords = 2
    Ops <- ReturnOps
    CsrAddrs = {}
    PowerOn = {1}
INVARIANTS
    PcMuxAssertion

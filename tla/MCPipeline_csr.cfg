SPECIFICATION Spec
CONSTANTS
    NWords = 2
    Ops <- CsrOps
    CsrAddrs = {"crmd", "era", "eentry", "bsec"}
    PowerOn = {1}
INVARIANTS
    CsrReadCurrent
    CrmdOneWriter
PROPERTIES
    InOrderSpec

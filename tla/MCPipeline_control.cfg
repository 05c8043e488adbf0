SPECIFICATION FairSpec
CONSTANTS
    NWords = 2
    Ops <- EveryOps
    CsrAddrs = {"eentry"}
    PowerOn = {1}
INVARIANTS
    TypeOK
    PcSelectsDefined
    BlockingAccess
    PcsConsecutive
    ResultSelectOneCold
    ControlInv
PROPERTIES
    InOrderSpec
    KeepsExecuting
    DispatchHeld

SPECIFICATION FairSpec
CONSTANTS
    Tags = {1, 2, 3}
    Indices = {0}
    Offsets = {0}
    Lanes = {0}
    LowLane = 0
    Bytes = {0, 1}
    Device = Device
    ByteWidth = 2
    ChangeMax = 4
    Typing = 2
    Regs = {0, 5, 6}
    Values = {0, 1}
    PCs = {1, 2, 3}
    END_PC = 3
    DeadLimit = 2
    Programs <- MCPrograms
    Image <- MCImage
    Commits <- MCCommits
    Latches <- MCLatches
    Formats <- MCFormats
    Accesses <- MCAccesses
    Frames = 2
    Oversampling = 4
INVARIANTS
    TypeOK
    PagesSorted
    SetupFollowsDesign
    BytesIntact
    NothingLost
    TraceExact
PROPERTIES
    MemoryIsFlat
    BytesArrive
    DeadCoreEnds
CHECK_DEADLOCK FALSE

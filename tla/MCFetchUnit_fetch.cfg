SPECIFICATION FairSpec
CONSTANTS
    NLines = 2
    Ways = {w0, w1}
    Tag <- PairTag
    Index <- PairIndex
    Targets = {6, 9}
INVARIANTS
    TypeOK
    FetchedWordIsPc
    OneCopy
    ArrayCoherent
    FetchInv
PROPERTIES
    WordArrives

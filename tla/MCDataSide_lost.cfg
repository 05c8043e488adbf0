SPECIFICATION FairSpec
CONSTANTS
    a = a
    x = x
    y = y
    z = z
    Line = {a, x, y, z}
    NoLine = none
    Tag <- MCTag
    Index <- MCIndex
    Ways = {w0}
    NEntries = 2
    NBanks = 2
    BanksPerBeat = 1
    Lanes = {0, 1}
    Watched <- MCWatched
    Programs <- Short
PROPERTY
    StallEnds

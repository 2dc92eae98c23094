SPECIFICATION FairSpec
CONSTANTS
    a = a
    b = b
    c = c
    t = t
    Ids = {a, b, c, t}
    Graphs <- MCGraphs
    Targets = {t}
    MaxDepth = 2
    MaxWrites = 1
INVARIANTS
    TypeOK
    HopsAreReal
    QueryFindsRadius
    DepthIsFarthest
PROPERTIES
    SearchEnds
CHECK_DEADLOCK FALSE

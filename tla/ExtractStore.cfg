SPECIFICATION Spec
CONSTANTS
    a = a
    b = b
    f1 = f1
    f2 = f2
    Files = {f1, f2}
    Output <- MCOutput
    Nodes <- MCNodes
    Edges <- MCEdges
    Processes = {p1, p2}
    MaxRuns = 2
    MaxFailures = 1
    MaxCrashes = 1
INVARIANTS
    TypeOK
    EdgesAfterNodes
    HistoryTellsNew
    RunIsComplete
    EndsAsWalked
PROPERTIES
    KeepsHistory
CHECK_DEADLOCK FALSE

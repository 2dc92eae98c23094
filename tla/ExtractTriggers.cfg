SPECIFICATION Spec
CONSTANTS
    Upper <- MCUpper
    Files = {"db.ddl"}
    Code <- MCCode
    Output <- MCOutput
    Nodes <- MCNodes
    Edges <- MCEdges
    Processes = {p1}
    MaxRuns = 1
    MaxFailures = 0
    MaxCrashes = 0
INVARIANTS
    ChainIsResolved
CHECK_DEADLOCK FALSE

SPECIFICATION Spec
CONSTANTS
    Upper <- MCUpper
    Files = {"main.cbl", "sub.cob"}
    Code <- MCCode
    Output <- MCOutput
    Nodes <- MCNodes
    Edges <- MCEdges
    Processes = {p1}
    MaxRuns = 1
    MaxFailures = 0
    MaxCrashes = 0
INVARIANTS
    PlaceholderIsUnresolved
CHECK_DEADLOCK FALSE

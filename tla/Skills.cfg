SPECIFICATION SkillsSpec
CONSTANTS
    Upper <- MCUpper
    Files = {"main.cbl", "sub.cob", "run.jcl", "db.ddl", "overview.cpy", "m.bms"}
    Code <- MCCode
    Output <- MCOutput
    Nodes <- MCNodes
    Edges <- MCEdges
    Processes = {p1}
    MaxRuns = 1
    MaxFailures = 0
    MaxCrashes = 0
    Slug <- MCSlug
    Late = {"main.cbl"}
    MaxSkillRuns = 2
    MaxFaults = 1
INVARIANTS
    SourcesAreNodes
    CallsAreConnected
    ProgramsAreOne
    SkillsTypeOK
    CallersAreCalls
    ManifestIsTrue
    NothingIsLeftOut
    PagesAgreeWithQueries
VIEW MCSkillsView
CHECK_DEADLOCK FALSE

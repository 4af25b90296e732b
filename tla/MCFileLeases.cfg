SPECIFICATION Spec
CONSTANTS
    Agents = {a1, a2}
    Repositories = {repo}
    Paths <- NestedPaths
    Ttls = {2}
    TicksPerMs = 2
    Requests = {r1, r2}
    MaxAgents = 2
    MaxFileLeases = 2
    MaxClock = 3
    MaxTokens = 2
SYMMETRY Symmetry
CHECK_DEADLOCK FALSE
INVARIANTS
    ExclusiveCoverage
    FreeAfterReportedExpiry
PROPERTIES
    LiveLeaseOnlyChangedByOwner

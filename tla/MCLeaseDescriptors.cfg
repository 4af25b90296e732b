SPECIFICATION FairSpec
CONSTANTS
    r1 = r1
    r2 = r2
    Requests = {r1, r2}
    Canonical = {r2}
    Agents = {a1}
    Paths = {p}
    Ttls <- ShortAndLong
    MAX_CONTEXT_KEYS = 1
    None = None
    MaxTokens = 2
    MaxClock = 1
    MaxStray = 1
CHECK_DEADLOCK FALSE
INVARIANTS
    WriteAuthority
    GrantAccounted
PROPERTIES
    ReleasedIsFinal
    RequestsEnd

SPECIFICATION FairSpec
CONSTANTS
    None = None
    LoopbackHosts = {"localhost"}
    ClusterHosts = {"bridge.svc"}
    StableIds = {"T", "C", "U", "G"}
    TeamKeys = {"DEN"}
    MAX_BINDINGS = 2
    MAX_REPOSITORIES_PER_BINDING = 2
    MAX_PRINCIPALS_PER_BINDING = 2
    UpperKeys = {"DEN"}
    Identifiers = {"A", "B", "T", "C", "U", "claude-fable-5", "gpt-5.6-sol"}
    MAX_FORM_FIELDS = 6
    EncodedBytes <- MCEncodedBytes
    MAX_BODY_BYTES = 22
    SOCKET_MODE_MAX_FRAME_BYTES = 16
    MAX_PROMPT_BYTES = 2
    MAX_CONTEXT_MESSAGE_BYTES = 2
    MAX_CONTEXT_TOTAL_BYTES = 4
    Configs <- MCConfigs
    Document <- MCDocument
    Requests <- MCRequests
    Runs <- MCRuns
    UserGroups = {"G"}
    MaxDeliveries = 2
    MaxTroubles = 2
    MaxAttempt = 1
CHECK_DEADLOCK FALSE
INVARIANTS
    CapacityKept
    RunUnderClaim
PROPERTIES
    SocketLives

SPECIFICATION Spec
CONSTANTS
    None = None
    ValidIds = {"E1", "V1"}
    MAX_SINGLE_CONTEXT_MESSAGE_BYTES = 3
    MAX_CONTEXT_BLOCK_BYTES = 10
    SUFFIX_BYTES = 1
    StableIds = {"T", "C", "U", "W", "G"}
    TeamKeys = {"DEN"}
    MAX_BINDINGS = 2
    MAX_REPOSITORIES_PER_BINDING = 2
    MAX_PRINCIPALS_PER_BINDING = 2
    UpperKeys = {"DEN"}
    Identifiers = {"A", "B", "T", "X", "C", "U"}
    MAX_FORM_FIELDS = 7
    EncodedBytes <- MCEncodedBytes
    MAX_BODY_BYTES = 22
    SOCKET_MODE_MAX_FRAME_BYTES = 16
    MAX_PROMPT_BYTES = 2
    MAX_CONTEXT_MESSAGE_BYTES = 2
    MAX_CONTEXT_TOTAL_BYTES = 6
    LoopbackHosts = {"localhost"}
    ClusterHosts = {"bridge.svc"}
    Texts = {"i1", "i2", "t1", "t2", "a", "b", "bearer"}
    Events <- MCEvents
    Modals <- MCModals
    Transcripts <- MCTranscripts
    Registries <- MCRegistries
    Commands <- MCCommands
    Histories <- MCHistories
    Policies <- MCPolicies
    Credentials <- MCCredentials
    Lines <- MCLines
    Frames <- MCFrames
    Calls <- MCCalls
    Origins <- MCOrigins
INVARIANTS
    SlackIntakeSound
    CommandIntakeSound
    PolicyIsKept
    CredentialsAreKept
    RetriesAreSafe

SPECIFICATION FairSpec
CONSTANTS
    None = None
    m1 = m1
    m2 = m2
    v1 = v1
    ValidIds = {m1, m2, v1, "c1"}
    MAX_SINGLE_CONTEXT_MESSAGE_BYTES = 3
    MAX_CONTEXT_BLOCK_BYTES = 10
    SUFFIX_BYTES = 1
    Environment <- MCEnvironment
    Envelopes <- MCEnvelopes
    Submissions <- MCSubmissions
    Messages = {m1, m2}
    Dispatches <- MCDispatches
    Chosen <- MCChosen
    Models = {"claude", "chatgpt"}
    DryRuns = {FALSE, TRUE}
    MaxDeliveries = 2
    MaxCancels = 1
    MaxPolls = 2
    MaxTroubles = 2
CHECK_DEADLOCK FALSE
INVARIANTS
    PermitsConserved
    OneWorkflowPerEvent
    JournalTellsTruth
PROPERTIES
    EndIsFinal
    WorkerReturns

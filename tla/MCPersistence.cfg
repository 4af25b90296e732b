SPECIFICATION Spec
CONSTANTS
    Slugs <- MCSlugs
    Keys = {"k", "workflow.k"}
    Reserved = {"workflow.k"}
    Agents = {"a", "b"}
    Callers = {c1, c2}
    PERSIST_CONCURRENCY = 2
    MAX_CONTEXT_KEYS = 1
    max_channels = 1
    max_agents = 1
    history_limit = 2
    MaxOps = 4
    MaxFailures = 1
    MaxBoots = 2
SYMMETRY CallerSymmetry
CHECK_DEADLOCK FALSE
INVARIANTS
    MirrorConsistent
    DirectorySound
PROPERTIES
    ContextNeverGoesBack

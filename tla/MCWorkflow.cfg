SPECIFICATION Spec
CONSTANTS
    a1 = a1
    a2 = a2
    a3 = a3
    b = b
    h = h
    KeyOrder <- MCKeyOrder
    Humans = {h}
    Capable = {a1, a2, a3, h}
    OfKind = {a1, a2, a3, b}
    Requested <- MCRequested
    Modes = {"single", "sequential", "competitive", "consensus"}
    WorkerCounts <- MCWorkerCounts
    Contents = {c1, c2}
    Threads = {t1, t2}
    MAX_ASSIGNMENTS = 4
    NoAgent = NoAgent
CHECK_DEADLOCK FALSE
INVARIANTS
    PlanWellFormed
    SequentialOrder
    ReviewerLast
    ToldAsRecorded

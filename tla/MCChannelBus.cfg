SPECIFICATION FairSpec
CONSTANTS
    Agents = {a1, a2}
    Posters = {p1}
    TcpConns = {t1}
    SseConns = {s1}
    Readers = {t1}
    MAX_MEMBERS = 1
    HistoryLimit = 2
    HistoryBytes = 3
    Sizes = {1, 2}
    Sinces = {0}
    RingCapacity = 2
    MaxSse = 1
    MaxSeq = 3
    MaxPresence = 2
CHECK_DEADLOCK FALSE
INVARIANTS
    HistoryIsNewestRun
    StreamFaithful
    MembershipSound
PROPERTIES
    LiveCatchesUp

SPECIFICATION CompetitionSpec
CONSTANTS
    None = None
    a1 = a1
    a2 = a2
    a3 = a3
    Agents = {a1, a2, a3, ghost}
    ghost = ghost
    Enrolled = {a1, a2, a3}
    r1 = r1
    r2 = r2
    BlindRequests = {r1, r2}
    c1 = c1
    c2 = c2
    Drafts = {c1, c2}
    Lineups <- MCLineups
    MAX_BLIND_WORKERS = 2
SYMMETRY Symmetry
INVARIANTS
    BlindUntilRevealed
PROPERTIES
    ImplementsSealedRound

SPECIFICATION AdmissionSpec
CONSTANTS
    Actors = {r1, r2, p1, p2}
    Planned = {p1, p2}
    PlanMode = "competitive"
    Risks = {"low", "high"}
    Profile <- MCProfile
    Absolute <- MCAbsolute
    Requests <- MCRequests
    Deltas <- MCDeltas
    Handlers = {h1, h2}
    MaxU64 = 3
    Unset = Unset
    NoAdmission = NoAdmission
INVARIANTS
    WithinBudget
    ReporterStillOwns

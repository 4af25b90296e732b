SPECIFICATION DrainSpec
CONSTANTS
    a1 = a1
    a2 = a2
    a3 = a3
    r1 = r1
    r2 = r2
    Runners = {r1}
    ActorOf <- OwnNames
    Plan <- Reviewed
    PlanMode = "consensus"
    MaxConcurrency = 2
    MaxRetries = 1
    Allowance = 1
    Overages = {0, 1}
    MaxPrior = 1
    TokenBudget = 3
    FileLease = TRUE
    NoRunner = NoRunner
    NoAgent = NoAgent
    NoAdmission = NoAdmission
INVARIANTS
    CallsInTurn
    SpendingCovered
    AccountedBeforeAccepted
PROPERTIES
    DrainCompletes

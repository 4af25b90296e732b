SPECIFICATION FairSpec
CONSTANTS
    a1 = a1
    a2 = a2
    a3 = a3
    r1 = r1
    r2 = r2
    Runners = {r1, r2}
    ActorOf <- OwnNames
    Plan <- OneWorker
    PlanMode = "single"
    MaxConcurrency = 1
    MaxRetries = 0
    Allowance = 1
    Overages = {0}
    MaxPrior = 1
    TokenBudget = 1
    FileLease = FALSE
    NoRunner = NoRunner
    NoAgent = NoAgent
    NoAdmission = NoAdmission
PROPERTIES
    WorkflowSettles

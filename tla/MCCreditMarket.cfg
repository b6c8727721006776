SPECIFICATION Spec
CONSTANTS
    Scale = 10000
    Registry <- TheRegistry
    Capability = "solidity-scan"
    Budgets = {500, 1000}
    Targets <- TheTargets
    MaxEvents = 2
    MaxAttempts = 2
    Posture <- ThePostures
    BorrowerReputation = 800
    Term = 600
    Balances = {0, 500}
    Validity = 2
    MaxTime = 3
    None = None
INVARIANTS ApprovalStands CreditIsAcceptable ChosenIsBest
CHECK_DEADLOCK FALSE

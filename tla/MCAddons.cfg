CONSTANTS
    Replies <- MCReplies
    Sessions = {s1}
    NoSession = NoSession
    MaxSteps = 3
    Agent = agent
    Ids = {agent, other}
    Bundled = {agent}
    MaxVersion = 2
    Budgets <- MCBudgets
SPECIFICATION FairSpec
INVARIANTS
    UnlistedAreConfirmed
    PhaseHasCause
    HostMatchesDisk
    StoreIsTrue
PROPERTIES
    OperationsEnd
CHECK_DEADLOCK FALSE

CONSTANTS
    retry = retry
    c1 = c1
    c2 = c2
    NoCall = NoCall
    Keys = {retry}
    RetryKey = retry
    CallIds = {c1, c2}
    Batches <- MCBatches
    RequestTails <- MCTails
    RetryBudgets <- MCBudgets
    RoleTokens <- MCRoleTokens
    ProviderErrors <- MCProviderErrors
    MaxSteps = 5
    ContextTokens = 9
    PromptTokens = 1
    MaxFrames = 13
    FreeFrames = 6
SPECIFICATION Spec
CHECK_DEADLOCK FALSE
INVARIANTS
    FailureIsEmptyAndOutermost
    TurnCommitsWhatRan
    RetriesCountUp
    OnlyExhaustionIsFinal
    CompactAttemptsEnd
PROPERTIES
    ImplementsSnapshots

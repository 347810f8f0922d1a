CONSTANTS
    retry = retry
    note = note
    c1 = c1
    c2 = c2
    NoCall = NoCall
    Keys = {retry, note}
    RetryKey = retry
    UserKeys = {note}
    UserValues = {7}
    Inputs <- MCInputs
    CallIds = {c1, c2}
    Batches <- MCBatches
    RequestTails <- MCTails
    RetryBudgets <- MCBudgets
    RoleTokens <- MCRoleTokens
    ProviderErrors <- MCProviderErrors
    MaxSteps = 4
    ContextTokens = 6
    PromptTokens = 1
    MaxFrames = 3
    FreeFrames = 3
    MaxHistory = 4
SPECIFICATION SessionSpec
INVARIANTS
    FailedFramesAreEmpty

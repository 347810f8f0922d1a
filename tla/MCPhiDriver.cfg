CONSTANTS
    retry = retry
    c1 = c1
    NoCall = NoCall
    Keys = {retry}
    RetryKey = retry
    UserKeys = {}
    UserValues = {}
    Inputs <- MCInputs
    CallIds = {c1}
    Batches <- MCBatches
    RequestTails <- MCTails
    RetryBudgets <- MCBudgets
    RoleTokens <- MCRoleTokens
    ProviderErrors <- MCProviderErrors
    MaxSteps = 3
    ContextTokens = 5
    PromptTokens = 1
    MaxFrames = 4
    FreeFrames = 4
    MaxHistory = 4
SPECIFICATION FairDriverSpec
INVARIANTS
    CheckpointIsCurrent
    YoloStopsWhenDone
PROPERTIES
    FileIsSession
    InterruptEndsRun

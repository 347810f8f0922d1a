CONSTANTS
    Words <- MCWords
    Names <- MCNames
    None = None
    Providers <- MCProviders
    ChatReplies <- MCChatReplies
    ResponsesReplies <- MCResponsesReplies
    ToolResults <- MCResults
    MaxMessages = 6
    call1 = call1
    call2 = call2
    NoCall = NoCall
    Keys = {}
    CallIds = {call1, call2}
    TurnCalls <- MCTurnCalls
    Rates <- MCRates
    RoleTokens <- MCRoleTokens
    MaxLength = 9
    Outputs <- MCOutputs
    Limits <- MCLimits
SPECIFICATION MCTurnsSpec
CHECK_DEADLOCK FALSE
INVARIANT StructuredCodesWin

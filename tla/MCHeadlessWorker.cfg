CONSTANTS
    c1 = c1
    c2 = c2
    NoCall = NoCall
    Calls = {c1, c2}
    Kinds = {"interact", "type", "write", "close"}
    MayVanish = TRUE
    MayBeKilled = TRUE
    MaxOutput = 1
    Expiration = 1
    StartupGrace = 2
    RequestId <- MCSameIds
SPECIFICATION Spec
INVARIANTS
    LastResponseIsKept
    LeaseIsHonoured
PROPERTY ImplementsJobOutput
CHECK_DEADLOCK FALSE

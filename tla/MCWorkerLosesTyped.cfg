CONSTANTS
    c1 = c1
    c2 = c2
    NoCall = NoCall
    Calls = {c1, c2}
    Kinds = {"interact", "type"}
    MayVanish = FALSE
    MayBeKilled = FALSE
    MaxOutput = 1
    Expiration = 1
    StartupGrace = 1
    RequestId <- MCSameIds
SPECIFICATION Spec
INVARIANT LastResponseIsAlwaysKept
CHECK_DEADLOCK FALSE

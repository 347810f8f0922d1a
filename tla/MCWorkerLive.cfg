CONSTANTS
  c1 = c1
  c2 = c2
  NoCall = NoCall
  Calls = {c1, c2}
  Kinds = {"interact", "close"}
  MayVanish = TRUE
  MayBeKilled = FALSE
  MaxOutput = 0
  Expiration = 1
  StartupGrace = 1
  RequestId <- MCDistinctIds
SPECIFICATION FairSpec
PROPERTIES CallsEnd WorkerEnds
CHECK_DEADLOCK FALSE

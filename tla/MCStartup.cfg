SPECIFICATION FairSpec
CONSTANTS
  a = a
  b = b
  c = c
  h1 = h1
  h2 = h2
  Servers = {a, b, c}
  LastFile <- Files
  Hash <- Hashes
  None = None
  FaultKinds = {"sql_error", "crash"}
  MaxRetries = 3
  MaxFaults = 3
INVARIANTS SchemaIsRecorded MigrationsDoNotCollide ListensOnItsOwn
PROPERTIES EnvironmentIsFixed MatchingServersListen
CHECK_DEADLOCK FALSE

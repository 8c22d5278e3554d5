SPECIFICATION CliSpec
CONSTANTS
  start = start
  s1 = s1
  Starts = {start}
  Visits = {visit}
  KeyOf <- OneKey
  SessionKeys = {s1, s2}
  Devboxes = {d1}
  Handlers = {h1}
  None = None
  FaultKinds = {"outcome_lost", "running_lost", "terminate_failed", "crash"}
  MaxFaults = 1
  Attempts = 2
  MaxLosses = 1
INVARIANTS KeysAreRemoved SessionsAreKnown VerdictsAgree
CHECK_DEADLOCK FALSE

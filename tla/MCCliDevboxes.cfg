SPECIFICATION CliFairSpec
CONSTANTS
  create = create
  d1 = d1
  Creates = {create}
  Deletes = {delete1}
  KeyOf <- OneKey
  Devboxes = {d1, d2}
  Tokens = {t1, t2}
  Handlers = {h1, h2}
  None = None
  FaultKinds = {"launch_refused", "response_lost", "terminate_failed", "not_shown", "callback_lost", "crash"}
  MaxFaults = 1
  Attempts = 3
  PollAttempts = 2
  MaxLosses = 1
INVARIANTS DevboxesAreKnown VerdictsStand
PROPERTIES CreateLearnsItsDevbox CommandsEnd
CHECK_DEADLOCK FALSE

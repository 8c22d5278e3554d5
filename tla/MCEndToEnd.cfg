SPECIFICATION Spec
CONSTANTS
  SessionKeys = {s1, s2}
  Devboxes = {d1}
  Handlers = {h1}
  None = None
  FaultKinds = {"running_lost", "outcome_lost", "crash"}
  MaxFaults = 1
  Starters = {c1}
  Inspectors = {}
  RuntimeFaultKinds = {"start_refused", "spawn_failed", "write_failed", "pipe_broken", "callback_failed", "start_killed", "supervisor_killed"}
  MaxRuntimeFaults = 1
  Session = s1
INVARIANTS RowIsEarned TokenGoneRowFinal
PROPERTY BackendImplemented
CHECK_DEADLOCK FALSE

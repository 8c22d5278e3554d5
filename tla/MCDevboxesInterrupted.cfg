SPECIFICATION Spec
CONSTANTS
  Devboxes = {d1}
  Tokens = {t1}
  Handlers = {h1, h2}
  None = None
  FaultKinds = {"crash"}
  MaxFaults = 1
INVARIANT DeletedLeavesNothingRunning

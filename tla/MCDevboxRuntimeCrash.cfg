SPECIFICATION Spec
CONSTANTS
  Starters = {c1}
  Inspectors = {}
  FaultKinds = {"spawn_failed"}
  MaxFaults = 1
INVARIANT SupervisorLeavesOutcome
CHECK_DEADLOCK FALSE

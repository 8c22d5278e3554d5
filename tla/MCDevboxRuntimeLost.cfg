SPECIFICATION FairSpec
CONSTANTS
  Starters = {c1}
  Inspectors = {i1}
  FaultKinds = {}
  MaxFaults = 0
PROPERTY UnrecoverableIsUnattachable
CHECK_DEADLOCK FALSE

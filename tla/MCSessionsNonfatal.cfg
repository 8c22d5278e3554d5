SPECIFICATION FairSpec
CONSTANTS
  SessionKeys = {s1}
  Devboxes = {d1}
  Handlers = {h1, h2}
  None = None
  FaultKinds = {"running_lost", "crash"}
  MaxFaults = 2
PROPERTY RunningFailureIsNonfatal

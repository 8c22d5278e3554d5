SPECIFICATION FairSpec
CONSTANTS
  Callers = {r1, r2}
  Volumes = {v1, v2}
  Commits = {k1, k2}
  Wanted = k1
  PollAttempts = 2
  FaultKinds = {"call_failed", "stopped", "prepare_failed", "step_failed", "callback_lost", "pushed"}
  MaxFaults = 2
INVARIANTS SeenVolumeIsGone ReadyIsEarned
PROPERTIES RefinesLife CallEnds AwaitedIsTerminated
CHECK_DEADLOCK FALSE

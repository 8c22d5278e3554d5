SPECIFICATION FairSpec
CONSTANTS
  Starters = {c1, c2}
  Inspectors = {i1}
  FaultKinds = {"start_refused", "start_answer_lost", "spawn_failed", "write_failed", "pipe_broken", "callback_failed", "start_killed", "supervisor_killed"}
  MaxFaults = 1
INVARIANTS TypeOK AtMostOneAgent FinishedIsReported ReportsStand LostIsLost
PROPERTIES EndIsRecorded StartSettles
CHECK_DEADLOCK FALSE

SPECIFICATION FairSpec
CONSTANTS
  Devboxes = {d1}
  Tokens = {t1, t2}
  Handlers = {h1, h2, h3}
  None = None
  FaultKinds = {"launch_refused", "response_lost", "terminate_failed", "not_shown", "callback_lost", "crash"}
  MaxFaults = 2
INVARIANTS TypeOK OneInstancePerDevbox NoOrphanInstance
PROPERTIES RefinesContract SavedInstanceIsTerminated DeletionCompletes LaunchSettles

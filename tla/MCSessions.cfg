SPECIFICATION FairSpec
CONSTANTS
  SessionKeys = {s1}
  Devboxes = {d1, d2}
  Handlers = {h1, h2, h3}
  None = None
  FaultKinds = {"running_lost", "outcome_lost", "terminate_failed", "crash"}
  MaxFaults = 1
INVARIANTS TypeOK NoActiveSessionOnDeletedDevbox OutcomeIsExplained
PROPERTIES RefinesContract CreatedOnReadyDevbox OutcomeIsReported

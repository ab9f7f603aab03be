SPECIFICATION FairSpec
CONSTANTS
  Projects = {p1}
  Workers = {w1, w2}
  NoThread = NoThread
  NoProject = NoProject
  Engine = TRUE
  Entries = {"scheduled", "manual"}
  Faults = {"refused", "claim_error", "thread_error"}
  CatchUp = {p1}
  MaxConcurrent = 4
  MaxNow = 2
  MaxExecutions = 1
  PermitCap = 5
  MaxQueued = 3
INVARIANT OneRunPerProject
INVARIANT RunningHasARun
PROPERTY TicketsUsedInOrder
PROPERTY RunsTakeTurns
PROPERTY RunsEnd
PROPERTY CallsReturn
PROPERTY DueTicketsConsumed

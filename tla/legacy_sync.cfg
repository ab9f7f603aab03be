SPECIFICATION Spec
CONSTANTS
  Projects = {p1, p2}
  Scheduled = {p2}
  Commanded = {p1, p2}
  MaxObjects = 2
  MaxEdits = 1
  MaxRuns = 2
INVARIANT OneRunPerProject
INVARIANT NoProjectLost
INVARIANT EditsArrive
INVARIANT TicketRunsOnce
CHECK_DEADLOCK FALSE

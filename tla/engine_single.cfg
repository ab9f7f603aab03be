SPECIFICATION Spec
CONSTANTS
  Projects = {p1}
  Workers = {w1, w2}
  NoThread = NoThread
  NoProject = NoProject
  Engine = TRUE
  Entries = {"manual", "direct", "task"}
  Faults = {"refused", "claim_error", "thread_error", "hook_error", "script_error"}
  CatchUp = {}
  MaxConcurrent = 2
  MaxNow = 0
  MaxExecutions = 1
  PermitCap = 2
  MaxQueued = 3
SYMMETRY WorkerSymmetry
INVARIANT OneRunPerProject

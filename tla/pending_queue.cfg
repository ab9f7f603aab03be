SPECIFICATION Spec
CONSTANTS
  Projects = {p1, p2}
  Workers = {w1, w2}
  NoThread = NoThread
  NoProject = NoProject
  Engine = TRUE
  Entries = {"scheduled"}
  Faults = {}
  CatchUp = {}
  MaxConcurrent = 1
  MaxNow = 1
  MaxExecutions = 0
  PermitCap = 3
  MaxQueued = 2
SYMMETRY WorkerSymmetry
INVARIANT LiveRunIsTracked
PROPERTY PermitsConserved

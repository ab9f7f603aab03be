SPECIFICATION FairSpec
CONSTANTS
  a = a
  b = b
  NoTask = NoTask
  Tasks <- AllTasks
  Configs <- MCConfigs
  Checked = {b}
  Faults = {"popen", "thread", "raise", "stream"}
  MaxRuns = 2
  MaxCommands = 1
INVARIANT StepsInOrder
INVARIANT DoneRunSucceeded
INVARIANT OrphansOnlyInParallelSteps
INVARIANT PrevSuccessHonoured
PROPERTY NotedStopIsShown
PROPERTY StoppedRunEndsStopped
PROPERTY StopEndsRun
PROPERTY TimeLimitsEnforced

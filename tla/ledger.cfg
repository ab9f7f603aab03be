SPECIFICATION Spec
CONSTANTS
  Projects = {p1}
  Commands = {c1}
  NoRun = NoRun
  NoCommand = NoCommand
  OtherSyncers = {}
  Outcomes = {"Done"}
  MaxRuns = 2
  MaxCrashes = 1
  MaxReloads = 1
INVARIANT ActiveRunIsRecorded
INVARIANT NoRunSurvivesRestart
INVARIANT CommandsAtMostOnce

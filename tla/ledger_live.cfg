SPECIFICATION FairSpec
CONSTANTS
  Projects = {p1}
  Commands = {c1}
  NoRun = NoRun
  NoCommand = NoCommand
  OtherSyncers = {event_loop}
  Outcomes = {"Done", "Stopped"}
  MaxRuns = 1
  MaxCrashes = 2
  MaxReloads = 0
PROPERTY CommandsAnswered
PROPERTY EndShown

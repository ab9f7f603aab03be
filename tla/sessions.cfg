SPECIFICATION Spec
CONSTANTS
  Configs <- MCConfigs
  SlotsPerDay = 2
  Faults = {"crash", "write"}
  MaxNow = 4
  MaxCrashes = 1
  MaxEvents = 1
INVARIANT NoSlotSkipped
PROPERTY TicketRunsOnce
PROPERTY DailyRunsDaily
PROPERTY ScheduledDayRuns

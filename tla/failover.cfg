SPECIFICATION Spec
CONSTANTS
  Nodes = {main, sub}
  NoNode = NoNode
  Main = main
  Settings = "samples"
  Faults = {"crash", "stop", "stall", "d1_error", "late_heartbeat"}
  MaxNow = 1
INVARIANT ExecutionIsRecorded
INVARIANT OneNodePerTicket
PROPERTY TicketsExecutedOnce
PROPERTY MainKeepsLease

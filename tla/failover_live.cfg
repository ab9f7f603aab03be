SPECIFICATION FairSpec
CONSTANTS
  Nodes = {main, sub}
  NoNode = NoNode
  Main = main
  Settings = "samples"
  Faults = {"crash", "late_heartbeat"}
  MaxNow = 2
PROPERTY StandbyTakesOver
PROPERTY MainReturns

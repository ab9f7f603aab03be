SPECIFICATION FairSpec
CONSTANTS
  Nodes = {main, sub}
  NoNode = NoNode
  Main = main
  Settings = "samples"
  Faults = {"crash"}
  MaxNow = 1
PROPERTY DueTicketIsRun

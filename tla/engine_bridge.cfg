SPECIFICATION Spec
CONSTANTS
  Desktops = {d1, d2}
  Processes = {e1, e2, e3}
  NoProcess = NoProcess
  Foreign = Foreign
  MaxFaults = 2
INVARIANT OneEngine
INVARIANT NoEngineLeftBehind
PROPERTY EngineReturns

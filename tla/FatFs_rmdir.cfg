SPECIFICATION Spec
CONSTANTS
  MaxCluster = 6
  PerSector = 2
  NumFats = 2
  Slots = 1
  Root = 2
  Names = {a, b}
  Payloads = {p}
  MaxCount = 2
  MaxDepth = 2
  MaxCalls = 4
  MaxOps = 4
  MaxFaults = 0
  FaultKinds = {}
PROPERTIES RefusedDirHasEntries
CHECK_DEADLOCK FALSE

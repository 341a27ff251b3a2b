SPECIFICATION Spec
CONSTANTS
  MaxCluster = 4
  PerSector = 1
  NumFats = 1
  Slots = 1
  Root = 2
  Names = {a, b}
  Payloads = {p}
  MaxCount = 2
  MaxDepth = 1
  MaxCalls = 4
  MaxOps = 6
  MaxFaults = 3
  FaultKinds = {"lost"}
PROPERTIES Implements CallsReturn
CHECK_DEADLOCK FALSE

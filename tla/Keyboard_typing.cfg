SPECIFICATION Spec
CONSTANTS
  Scans = {"a", "up"}
  Letters = {"a"}
  Shifts = {"lshift", "rshift"}
  Ctrl = "ctrl"
  Keys <- MCKeys
  Modifiers <- MCModifiers
  Size = 3
  MaxCodes = 4
INVARIANTS OneEventPerPress NothingStuck
PROPERTIES IsFifo BytesAreTaken ReaderGetsKey
CHECK_DEADLOCK FALSE

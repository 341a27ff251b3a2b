SPECIFICATION Spec
CONSTANTS
  Programs <- MCPrograms
  Names <- MCNames
  Searches <- MCSearches
  HeaderSize = 2
  HeapCap = 10
  HeapBase = 20
  Apis = 2
  GenMod = 3
  Statuses = {0, 1}
  Commands <- AllCommands
  MaxOps = 3
  MaxFaults = 1
INVARIANTS HeapOwned HandleCurrent RunsWhatWasLoaded
PROPERTIES RunsAgainWithoutBss StatusKept
CHECK_DEADLOCK FALSE

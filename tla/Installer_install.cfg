SPECIFICATION Spec
CONSTANTS
  WordSize = 60
  PartStart = 2
  Res = 4
  PerSec = 8
  DirSlots = 4
  MaxSpc = 4
  MinClusters = 12
  Fat32Min = 11
  BufSeg = 34
  Stage2Max = 2
  BinMax = 2
  MaxUsers = 2
  Swaps = 2
  ROOT = "ROOT"
  Names = {"ANN", "BOB"}
  Passwords = {"pw"}
  Floppies <- MCFloppies
  HddSizes = {7, 20, 38}
  MaxRuns = 2
  MaxFaults = 1
INVARIANTS
  BootsComplete
  Complete
PROPERTIES
  ValidatedFirst
  InstallEnds
CHECK_DEADLOCK FALSE

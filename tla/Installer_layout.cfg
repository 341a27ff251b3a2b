SPECIFICATION Spec
CONSTANTS
  WordSize = 65536
  PartStart = 2048
  Res = 32
  PerSec = 128
  DirSlots = 16
  MaxSpc = 32
  MinClusters = 65541
  Fat32Min = 65525
  BufSeg = 32768
  Stage2Max = 4
  BinMax = 32
  MaxUsers = 1
  Swaps = 5
  ROOT = "ROOT"
  Names = {}
  Passwords = {"pw"}
  Floppies <- MCFloppies
  HddSizes <- MCHddSizes
  MaxRuns = 1
  MaxFaults = 0
PROPERTIES
  LayoutEnds
CHECK_DEADLOCK FALSE

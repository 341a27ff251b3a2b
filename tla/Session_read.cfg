SPECIFICATION Spec
CONSTANTS
  Names <- MCNames
  ROOT = "ROOT"
  Passwords = {"", "p", "q"}
  UserMax = 3
  FirstUid = 3
  MaxUid = 15
  EnvMax = 6
  XVars = {"TMP"}
  Far <- MCFar
  Stump <- MCStump
  Disks <- MCDisks
  Edits = {}
  MaxOps = 4
  MaxFaults = 1
  FaultKinds = {"read"}
PROPERTIES AccountsKept
CHECK_DEADLOCK FALSE

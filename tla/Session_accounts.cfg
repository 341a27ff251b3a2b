SPECIFICATION Spec
CONSTANTS
  Names <- MCNames
  ROOT = "ROOT"
  Passwords = {"", "p", "q"}
  UserMax = 3
  FirstUid = 3
  MaxUid = 15
  EnvMax = 6
  XVars = {"TMP", "LANG"}
  Far <- MCFar
  Stump <- MCStump
  Disks <- MCDisks
  Edits <- MCEdits
  MaxOps = 5
  MaxFaults = 1
  FaultKinds = {"write", "crash", "torn"}
INVARIANTS UidsUnique SessionEnv RootCanLogIn
PROPERTIES AccountsKept SuccessIsStored
CHECK_DEADLOCK FALSE

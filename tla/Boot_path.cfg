SPECIFICATION Spec
CONSTANTS
  Spt = 3
  Heads = 2
  Cyls = 12
  Gap = 4
  Window = 4
  FatBuf = 12
  RootBuf = 16
  MemTop = 20
  SecBytes = 2
  PerSector = 2
  PerFat = 4
  Fat16Min = 3
  Fat32Min = 6
  Byte = 16
  Statuses = {1, 2}
  EntrySec = 1
  Disks <- MCDisks
  FaultKinds = {"bios", "early", "chs", "edd"}
  MaxFaults = 2
INVARIANTS
  KernelWhole
  LoaderIntact
  SoundBoots
PROPERTIES
  BootEnds
CHECK_DEADLOCK FALSE

SPECIFICATION Spec
CONSTANTS
  a = a
  b = b
  c = c
  boot = boot
  rec = rec
  radio = radio
  a0 = a0
  a1 = a1
  a2 = a2
  b0 = b0
  b1 = b1
  c0 = c0
  c1 = c1
  k0 = k0
  k1 = k1
  r1 = r1
  d0 = d0
  Junk = Junk
  NoFile = NoFile
  Files = {a}
  Partitions = {boot, rec, radio}
  Values = {a1, k0, k1, r1, d0}
  Script <- PartitionScript
  Listed <- PartitionNames
  Faults = {"space", "cache", "save", "patch", "publish", "flash"}
  MaxRuns = 2
CHECK_DEADLOCK FALSE
INVARIANTS
  DoneMeansPatched
  BackedUpWhileFlashing
PROPERTY
  PatchedStaysPatched

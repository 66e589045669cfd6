SPECIFICATION Spec
CONSTANTS
  sys = sys
  data = data
  boot = boot
  ext = ext
  v1 = v1
  v2 = v2
  Wiped = Wiped
  Torn = Torn
  Nested = Nested
  Rotten = Rotten
  None = None
  Part = {sys, data, boot, ext}
  Orders <- MainOrders
  List <- SysDataBoot
  Subs <- ExtOfSys
  Kind <- KindOf
  Class <- SubClass
  Pieces <- OnePiece
  Empty = {}
  Converted = {}
  Versions = {v1, v2}
  Bldrs = {1, 2}
  Settings = {{}, {"handle_restore_size"}, {"skip_md5_gen", "skip_free_check"}}
  Fits <- MainFits
  Faults = {"crash", "mount", "wipe", "rot", "lose"}
  TotalBytes = 1
  Reserve = 0
  Word = 16
  MaxFree = 1
  MaxOps = 4
CHECK_DEADLOCK FALSE
SYMMETRY VersionsAlike
INVARIANTS
  TypeOK
  BackupIsComplete
  AllMatchBeforeWipe
  RestoredIsWhatWasSaved
PROPERTIES
  OnlyFittingRestored

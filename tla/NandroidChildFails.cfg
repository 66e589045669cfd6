SPECIFICATION Spec
CONSTANTS
  sys = sys
  data = data
  boot = boot
  ext = ext
  v1 = v1
  v2 = v2
  Wiped = Wiped
  Torn = Torn
  Nested = Nested
  Rotten = Rotten
  None = None
  Part = {sys, data}
  Orders <- SysDataOrders
  List <- SysData
  Subs <- NoSubs
  Kind <- KindOf
  Class <- ClassOf
  Pieces <- OnePiece
  Empty = {}
  Converted = {}
  Versions = {v1}
  Bldrs = {2}
  Settings = {{}}
  Fits <- AllFit
  Faults = {"child"}
  TotalBytes = 1
  Reserve = 0
  Word = 16
  MaxFree = 1
  MaxOps = 2
CHECK_DEADLOCK FALSE
INVARIANTS
  BackupIsComplete

SPECIFICATION Spec
CONSTANTS
  sys = sys
  data = data
  boot = boot
  ext = ext
  v1 = v1
  v2 = v2
  Wiped = Wiped
  Torn = Torn
  Nested = Nested
  Rotten = Rotten
  None = None
  Part = {data, boot, ext}
  Orders <- BootExtOrders
  List <- AllThree
  Subs <- NoSubs
  Kind <- SplitExt
  Class <- ClassOf
  Pieces <- TwoOfExt
  Empty = {data}
  Converted = {}
  Versions = {v1}
  Bldrs = {0}
  Settings = {{}, {"handle_restore_size"}}
  Fits <- SmallOrNot
  Faults = {"rot", "lose", "crash", "child", "nofile", "fork", "md5", "wipe"}
  TotalBytes = 1
  Reserve = 0
  Word = 16
  MaxFree = 1
  MaxOps = 4
CHECK_DEADLOCK FALSE
INVARIANTS
  NoRotRestored

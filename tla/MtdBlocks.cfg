SPECIFICATION FairSpec
CONSTANTS
  N = 3
  E = 2
  Unit <- MCUnit
  Zero = "00"
  FF = "FF"
  Images <- MCImages
  Messages = {"c"}
  Sizes = {1, 3}
  BufSiz = 3
  Pages = 2
  Junk <- MCJunk
  Torn = Torn
  Faults = {"badblock", "erase", "write", "read", "stats", "crash"}
  MaxFaults = 2
INVARIANTS
  TypeOK
  DumpIsComplete
  LoadedIsPrefix
  WrittenIsStream
  AgreeOnBlocks
PROPERTIES
  OperationsEnd

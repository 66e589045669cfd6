SPECIFICATION FairSpec
CONSTANTS
  Requests <- SomeRequests
  Scripts <- SomeScripts
  Faults = {"power", "killed", "hot", "mount", "misc", "tmp", "copy", "wipe", "parted"}
  MaxRequests = 2
  MaxFaults = 2
INVARIANTS
  TypeOK
  AtMostOnce
  Accounted
PROPERTY
  StartupEnds

SPECIFICATION Spec
CONSTANTS
  Requests <- OneErase
  Scripts <- NoScripts
  Faults = {"power"}
  MaxRequests = 1
  MaxFaults = 1
INVARIANT
  RestartsErase

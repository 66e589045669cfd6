SPECIFICATION Spec
CONSTANTS
  Names = 2
  Values = {"a", "long"}
  TooLong = {"long"}
  ExtSize = 100
  Free = 500
  MaxFaults = 0
INVARIANTS
  ConversionKeepsData

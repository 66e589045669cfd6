SPECIFICATION Spec
CONSTANTS
  Names = 2
  Values = {"a", "long"}
  TooLong = {"long"}
  ExtSize = 100
  Free = 500
  MaxFaults = 2
INVARIANTS
  TypeOK
  SettingsSurvive
  CopyGuardsCard
PROPERTIES
  CopyRemovedWhenSafe

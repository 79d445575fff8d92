\* An interrupt with a vector the debugger reports.
CONSTANTS
  Sources = {9, 12}
  IcrValues <- MCIcrValues
  DeviceVector <- MCVector
  MaskLevels = {0, 1}
  MaxFrames = 3
SPECIFICATION Spec
INVARIANTS NoRepeat
CHECK_DEADLOCK FALSE

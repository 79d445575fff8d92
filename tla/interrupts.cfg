\* A timer and a UART, nested handlers, resets and debugger reports.
CONSTANTS
  Sources = {9, 12}
  IcrValues <- MCIcrValues
  DeviceVector <- MCVector
  MaskLevels = {0, 1}
  MaxFrames = 3
SPECIFICATION Spec
INVARIANTS NestsUpward
PROPERTIES NothingOverlooked CauseStands
CHECK_DEADLOCK FALSE

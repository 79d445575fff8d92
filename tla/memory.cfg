\* Two banks side by side and windows that may overlap them or wrap around.
CONSTANTS
  Space = 12
  Banks <- MCBanks
  SimBase = 8
  SimSize = 2
  Window = 4
  Bases <- MCBases
  Devices <- MCDevices
  Parts <- MCParts
  Byte = {0, 1}
  Sizes = {1, 2, 4}
SPECIFICATION Spec
INVARIANTS NoOverrun ViewAgrees DevicesReachable
PROPERTIES FlashKept ProgramWhole StoresAreExact

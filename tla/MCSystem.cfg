CONSTANTS
  VGIO_WIDTH = 80
  VGIO_HEGIHT = 25
  Programs <- HelloPrograms
  Device = {}
  DeviceValue = {}
  CoreAt = 0
SPECIFICATION SystemFairSpec
INVARIANT FillsFromTheLeft
PROPERTY PrintsHello

CONSTANTS
  VGIO_WIDTH = 80
  Programs <- TakenJump
  Device = {}
  DeviceValue = {}
  CoreAt = 0
SPECIFICATION Spec
PROPERTY ConditionalJumpsToTarget

CONSTANTS
  VGIO_WIDTH = 2
  Addr <- Inside
  WordAddr <- Inside
  Value <- TwoValues
  MaxWire = 2
SPECIFICATION Spec
PROPERTY IsFlatMemory

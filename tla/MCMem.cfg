CONSTANTS
  VGIO_WIDTH = 2
  Addr <- Addresses
  WordAddr <- RegionStarts
  Value <- TwoValues
  MaxWire = 2
SPECIFICATION Spec
INVARIANT TypeOK
PROPERTY IsFlatMemory

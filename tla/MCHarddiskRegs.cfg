SPECIFICATION FairSpec
CONSTANTS
  Sector = 2
  DiskSectors = 2
  InitialBytes = 8
  MaxPos = 4
  MaxSpurious = 1
  Guest <- MCRegisters
  LbaByte <- MCLbaByte
  CountByte <- MCCountByte
  CommandByte <- MCCommandByte
  DeviceBits <- MCDeviceBits
  Data <- MCData
  Garbage <- MCGarbage
PROPERTIES
  RegistersHeld
  PortAccessCompletes
  ReadGetsReady

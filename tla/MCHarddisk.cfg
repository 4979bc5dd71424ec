SPECIFICATION Spec
CONSTANTS
  Sector = 2
  DiskSectors = 2
  InitialBytes = 8
  MaxPos = 4
  MaxSpurious = 1
  Guest <- MCReading
  LbaByte <- MCLbaByte
  CountByte <- MCCountByte
  CommandByte <- MCCommandByte
  DeviceBits <- MCDeviceBits
  Data <- MCData
  Garbage <- MCGarbage
INVARIANTS
  TypeOK
  ReadyMeansTransferred
  AccessInsideBuffer
PROPERTY
  NoReadDuringTransfer

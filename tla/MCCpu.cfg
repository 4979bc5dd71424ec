CONSTANTS
  VGIO_WIDTH = 80
  Programs <- CpuPrograms
  Device = {503}
  DeviceValue = {64, 4660}
  CoreAt = 0
SPECIFICATION Spec
CONSTRAINT InProgram
INVARIANTS
  TypeOK
  CountsRounds
  RepeIsBounded
PROPERTIES
  DecodesInstructions
  LoopJumpsInFirstPage
  RepRunsCxTimes
  RepMovesBlock
  ArithmeticIs8086
  UnaryIs8086
  RepneOutlivesCx

SPECIFICATION Spec
CONSTANTS
  N = 4
  Byte <- MCByte
  KeyTable <- MCTable
PROPERTY
  IsFifo

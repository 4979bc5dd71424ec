SPECIFICATION Spec
CONSTANTS
  N = 4
  Byte <- MCByte
  KeyTable <- MCTable
INVARIANTS
  TypeOK
  RingHoldsUnread
  PopFindsItsKey
  ChecksStayValid
PROPERTIES
  DropOnlyWhenFull
  IsWeakFifo

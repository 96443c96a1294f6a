SPECIFICATION Spec
CONSTANTS
  Chip = 32
  FS_START = 8
  FS_END = 24
  P = 4
  A = 2
  Sect = 8
  Byte <- Bytes
  MaxSize = 10
  Requests <- AnyRequest
  Sources <- OneSource
  Chips <- Striped
  MaxCalls = 1
INVARIANTS ReadsBytes
CHECK_DEADLOCK FALSE

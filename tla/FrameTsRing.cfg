SPECIFICATION Spec
CONSTANTS
  NumChn = 1
  Types = {"FS", "FEND"}
  Sources <- OneChn
  Files = {f1, f2}
  Depth = 4
  MaxSeq = 2
  MaxOver = 1
  MaxRoom = 2
  Masks <- OnlyFs
  NoEvent = NoEvent
SYMMETRY AnyFile
INVARIANTS
  TypeOK
  NewestInOrder
  Accounted
PROPERTY
  ReadInOrder
CHECK_DEADLOCK FALSE

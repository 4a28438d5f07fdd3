SPECIFICATION FairSpec
CONSTANTS
  NumChn = 2
  Types = {"FS", "FEND"}
  Sources <- TwoChn
  Files = {f1, f2}
  Depth = 2
  MaxSeq = 1
  MaxOver = 0
  MaxRoom = 1
  Masks <- OnlyOne
  NoEvent = NoEvent
INVARIANTS
  Accounted
  NoLostWakeup
PROPERTIES
  PollAnswered
  ReadAnswered
CHECK_DEADLOCK FALSE

SPECIFICATION FairSpec
CONSTANTS
  Procs = {p1, p2}
  Bufs = {b1}
  Entries = {e1, e2}
  None = None
INVARIANTS
  OneEntryPerBuffer
  AnswerIsOwn
PROPERTIES
  CallsReturn

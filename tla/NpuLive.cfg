SPECIFICATION FairSpec
CONSTANTS
  Procs = {p1, p2}
  Jobs = {j1, j2}
  Nobody = Nobody
  MaxId = 2
  MaxOpen = 1
  MaxQueues = 1
  HwEvents = {"DONE", "DFX"}
  DfxFinal = TRUE
  SMP = FALSE
  OpenFirst = TRUE
PROPERTIES
  CallsReturn
  WaitersAnswered
CHECK_DEADLOCK FALSE

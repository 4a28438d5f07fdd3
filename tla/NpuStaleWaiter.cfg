SPECIFICATION Spec
CONSTANTS
  Procs = {p1, p2}
  Jobs = {j1, j2}
  Nobody = Nobody
  MaxId = 1
  MaxOpen = 1
  MaxQueues = 1
  HwEvents = {"DONE", "STOP", "DFX"}
  DfxFinal = FALSE
  SMP = FALSE
  OpenFirst = TRUE
INVARIANT DroppedIsUnknown
CHECK_DEADLOCK FALSE

SPECIFICATION Spec
CONSTANTS
  Procs = {p1, p2}
  Jobs = {j1, j2, j3}
  Nobody = Nobody
  MaxId = 2
  MaxOpen = 2
  MaxQueues = 2
  HwEvents = {"DONE", "STOP", "DFX"}
  DfxFinal = TRUE
  SMP = TRUE
  OpenFirst = FALSE
SYMMETRY Interchangeable
INVARIANTS
  JobsAccounted
  StateOwnsJob
  NoUseAfterFree
CHECK_DEADLOCK FALSE

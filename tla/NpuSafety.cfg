SPECIFICATION Spec
CONSTANTS
  Procs = {p1, p2}
  Jobs = {j1, j2, j3}
  Nobody = Nobody
  MaxId = 3
  MaxOpen = 1
  MaxQueues = 2
  HwEvents = {"DONE", "STOP", "DFX"}
  DfxFinal = FALSE
  SMP = FALSE
  OpenFirst = FALSE
SYMMETRY Interchangeable
INVARIANTS
  TypeOK
  JobsAccounted
  InOrder
  EmptyWithoutQueue
  StateOwnsJob
  NoLostWakeup
PROPERTIES
  StartsAtRest
  ImplementsQueue
CHECK_DEADLOCK FALSE

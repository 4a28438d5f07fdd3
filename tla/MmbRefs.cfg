SPECIFICATION Spec
CONSTANTS
  Files = {f1, f2}
  Blocks = {b1, b2}
  Nobody = Nobody
  MaxRef = 2
  MaxMap = 2
SYMMETRY Interchangeable
INVARIANTS
  RefsCounted
  LiveWhileHeld
  DelayedFreeWaits
PROPERTIES
  OneCacheType

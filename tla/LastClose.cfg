SPECIFICATION Spec
CONSTANTS
  Files = {f1, f2, f3, f4}
  Procs = {p1, p2}
  Blocks = {b1, b2, b3}
  Nobody = Nobody
  MaxRefs = 3
SYMMETRY Interchangeable
INVARIANTS
  UsersIsCount
  HookAlone
  LiveRefsKept
PROPERTIES
  OrphansDropped

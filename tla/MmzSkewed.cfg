SPECIFICATION Spec
CONSTANTS
  Word = 128
  Grain = 2
  RamStart = 2
  RamEnd = 14
  Tables <- Skewed
  Sizes = {2, 4}
  Aligns = {2, 4}
  Names = {"anonymous"}
  NoName = NoName
  Asked = {"anonymous"}
  MaxMalloc = 32
  Mmbs = {m1, m2, m3, m4}
SYMMETRY AnyMmb
INVARIANT NeverBad
CHECK_DEADLOCK FALSE

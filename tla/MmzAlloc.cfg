SPECIFICATION SpecV2
CONSTANTS
  Word = 128
  Grain = 2
  RamStart = 2
  RamEnd = 14
  Tables <- Lists
  Sizes = {0, 2, 5, 9}
  Aligns = {0, 2, 4}
  Names = {"anonymous", "slab", "eq", "top"}
  NoName = NoName
  Asked <- AnyButTop
  MaxMalloc = 8
  Mmbs = {m1, m2, m3, m4}
SYMMETRY AnyMmb
INVARIANTS
  TypeOK
  ZonesApart
  NoOverlap
  RegionIsBest
CHECK_DEADLOCK FALSE

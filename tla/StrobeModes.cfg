SPECIFICATION Spec
CONSTANTS
  Pins = {g1, g2}
  NoPin = NoPin
  Modes = {"off", "pulse", "hold"}
  MayMove = TRUE
  FrameTicks = 4
  ReadTicks = 2
  PulseTicks = 3
SYMMETRY AnyPin
INVARIANTS
  TypeOK
  PulseIsTimed
  HoldFollowsReadout

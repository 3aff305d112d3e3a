SPECIFICATION Spec
CONSTANTS
  m1 = m1
  Muxers = {m1}
  Sizes = {2}
  MaxPackets = 6
INVARIANTS OutputIsPackets

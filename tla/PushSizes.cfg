SPECIFICATION Spec
CONSTANTS
  m1 = m1
  m2 = m2
  Muxers = {m1, m2}
  Sizes = {1, 2}
  MaxPackets = 3
INVARIANTS RoomForAll

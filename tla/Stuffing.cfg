SPECIFICATION Spec
CONSTANTS
  PtsWrap = 32768
  GopPackets = 4
  Program = {"video", "audio"}
  LateRequests = FALSE
  MaxPads = 1
  MaxFrames = 3
  VideoSizes = {100}
  AudioSizes = {168, 169, 170}
  Timestamps = {0}
INVARIANTS PacketsParse

SPECIFICATION Spec
CONSTANTS
  PtsWrap = 32768
  GopPackets = 4
  Program = {"video"}
  LateRequests = FALSE
  MaxPads = 1
  MaxFrames = 3
  VideoSizes = {100}
  AudioSizes = {100}
  Timestamps = {0}
INVARIANTS NeverCrashes

SPECIFICATION Spec
CONSTANTS
  PtsWrap = 32768
  GopPackets = 4
  Program = {"video", "audio"}
  LateRequests = TRUE
  MaxPads = 2
  MaxFrames = 4
  VideoSizes = {100, 700}
  AudioSizes = {100, 400}
  Timestamps <- Clamped
INVARIANTS Continuity PsiValid ClockAnnounced PacketsParse
CHECK_DEADLOCK FALSE

SPECIFICATION FairSpec
CONSTANTS
  PtsWrap = 32768
  GopPackets = 4
  Program = {"video", "audio"}
  LateRequests = FALSE
  MaxPads = 1
  MaxFrames = 3
  VideoSizes <- LayoutVideo
  AudioSizes <- LayoutAudio
  Timestamps <- Wrapped
INVARIANTS TypeOK PacketsParse ClockAnnounced EsAnnounced Continuity PacketsAccounted SelfIndexed SlotNeverMissed GopStatistics
PROPERTIES DeliversFrames DeliversEventually

SPECIFICATION Spec
CONSTANTS
  PtsWrap = 32768
  Tops = {0, 7, 8, 1546188}
  Digits = {0, 513, 10249, 10250, 32767}
  Sizes = {1, 8191, 65527}
INVARIANTS PtsArrives PcrBeforePts PacketEndsWithFrame

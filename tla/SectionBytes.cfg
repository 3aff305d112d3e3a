SPECIFICATION Spec
CONSTANTS
  PtsWrap = 32768
  MaxStreams = 6
INVARIANTS ReceiverAccepts
PROPERTIES ImplementsPsi TornRejected

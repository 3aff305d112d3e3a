SPECIFICATION Spec
CONSTANTS
  MaxRequests = 2
INVARIANTS CrcRecalculated

SPECIFICATION Spec
CONSTANTS
  MaxRequests = 3
INVARIANTS TypeOK AcceptedReal AcceptedFresh SettledComplete ClockHasStream TemplatesReady

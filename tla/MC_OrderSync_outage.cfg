SPECIFICATION Spec
CONSTANTS
  RawLookbackDays = 2
  RunsPerDay = 2
  Limit = 2
  MaxRetries = 1
  Sizes = {0}
  Runs = {r1}
  MaxDay = 4
  MaxTrouble = 6
INVARIANTS
  LostOnlyByOutage
CHECK_DEADLOCK FALSE

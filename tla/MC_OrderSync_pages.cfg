SPECIFICATION Spec
CONSTANTS
  RawLookbackDays = 2
  RunsPerDay = 2
  Limit = 2
  MaxRetries = 1
  Sizes = {2, 3}
  Runs = {r1, r2}
  MaxDay = 2
  MaxTrouble = 2
SYMMETRY Symmetry
INVARIANTS
  TypeOK
  LogIsTrue
PROPERTIES
  KeepsTheLedger
CHECK_DEADLOCK FALSE

SPECIFICATION ReducedSpec
CONSTANTS
  Profiles = {"y1", "y2"}
  Phones = {"p1", "p2"}
  Licences = {"l1", "l2"}
  Vehicles = {"v1", "v2"}
  Runs = {"r1"}
  MaxChanges = 1
  MaxFailures = 1
INVARIANTS
  TypeOK
PROPERTIES
  ParkIsMirrored
CHECK_DEADLOCK FALSE

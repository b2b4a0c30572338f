SPECIFICATION Spec
CONSTANTS
  Users = {"u1"}
  Handlers = {"h1"}
  Workers = {"w1"}
  Undertakers = {}
  Sendable = {"start", "back", "stop", "zero", "one", "two", "three", "phone", "code", "junk", "image", "media"}
  MaxMessages = 8
  MaxCrashes = 0
  Lossy = FALSE
INVARIANTS
  NoStepSkipped
  YangoIsEarned
  HistoryIsReached
CHECK_DEADLOCK FALSE

SPECIFICATION Spec
CONSTANTS
  Users = {"u1"}
  Handlers = {"h1", "h2"}
  Workers = {}
  Undertakers = {"d1"}
  Sendable = {"start", "back", "stop", "zero", "one", "two", "three", "phone", "code", "junk", "image", "media"}
  MaxMessages = 3
  MaxCrashes = 0
  Lossy = FALSE
INVARIANTS
  TypeOK
  AbortIsEarned
  NoStepSkipped
  HistoryIsReached
CHECK_DEADLOCK FALSE

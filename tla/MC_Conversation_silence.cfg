SPECIFICATION FairSpec
CONSTANTS
  Users = {"u1"}
  Handlers = {"h1"}
  Workers = {}
  Undertakers = {"d1"}
  Sendable = {"start", "back", "stop", "zero", "one", "two", "three", "phone", "code", "junk", "image", "media"}
  MaxMessages = 3
  MaxCrashes = 1
  Lossy = TRUE
PROPERTIES
  SilentUserIsForgotten
CHECK_DEADLOCK FALSE

SPECIFICATION Spec
CONSTANTS
  Users = {"u1"}
  Handlers = {"h1"}
  Workers = {}
  Undertakers = {}
  Sendable = {"start", "zero", "one"}
  MaxMessages = 3
  MaxCrashes = 0
  Lossy = FALSE
INVARIANTS
  InvitedUserCanStart
CHECK_DEADLOCK FALSE

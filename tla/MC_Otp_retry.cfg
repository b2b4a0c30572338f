SPECIFICATION Spec
CONSTANTS
  Users = {u1}
  Phones = {p1, p2}
  Codes = {c1, c2}
  Handlers = {h1, h2}
  MaxJobs = 1
  MaxCodes = 2
  MaxMinutes = 4
INVARIANTS
  RetryIsPossible
CHECK_DEADLOCK FALSE

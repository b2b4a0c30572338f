SPECIFICATION Spec
CONSTANTS
  u1 = u1
  u2 = u2
  p1 = p1
  p2 = p2
  p3 = p3
  Users = {u1, u2}
  Phones = {p1, p2, p3}
  Owner <- TwoAndOne
  Licences = {l1, l2, l3}
  Plates = {c1, c2}
  MaxConversations = 2
  MaxFaults = 1
SYMMETRY Symmetry
INVARIANTS
  TypeOK
  WelcomeIsTrue
  ChangedIsTrue
  MovedIsTrue
  
CHECK_DEADLOCK FALSE

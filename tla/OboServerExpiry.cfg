SPECIFICATION Spec
CONSTANTS
  dan = dan
  pam = pam
  new = new
  Sessions = {s1, s2}
  Orders = {o1}
  Users = {dan, pam}
  Registered <- MCRegistered
  MaxFaults = 0
  MaxExpired = 2
  MaxStray = 2
SYMMETRY MCSymmetry
CONSTRAINT Bounds
PROPERTIES
  RideNamesItsParties
\* The ids run out, and then no request is left that changes anything.
CHECK_DEADLOCK FALSE

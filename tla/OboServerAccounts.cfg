SPECIFICATION Spec
CONSTANTS
  dan = dan
  pam = pam
  new = new
  Sessions = {s1, s2}
  Orders = {}
  Users = {dan, pam, new}
  Registered <- MCRegistered
  MaxFaults = 1
  MaxExpired = 2
  MaxStray = 0
SYMMETRY MCSymmetry
CONSTRAINT Bounds
INVARIANTS
  NamedSessionsExpire
  SessionsMatchAccounts
\* The ids run out, and then no request is left that changes anything.
CHECK_DEADLOCK FALSE

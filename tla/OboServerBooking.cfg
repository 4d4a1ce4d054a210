SPECIFICATION Spec
CONSTANTS
  dan = dan
  pam = pam
  new = new
  Sessions = {s1, s2, s3}
  Orders = {o1, o2}
  Users = {dan, pam}
  Registered <- MCRegistered
  MaxFaults = 0
  MaxExpired = 0
  MaxStray = 0
SYMMETRY MCSymmetry
CONSTRAINT Bounds
INVARIANTS
  PairedUnlessDoubleBooked
  BusyDriversUnlisted
  StoredRidesAreOver
PROPERTIES
  OnlyItsDriverStarts
\* The ids run out, and then no request is left that changes anything.
CHECK_DEADLOCK FALSE

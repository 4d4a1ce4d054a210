SPECIFICATION RideSpec
CONSTANTS
  dan = dan
  pam = pam
  Sessions = {s1, s2, s3}
  Orders = {o1, o2}
  Users = {dan, pam}
  Registered <- MCRegistered
  MaxFaults = 0
  MaxDialogs = 2
  MaxSearches = 1
  Willing = {}
  Offline = {}
  MaxVanished = 2
SYMMETRY MCSymmetry
INVARIANTS
  ActiveRidesAreDriven
PROPERTIES
  StartsToldOrder
\* The ids run out, and apps may be gone; then nothing is left to do.
CHECK_DEADLOCK FALSE

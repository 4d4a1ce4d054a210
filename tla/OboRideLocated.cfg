SPECIFICATION RideSpec
CONSTANTS
  dan = dan
  pam = pam
  Sessions = {s1, s2}
  Orders = {o1}
  Users = {dan, pam}
  Registered <- MCRegistered
  MaxFaults = 0
  MaxDialogs = 1
  MaxSearches = 1
  Willing = {}
  Offline = {}
  MaxVanished = 2
SYMMETRY MCSymmetry
INVARIANTS
  PassengersAreLocated
\* The ids run out, and apps may be gone; then nothing is left to do.
CHECK_DEADLOCK FALSE

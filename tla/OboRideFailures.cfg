SPECIFICATION RideSpec
CONSTANTS
  dan = dan
  pam = pam
  Sessions = {s1, s2, s3}
  Orders = {o1}
  Users = {dan, pam}
  Registered <- MCRegistered
  MaxFaults = 1
  MaxDialogs = 1
  MaxSearches = 1
  Willing = {}
  Offline = {s1, s2, s3}
  MaxVanished = 1
SYMMETRY MCSymmetry
CONSTRAINT FaultOrSecondDriver
INVARIANTS
  RideTypeOK
PROPERTIES
  
  ServerRequests
  LostStartStaysLost
  StuckForever
  TravelEndsStored
\* The ids run out, and apps may be gone; then nothing is left to do.
CHECK_DEADLOCK FALSE

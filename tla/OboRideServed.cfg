SPECIFICATION FairRideSpec
CONSTANTS
  dan = dan
  pam = pam
  Sessions = {s1, s2}
  Orders = {o1}
  Users = {dan, pam}
  Registered <- MCRegistered
  MaxFaults = 1
  MaxDialogs = 1
  MaxSearches = 1
  Willing = {s1, s2}
  Offline = {}
  MaxVanished = 2
PROPERTIES
  BoundOrdersAreStored
  OrdersAreServed
  WaitsEnd
  TravelsEnd
\* The ids run out, and apps may be gone; then nothing is left to do.
CHECK_DEADLOCK FALSE

SPECIFICATION DataSpec
CONSTANTS
  dan = dan
  Sessions = {s1}
  Orders = {o1}
  Users = {dan}
  Registered <- MCRegistered
  Asked <- MCAsked
  ErrorReplies = TRUE
INVARIANTS
  OkMeansDone

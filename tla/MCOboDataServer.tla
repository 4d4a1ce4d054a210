--------------------------- MODULE MCOboDataServer --------------------------
(* Small instances of OboDataServer for TLC.                               *)
EXTENDS OboDataServer, TLC

CONSTANTS
  dan           \* a user without an account

MCRegistered == [u \in Users |-> Nil]

\* One request of each command, and those pipelines that have several commands.
MCAsked ==
  {q \in Requests :
     CASE q.cmd \in {"setHash", "getHash"}  -> Len(q.fields) > 1
       [] q.cmd \in {"insertUser", "query"} -> q.write.role = "driver"
       [] q.cmd = "insertOrder"             -> q.write.passenger # Nil /\ q.write.driver # Nil
       [] OTHER                             -> TRUE}
=============================================================================

----------------------------- MODULE MCOboServer ----------------------------
(* Small instances of OboServer for TLC.                                   *)
EXTENDS OboServer, TLC

CONSTANTS
  dan, pam, new,    \* a driver, a passenger and a name without an account
  MaxExpired,       \* bound: how many handed-out sessions may be expired at a time
  MaxStray          \* bound: how many of the hashes "NONE" and "" may exist

MCRegistered == [u \in Users |-> CASE u = dan -> "driver"
                                   [] u = pam -> "passenger"
                                   [] OTHER   -> Nil]

\* Session ids and order ids are uuids: any two are interchangeable.
MCSymmetry == Permutations(Sessions) \cup Permutations(Orders)

Expired == {s \in Sessions : reply[s].role # Nil /\ hash[s].username = Nil}
Stray == {k \in {NONE, Nil} : Exists(k)}

Bounds == Cardinality(Expired) <= MaxExpired /\ Cardinality(Stray) <= MaxStray
=============================================================================

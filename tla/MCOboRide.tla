------------------------------ MODULE MCOboRide -----------------------------
(* Small instances of OboRide for TLC.                                     *)
EXTENDS OboRide, TLC

CONSTANTS
  dan, pam,     \* a driver and a passenger
  MaxVanished   \* bound: how many phones may have vanished at a time

MCRegistered == [u \in Users |-> CASE u = dan -> "driver"
                                   [] u = pam -> "passenger"
                                   [] OTHER   -> Nil]

\* Session ids and order ids are uuids: any two are interchangeable.
MCSymmetry == Permutations(Sessions) \cup Permutations(Orders)

\* A phone has vanished when its app is gone or its session has expired.
Vanished == {s \in Sessions :
               Gone(s) \/ (reply[s].role # Nil /\ hash[s].username = Nil)}

FewVanish == Cardinality(Vanished) <= MaxVanished

\* A passenger and a driver with a fault, or with a second driver instead, and then it is
\* an app of a driver that may end.
FaultOrSecondDriver ==
  /\ FewVanish
  /\ Cardinality({s \in Sessions : Passenger(s)}) <= 1
  /\ LET phones == Cardinality(issued \cap Sessions)
     IN  /\ faults + phones <= 3
         /\ phones = 3 => \A s \in Vanished : Gone(s) /\ ~Passenger(s)
=============================================================================

------------------------------ MODULE OrderLife -----------------------------
(***************************************************************************)
(* What the two servers promise about one order, whatever fails, expires   *)
(* or is booked twice: it is placed once, may be started once, is finished *)
(* at most once, and is never taken back or forgotten.                     *)
(***************************************************************************)
CONSTANT Orders

VARIABLE life       \* how far each order has come

Stages == {"none", "placed", "driving", "finished"}

LifeInit == life = [o \in Orders |-> "none"]

Move(o, from, to) == life[o] \in from /\ life' = [life EXCEPT ![o] = to]

Place(o)  == Move(o, {"none"}, "placed")
Start(o)  == Move(o, {"placed"}, "driving")
Finish(o) == Move(o, {"placed", "driving"}, "finished")

LifeNext == \E o \in Orders : Place(o) \/ Start(o) \/ Finish(o)

LifeSpec == LifeInit /\ [][LifeNext]_life
=============================================================================

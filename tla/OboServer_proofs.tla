--------------------------- MODULE OboServer_proofs --------------------------
(***************************************************************************)
(* What holds of OboServer for every set of sessions, orders and users and *)
(* for any number of faults.                                               *)
(***************************************************************************)
EXTENDS OboServer, OboStore_proofs

USE DEF PassengerOf, DriverOf

-----------------------------------------------------------------------------
(* Type correctness.                                                       *)

\* The calls of the handlers that serve a session.
SessionCalls == {"session", "lifecycle", "answerSession", "createOrder", "bindDriver",
                 "bindPassenger", "refresh", "getOrderid", "remGeo", "addGeo",
                 "startOrder", "setTemp", "answerLocation"}

\* Which locals are certain to name a session or an order: TypeOK alone is not
\* inductive, since addGeo puts the handler's session id into the pool.
LocalsSet ==
  /\ web.at \in SessionCalls => web.sessionid \in Sessions
  /\ web.at \in BookingCalls => web.driver \in Sessions /\ web.orderid \in Orders

Typed == TypeOK /\ LocalsSet

\* The servers start well typed.
LEMMA InitTyped == Init => Typed
<1> SUFFICES ASSUME Init PROVE Typed
  OBVIOUS
<1>1. StoreTypeOK
  BY EmptyHashTyped, RegisteredType DEF Init, StoreInit, StoreTypeOK
<1>2. web \in Handlers /\ LocalsSet
  BY DEF Init, Idle, Handlers, Labels, SessionNames, OrderNames, UserNames, LocalsSet,
         SessionCalls, BookingCalls
<1>3. reply \in [Sessions -> Replies]
  BY DEF Init, NoReply, Replies, UserNames, OrderNames
<1>4. issued \subseteq Sessions \cup Orders /\ faults \in 0..MaxFaults
  BY MaxFaultsType DEF Init
<1> QED BY <1>1, <1>2, <1>3, <1>4 DEF Typed, TypeOK

\* The number of faults stays within its bound.
LEMMA FaultTyped ==
  ASSUME faults \in 0..MaxFaults, NEW r, Fault(r) PROVE faults' \in 0..MaxFaults
  BY MaxFaultsType DEF Fault

\* A handler that goes on or ends keeps typed locals.
LEMMA GotoTyped ==
  ASSUME Typed, NEW l \in Labels, Goto(l),
         l \in SessionCalls => web.at \in SessionCalls,
         l \in BookingCalls => web.at \in BookingCalls
  PROVE  web' \in Handlers /\ LocalsSet'
  BY DEF Typed, TypeOK, LocalsSet, Goto, Handlers

\* A handler that returns leaves well-typed locals.
LEMMA IdleTyped == ASSUME web' = Idle PROVE web' \in Handlers /\ LocalsSet'
  BY DEF Idle, Handlers, Labels, SessionNames, OrderNames, UserNames, LocalsSet,
         SessionCalls, BookingCalls

\* A call that goes on to the next one, or abandons the handler, keeps the types.
LEMMA ChainTyped ==
  ASSUME Typed, NEW ok \in BOOLEAN, NEW l \in Labels, Chain(ok, l),
         l \in SessionCalls => web.at \in SessionCalls,
         l \in BookingCalls => web.at \in BookingCalls
  PROVE  web' \in Handlers /\ LocalsSet'
  BY GotoTyped, IdleTyped DEF Chain

\* What the calls of the handlers write is typed.
LEMMA WritesTyped ==
  ASSUME Typed
  PROVE  /\ web.at = "session" =>
              TypedWrite([username |-> web.username, orderid |-> NONE])
         /\ web.at = "createOrder" =>
              TypedWrite([order_status |-> "INIT", passenger_sessionid |-> web.sessionid,
                          driver_sessionid |-> web.driver])
         /\ TypedWrite([orderid |-> web.orderid])
         /\ TypedWrite([orderid |-> NONE])
         /\ TypedWrite([order_status |-> "ACTIVE"])
         /\ TypedWrite([ptemp |-> "loc"])
         /\ TypedWrite([dtemp |-> "loc"])
  BY DEF Typed, TypeOK, LocalsSet, Handlers, TypedWrite, Fields, Values, UserNames,
         OrderNames, SessionNames, SessionCalls, BookingCalls

\* Every name a handler uses as a key is one.
LEMMA KeysTyped ==
  ASSUME Typed
  PROVE  /\ web.sessionid \in Keys /\ web.driver \in Keys /\ web.orderid \in Keys
         /\ \A s \in Sessions : s \in Keys /\ reply[s].orderid \in Keys
  BY DEF Typed, TypeOK, Handlers, Replies, Keys, SessionNames, OrderNames

\* No step breaks the types.
LEMMA NextTyped == Typed /\ [Next]_vars => Typed'
<1> SUFFICES ASSUME Typed, [Next]_vars PROVE Typed'
  OBVIOUS
<1> USE DEF At
<1>0. /\ TypeOK /\ LocalsSet /\ StoreTypeOK /\ web \in Handlers
      /\ reply \in [Sessions -> Replies] /\ faults \in 0..MaxFaults
  BY DEF Typed, TypeOK
<1>w. ASSUME web' \in Handlers /\ LocalsSet', StoreTypeOK',
             reply' \in [Sessions -> Replies], issued' \subseteq Sessions \cup Orders,
             faults' \in 0..MaxFaults
      PROVE  Typed'
  BY <1>w DEF Typed, TypeOK
<1>1. CASE UNCHANGED vars
  BY <1>0, <1>1 DEF vars, Typed, TypeOK, StoreTypeOK, LocalsSet, WellTyped
<1>2. ASSUME NEW u \in Users, NEW role \in Roles, Login(u, role) \/ Reg(u, role)
      PROVE  Typed'
  <2>1. StoreTypeOK'
    <3>1. CASE Login(u, role)
      BY <1>0, <3>1 DEF Login, StoreTypeOK, WellTyped
    <3>2. CASE Reg(u, role)
      BY <1>0, <3>2 DEF Reg, InsertUser, StoreTypeOK, WellTyped
    <3> QED BY <1>2, <3>1, <3>2
  <2>2. ASSUME CreateSession(u, role)
        PROVE  web' \in Handlers /\ LocalsSet' /\ issued' \subseteq Sessions \cup Orders
    <3>1. PICK s \in Sessions \ issued :
            /\ issued' = issued \cup {s}
            /\ web' = [Idle EXCEPT !.at = "session", !.role = role, !.sessionid = s,
                                   !.username = u]
      BY <2>2 DEF CreateSession
    <3>2. web' = [at |-> "session", role |-> role, sessionid |-> s, driver |-> Nil,
                  orderid |-> Nil, username |-> u, drivername |-> Nil,
                  status |-> Nil, autosend |-> "no"]
      BY <3>1 DEF Idle
    <3>3. web' \in Handlers
      BY <3>1, <3>2 DEF Handlers, Labels, SessionNames, OrderNames, UserNames
    <3>4. LocalsSet'
      BY <3>1, <3>2 DEF LocalsSet, BookingCalls
    <3>5. issued' \subseteq Sessions \cup Orders
      BY <1>0, <3>1 DEF TypeOK
    <3> QED BY <3>3, <3>4, <3>5
  <2>3. web' \in Handlers /\ LocalsSet' /\ issued' \subseteq Sessions \cup Orders
    <3>1. ASSUME UNCHANGED <<web, issued>>
          PROVE  web' \in Handlers /\ LocalsSet' /\ issued' \subseteq Sessions \cup Orders
      BY <1>0, <3>1 DEF LocalsSet, TypeOK
    <3>2. CreateSession(u, role) \/ UNCHANGED <<web, issued>>
      BY <1>2 DEF Login, Reg
    <3> QED BY <2>2, <3>1, <3>2
  <2>4. reply' \in [Sessions -> Replies] /\ faults' \in 0..MaxFaults
    BY <1>0, <1>2, FaultTyped DEF Login, Reg
  <2> QED BY <2>1, <2>3, <2>4, <1>w
<1>3. CASE PutSession
  <2>1. PICK r \in Outcomes : SetHash(web.sessionid, [username |-> web.username, orderid |-> NONE], r) /\ Fault(r) /\ Chain(r = "done", "lifecycle")
    BY <1>3 DEF PutSession
  <2>2. StoreTypeOK'
    BY <1>0, <1>3, <2>1, SetHashTyped, WritesTyped, KeysTyped DEF PutSession
  <2>3. web' \in Handlers /\ LocalsSet'
    BY <1>3, <2>1, ChainTyped DEF PutSession, Labels, SessionCalls, BookingCalls
  <2> QED BY <1>0, <1>3, <2>1, <2>2, <2>3, <1>w, FaultTyped DEF PutSession, TypeOK
<1>4. CASE PutLifecycle
  <2>1. PICK r \in Outcomes : SetLifecycle(web.sessionid, r) /\ Fault(r)
                             /\ Chain(r = "done" /\ Exists(web.sessionid), "answerSession")
    BY <1>4 DEF PutLifecycle
  <2>2. StoreTypeOK'
    BY <1>0, <2>1, KeysTyped DEF SetLifecycle, StoreTypeOK, WellTyped
  <2>3. web' \in Handlers /\ LocalsSet'
    BY <1>4, <2>1, ChainTyped DEF PutLifecycle, Labels, SessionCalls, BookingCalls
  <2> QED BY <1>0, <1>4, <2>1, <2>2, <2>3, <1>w, FaultTyped DEF PutLifecycle, TypeOK
<1>5. CASE AnswerSession
  <2>1. StoreTypeOK'
    BY <1>0, <1>5 DEF AnswerSession, StoreTypeOK, WellTyped
  <2>2. reply' \in [Sessions -> Replies]
    BY <1>0, <1>5 DEF AnswerSession, Replies, Handlers, Statuses, OrderNames
  <2> QED BY <1>0, <1>5, <2>1, <2>2, <1>w, IdleTyped DEF AnswerSession, TypeOK
<1>6. ASSUME NEW s \in Sessions, SetOrder(s)
      PROVE  Typed'
  <2>1. StoreTypeOK'
    BY <1>0, <1>6 DEF SetOrder, StoreTypeOK, WellTyped
  <2>2. PICK d \in NearestDrivers, o \in Orders \ issued :
          /\ issued' = issued \cup {o}
          /\ web' = [Idle EXCEPT !.at = "createOrder", !.sessionid = s,
                                 !.driver = d, !.orderid = o]
    BY <1>6 DEF SetOrder
  <2>3. d \in Sessions /\ issued' \subseteq Sessions \cup Orders
    BY <1>0, <2>2 DEF NearestDrivers, RadiusGeo, StoreTypeOK, TypeOK
  <2>4. web' \in Handlers /\ LocalsSet'
    BY <2>2, <2>3 DEF Idle, Handlers, Labels, SessionNames, OrderNames, UserNames,
                      LocalsSet, SessionCalls, BookingCalls
  <2> QED BY <1>0, <1>6, <2>1, <2>3, <2>4, <1>w DEF SetOrder
<1>7. CASE CreateOrder
  <2>1. PICK r \in Outcomes : SetHash(web.orderid, [order_status |-> "INIT",
                              passenger_sessionid |-> web.sessionid,
                              driver_sessionid |-> web.driver], r) /\ Fault(r) /\ Chain(r = "done", "bindDriver")
    BY <1>7 DEF CreateOrder
  <2>2. StoreTypeOK'
    BY <1>0, <1>7, <2>1, SetHashTyped, WritesTyped, KeysTyped DEF CreateOrder
  <2>3. web' \in Handlers /\ LocalsSet'
    BY <1>7, <2>1, ChainTyped DEF CreateOrder, Labels, SessionCalls, BookingCalls
  <2> QED BY <1>0, <1>7, <2>1, <2>2, <2>3, <1>w, FaultTyped DEF CreateOrder, TypeOK
<1>8. CASE BindDriver
  <2>1. PICK r \in Outcomes : SetHash(web.driver, [orderid |-> web.orderid], r) /\ Fault(r) /\ Chain(r = "done", "bindPassenger")
    BY <1>8 DEF BindDriver
  <2>2. StoreTypeOK'
    BY <1>0, <1>8, <2>1, SetHashTyped, WritesTyped, KeysTyped DEF BindDriver
  <2>3. web' \in Handlers /\ LocalsSet'
    BY <1>8, <2>1, ChainTyped DEF BindDriver, Labels, SessionCalls, BookingCalls
  <2> QED BY <1>0, <1>8, <2>1, <2>2, <2>3, <1>w, FaultTyped DEF BindDriver, TypeOK
<1>9. CASE BindPassenger
  <2>1. PICK r \in Outcomes : SetHash(web.sessionid, [orderid |-> web.orderid], r) /\ Fault(r)
    BY <1>9 DEF BindPassenger
  <2>2. StoreTypeOK'
    BY <1>0, <1>9, <2>1, SetHashTyped, WritesTyped, KeysTyped DEF BindPassenger
  <2> QED BY <1>0, <1>9, <2>1, <2>2, <1>w, FaultTyped, IdleTyped DEF BindPassenger, TypeOK
<1>10. ASSUME NEW s \in Sessions, NEW status \in Statuses, NEW autosend \in {"yes", "no"},
              LocationChanged(s, status, autosend)
       PROVE  Typed'
  <2>1. StoreTypeOK'
    BY <1>0, <1>10 DEF LocationChanged, StoreTypeOK, WellTyped
  <2>2. web' \in Handlers /\ LocalsSet'
    BY <1>0, <1>10 DEF LocationChanged, Idle, Handlers, Labels, SessionNames, OrderNames,
        UserNames, LocalsSet, SessionCalls, BookingCalls
  <2> QED BY <1>0, <1>10, <2>1, <2>2, <1>w DEF LocationChanged, TypeOK
<1>11. CASE Refresh
  <2>1. PICK r \in Outcomes : SetLifecycle(web.sessionid, r) /\ Fault(r)
                             /\ Chain(r = "done" /\ Exists(web.sessionid), "getOrderid")
    BY <1>11 DEF Refresh
  <2>2. StoreTypeOK'
    BY <1>0, <2>1, KeysTyped DEF SetLifecycle, StoreTypeOK, WellTyped
  <2>3. web' \in Handlers /\ LocalsSet'
    BY <1>11, <2>1, ChainTyped DEF Refresh, Labels, SessionCalls, BookingCalls
  <2> QED BY <1>0, <1>11, <2>1, <2>2, <2>3, <1>w, FaultTyped DEF Refresh, TypeOK
<1>12. CASE GetOrderid
  <2>1. StoreTypeOK'
    BY <1>0, <1>12 DEF GetOrderid, StoreTypeOK, WellTyped
  <2>2. FirstCall(web.role, web.status) \in {"remGeo", "setTemp", "answerLocation"}
    BY DEF FirstCall
  <2>3. hash[web.sessionid].orderid \in OrderNames
    BY <1>0, KeysTyped DEF StoreTypeOK, WellTyped
  <2>4. web' \in Handlers /\ LocalsSet'
    BY <1>0, <1>12, <2>2, <2>3 DEF GetOrderid, Handlers, Labels, LocalsSet, SessionCalls,
                                   BookingCalls
  <2> QED BY <1>0, <1>12, <2>1, <2>4, <1>w DEF GetOrderid, TypeOK
<1>13. CASE RemGeo
  <2>1. PICK r \in Outcomes : RemZset(web.sessionid, r) /\ Fault(r) /\ AfterRemGeo(r)
    BY <1>13 DEF RemGeo
  <2>2. StoreTypeOK'
    BY <1>0, <2>1 DEF RemZset, StoreTypeOK, WellTyped
  <2>3. \/ Chain(r = "done", "answerLocation")
        \/ \E l \in {"addGeo", "startOrder", "setTemp"} : Goto(l)
    BY <2>1 DEF AfterRemGeo
  <2>4. web' \in Handlers /\ LocalsSet'
    BY <1>13, <2>3, ChainTyped, GotoTyped DEF RemGeo, Labels, SessionCalls, BookingCalls
  <2> QED BY <1>0, <1>13, <2>1, <2>2, <2>4, <1>w, FaultTyped DEF RemGeo, TypeOK
<1>14. CASE ListDriver
  <2>1. PICK r \in Outcomes : AddGeo(web.sessionid, r) /\ Fault(r)
    BY <1>14 DEF ListDriver
  <2>2. StoreTypeOK'
    BY <1>0, <1>14, <2>1 DEF ListDriver, AddGeo, StoreTypeOK, WellTyped, LocalsSet,
                             SessionCalls
  <2>3. web' \in Handlers /\ LocalsSet'
    BY <1>14, GotoTyped DEF ListDriver, Labels, SessionCalls, BookingCalls
  <2> QED BY <1>0, <1>14, <2>1, <2>2, <2>3, <1>w, FaultTyped DEF ListDriver, TypeOK
<1>15. CASE StartOrder
  <2>1. PICK r \in Outcomes : SetHash(web.orderid, [order_status |-> "ACTIVE"], r) /\ Fault(r)
    BY <1>15 DEF StartOrder
  <2>2. StoreTypeOK'
    BY <1>0, <1>15, <2>1, SetHashTyped, WritesTyped, KeysTyped DEF StartOrder
  <2>3. web' \in Handlers /\ LocalsSet'
    BY <1>15, GotoTyped DEF StartOrder, Labels, SessionCalls, BookingCalls
  <2> QED BY <1>0, <1>15, <2>1, <2>2, <2>3, <1>w, FaultTyped DEF StartOrder, TypeOK
<1>16. CASE SetTemp
  <2>1. PICK r \in Outcomes, v \in {[ptemp |-> "loc"], [dtemp |-> "loc"]} :
          SetHash(web.orderid, v, r) /\ Fault(r)
    BY <1>16 DEF SetTemp
  <2>2. StoreTypeOK'
    BY <1>0, <1>16, <2>1, SetHashTyped, WritesTyped, KeysTyped DEF SetTemp
  <2>3. web' \in Handlers /\ LocalsSet'
    BY <1>16, GotoTyped DEF SetTemp, Labels, SessionCalls, BookingCalls
  <2> QED BY <1>0, <1>16, <2>1, <2>2, <2>3, <1>w, FaultTyped DEF SetTemp, TypeOK
<1>17. CASE AnswerLocation
  <2>1. StoreTypeOK'
    BY <1>0, <1>17 DEF AnswerLocation, StoreTypeOK, WellTyped
  <2>2. reply' \in [Sessions -> Replies]
    BY <1>0, <1>17 DEF AnswerLocation, Replies, Handlers
  <2> QED BY <1>0, <1>17, <2>1, <2>2, <1>w, IdleTyped, FaultTyped
          DEF AnswerLocation, TypeOK, Outcomes
<1>18. ASSUME NEW s \in Sessions, FinishOrder(s)
       PROVE  Typed'
  <2>1. StoreTypeOK'
    BY <1>0, <1>18 DEF FinishOrder, HandleFinish, StoreTypeOK, WellTyped
  <2> DEFINE o == reply[s].orderid
  <2>2. /\ o \in OrderNames
        /\ hash[o].passenger_sessionid \in SessionNames
        /\ hash[o].driver_sessionid \in SessionNames
    BY <1>0, KeysTyped DEF StoreTypeOK, WellTyped, Replies
  <2>3. web' \in Handlers /\ LocalsSet'
    BY <1>0, <1>18, <2>2 DEF FinishOrder, HandleFinish, Idle, Handlers, Labels, SessionNames, OrderNames,
        UserNames, LocalsSet, SessionCalls, BookingCalls
  <2> QED BY <1>0, <1>18, <2>1, <2>3, <1>w DEF FinishOrder, HandleFinish, TypeOK
<1>19. CASE NamePassenger \/ NameDriver
  <2>1. StoreTypeOK'
    BY <1>0, <1>19 DEF NamePassenger, NameDriver, StoreTypeOK, WellTyped
  <2>2. hash[web.sessionid].username \in UserNames /\ hash[web.driver].username \in UserNames
    BY <1>0, KeysTyped DEF StoreTypeOK, WellTyped
  <2>3. web' \in Handlers /\ LocalsSet'
    BY <1>0, <1>19, <2>2 DEF NamePassenger, NameDriver, Handlers, Labels, LocalsSet,
                             SessionCalls, BookingCalls
  <2> QED BY <1>0, <1>19, <2>1, <2>3, <1>w DEF NamePassenger, NameDriver, TypeOK
<1>20. CASE PersistOrder
  <2>1. PICK r \in Outcomes : /\ InsertOrder(web.orderid, web.username, web.drivername, r)
                             /\ Fault(r)
                             /\ Chain(r = "done" /\ rides[web.orderid] = NoRide, "clearDriver")
    BY <1>20 DEF PersistOrder
  <2>2. StoreTypeOK'
    BY <1>0, <2>1 DEF InsertOrder, StoreTypeOK, WellTyped, Handlers, Rides
  <2>3. web' \in Handlers /\ LocalsSet'
    BY <1>20, <2>1, ChainTyped DEF PersistOrder, Labels, SessionCalls, BookingCalls
  <2> QED BY <1>0, <1>20, <2>1, <2>2, <2>3, <1>w, FaultTyped DEF PersistOrder, TypeOK
<1>21. CASE ClearDriver
  <2>1. PICK r \in Outcomes : SetHash(web.driver, [orderid |-> NONE], r) /\ Fault(r) /\ Chain(r = "done", "clearPassenger")
    BY <1>21 DEF ClearDriver
  <2>2. StoreTypeOK'
    BY <1>0, <1>21, <2>1, SetHashTyped, WritesTyped, KeysTyped DEF ClearDriver
  <2>3. web' \in Handlers /\ LocalsSet'
    BY <1>21, <2>1, ChainTyped DEF ClearDriver, Labels, SessionCalls, BookingCalls
  <2> QED BY <1>0, <1>21, <2>1, <2>2, <2>3, <1>w, FaultTyped DEF ClearDriver, TypeOK
<1>22. CASE ClearPassenger
  <2>1. PICK r \in Outcomes : SetHash(web.sessionid, [orderid |-> NONE], r) /\ Fault(r) /\ Chain(r = "done", "deleteKey")
    BY <1>22 DEF ClearPassenger
  <2>2. StoreTypeOK'
    BY <1>0, <1>22, <2>1, SetHashTyped, WritesTyped, KeysTyped DEF ClearPassenger
  <2>3. web' \in Handlers /\ LocalsSet'
    BY <1>22, <2>1, ChainTyped DEF ClearPassenger, Labels, SessionCalls, BookingCalls
  <2> QED BY <1>0, <1>22, <2>1, <2>2, <2>3, <1>w, FaultTyped DEF ClearPassenger, TypeOK
<1>23. CASE DropOrder
  <2>1. PICK r \in Outcomes : DeleteKey(web.orderid, r) /\ Fault(r)
    BY <1>23 DEF DropOrder
  <2>2. StoreTypeOK'
    BY <1>0, <2>1, KeysTyped, EmptyHashTyped DEF DeleteKey, StoreTypeOK
  <2> QED BY <1>0, <1>23, <2>1, <2>2, <1>w, FaultTyped, IdleTyped DEF DropOrder, TypeOK
<1>24. CASE Abandon
  <2>1. StoreTypeOK'
    BY <1>0, <1>24 DEF Abandon, StoreTypeOK, WellTyped
  <2> QED BY <1>0, <1>24, <2>1, <1>w, IdleTyped, MaxFaultsType DEF Abandon, TypeOK
<1>25. CASE KeyExpires
  <2>1. StoreTypeOK'
    BY <1>0, <1>25, EmptyHashTyped DEF KeyExpires, Expire, StoreTypeOK
  <2> QED BY <1>0, <1>25, <2>1, <1>w DEF KeyExpires, TypeOK, LocalsSet
<1> QED
  BY <1>1, <1>2, <1>3, <1>4, <1>5, <1>6, <1>7, <1>8, <1>9, <1>10, <1>11, <1>12, <1>13, <1>14,
     <1>15, <1>16, <1>17, <1>18, <1>19, <1>20, <1>21, <1>22, <1>23, <1>24, <1>25 DEF Next

\* Types and the meaning of a handler's locals always hold.
THEOREM TypedAlways == Spec => []Typed
<1>1. Init => Typed
  BY InitTyped
<1>2. Typed /\ [Next]_vars => Typed'
  BY NextTyped
<1> QED BY <1>1, <1>2, PTL DEF Spec

\* Whatever fails and whenever a key expires, every database entry, handler local
\* and answer keeps to its kind.
THEOREM TypeCorrect == Spec => []TypeOK
<1>1. Typed => TypeOK
  BY DEF Typed
<1> QED BY <1>1, TypedAlways, PTL

-----------------------------------------------------------------------------
(* Orders: who holds them, and when they leave Redis.                      *)

\* OrdersHeldByTheirParties is not inductive: the handlers that bind and unbind
\* an order rely on what their earlier calls wrote or read, and on nobody having
\* changed it since.

\* The hash of an order never gets an expiry time.
OrdersStay == \A o \in Orders : ~ttl[o]

HeldWereIssued == \A s \in Sessions, o \in Orders : Holds(s, o) => o \in issued

NamesItsParties ==
  /\ hash[web.orderid].passenger_sessionid = web.sessionid
  /\ hash[web.orderid].driver_sessionid = web.driver

\* set_order.c: the order is new, nobody holds it before it is created, and it
\* names the two sessions when they are bound to it.
BookingInv ==
  /\ web.at \in BookingCalls => web.orderid \in issued
  /\ At("createOrder") => \A s \in Sessions : ~Holds(s, web.orderid)
  /\ web.at \in {"bindDriver", "bindPassenger"} => NamesItsParties

\* finish_order.c: the session ids that were read are still those of the order,
\* each is unbound when the handler says so, and the row was stored before.
FinishNames ==
  web.at \in FinishCalls /\ web.orderid \in Orders => NamesItsParties
DriverUnbound ==
  web.at \in {"clearPassenger", "deleteKey"} /\ web.orderid \in Orders =>
    (web.driver \in Sessions => ~Holds(web.driver, web.orderid))
PassengerUnbound ==
  At("deleteKey") /\ web.orderid \in Orders =>
    (web.sessionid \in Sessions => ~Holds(web.sessionid, web.orderid))
RideStored ==
  web.at \in {"clearDriver", "clearPassenger", "deleteKey"} => rides[web.orderid] # NoRide
FinishInv == FinishNames /\ DriverUnbound /\ PassengerUnbound /\ RideStored

Inv == /\ Typed /\ OrdersStay /\ HeldWereIssued /\ OrdersHeldByTheirParties
       /\ BookingInv /\ FinishInv

\* Every write of the web server outside CreateOrder leaves the parties of all
\* orders alone, and only the binding calls give a session another order.
PartiesKept ==
  \A o \in Orders :
    /\ hash'[o].passenger_sessionid = hash[o].passenger_sessionid
    /\ hash'[o].driver_sessionid = hash[o].driver_sessionid
NoNewHolder ==
  \A s \in Sessions : hash'[s].orderid \in {hash[s].orderid, NONE, Nil}

\* Writing the orderid of a session changes no order and no other session.
LEMMA OrderidWritten ==
  ASSUME Typed, NEW k \in SessionNames, NEW o \in OrderNames, NEW r \in Outcomes,
         SetHash(k, [orderid |-> o], r)
  PROVE  /\ \A x \in Orders : hash'[x] = hash[x]
         /\ \A s \in Sessions : \/ hash'[s].orderid = hash[s].orderid
                                \/ s = k /\ hash'[s].orderid = o
         /\ r = "done" => hash'[k].orderid = o
         /\ UNCHANGED <<ttl, pool, users, rides>>
<1>1. hash \in [Keys -> [Fields -> Values]] /\ k \in Keys /\ "orderid" \in Fields
  BY DEF Typed, TypeOK, StoreTypeOK, SessionNames, Keys, Fields
<1>2. /\ DOMAIN [orderid |-> o] = {"orderid"}
      /\ [orderid |-> o]["orderid"] = o
  OBVIOUS
<1>3. \A f \in DOMAIN [orderid |-> o] : [orderid |-> o][f] \in Values
  BY DEF OrderNames, Values
<1>4. /\ \A j \in Keys \ {k} : hash'[j] = hash[j]
      /\ \A f \in Fields : \/ hash'[k][f] = hash[k][f]
                           \/ f \in {"orderid"} /\ hash'[k][f] = [orderid |-> o][f]
      /\ r = "done" => \A f \in Fields \cap {"orderid"} : hash'[k][f] = [orderid |-> o][f]
  BY <1>1, <1>2, <1>3, SetHashWrites
<1>5. \A x \in Orders : x \in Keys /\ x # k
  BY NamesApart DEF Keys, SessionNames
<1>6. \A s \in Sessions : s \in Keys
  BY DEF Keys
<1>7. hash'[k].orderid = hash[k].orderid \/ hash'[k].orderid = o
  BY <1>1, <1>2, <1>4
<1>8. r = "done" => hash'[k].orderid = o
  BY <1>1, <1>2, <1>4
<1>9. UNCHANGED <<ttl, pool, users, rides>>
  BY DEF SetHash
<1> QED BY <1>4, <1>5, <1>6, <1>7, <1>8, <1>9

\* Writing a hash that is not a session's binds no session.
LEMMA OrderWritten ==
  ASSUME Typed, NEW k \in OrderNames, NEW w, TypedWrite(w), NEW r \in Outcomes,
         SetHash(k, w, r)
  PROVE  /\ \A j \in (Orders \cup Sessions) \ {k} : hash'[j] = hash[j]
         /\ \A s \in Sessions : hash'[s] = hash[s]
         /\ \A f \in Fields : f \notin DOMAIN w => hash'[k][f] = hash[k][f]
         /\ r = "done" => \A f \in DOMAIN w : hash'[k][f] = w[f]
         /\ UNCHANGED <<ttl, pool, users, rides>>
<1>1. hash \in [Keys -> [Fields -> Values]] /\ k \in Keys
  BY DEF Typed, TypeOK, StoreTypeOK, OrderNames, Keys
<1>2. DOMAIN w \subseteq Fields /\ \A f \in DOMAIN w : w[f] \in Values
  BY DEF TypedWrite
<1>3. /\ \A j \in Keys \ {k} : hash'[j] = hash[j]
      /\ \A f \in Fields : \/ hash'[k][f] = hash[k][f]
                           \/ f \in DOMAIN w /\ hash'[k][f] = w[f]
      /\ r = "done" => \A f \in Fields \cap DOMAIN w : hash'[k][f] = w[f]
  BY <1>1, <1>2, SetHashWrites
<1>4. \A s \in Sessions : s # k
  BY NamesApart DEF OrderNames
<1>5. UNCHANGED <<ttl, pool, users, rides>>
  BY DEF SetHash
<1> QED BY <1>2, <1>3, <1>4, <1>5 DEF Keys

\* A step that binds no session and leaves the parties of the orders alone keeps
\* the invariant when the handler ends or is not about to bind or to finish.
LEMMA QuietStep ==
  ASSUME Inv, Typed', PartiesKept, NoNewHolder, OrdersStay', issued \subseteq issued',
         web'.at \notin BookingCalls \cup FinishCalls
  PROVE  Inv'
<1>1. \A s \in Sessions, o \in Orders : Holds(s, o)' => Holds(s, o)
  BY NamesApart DEF NoNewHolder, Holds
<1>2. HeldWereIssued'
  BY <1>1 DEF Inv, HeldWereIssued
<1>3. OrdersHeldByTheirParties'
  BY <1>1 DEF Inv, OrdersHeldByTheirParties, PartiesKept, Parties
<1>4. BookingInv' /\ FinishInv'
  BY DEF BookingInv, FinishInv, FinishNames, DriverUnbound, PassengerUnbound, RideStored,
         BookingCalls, FinishCalls, At
<1> QED BY <1>2, <1>3, <1>4 DEF Inv

\* The same for a step of finish_order.c that leaves its locals alone.
LEMMA FinishStep ==
  ASSUME Inv, Typed', PartiesKept, NoNewHolder, OrdersStay', issued \subseteq issued',
         web.at \in FinishCalls, web'.at \in FinishCalls,
         web'.orderid = web.orderid, web'.sessionid = web.sessionid,
         web'.driver = web.driver, DriverUnbound', PassengerUnbound', RideStored'
  PROVE  Inv'
<1>1. \A s \in Sessions, o \in Orders : Holds(s, o)' => Holds(s, o)
  BY NamesApart DEF NoNewHolder, Holds
<1>2. HeldWereIssued'
  BY <1>1 DEF Inv, HeldWereIssued
<1>3. OrdersHeldByTheirParties'
  BY <1>1 DEF Inv, OrdersHeldByTheirParties, PartiesKept, Parties
<1>4. BookingInv'
  BY DEF BookingInv, BookingCalls, FinishCalls, At
<1>5. FinishNames'
  BY DEF Inv, FinishInv, FinishNames, NamesItsParties, PartiesKept
<1>6. FinishInv'
  BY <1>5 DEF FinishInv
<1> QED BY <1>2, <1>3, <1>4, <1>6 DEF Inv

\* The invariant holds before the first request.
LEMMA InitInv == Init => Inv
<1> SUFFICES ASSUME Init PROVE Inv
  OBVIOUS
<1>1. Typed
  BY InitTyped
<1>2. \A k \in Keys : hash[k].orderid = Nil /\ ~ttl[k]
  BY DEF Init, StoreInit, EmptyHash, Fields
<1>3. OrdersStay /\ HeldWereIssued /\ OrdersHeldByTheirParties
  BY <1>2, NamesApart DEF OrdersStay, HeldWereIssued, OrdersHeldByTheirParties, Holds, Keys
<1>4. BookingInv /\ FinishInv
  BY DEF Init, Idle, BookingInv, FinishInv, FinishNames, DriverUnbound, PassengerUnbound,
         RideStored, BookingCalls, FinishCalls, At
<1> QED BY <1>1, <1>3, <1>4 DEF Inv

\* EXPIRE of a session's key does not touch the orders.
LEMMA LifecycleKeeps ==
  ASSUME Typed, OrdersStay, NEW k \in Sessions, NEW r, SetLifecycle(k, r)
  PROVE  OrdersStay' /\ UNCHANGED <<hash, rides>>
  BY NamesApart DEF SetLifecycle, OrdersStay, Typed, TypeOK, StoreTypeOK, Keys

\* Steps that leave the hashes alone.
LEMMA HashKept ==
  ASSUME UNCHANGED hash PROVE PartiesKept /\ NoNewHolder
  BY DEF PartiesKept, NoNewHolder

\* Where a handler is after a call: at the next one with its locals, or done.
LEMMA ChainGoes ==
  ASSUME web \in Handlers, NEW ok, NEW l, Chain(ok, l) \/ Goto(l)
  PROVE  \/ /\ web'.at = l /\ web'.orderid = web.orderid
            /\ web'.sessionid = web.sessionid /\ web'.driver = web.driver
         \/ web' = Idle /\ Chain(ok, l) /\ ~ok
  BY DEF Chain, Goto, Handlers

\* An idle server is in the middle of no handler.
LEMMA IdleQuiet == Idle.at \notin BookingCalls \cup FinishCalls
  BY DEF Idle, BookingCalls, FinishCalls

\* No step breaks the invariant.
LEMMA NextInv == Inv /\ [Next]_vars => Inv'
<1> SUFFICES ASSUME Inv, [Next]_vars PROVE Inv'
  OBVIOUS
<1> USE DEF At
<1>0. /\ Typed /\ Typed' /\ OrdersStay /\ TypeOK /\ LocalsSet
      /\ BookingInv /\ FinishInv /\ HeldWereIssued /\ OrdersHeldByTheirParties
  BY NextTyped DEF Inv, Typed
<1>t. /\ web.sessionid \in SessionNames /\ web.driver \in SessionNames
      /\ web.orderid \in OrderNames /\ NONE \in OrderNames
      /\ web \in Handlers /\ StoreTypeOK
  BY <1>0 DEF TypeOK, Handlers, OrderNames
<1>1. CASE UNCHANGED vars
  BY <1>0, <1>1 DEF vars, Inv, OrdersStay, HeldWereIssued, OrdersHeldByTheirParties, Holds,
       Parties, BookingInv, FinishInv, FinishNames, DriverUnbound, PassengerUnbound,
       RideStored, NamesItsParties
<1>2. ASSUME UNCHANGED <<hash, ttl>>, issued \subseteq issued',
             web'.at \notin BookingCalls \cup FinishCalls
      PROVE  Inv'
  BY <1>0, <1>2, HashKept, QuietStep DEF OrdersStay
\* Requests that neither book nor finish.
<1>3. ASSUME NEW u \in Users, NEW role \in Roles, Login(u, role) \/ Reg(u, role)
      PROVE  Inv'
  <2>1. UNCHANGED <<hash, ttl>> /\ issued \subseteq issued'
    BY <1>3 DEF Login, Reg, InsertUser, CreateSession
  <2>2. web'.at \in {"session", "idle"}
    BY <1>3 DEF Login, Reg, CreateSession, Idle
  <2> QED BY <1>2, <2>1, <2>2 DEF BookingCalls, FinishCalls
<1>4. CASE AnswerSession \/ AnswerLocation \/ Abandon
  <2>1. UNCHANGED <<hash, ttl, issued>> /\ web'.at = "idle"
    BY <1>4 DEF AnswerSession, AnswerLocation, Abandon, Idle
  <2> QED BY <1>2, <2>1 DEF BookingCalls, FinishCalls
<1>5. ASSUME NEW s \in Sessions, NEW status \in Statuses, NEW autosend \in {"yes", "no"},
             LocationChanged(s, status, autosend)
      PROVE  Inv'
  <2>1. UNCHANGED <<hash, ttl, issued>> /\ web'.at = "refresh"
    BY <1>5 DEF LocationChanged, Idle
  <2> QED BY <1>2, <2>1 DEF BookingCalls, FinishCalls
<1>6. CASE GetOrderid
  <2>1. UNCHANGED <<hash, ttl, issued>> /\ web'.at = FirstCall(web.role, web.status)
    BY <1>t, <1>6 DEF GetOrderid, Handlers
  <2> QED BY <1>2, <2>1 DEF FirstCall, BookingCalls, FinishCalls
<1>7. CASE RemGeo \/ ListDriver
  <2>1. UNCHANGED <<hash, ttl, issued>>
    BY <1>7 DEF RemGeo, ListDriver, RemZset, AddGeo
  <2>2. web'.at \in {"answerLocation", "addGeo", "startOrder", "setTemp", "idle"}
    BY <1>t, <1>7, ChainGoes DEF RemGeo, ListDriver, AfterRemGeo, Idle, Chain
  <2> QED BY <1>2, <2>1, <2>2 DEF BookingCalls, FinishCalls
<1>8. CASE PutLifecycle \/ Refresh
  <2>1. PICK r \in Outcomes : SetLifecycle(web.sessionid, r)
    BY <1>8 DEF PutLifecycle, Refresh
  <2>2. web.sessionid \in Sessions /\ UNCHANGED issued
    BY <1>0, <1>8 DEF PutLifecycle, Refresh, LocalsSet, SessionCalls
  <2>3. OrdersStay' /\ PartiesKept /\ NoNewHolder
    BY <1>0, <2>1, <2>2, LifecycleKeeps, HashKept
  <2>4. web'.at \in {"answerSession", "getOrderid", "idle"}
    BY <1>t, <1>8, ChainGoes DEF PutLifecycle, Refresh, Idle
  <2> QED BY <1>0, <2>2, <2>3, <2>4, QuietStep DEF BookingCalls, FinishCalls
<1>9. CASE PutSession
  <2>1. PICK r \in Outcomes :
          /\ SetHash(web.sessionid, [username |-> web.username, orderid |-> NONE], r)
          /\ Chain(r = "done", "lifecycle")
    BY <1>9 DEF PutSession
  <2> DEFINE w == [username |-> web.username, orderid |-> NONE]
  <2>2. web.sessionid \in Sessions /\ UNCHANGED issued
    BY <1>0, <1>9 DEF PutSession, LocalsSet, SessionCalls
  <2>3. TypedWrite(w) /\ DOMAIN w = {"username", "orderid"} /\ w["orderid"] = NONE
    BY <1>0, <1>9, WritesTyped DEF PutSession
  <2>4. /\ \A j \in Keys \ {web.sessionid} : hash'[j] = hash[j]
        /\ \A f \in Fields : \/ hash'[web.sessionid][f] = hash[web.sessionid][f]
                             \/ f \in DOMAIN w /\ hash'[web.sessionid][f] = w[f]
    <3> HIDE DEF w
    <3> QED BY <1>0, <2>1, <2>2, <2>3, SetHashWrites, KeysTyped
            DEF w, Typed, TypeOK, StoreTypeOK, TypedWrite
  <2>5. PartiesKept
    BY <2>2, <2>4, NamesApart DEF PartiesKept, Keys
  <2>6. NoNewHolder
    BY <2>2, <2>3, <2>4 DEF NoNewHolder, Keys, Fields
  <2>7. OrdersStay'
    BY <1>0, <2>1 DEF SetHash, OrdersStay
  <2>8. web'.at \in {"lifecycle", "idle"}
    BY <1>t, <2>1, ChainGoes DEF Idle
  <2> QED BY <1>0, <2>2, <2>5, <2>6, <2>7, <2>8, QuietStep DEF BookingCalls, FinishCalls
\* The reports that write to the reported order.
<1>10. CASE StartOrder \/ SetTemp
  <2>1. PICK r \in Outcomes, v \in {[order_status |-> "ACTIVE"], [ptemp |-> "loc"],
                                 [dtemp |-> "loc"]} :
          SetHash(web.orderid, v, r)
    BY <1>10 DEF StartOrder, SetTemp
  <2>2. TypedWrite(v) /\ "passenger_sessionid" \notin DOMAIN v /\ "driver_sessionid" \notin DOMAIN v
    BY <1>0, <2>1, WritesTyped
  <2>3. /\ \A j \in (Orders \cup Sessions) \ {web.orderid} : hash'[j] = hash[j]
        /\ \A s \in Sessions : hash'[s] = hash[s]
        /\ \A f \in Fields : f \notin DOMAIN v => hash'[web.orderid][f] = hash[web.orderid][f]
        /\ UNCHANGED ttl
    BY <1>0, <1>t, <2>1, <2>2, OrderWritten
  <2>4. PartiesKept /\ NoNewHolder
    BY <2>2, <2>3 DEF PartiesKept, NoNewHolder, Fields
  <2>5. OrdersStay' /\ UNCHANGED issued
    BY <1>0, <1>10, <2>3 DEF OrdersStay, StartOrder, SetTemp
  <2>6. web'.at \in {"setTemp", "answerLocation"}
    BY <1>t, <1>10, ChainGoes DEF StartOrder, SetTemp, Goto, Handlers
  <2> QED BY <1>0, <2>4, <2>5, <2>6, QuietStep DEF BookingCalls, FinishCalls
\* Booking: the order is new, is created before it is bound, and is bound to the
\* two sessions that it names.
<1>11. ASSUME NEW s \in Sessions, SetOrder(s)
       PROVE  Inv'
  <2>1. PICK d \in NearestDrivers, o \in Orders \ issued :
          /\ issued' = issued \cup {o}
          /\ web' = [Idle EXCEPT !.at = "createOrder", !.sessionid = s,
                                 !.driver = d, !.orderid = o]
    BY <1>11 DEF SetOrder
  <2>2. web'.at = "createOrder" /\ web'.orderid = o /\ UNCHANGED <<hash, ttl, rides>>
    BY <1>11, <2>1 DEF SetOrder, Idle
  <2>3. \A x \in Sessions : ~Holds(x, o)
    BY <1>0, <2>1 DEF HeldWereIssued
  <2>4. BookingInv'
    BY <2>1, <2>2, <2>3 DEF BookingInv, Holds
  <2>5. FinishInv'
    BY <2>2 DEF FinishInv, FinishNames, DriverUnbound, PassengerUnbound, RideStored,
                FinishCalls
  <2>6. HeldWereIssued' /\ OrdersHeldByTheirParties' /\ OrdersStay'
    BY <1>0, <2>1, <2>2 DEF HeldWereIssued, OrdersHeldByTheirParties, OrdersStay, Holds,
                            Parties
  <2> QED BY <1>0, <2>4, <2>5, <2>6 DEF Inv
<1>12. CASE CreateOrder
  <2> DEFINE w == [order_status |-> "INIT", passenger_sessionid |-> web.sessionid,
                   driver_sessionid |-> web.driver]
  <2>1. PICK r \in Outcomes : SetHash(web.orderid, w, r) /\ Chain(r = "done", "bindDriver")
    BY <1>12 DEF CreateOrder
  <2>2. /\ TypedWrite(w)
        /\ DOMAIN w = {"order_status", "passenger_sessionid", "driver_sessionid"}
        /\ w["passenger_sessionid"] = web.sessionid /\ w["driver_sessionid"] = web.driver
    BY <1>0, <1>12, WritesTyped DEF CreateOrder
  <2>3. /\ \A j \in (Orders \cup Sessions) \ {web.orderid} : hash'[j] = hash[j]
        /\ \A s \in Sessions : hash'[s] = hash[s]
        /\ r = "done" => \A f \in DOMAIN w : hash'[web.orderid][f] = w[f]
        /\ UNCHANGED ttl
    <3> HIDE DEF w
    <3> QED BY <1>0, <1>t, <2>1, <2>2, OrderWritten
  <2>4. /\ web.orderid \in Orders /\ web.orderid \in issued /\ UNCHANGED issued
        /\ \A s \in Sessions : ~Holds(s, web.orderid)
    BY <1>0, <1>12 DEF CreateOrder, LocalsSet, BookingInv, BookingCalls
  <2>5. \A s \in Sessions, o \in Orders : Holds(s, o)' <=> Holds(s, o)
    BY <2>3 DEF Holds
  <2>6. HeldWereIssued' /\ OrdersStay'
    BY <1>0, <2>3, <2>4, <2>5 DEF HeldWereIssued, OrdersStay
  <2>7. OrdersHeldByTheirParties'
    BY <1>0, <2>3, <2>4, <2>5 DEF OrdersHeldByTheirParties, Parties
  <2>8. \/ /\ web'.at = "bindDriver" /\ web'.orderid = web.orderid
           /\ web'.sessionid = web.sessionid /\ web'.driver = web.driver /\ r = "done"
        \/ web'.at = "idle"
    BY <1>t, <2>1 DEF Chain, Goto, Idle, Handlers
  <2>9. BookingInv'
    BY <2>2, <2>3, <2>4, <2>8 DEF BookingInv, NamesItsParties, BookingCalls
  <2>10. FinishInv'
    BY <2>8 DEF FinishInv, FinishNames, DriverUnbound, PassengerUnbound, RideStored,
                FinishCalls
  <2> QED BY <1>0, <2>6, <2>7, <2>9, <2>10 DEF Inv
<1>13. CASE BindDriver \/ BindPassenger
  <2>1. PICK r \in Outcomes, k \in {web.driver, web.sessionid} :
          SetHash(k, [orderid |-> web.orderid], r)
    BY <1>13 DEF BindDriver, BindPassenger
  <2>2. /\ \A x \in Orders : hash'[x] = hash[x]
        /\ \A s \in Sessions : \/ hash'[s].orderid = hash[s].orderid
                               \/ s = k /\ hash'[s].orderid = web.orderid
        /\ UNCHANGED ttl
    BY <1>0, <1>t, <2>1, OrderidWritten
  <2>3. /\ NamesItsParties /\ web.orderid \in Orders /\ web.orderid \in issued
        /\ UNCHANGED issued
    BY <1>0, <1>13 DEF BindDriver, BindPassenger, BookingInv, BookingCalls, LocalsSet
  <2>4. k \in Parties(web.orderid)
    BY <2>1, <2>3 DEF NamesItsParties, Parties
  <2>5. HeldWereIssued' /\ OrdersStay'
    BY <1>0, <2>2, <2>3 DEF HeldWereIssued, OrdersStay, Holds
  <2>6. \A x \in Orders : Parties(x)' = Parties(x)
    BY <2>2 DEF Parties
  <2>7. OrdersHeldByTheirParties'
    BY <1>0, <2>2, <2>4, <2>6 DEF OrdersHeldByTheirParties, Holds
  <2>8. \/ /\ web'.at = "bindPassenger" /\ web'.orderid = web.orderid
           /\ web'.sessionid = web.sessionid /\ web'.driver = web.driver
        \/ web'.at = "idle"
    BY <1>t, <1>13 DEF BindDriver, BindPassenger, Chain, Goto, Idle, Handlers
  <2>9. BookingInv'
    BY <2>2, <2>3, <2>8 DEF BookingInv, NamesItsParties, BookingCalls
  <2>10. FinishInv'
    BY <2>8 DEF FinishInv, FinishNames, DriverUnbound, PassengerUnbound, RideStored,
                FinishCalls
  <2> QED BY <1>0, <2>5, <2>7, <2>9, <2>10 DEF Inv
\* Finishing: the parties are read first, and each is unbound before the hash is
\* deleted.
<1>14. ASSUME NEW s \in Sessions, FinishOrder(s)
       PROVE  Inv'
  <2>1. /\ UNCHANGED <<hash, ttl, rides, issued>>
        /\ web'.at = "namePassenger" /\ web'.orderid = reply[s].orderid
        /\ web'.sessionid = hash[reply[s].orderid].passenger_sessionid
        /\ web'.driver = hash[reply[s].orderid].driver_sessionid
    BY <1>14 DEF FinishOrder, HandleFinish, Idle
  <2>2. FinishInv' /\ BookingInv'
    BY <2>1 DEF FinishInv, FinishNames, DriverUnbound, PassengerUnbound, RideStored,
                NamesItsParties, BookingInv, BookingCalls
  <2>3. HeldWereIssued' /\ OrdersHeldByTheirParties' /\ OrdersStay'
    BY <1>0, <2>1 DEF HeldWereIssued, OrdersHeldByTheirParties, OrdersStay, Holds, Parties
  <2> QED BY <1>0, <2>2, <2>3 DEF Inv
<1>15. CASE NamePassenger \/ NameDriver
  <2>1. /\ UNCHANGED <<hash, ttl, rides, issued>>
        /\ web.at \in FinishCalls /\ web'.at \in {"nameDriver", "insert"}
        /\ web'.orderid = web.orderid /\ web'.sessionid = web.sessionid
        /\ web'.driver = web.driver
    BY <1>t, <1>15 DEF NamePassenger, NameDriver, Handlers, FinishCalls
  <2>2. PartiesKept /\ NoNewHolder /\ OrdersStay'
    BY <1>0, <2>1, HashKept DEF OrdersStay
  <2>3. DriverUnbound' /\ PassengerUnbound' /\ RideStored'
    BY <2>1 DEF DriverUnbound, PassengerUnbound, RideStored
  <2> QED BY <1>0, <2>1, <2>2, <2>3, FinishStep DEF FinishCalls
<1>16. CASE PersistOrder
  <2>1. PICK r \in Outcomes :
          /\ InsertOrder(web.orderid, web.username, web.drivername, r)
          /\ Chain(r = "done" /\ rides[web.orderid] = NoRide, "clearDriver")
    BY <1>16 DEF PersistOrder
  <2>2. UNCHANGED <<hash, ttl, issued>>
    BY <1>16, <2>1 DEF PersistOrder, InsertOrder
  <2>3. CASE web' = Idle
    BY <1>2, <2>2, <2>3, IdleQuiet
  <2>4. CASE web' # Idle
    <3>1. /\ web'.at = "clearDriver" /\ web'.orderid = web.orderid
          /\ web'.sessionid = web.sessionid /\ web'.driver = web.driver
          /\ r = "done" /\ rides[web.orderid] = NoRide
      BY <1>t, <2>1, <2>4 DEF Chain, Goto, Handlers
    <3>2. rides'[web.orderid] = [passenger |-> web.username, driver |-> web.drivername]
      BY <1>t, <2>1, <3>1 DEF InsertOrder, Executed, StoreTypeOK
    <3>3. web.username # "no row"
      BY <1>t, NamesAreDistinct DEF Handlers, UserNames, Nil
    <3>4. rides'[web.orderid] # NoRide
      <4>1. rides'[web.orderid].passenger = web.username
        BY <3>2
      <4>2. NoRide.passenger = "no row"
        BY DEF NoRide
      <4> QED BY <3>3, <4>1, <4>2
    <3>5. DriverUnbound' /\ PassengerUnbound' /\ RideStored'
      BY <3>1, <3>4 DEF DriverUnbound, PassengerUnbound, RideStored
    <3> QED
      BY <1>0, <1>16, <2>2, <3>1, <3>5, HashKept, FinishStep
         DEF PersistOrder, FinishCalls, OrdersStay
  <2> QED BY <2>3, <2>4
<1>17. CASE ClearDriver \/ ClearPassenger
  <2> DEFINE k == IF web.at = "clearDriver" THEN web.driver ELSE web.sessionid
             next == IF web.at = "clearDriver" THEN "clearPassenger" ELSE "deleteKey"
  <2>1. PICK r \in Outcomes : SetHash(k, [orderid |-> NONE], r) /\ Chain(r = "done", next)
    BY <1>17 DEF ClearDriver, ClearPassenger
  <2>2. k \in SessionNames /\ web.at \in {"clearDriver", "clearPassenger"}
    BY <1>t, <1>17 DEF ClearDriver, ClearPassenger
  <2>3. /\ \A x \in Orders : hash'[x] = hash[x]
        /\ \A s \in Sessions : \/ hash'[s].orderid = hash[s].orderid
                               \/ s = k /\ hash'[s].orderid = NONE
        /\ r = "done" => hash'[k].orderid = NONE
        /\ UNCHANGED <<ttl, rides, issued>>
    <3> HIDE DEF k, next
    <3>1. UNCHANGED issued
      BY <1>17 DEF ClearDriver, ClearPassenger
    <3> QED BY <1>0, <1>t, <2>1, <2>2, <3>1, OrderidWritten
  <2>4. PartiesKept /\ NoNewHolder /\ OrdersStay'
    BY <1>0, <2>3 DEF PartiesKept, NoNewHolder, OrdersStay
  <2>5. CASE web' = Idle
    BY <1>0, <2>3, <2>4, <2>5, QuietStep, IdleQuiet
  <2>6. CASE web' # Idle
    <3>1. /\ web'.at = next /\ web'.orderid = web.orderid
          /\ web'.sessionid = web.sessionid /\ web'.driver = web.driver /\ r = "done"
      BY <1>t, <2>1, <2>6 DEF Chain, Goto, Handlers
    <3>2. web.orderid \in Orders => hash'[k].orderid # web.orderid
      BY <2>3, <3>1, NamesApart
    <3>3. DriverUnbound'
      BY <1>0, <2>2, <2>3, <3>1, <3>2, NamesApart DEF FinishInv, DriverUnbound, Holds
    <3>4. PassengerUnbound' /\ RideStored'
      BY <1>0, <2>2, <2>3, <3>1, <3>2 DEF FinishInv, PassengerUnbound, RideStored, Holds
    <3> QED BY <1>0, <2>2, <2>3, <2>4, <3>1, <3>3, <3>4, FinishStep DEF FinishCalls
  <2> QED BY <2>5, <2>6
<1>18. CASE DropOrder
  <2>1. PICK r \in Outcomes : DeleteKey(web.orderid, r)
    BY <1>18 DEF DropOrder
  <2>2. /\ web' = Idle /\ UNCHANGED <<rides, issued>>
        /\ \A j \in Keys \ {web.orderid} : hash'[j] = hash[j]
        /\ hash'[web.orderid] \in {hash[web.orderid], EmptyHash}
        /\ \A o \in Orders : ~ttl'[o]
    BY <1>0, <1>t, <1>18, <2>1, KeysTyped
       DEF DropOrder, DeleteKey, StoreTypeOK, OrdersStay, Keys
  <2>3. \A s \in Sessions : hash'[s] = hash[s]
    BY <1>t, <2>2, NamesApart DEF Keys, OrderNames
  <2>4. HeldWereIssued' /\ OrdersStay'
    BY <1>0, <2>2, <2>3 DEF HeldWereIssued, OrdersStay, Holds
  <2>5. ASSUME NEW s \in Sessions, NEW o \in Orders, Holds(s, o)'
        PROVE  (s \in Parties(o))'
    <3>1. Holds(s, o) /\ s \in Parties(o)
      BY <1>0, <2>3, <2>5 DEF OrdersHeldByTheirParties, Holds
    <3>2. o # web.orderid
      BY <1>0, <1>18, <3>1
         DEF DropOrder, FinishInv, FinishNames, FinishCalls, NamesItsParties,
             DriverUnbound, PassengerUnbound, Parties
    <3> QED BY <2>2, <3>1, <3>2 DEF Parties, Keys
  <2>6. OrdersHeldByTheirParties'
    BY <2>5 DEF OrdersHeldByTheirParties
  <2>7. BookingInv' /\ FinishInv'
    BY <2>2 DEF Idle, BookingInv, FinishInv, FinishNames, DriverUnbound, PassengerUnbound,
                RideStored, BookingCalls, FinishCalls
  <2> QED BY <1>0, <2>4, <2>6, <2>7 DEF Inv
\* A key that expires is no order's, and a session that expires holds nothing.
<1>19. CASE KeyExpires
  <2>1. PICK k \in Keys : Expire(k)
    BY <1>19 DEF KeyExpires
  <2>2. /\ UNCHANGED <<web, rides, issued>> /\ ttl' = [ttl EXCEPT ![k] = FALSE]
        /\ hash' = [hash EXCEPT ![k] = EmptyHash] /\ k \notin Orders
    BY <1>0, <1>19, <2>1 DEF KeyExpires, Expire, OrdersStay
  <2>3. \A o \in Orders : hash'[o] = hash[o] /\ ~ttl'[o]
    BY <1>0, <1>t, <2>2 DEF OrdersStay, StoreTypeOK, Keys
  <2>4. \A s \in Sessions : hash'[s].orderid \in {hash[s].orderid, Nil}
    BY <1>t, <2>2 DEF StoreTypeOK, Keys, EmptyHash, Fields
  <2>5. \A s \in Sessions, o \in Orders : Holds(s, o)' => Holds(s, o)
    BY <2>4, NamesApart DEF Holds
  <2>6. HeldWereIssued' /\ OrdersStay' /\ OrdersHeldByTheirParties'
    BY <1>0, <2>2, <2>3, <2>5 DEF HeldWereIssued, OrdersStay, OrdersHeldByTheirParties,
                                  Parties
  <2>7. BookingInv'
    BY <1>0, <2>2, <2>3, <2>5 DEF BookingInv, NamesItsParties, LocalsSet, BookingCalls
  <2>8. FinishInv'
    BY <1>0, <2>2, <2>3, <2>5 DEF FinishInv, FinishNames, NamesItsParties, DriverUnbound,
                                  PassengerUnbound, RideStored
  <2> QED BY <1>0, <2>6, <2>7, <2>8 DEF Inv
<1> QED
  BY <1>1, <1>3, <1>4, <1>5, <1>6, <1>7, <1>8, <1>9, <1>10, <1>11, <1>12, <1>13, <1>14,
     <1>15, <1>16, <1>17, <1>18, <1>19 DEF Next

\* The strengthened invariant, from which the other results follow, always holds.
THEOREM InvAlways == Spec => []Inv
<1>1. Init => Inv
  BY InitInv
<1>2. Inv /\ [Next]_vars => Inv'
  BY NextInv
<1> QED BY <1>1, <1>2, PTL DEF Spec

\* However bookings, finishes, expiries and failures interleave, a session that
\* names an order is one of the two that the order names.
THEOREM HeldByParties == Spec => []OrdersHeldByTheirParties
<1>1. Inv => OrdersHeldByTheirParties
  BY DEF Inv
<1> QED BY <1>1, InvAlways, PTL

\* A hash that has a field keeps having one when no empty value is written.
LEMMA ExistsKept ==
  ASSUME Typed, NEW k \in Keys, NEW w, TypedWrite(w), NEW r \in Outcomes,
         SetHash(k, w, r), \A f \in DOMAIN w : w[f] # Nil,
         NEW o \in Keys, Exists(o)
  PROVE  Exists(o)'
<1>1. /\ hash' \in [Keys -> [Fields -> Values]]
      /\ \A j \in Keys \ {k} : hash'[j] = hash[j]
      /\ \A f \in Fields : \/ hash'[k][f] = hash[k][f]
                           \/ f \in DOMAIN w /\ hash'[k][f] = w[f]
  BY SetHashWrites DEF Typed, TypeOK, StoreTypeOK, TypedWrite
<1>2. PICK f \in Fields : hash[o][f] # Nil
  <2>1. hash[o] \in [Fields -> Values] /\ EmptyHash = [f \in Fields |-> Nil]
    BY DEF Typed, TypeOK, StoreTypeOK, EmptyHash
  <2> QED BY <2>1 DEF Exists
<1>3. hash'[o][f] # Nil
  BY <1>1, <1>2
<1> QED BY <1>3 DEF Exists, EmptyHash

\* The only call that takes an order out of Redis is the last one of finish_order.c.
LEMMA OnlyDropLosesOrders ==
  ASSUME Inv, [Next]_vars, NEW o \in Orders, Exists(o), ~Exists(o)'
  PROVE  DropOrder /\ web.orderid = o
<1> USE DEF At
<1>0. Typed /\ TypeOK /\ StoreTypeOK /\ LocalsSet /\ OrdersStay /\ o \in Keys
  BY DEF Inv, Typed, TypeOK, Keys
<1>1. hash'[o] # hash[o]
  BY DEF Exists
<1>2. ~ UNCHANGED hash
  BY <1>1
<1>3. ~ PutSession
  <2> SUFFICES ASSUME PutSession PROVE FALSE
    OBVIOUS
  <2> DEFINE w == [username |-> web.username, orderid |-> NONE]
  <2>1. PICK r \in Outcomes : SetHash(web.sessionid, w, r)
    BY DEF PutSession
  <2>2. web.sessionid \in Sessions /\ TypedWrite(w)
    BY <1>0, WritesTyped DEF PutSession, LocalsSet, SessionCalls
  <2>3. \A j \in Keys \ {web.sessionid} : hash'[j] = hash[j]
    <3> HIDE DEF w
    <3> QED BY <1>0, <2>1, <2>2, SetHashWrites DEF Keys, StoreTypeOK, TypedWrite
  <2> QED BY <1>0, <1>1, <2>2, <2>3, NamesApart
<1>4. ~ CreateOrder
  <2> SUFFICES ASSUME CreateOrder PROVE FALSE
    OBVIOUS
  <2> DEFINE w == [order_status |-> "INIT", passenger_sessionid |-> web.sessionid,
                   driver_sessionid |-> web.driver]
  <2>1. PICK r \in Outcomes : SetHash(web.orderid, w, r)
    BY DEF CreateOrder
  <2>2. web.sessionid \in Sessions /\ web.driver \in Sessions
    BY <1>0 DEF CreateOrder, LocalsSet, SessionCalls, BookingCalls
  <2>3. TypedWrite(w)
    BY <1>0, WritesTyped DEF CreateOrder
  <2>4. \A f \in DOMAIN w : w[f] \in {"INIT", web.sessionid, web.driver}
    OBVIOUS
  <2>5. \A f \in DOMAIN w : w[f] # Nil
    BY <2>2, <2>4, NamesApart DEF Nil
  <2> HIDE DEF w
  <2> QED BY <1>0, <2>1, <2>3, <2>5, KeysTyped, ExistsKept
<1>5. ~ StartOrder /\ ~ SetTemp
  <2> SUFFICES ASSUME StartOrder \/ SetTemp PROVE FALSE
    OBVIOUS
  <2>1. PICK r \in Outcomes, v \in {[order_status |-> "ACTIVE"], [ptemp |-> "loc"],
                                 [dtemp |-> "loc"]} :
          SetHash(web.orderid, v, r)
    BY DEF StartOrder, SetTemp
  <2>2. TypedWrite(v)
    BY <1>0, <2>1, WritesTyped
  <2>3. \A f \in DOMAIN v : v[f] \in {"ACTIVE", "loc"}
    BY <2>1
  <2>4. \A f \in DOMAIN v : v[f] # Nil
    BY <2>3 DEF Nil
  <2> QED BY <1>0, <2>1, <2>2, <2>4, KeysTyped, ExistsKept
<1>6. ~ (BindDriver \/ BindPassenger \/ ClearDriver \/ ClearPassenger)
  <2> SUFFICES ASSUME BindDriver \/ BindPassenger \/ ClearDriver \/ ClearPassenger
               PROVE FALSE
    OBVIOUS
  <2>1. PICK r \in Outcomes, k \in {web.driver, web.sessionid}, x \in {web.orderid, NONE} :
          SetHash(k, [orderid |-> x], r)
    BY DEF BindDriver, BindPassenger, ClearDriver, ClearPassenger
  <2>2. k \in SessionNames /\ x \in OrderNames
    BY <1>0 DEF TypeOK, Handlers, OrderNames
  <2> QED BY <1>0, <1>1, <2>1, <2>2, OrderidWritten
<1>7. ~ KeyExpires
  BY <1>0, <1>1 DEF KeyExpires, Expire, OrdersStay, StoreTypeOK
<1>8. /\ ~ UNCHANGED vars /\ ~ AnswerSession /\ ~ GetOrderid /\ ~ AnswerLocation
      /\ ~ NamePassenger /\ ~ NameDriver /\ ~ Abandon /\ ~ PutLifecycle /\ ~ Refresh
      /\ ~ RemGeo /\ ~ ListDriver /\ ~ PersistOrder
  BY <1>2 DEF vars, AnswerSession, GetOrderid, AnswerLocation, NamePassenger, NameDriver,
       Abandon, PutLifecycle, Refresh, SetLifecycle, RemGeo, RemZset, ListDriver, AddGeo,
       PersistOrder, InsertOrder
<1>9. ASSUME NEW u \in Users, NEW role \in Roles, Login(u, role) \/ Reg(u, role)
      PROVE  FALSE
  BY <1>2, <1>9 DEF Login, Reg, InsertUser
<1>10. ASSUME NEW s \in Sessions, SetOrder(s) \/ FinishOrder(s)
       PROVE  FALSE
  BY <1>2, <1>10 DEF SetOrder, FinishOrder, HandleFinish
<1>11. ASSUME NEW s \in Sessions, NEW status \in Statuses, NEW autosend \in {"yes", "no"},
              LocationChanged(s, status, autosend)
       PROVE  FALSE
  BY <1>2, <1>11 DEF LocationChanged
<1>12. DropOrder
  BY <1>3, <1>4, <1>5, <1>6, <1>7, <1>8, <1>9, <1>10, <1>11 DEF Next
<1> QED BY <1>0, <1>1, <1>12 DEF DropOrder, DeleteKey, StoreTypeOK

\* The only step that stores a row is the INSERT, of the names that finish_order.c read.
LEMMA RidesStep ==
  ASSUME Inv, [Next]_vars, NEW o \in Orders
  PROVE  \/ rides'[o] = rides[o]
         \/ /\ PersistOrder /\ web.orderid = o /\ rides[o] = NoRide
            /\ rides'[o] = [passenger |-> web.username, driver |-> web.drivername]
<1>0. /\ rides \in [OrderNames -> Rides \cup {NoRide}] /\ o \in OrderNames
  BY DEF Inv, Typed, TypeOK, StoreTypeOK, OrderNames
<1>1. CASE PersistOrder
  BY <1>0, <1>1 DEF PersistOrder, InsertOrder
<1>2. CASE UNCHANGED vars
  BY <1>2 DEF vars
<1>3. CASE \/ PutSession \/ CreateOrder \/ BindDriver \/ BindPassenger \/ StartOrder
           \/ SetTemp \/ ClearDriver \/ ClearPassenger
  BY <1>3 DEF PutSession, CreateOrder, BindDriver, BindPassenger, StartOrder, SetTemp,
              ClearDriver, ClearPassenger, SetHash
<1>4. CASE \/ PutLifecycle \/ Refresh \/ RemGeo \/ ListDriver \/ DropOrder \/ KeyExpires
  BY <1>4 DEF PutLifecycle, Refresh, SetLifecycle, RemGeo, RemZset, ListDriver, AddGeo,
              DropOrder, DeleteKey, KeyExpires, Expire
<1>5. CASE \/ AnswerSession \/ GetOrderid \/ AnswerLocation \/ NamePassenger \/ NameDriver
           \/ Abandon
  BY <1>5 DEF AnswerSession, GetOrderid, AnswerLocation, NamePassenger, NameDriver, Abandon
<1>6. ASSUME NEW u \in Users, NEW role \in Roles, Login(u, role) \/ Reg(u, role)
      PROVE  rides'[o] = rides[o]
  BY <1>6 DEF Login, Reg, InsertUser
<1>7. ASSUME NEW s \in Sessions, SetOrder(s) \/ FinishOrder(s)
      PROVE  rides'[o] = rides[o]
  BY <1>7 DEF SetOrder, FinishOrder, HandleFinish
<1>8. ASSUME NEW s \in Sessions, NEW status \in Statuses, NEW autosend \in {"yes", "no"},
             LocationChanged(s, status, autosend)
      PROVE  rides'[o] = rides[o]
  BY <1>8 DEF LocationChanged
<1> QED
  BY <1>1, <1>2, <1>3, <1>4, <1>5, <1>6, <1>7, <1>8 DEF Next

\* A row of OBO_TABLE_ORDER is never changed or removed.
LEMMA RidesStay ==
  ASSUME Inv, [Next]_vars, NEW o \in Orders, rides[o] # NoRide
  PROVE  rides'[o] = rides[o]
  BY RidesStep

\* The calls after the INSERT are reached only through a successful INSERT.
AfterInsert == {"clearDriver", "clearPassenger", "deleteKey"}

\* Only a finish that stored the row itself gets past the INSERT.
LEMMA AfterInsertEntered ==
  ASSUME Inv, [Next]_vars, web'.at \in AfterInsert
  PROVE  /\ web'.orderid = web.orderid
         /\ \/ web.at \in AfterInsert
            \/ rides[web.orderid] = NoRide
<1> USE DEF At, AfterInsert
<1>0. web \in Handlers
  BY DEF Inv, Typed, TypeOK
<1>1. web' # Idle
  BY DEF Idle
<1>2. CASE PersistOrder \/ ClearDriver \/ ClearPassenger
  BY <1>0, <1>1, <1>2 DEF PersistOrder, ClearDriver, ClearPassenger, Chain, Goto, Handlers
<1>3. CASE UNCHANGED vars \/ KeyExpires
  BY <1>3 DEF vars, KeyExpires
<1>4. CASE \/ PutSession \/ PutLifecycle \/ CreateOrder \/ BindDriver \/ StartOrder
           \/ SetTemp \/ Refresh \/ ListDriver \/ NamePassenger \/ NameDriver
  BY <1>0, <1>1, <1>4 DEF PutSession, PutLifecycle, CreateOrder, BindDriver, StartOrder,
       SetTemp, Refresh, ListDriver, NamePassenger, NameDriver, Chain, Goto, Handlers
<1>5. CASE BindPassenger \/ AnswerSession \/ AnswerLocation \/ Abandon \/ DropOrder
  BY <1>1, <1>5 DEF BindPassenger, AnswerSession, AnswerLocation, Abandon, DropOrder
<1>6. CASE GetOrderid
  BY <1>0, <1>6 DEF GetOrderid, FirstCall, Handlers
<1>7. CASE RemGeo
  BY <1>0, <1>1, <1>7 DEF RemGeo, AfterRemGeo, Chain, Goto, Handlers
<1>8. ASSUME NEW u \in Users, NEW role \in Roles, Login(u, role) \/ Reg(u, role)
      PROVE  web'.at \in {web.at, "session"} /\ web.at = "idle"
  BY <1>8 DEF Login, Reg, CreateSession, Idle
<1>9. ASSUME NEW s \in Sessions, SetOrder(s) \/ FinishOrder(s)
      PROVE  web'.at \in {"createOrder", "namePassenger"}
  BY <1>9 DEF SetOrder, FinishOrder, HandleFinish, Idle
<1>10. ASSUME NEW s \in Sessions, NEW status \in Statuses, NEW autosend \in {"yes", "no"},
              LocationChanged(s, status, autosend)
       PROVE  web'.at = "refresh"
  BY <1>10 DEF LocationChanged, Idle
<1> QED
  BY <1>2, <1>3, <1>4, <1>5, <1>6, <1>7, <1>8, <1>9, <1>10 DEF Next

\* An order leaves Redis only once it is a row of OBO_TABLE_ORDER, whatever fails.
THEOREM NoOrderIsLost == Spec => NoOrderLost
<1>1. ASSUME Inv, [Next]_vars, NEW o \in Orders, Exists(o), ~Exists(o)'
      PROVE  rides'[o] # NoRide
  <2>1. DropOrder /\ web.orderid = o
    BY <1>1, OnlyDropLosesOrders
  <2>2. rides[o] # NoRide
    BY <1>1, <2>1 DEF Inv, FinishInv, RideStored, DropOrder, At
  <2> QED BY <1>1, <2>2, RidesStay
<1>2. Inv /\ [Next]_vars => \A o \in Orders : Exists(o) /\ ~Exists(o)' => rides'[o] # NoRide
  BY <1>1
<1> QED BY <1>2, InvAlways, PTL DEF Spec, NoOrderLost

\* A finish that failed after its INSERT is never completed.
THEOREM HalfFinishedStays == Spec => HalfFinishedForever
<1>1. ASSUME Inv, [Next]_vars, NEW o \in Orders, HalfFinished(o)
      PROVE  HalfFinished(o)'
  <2>1. rides'[o] # NoRide
    BY <1>1, RidesStay DEF HalfFinished
  <2>2. Exists(o)'
    BY <1>1, OnlyDropLosesOrders DEF HalfFinished, DropOrder, At
  <2>3. ~(web'.orderid = o /\ web'.at \in AfterInsert)
    BY <1>1, AfterInsertEntered DEF HalfFinished, AfterInsert
  <2> QED BY <2>1, <2>2, <2>3 DEF HalfFinished, AfterInsert
<1>2. Inv /\ [Next]_vars => \A o \in Orders : HalfFinished(o) => HalfFinished(o)'
  BY <1>1
<1> QED BY <1>2, InvAlways, PTL DEF Spec, HalfFinishedForever
=============================================================================

--------------------------- MODULE OboQuiet_proofs ---------------------------
(***************************************************************************)
(* What the web server promises as long as nothing fails: a stored ride is *)
(* over everywhere, a driver that is not ready is not offered, and the two *)
(* ends of an order drift apart by double booking only.                    *)
(***************************************************************************)
EXTENDS OboLife_proofs

USE DEF PassengerOf, DriverOf

-----------------------------------------------------------------------------
(* How a handler gets to where it is.                                      *)

\* A report is handled for the session that sent it, in the status that it sent, from its
\* first call to its answer; its order is the one read from the session.
LEMMA ReportStep ==
  ASSUME Typed, [Next]_vars, web'.at \in ReportCalls
  PROVE  \/ /\ web.at \in ReportCalls
            /\ web'.sessionid = web.sessionid /\ web'.role = web.role
            /\ web'.status = web.status /\ web'.autosend = web.autosend
            /\ web.at = "refresh" => web'.at \in {"refresh", "getOrderid"}
            /\ \/ web'.orderid = web.orderid /\ (web.at = "getOrderid" => web' = web)
               \/ GetOrderid /\ web'.orderid = hash[web.sessionid].orderid
         \/ \E s \in Sessions, status \in Statuses, autosend \in {"yes", "no"} :
              LocationChanged(s, status, autosend)
<1> USE DEF At, ReportCalls
<1>0. web \in Handlers /\ web' # Idle
  BY DEF Typed, TypeOK, Idle
<1>1. CASE UNCHANGED vars \/ KeyExpires
  BY <1>1 DEF vars, KeyExpires
<1>2. CASE Refresh \/ ListDriver \/ StartOrder \/ SetTemp
  BY <1>0, <1>2 DEF Refresh, ListDriver, StartOrder, SetTemp, Chain, Goto, Handlers
<1>3. CASE RemGeo
  BY <1>0, <1>3 DEF RemGeo, AfterRemGeo, Chain, Goto, Handlers
<1>4. CASE GetOrderid
  BY <1>0, <1>4 DEF GetOrderid, Handlers
<1>5. CASE \/ PutSession \/ PutLifecycle \/ CreateOrder \/ BindDriver \/ PersistOrder
           \/ ClearDriver \/ ClearPassenger
  BY <1>0, <1>5 DEF PutSession, PutLifecycle, CreateOrder, BindDriver, PersistOrder,
       ClearDriver, ClearPassenger, Chain, Goto, Handlers
<1>6. CASE NamePassenger \/ NameDriver
  BY <1>0, <1>6 DEF NamePassenger, NameDriver, Handlers
<1>7. CASE AnswerSession \/ AnswerLocation \/ BindPassenger \/ DropOrder \/ Abandon
  BY <1>0, <1>7 DEF AnswerSession, AnswerLocation, BindPassenger, DropOrder, Abandon
<1>8. ASSUME NEW u \in Users, NEW role \in Roles, Login(u, role) \/ Reg(u, role)
      PROVE  web'.at \in {web.at, "session"} /\ web.at = "idle"
  BY <1>8 DEF Login, Reg, CreateSession, Idle
<1>9. ASSUME NEW s \in Sessions, SetOrder(s) \/ FinishOrder(s)
      PROVE  web'.at \in {"createOrder", "namePassenger"}
  BY <1>9 DEF SetOrder, FinishOrder, HandleFinish, Idle
<1> QED BY <1>1, <1>2, <1>3, <1>4, <1>5, <1>6, <1>7, <1>8, <1>9 DEF Next

\* A booking works on the order, the passenger and the driver that it began with.
LEMMA BookingStep ==
  ASSUME Typed, [Next]_vars, web'.at \in BookingCalls
  PROVE  \/ /\ web.at \in BookingCalls /\ web'.orderid = web.orderid
            /\ web'.sessionid = web.sessionid /\ web'.driver = web.driver
         \/ \E s \in Sessions : SetOrder(s)
<1> USE DEF At, BookingCalls
<1>0. web \in Handlers /\ web' # Idle
  BY DEF Typed, TypeOK, Idle
<1>1. CASE UNCHANGED vars \/ KeyExpires
  BY <1>1 DEF vars, KeyExpires
<1>2. CASE CreateOrder \/ BindDriver
  BY <1>0, <1>2 DEF CreateOrder, BindDriver, Chain, Goto, Handlers
<1>3. CASE \/ PutSession \/ PutLifecycle \/ Refresh \/ ListDriver \/ StartOrder \/ SetTemp
           \/ PersistOrder \/ ClearDriver \/ ClearPassenger
  BY <1>0, <1>3 DEF PutSession, PutLifecycle, Refresh, ListDriver, StartOrder, SetTemp,
       PersistOrder, ClearDriver, ClearPassenger, Chain, Goto, Handlers
<1>4. CASE RemGeo
  BY <1>0, <1>4 DEF RemGeo, AfterRemGeo, Chain, Goto, Handlers
<1>5. CASE GetOrderid
  BY <1>0, <1>5 DEF GetOrderid, FirstCall, Handlers
<1>6. CASE NamePassenger \/ NameDriver
  BY <1>0, <1>6 DEF NamePassenger, NameDriver, Handlers
<1>7. CASE AnswerSession \/ AnswerLocation \/ BindPassenger \/ DropOrder \/ Abandon
  BY <1>0, <1>7 DEF AnswerSession, AnswerLocation, BindPassenger, DropOrder, Abandon
<1>8. ASSUME NEW u \in Users, NEW role \in Roles, Login(u, role) \/ Reg(u, role)
      PROVE  web'.at \in {web.at, "session"} /\ web.at = "idle"
  BY <1>8 DEF Login, Reg, CreateSession, Idle
<1>9. ASSUME NEW s \in Sessions, FinishOrder(s)
      PROVE  web'.at = "namePassenger"
  BY <1>9 DEF FinishOrder, HandleFinish, Idle
<1>10. ASSUME NEW s \in Sessions, NEW status \in Statuses, NEW autosend \in {"yes", "no"},
              LocationChanged(s, status, autosend)
       PROVE  web'.at = "refresh"
  BY <1>10 DEF LocationChanged, Idle
<1> QED BY <1>1, <1>2, <1>3, <1>4, <1>5, <1>6, <1>7, <1>8, <1>9, <1>10 DEF Next

\* A finish works on the order that the driver was told and on the sessions it named.
LEMMA FinishingStep ==
  ASSUME Typed, [Next]_vars, web'.at \in FinishCalls
  PROVE  \/ /\ web.at \in FinishCalls /\ web'.orderid = web.orderid
            /\ web'.sessionid = web.sessionid /\ web'.driver = web.driver
            /\ \/ web'.drivername = web.drivername
               \/ NameDriver /\ web'.drivername = hash[web.driver].username
         \/ /\ \E s \in Sessions : web'.orderid = reply[s].orderid
            /\ web.at = "idle" /\ web'.at = "namePassenger" /\ UNCHANGED hash
            /\ web'.sessionid = PassengerOf(web'.orderid)
            /\ web'.driver = DriverOf(web'.orderid)
<1> USE DEF At, FinishCalls
<1>0. web \in Handlers /\ web' # Idle
  BY DEF Typed, TypeOK, Idle
<1>1. CASE UNCHANGED vars \/ KeyExpires
  BY <1>1 DEF vars, KeyExpires
<1>2. CASE PersistOrder \/ ClearDriver \/ ClearPassenger
  BY <1>0, <1>2 DEF PersistOrder, ClearDriver, ClearPassenger, Chain, Goto, Handlers
<1>3. CASE NamePassenger \/ NameDriver
  BY <1>0, <1>3 DEF NamePassenger, NameDriver, Handlers
<1>4. CASE \/ PutSession \/ PutLifecycle \/ Refresh \/ ListDriver \/ StartOrder \/ SetTemp
           \/ CreateOrder \/ BindDriver
  BY <1>0, <1>4 DEF PutSession, PutLifecycle, Refresh, ListDriver, StartOrder, SetTemp,
       CreateOrder, BindDriver, Chain, Goto, Handlers
<1>5. CASE RemGeo
  BY <1>0, <1>5 DEF RemGeo, AfterRemGeo, Chain, Goto, Handlers
<1>6. CASE GetOrderid
  BY <1>0, <1>6 DEF GetOrderid, FirstCall, Handlers
<1>7. CASE AnswerSession \/ AnswerLocation \/ BindPassenger \/ DropOrder \/ Abandon
  BY <1>0, <1>7 DEF AnswerSession, AnswerLocation, BindPassenger, DropOrder, Abandon
<1>8. ASSUME NEW u \in Users, NEW role \in Roles, Login(u, role) \/ Reg(u, role)
      PROVE  web'.at \in {web.at, "session"} /\ web.at = "idle"
  BY <1>8 DEF Login, Reg, CreateSession, Idle
<1>9. ASSUME NEW s \in Sessions, SetOrder(s)
      PROVE  web'.at = "createOrder"
  BY <1>9 DEF SetOrder, Idle
<1>10. ASSUME NEW s \in Sessions, FinishOrder(s)
       PROVE  /\ web.at = "idle" /\ web'.at = "namePassenger" /\ UNCHANGED hash
              /\ web'.orderid = reply[s].orderid
              /\ web'.sessionid = PassengerOf(web'.orderid)
              /\ web'.driver = DriverOf(web'.orderid)
  BY <1>10 DEF FinishOrder, HandleFinish, Idle
<1>11. ASSUME NEW s \in Sessions, NEW status \in Statuses, NEW autosend \in {"yes", "no"},
              LocationChanged(s, status, autosend)
       PROVE  web'.at = "refresh"
  BY <1>11 DEF LocationChanged, Idle
<1> QED
  BY <1>1, <1>2, <1>3, <1>4, <1>5, <1>6, <1>7, <1>8, <1>9, <1>10, <1>11 DEF Next

\* A booking, a report and a finish write to the hash of the order that they work on, and
\* nothing else does.
LEMMA OrderHashStep ==
  ASSUME Inv, [Next]_vars, NEW o \in Orders
  PROVE  \/ hash'[o] = hash[o]
         \/ web.orderid = o /\ web.at \in {"createOrder", "startOrder", "setTemp"}
         \/ DropOrder /\ web.orderid = o /\ hash'[o] = EmptyHash
<1> USE DEF At
<1>0. /\ Typed /\ TypeOK /\ StoreTypeOK /\ LocalsSet /\ OrdersStay /\ o \in Keys
      /\ web.orderid \in OrderNames /\ web.driver \in SessionNames
      /\ web.sessionid \in SessionNames
  BY DEF Inv, Typed, TypeOK, Keys, Handlers
<1>1. CASE PutSession
  <2> DEFINE w == [username |-> web.username, orderid |-> NONE]
  <2>1. PICK r \in Outcomes : SetHash(web.sessionid, w, r)
    BY <1>1 DEF PutSession
  <2>2. web.sessionid \in Sessions /\ TypedWrite(w)
    BY <1>0, <1>1, WritesTyped DEF PutSession, LocalsSet, SessionCalls
  <2>3. \A j \in Keys \ {web.sessionid} : hash'[j] = hash[j]
    <3> HIDE DEF w
    <3> QED BY <1>0, <2>1, <2>2, SetHashWrites DEF Keys, StoreTypeOK, TypedWrite
  <2> QED BY <1>0, <2>2, <2>3, NamesApart
<1>2. CASE CreateOrder \/ StartOrder \/ SetTemp
  <2>1. PICK r \in Outcomes,
             w \in {[order_status |-> "INIT", passenger_sessionid |-> web.sessionid,
                     driver_sessionid |-> web.driver],
                    [order_status |-> "ACTIVE"], [ptemp |-> "loc"], [dtemp |-> "loc"]} :
          SetHash(web.orderid, w, r) /\ TypedWrite(w)
    BY <1>0, <1>2, WritesTyped DEF CreateOrder, StartOrder, SetTemp
  <2>2. o # web.orderid => hash'[o] = hash[o]
    BY <1>0, <2>1, OrderWritten
  <2> QED BY <1>2, <2>2 DEF CreateOrder, StartOrder, SetTemp
<1>3. CASE BindDriver \/ BindPassenger \/ ClearDriver \/ ClearPassenger
  <2>1. PICK r \in Outcomes, k \in {web.driver, web.sessionid}, x \in {web.orderid, NONE} :
          SetHash(k, [orderid |-> x], r)
    BY <1>3 DEF BindDriver, BindPassenger, ClearDriver, ClearPassenger
  <2>2. k \in SessionNames /\ x \in OrderNames
    BY <1>0 DEF OrderNames
  <2> QED BY <1>0, <2>1, <2>2, OrderidWritten
<1>4. CASE KeyExpires
  BY <1>0, <1>4 DEF KeyExpires, Expire, OrdersStay, StoreTypeOK
<1>5. CASE DropOrder
  BY <1>0, <1>5 DEF DropOrder, DeleteKey, StoreTypeOK
<1>6. CASE \/ UNCHANGED vars \/ AnswerSession \/ GetOrderid \/ AnswerLocation
           \/ NamePassenger \/ NameDriver \/ Abandon \/ PutLifecycle \/ Refresh
           \/ RemGeo \/ ListDriver \/ PersistOrder
  BY <1>6 DEF vars, AnswerSession, GetOrderid, AnswerLocation, NamePassenger,
       NameDriver, Abandon, PutLifecycle, Refresh, SetLifecycle, RemGeo, RemZset, ListDriver,
       AddGeo, PersistOrder, InsertOrder
<1>7. ASSUME NEW u \in Users, NEW role \in Roles, Login(u, role) \/ Reg(u, role)
      PROVE  hash' = hash
  BY <1>7 DEF Login, Reg, InsertUser
<1>8. ASSUME NEW s \in Sessions, SetOrder(s) \/ FinishOrder(s)
      PROVE  hash' = hash
  BY <1>8 DEF SetOrder, FinishOrder, HandleFinish
<1>9. ASSUME NEW s \in Sessions, NEW status \in Statuses, NEW autosend \in {"yes", "no"},
             LocationChanged(s, status, autosend)
      PROVE  hash' = hash
  BY <1>9 DEF LocationChanged
<1> QED BY <1>1, <1>2, <1>3, <1>4, <1>5, <1>6, <1>7, <1>8, <1>9 DEF Next

\* The number of faults never falls.
LEMMA FaultsRise == Typed /\ [Next]_vars => faults' \in Nat /\ faults' >= faults
<1> SUFFICES ASSUME Typed, [Next]_vars PROVE faults' \in Nat /\ faults' >= faults
  OBVIOUS
<1>0. faults \in Nat
  BY MaxFaultsType DEF Typed, TypeOK
<1>1. ASSUME faults' = faults \/ \E r \in Outcomes : Fault(r)
      PROVE  faults' \in Nat /\ faults' >= faults
  BY <1>0, <1>1, FaultRises
<1>2. CASE \/ UNCHANGED vars \/ AnswerSession \/ GetOrderid \/ NamePassenger \/ NameDriver
           \/ KeyExpires
  BY <1>1, <1>2 DEF vars, AnswerSession, GetOrderid, NamePassenger, NameDriver, KeyExpires
<1>3. CASE \/ PutSession \/ PutLifecycle \/ CreateOrder \/ BindDriver \/ BindPassenger
           \/ Refresh \/ RemGeo \/ ListDriver \/ StartOrder \/ SetTemp \/ AnswerLocation
           \/ PersistOrder \/ ClearDriver \/ ClearPassenger \/ DropOrder
  BY <1>1, <1>3 DEF PutSession, PutLifecycle, CreateOrder, BindDriver, BindPassenger,
       Refresh, RemGeo, ListDriver, StartOrder, SetTemp, AnswerLocation, PersistOrder,
       ClearDriver, ClearPassenger, DropOrder, Outcomes
<1>4. CASE Abandon
  BY <1>0, <1>4 DEF Abandon
<1>5. ASSUME NEW u \in Users, NEW role \in Roles, Login(u, role) \/ Reg(u, role)
      PROVE  faults' = faults \/ \E r \in Outcomes : Fault(r)
  BY <1>5 DEF Login, Reg
<1>6. ASSUME NEW s \in Sessions, SetOrder(s) \/ FinishOrder(s)
      PROVE  faults' = faults
  BY <1>6 DEF SetOrder, FinishOrder, HandleFinish
<1>7. ASSUME NEW s \in Sessions, NEW status \in Statuses, NEW autosend \in {"yes", "no"},
             LocationChanged(s, status, autosend)
      PROVE  faults' = faults
  BY <1>7 DEF LocationChanged
<1> QED BY <1>1, <1>2, <1>3, <1>4, <1>5, <1>6, <1>7 DEF Next

\* As long as nothing has failed, a call that is made is done.
LEMMA FaultFree ==
  ASSUME Typed, NEW r, Fault(r), faults' = 0 PROVE r = "done" /\ faults = 0
  BY MaxFaultsType DEF Fault, Typed, TypeOK

-----------------------------------------------------------------------------
(* A stored ride is over everywhere.                                       *)

\* An order with a row is being taken out of Redis, or nothing there names it any more.
OverOrLeaving(o) ==
  \/ web.at \in AfterInsert /\ web.orderid = o
  \/ ~Exists(o) /\ \A s \in Sessions : ~Holds(s, o)
StoredAreOver == \A o \in Orders : rides[o] # NoRide => OverOrLeaving(o)

\* Bookings and reports, which would bring the hash of an order back, work on orders
\* that have no row.
WorkIsUnstored ==
  web.at \in BookingCalls \cup ReportCalls /\ web.orderid \in Orders =>
    rides[web.orderid] = NoRide

OverInv == faults = 0 => StoredAreOver /\ WorkIsUnstored

\* Without a fault, a handler that stored a row makes the three calls that are left.
LEMMA LeavingGoesOn ==
  ASSUME Inv, [Next]_vars, faults' = 0, web.at \in AfterInsert
  PROVE  \/ web'.at \in AfterInsert /\ web'.orderid = web.orderid
         \/ DropOrder /\ \A o \in Orders : web.orderid = o => ~Exists(o)'
<1> USE DEF At, AfterInsert
<1>0. web \in Handlers /\ Typed /\ hash \in [Keys -> [Fields -> Values]] /\ faults \in Nat
  BY MaxFaultsType DEF Inv, Typed, TypeOK, StoreTypeOK
<1>1. CASE UNCHANGED vars \/ KeyExpires
  BY <1>1 DEF vars, KeyExpires
<1>2. CASE ClearDriver \/ ClearPassenger
  <2>1. PICK r \in Outcomes, l \in {"clearPassenger", "deleteKey"} :
          Fault(r) /\ Chain(r = "done", l)
    BY <1>2 DEF ClearDriver, ClearPassenger
  <2>2. Goto(l)
    BY <1>0, <2>1, FaultFree DEF Chain
  <2> QED BY <1>0, <2>1, <2>2 DEF Goto, Handlers
<1>3. CASE DropOrder
  <2>1. PICK r \in Outcomes : DeleteKey(web.orderid, r) /\ Fault(r)
    BY <1>3 DEF DropOrder
  <2>2. r = "done"
    BY <1>0, <2>1, FaultFree
  <2>3. hash' = [hash EXCEPT ![web.orderid] = EmptyHash]
    BY <2>1, <2>2 DEF DeleteKey, Executed
  <2>4. \A o \in Orders : web.orderid = o => ~Exists(o)'
    BY <1>0, <2>3 DEF Exists, Keys
  <2> QED BY <1>3, <2>4
<1>4. ~Abandon
  BY <1>0 DEF Abandon
<1>5. /\ ~PutSession /\ ~PutLifecycle /\ ~AnswerSession /\ ~CreateOrder /\ ~BindDriver
      /\ ~BindPassenger /\ ~Refresh /\ ~GetOrderid /\ ~RemGeo /\ ~ListDriver /\ ~StartOrder
      /\ ~SetTemp /\ ~AnswerLocation /\ ~NamePassenger /\ ~NameDriver /\ ~PersistOrder
  BY DEF PutSession, PutLifecycle, AnswerSession, CreateOrder, BindDriver, BindPassenger,
       Refresh, GetOrderid, RemGeo, ListDriver, StartOrder, SetTemp, AnswerLocation,
       NamePassenger, NameDriver, PersistOrder
<1>6. /\ \A u \in Users, role \in Roles : ~Login(u, role) /\ ~Reg(u, role)
      /\ \A s \in Sessions : ~SetOrder(s) /\ ~FinishOrder(s)
      /\ \A s \in Sessions, status \in Statuses, autosend \in {"yes", "no"} :
           ~LocationChanged(s, status, autosend)
  BY DEF Login, Reg, SetOrder, FinishOrder, HandleFinish, LocationChanged
<1> QED BY <1>1, <1>2, <1>3, <1>4, <1>5, <1>6 DEF Next

\* Before the first request no ride is stored.
LEMMA InitOver == Init => OverInv
  BY NamesApart DEF Init, StoreInit, OrderNames, OverInv, StoredAreOver, WorkIsUnstored, Idle,
     BookingCalls, ReportCalls

\* No step breaks it.
LEMMA NextOver == Inv /\ LifeInv /\ OverInv /\ [Next]_vars => OverInv'
<1> SUFFICES ASSUME Inv, LifeInv, OverInv, [Next]_vars, faults' = 0
             PROVE  StoredAreOver' /\ WorkIsUnstored'
  BY DEF OverInv
<1>0. Typed /\ faults = 0 /\ StoredAreOver /\ WorkIsUnstored /\ OrdersHeldByTheirParties
  <2>1. Typed /\ faults \in Nat
    BY MaxFaultsType DEF Inv, Typed, TypeOK
  <2> QED BY <2>1, FaultsRise DEF OverInv, Inv
<1>1. ASSUME NEW o \in Orders, rides'[o] # NoRide PROVE OverOrLeaving(o)'
  <2>1. CASE rides[o] = NoRide
    <3>1. PersistOrder /\ web.orderid = o /\ web \in Handlers
      BY <1>1, <2>1, RidesStep DEF Inv, Typed, TypeOK
    <3>2. PICK r \in Outcomes : Fault(r) /\ Chain(r = "done", "clearDriver")
      BY <2>1, <3>1 DEF PersistOrder
    <3>3. Goto("clearDriver")
      BY <1>0, <3>2, FaultFree DEF Chain
    <3> QED BY <3>1, <3>3 DEF Goto, Handlers, OverOrLeaving, AfterInsert
  <2>2. CASE rides[o] # NoRide /\ web.at \in AfterInsert /\ web.orderid = o
    <3>1. CASE web'.at \in AfterInsert /\ web'.orderid = web.orderid
      BY <2>2, <3>1 DEF OverOrLeaving
    <3>2. CASE DropOrder /\ ~Exists(o)'
      <4>1. ASSUME NEW s \in Sessions, Holds(s, o) PROVE FALSE
        <5>1. web.at = "deleteKey" /\ web.orderid = o
          BY <2>2, <3>2 DEF DropOrder, At
        <5>2. s \in Parties(o)
          BY <1>0, <4>1 DEF OrdersHeldByTheirParties
        <5>3. FinishNames /\ DriverUnbound /\ PassengerUnbound
          BY DEF Inv, FinishInv
        <5> QED BY <4>1, <5>1, <5>2, <5>3 DEF Parties, FinishNames, FinishCalls,
              NamesItsParties, DriverUnbound, PassengerUnbound, At
      <4>2. \A s \in Sessions : ~Holds(s, o)'
        BY <2>2, <3>2, <4>1, HoldsStep DEF Holds, DropOrder, At
      <4> QED BY <3>2, <4>2 DEF OverOrLeaving
    <3> QED BY <2>2, <3>1, <3>2, LeavingGoesOn
  <2>3. CASE rides[o] # NoRide /\ ~(web.at \in AfterInsert /\ web.orderid = o)
    <3>1. ~Exists(o) /\ \A s \in Sessions : ~Holds(s, o)
      BY <1>0, <2>3 DEF StoredAreOver, OverOrLeaving
    <3>2. ~(web.orderid = o /\ web.at \in BookingCalls \cup ReportCalls)
      BY <1>0, <2>3 DEF WorkIsUnstored
    <3>3. ~Exists(o)'
      BY <3>1, <3>2, OrderHashStep DEF Exists, BookingCalls, ReportCalls
    <3>4. \A s \in Sessions : ~Holds(s, o)'
      BY <3>1, <3>2, HoldsStep DEF Holds, BookingCalls
    <3> QED BY <3>3, <3>4 DEF OverOrLeaving
  <2> QED BY <2>1, <2>2, <2>3
<1>2. ASSUME NEW o \in Orders, web'.at \in BookingCalls \cup ReportCalls, web'.orderid = o
      PROVE  rides'[o] = NoRide
  <2>1. CASE web.at \in BookingCalls \cup ReportCalls /\ web.orderid = o
    <3>1. rides[o] = NoRide /\ ~PersistOrder
      BY <1>0, <2>1 DEF WorkIsUnstored, PersistOrder, At, BookingCalls, ReportCalls
    <3> QED BY <3>1, RidesStep
  <2>2. CASE \E s \in Sessions : SetOrder(s)
    <3>1. UNCHANGED rides /\ o \notin issued
      BY <1>2, <2>2 DEF SetOrder, Idle
    <3> QED BY <3>1 DEF LifeInv, PlacedWereIssued, Placed
  <2>3. CASE GetOrderid /\ o = hash[web.sessionid].orderid
    <3>1. web.sessionid \in Sessions /\ Holds(web.sessionid, o) /\ UNCHANGED rides
      BY <1>0, <2>3 DEF GetOrderid, At, Typed, LocalsSet, SessionCalls, Holds
    <3>2. web.at \notin AfterInsert
      BY <2>3 DEF GetOrderid, At, AfterInsert
    <3> QED BY <1>0, <3>1, <3>2 DEF StoredAreOver, OverOrLeaving
  <2>4. ASSUME NEW s \in Sessions, NEW status \in Statuses, NEW autosend \in {"yes", "no"},
               LocationChanged(s, status, autosend)
        PROVE  FALSE
    BY <1>2, <2>4, NamesApart DEF LocationChanged, Idle
  <2> QED BY <1>0, <1>2, <2>1, <2>2, <2>3, <2>4, ReportStep, BookingStep
<1> QED BY <1>1, <1>2 DEF StoredAreOver, WorkIsUnstored

\* As long as nothing fails, the orders that have a row are over or being ended.
THEOREM OverAlways == Spec => []OverInv
<1>1. Init => OverInv
  BY InitOver
<1>2. Inv /\ LifeInv /\ OverInv /\ [Next]_vars => OverInv'
  BY NextOver
<1> QED BY <1>1, <1>2, InvAlways, LifeAlways, PTL DEF Spec

\* Without a fault, a stored ride is over everywhere once its finish is answered.
THEOREM StoredRidesOver == Spec => []StoredRidesAreOver
<1>1. OverInv => StoredRidesAreOver
  BY DEF OverInv, StoredAreOver, OverOrLeaving, AfterInsert, StoredRidesAreOver, At
<1> QED BY <1>1, OverAlways, PTL

-----------------------------------------------------------------------------
(* A driver that is not ready is not offered.                              *)

\* Without a fault, the handler of a report makes the calls of its branch one by one, and
\* the first call of a driver's branch takes the driver out of the pool.
LEMMA ReportGoesOn ==
  ASSUME Typed, [Next]_vars, faults' = 0, web'.at \in ReportCalls
  PROVE  \/ web' = web /\ pool' = pool
         \/ web'.at \in {"refresh", "getOrderid"}
         \/ GetOrderid /\ web'.at = FirstCall(web.role, web.status)
         \/ /\ RemGeo /\ pool' = pool \ {web.sessionid}
            /\ web'.at = "addGeo" => web.status = "ready"
         \/ ListDriver /\ web'.at = "answerLocation"
         \/ /\ web.at \in {"startOrder", "setTemp"} /\ pool' = pool
            /\ web'.at \in {"setTemp", "answerLocation"}
<1> USE DEF At, ReportCalls
<1>0. web \in Handlers /\ web' # Idle
  BY DEF Typed, TypeOK, Idle
<1>1. CASE UNCHANGED vars \/ KeyExpires
  BY <1>1 DEF vars, KeyExpires, Expire
<1>2. CASE Refresh
  BY <1>0, <1>2 DEF Refresh, Chain, Goto, Handlers
<1>3. CASE GetOrderid
  BY <1>0, <1>3 DEF GetOrderid, Handlers
<1>4. CASE RemGeo
  <2>1. PICK r \in Outcomes : RemZset(web.sessionid, r) /\ Fault(r) /\ AfterRemGeo(r)
    BY <1>4 DEF RemGeo
  <2>2. r = "done"
    BY <2>1, FaultFree
  <2>3. pool' = pool \ {web.sessionid}
    BY <2>1, <2>2 DEF RemZset, Executed
  <2>4. web'.at = "addGeo" => web.status = "ready"
    BY <1>0, <2>1, <2>2 DEF AfterRemGeo, Chain, Goto, Handlers, STATUS_DRIVER_IDLE,
         STATUS_DRIVER_READY
  <2> QED BY <1>4, <2>3, <2>4
<1>5. CASE ListDriver
  BY <1>0, <1>5 DEF ListDriver, Goto, Handlers
<1>6. CASE StartOrder \/ SetTemp
  BY <1>0, <1>6 DEF StartOrder, SetTemp, SetHash, Goto, Handlers
<1>7. CASE PutSession \/ PutLifecycle \/ CreateOrder \/ BindDriver \/ PersistOrder
           \/ ClearDriver \/ ClearPassenger
  BY <1>0, <1>7 DEF PutSession, PutLifecycle, CreateOrder, BindDriver, PersistOrder,
       ClearDriver, ClearPassenger, Chain, Goto, Handlers
<1>8. CASE NamePassenger \/ NameDriver
  BY <1>0, <1>8 DEF NamePassenger, NameDriver, Handlers
<1>9. CASE AnswerSession \/ AnswerLocation \/ BindPassenger \/ DropOrder \/ Abandon
  BY <1>0, <1>9 DEF AnswerSession, AnswerLocation, BindPassenger, DropOrder, Abandon
<1>10. ASSUME NEW u \in Users, NEW role \in Roles, Login(u, role) \/ Reg(u, role)
       PROVE  web'.at \in {web.at, "session"} /\ web.at = "idle"
  BY <1>10 DEF Login, Reg, CreateSession, Idle
<1>11. ASSUME NEW s \in Sessions, SetOrder(s) \/ FinishOrder(s)
       PROVE  web'.at \in {"createOrder", "namePassenger"}
  BY <1>11 DEF SetOrder, FinishOrder, HandleFinish, Idle
<1>12. ASSUME NEW s \in Sessions, NEW status \in Statuses, NEW autosend \in {"yes", "no"},
              LocationChanged(s, status, autosend)
       PROVE  web'.at = "refresh"
  BY <1>12 DEF LocationChanged, Idle
<1> QED
  BY <1>1, <1>2, <1>3, <1>4, <1>5, <1>6, <1>7, <1>8, <1>9, <1>10, <1>11, <1>12 DEF Next

\* A driver is listed by the last call but one of its report that it is ready.
LEMMA ListedStep ==
  ASSUME Typed, [Next]_vars, NEW s \in pool', s \notin pool
  PROVE  /\ s = web.sessionid /\ web.at = "addGeo" /\ web'.at = "answerLocation"
         /\ web'.sessionid = web.sessionid /\ web'.status = web.status
         /\ reply' = reply
<1>1. web.at = "addGeo" /\ s = web.sessionid
  BY PoolStep
<1>2. web \in Handlers
  BY DEF Typed, TypeOK
<1>3. ListDriver
  BY <1>1 DEF Next, vars, At, Idle, PutSession, PutLifecycle, AnswerSession, CreateOrder,
     BindDriver, BindPassenger, Refresh, GetOrderid, RemGeo, StartOrder, SetTemp,
     AnswerLocation, NamePassenger, NameDriver, PersistOrder, ClearDriver, ClearPassenger,
     DropOrder, Abandon, KeyExpires, Expire, Login, Reg, SetOrder, FinishOrder, HandleFinish,
     LocationChanged
<1> QED BY <1>1, <1>2, <1>3 DEF ListDriver, Goto, Handlers

\* An app's status is set by the answer to its login, which says idle, and by the answers
\* to its reports, which echo it.
LEMMA StatusStep ==
  ASSUME Typed, [Next]_vars, NEW s \in Sessions
  PROVE  \/ reply'[s].status = reply[s].status
         \/ reply'[s].status = "idle"
         \/ AnswerLocation /\ s = web.sessionid /\ reply'[s].status = web.status
<1> USE DEF At
<1>0. reply \in [Sessions -> Replies]
  BY DEF Typed, TypeOK
<1>1. CASE AnswerSession
  BY <1>0, <1>1 DEF AnswerSession, Replies
<1>2. CASE AnswerLocation
  BY <1>0, <1>2 DEF AnswerLocation, Replies
<1>3. CASE \/ UNCHANGED vars \/ KeyExpires \/ PutSession \/ PutLifecycle \/ CreateOrder
           \/ BindDriver \/ BindPassenger \/ Refresh \/ GetOrderid \/ RemGeo \/ ListDriver
           \/ StartOrder \/ SetTemp \/ NamePassenger \/ NameDriver \/ PersistOrder
           \/ ClearDriver \/ ClearPassenger \/ DropOrder \/ Abandon
  BY <1>3 DEF vars, KeyExpires, PutSession, PutLifecycle, CreateOrder, BindDriver,
       BindPassenger, Refresh, GetOrderid, RemGeo, ListDriver, StartOrder, SetTemp,
       NamePassenger, NameDriver, PersistOrder, ClearDriver, ClearPassenger, DropOrder, Abandon
<1>4. ASSUME NEW u \in Users, NEW role \in Roles, Login(u, role) \/ Reg(u, role)
      PROVE  reply' = reply
  BY <1>4 DEF Login, Reg
<1>5. ASSUME NEW x \in Sessions, SetOrder(x) \/ FinishOrder(x)
      PROVE  reply' = reply
  BY <1>5 DEF SetOrder, FinishOrder, HandleFinish
<1>6. ASSUME NEW x \in Sessions, NEW status \in Statuses, NEW autosend \in {"yes", "no"},
             LocationChanged(x, status, autosend)
      PROVE  reply' = reply
  BY <1>6 DEF LocationChanged
<1> QED BY <1>1, <1>2, <1>3, <1>4, <1>5, <1>6 DEF Next

\* A listed driver is not busy, except between the call that lists it and the answer.
BusyStatuses == {"catching", "driving"}
ListedAreReady ==
  \A s \in pool : reply[s].status \in BusyStatuses =>
    At("answerLocation") /\ s = web.sessionid /\ web.status = "ready"

\* Once a busy driver's report is past remGeo, the driver is not listed.
ReportedAreUnlisted ==
  /\ web.at \in {"startOrder", "setTemp", "answerLocation"} /\ web.role = "driver"
       /\ web.status \in BusyStatuses => web.sessionid \notin pool
  /\ At("addGeo") => web.status = "ready"

BusyInv == faults = 0 => ListedAreReady /\ ReportedAreUnlisted

\* Before the first request no driver is listed.
LEMMA InitBusy == Init => BusyInv
  BY DEF Init, StoreInit, BusyInv, ListedAreReady, ReportedAreUnlisted, Idle, At

\* No step breaks it.
LEMMA NextBusy == Inv /\ PartyInv /\ BusyInv /\ [Next]_vars => BusyInv'
<1> SUFFICES ASSUME Inv, PartyInv, BusyInv, [Next]_vars, faults' = 0
             PROVE  ListedAreReady' /\ ReportedAreUnlisted'
  BY DEF BusyInv
<1> USE DEF At, BusyStatuses
<1>0. /\ Typed /\ faults = 0 /\ ListedAreReady /\ ReportedAreUnlisted
      /\ web \in Handlers /\ pool \subseteq Sessions
  <2>1. Typed /\ faults \in Nat
    BY MaxFaultsType DEF Inv, Typed, TypeOK
  <2> QED BY <2>1, FaultsRise DEF BusyInv, Typed, TypeOK, StoreTypeOK
<1>1. ASSUME NEW s \in pool', reply'[s].status \in BusyStatuses
      PROVE  web'.at = "answerLocation" /\ s = web'.sessionid /\ web'.status = "ready"
  <2>1. CASE s \notin pool
    BY <1>0, <2>1, ListedStep DEF ReportedAreUnlisted
  <2>2. CASE s \in pool /\ reply[s].status \in BusyStatuses
    <3>1. web.at = "answerLocation" /\ s = web.sessionid /\ web.status = "ready"
      BY <1>0, <2>2 DEF ListedAreReady
    <3>2. ~AnswerLocation
      BY <1>0, <1>1, <2>2, <3>1 DEF AnswerLocation, Typed, TypeOK, Replies
    <3>3. web' = web
      BY <1>0, <3>1, <3>2 DEF Next, vars, Idle, PutSession, PutLifecycle, AnswerSession,
         CreateOrder, BindDriver, BindPassenger, Refresh, GetOrderid, RemGeo, ListDriver,
         StartOrder, SetTemp, NamePassenger, NameDriver, PersistOrder, ClearDriver,
         ClearPassenger, DropOrder, Abandon, KeyExpires, Login, Reg, SetOrder, FinishOrder,
         HandleFinish, LocationChanged
    <3> QED BY <3>1, <3>3
  <2>3. CASE s \in pool /\ reply[s].status \notin BusyStatuses
    <3>1. AnswerLocation /\ s = web.sessionid /\ web.status \in BusyStatuses
      BY <1>0, <1>1, <2>3, StatusStep
    <3>2. web.role = "driver"
      BY <2>3, <3>1 DEF PartyInv, DriversListed, ReportersAct, AnswerLocation, ReportCalls
    <3> QED BY <1>0, <2>3, <3>1, <3>2 DEF ReportedAreUnlisted, AnswerLocation
  <2> QED BY <2>1, <2>2, <2>3
<1>2. ReportedAreUnlisted'
  <2>1. CASE web'.at \notin ReportCalls
    BY <2>1 DEF ReportedAreUnlisted, ReportCalls
  <2>2. CASE web'.at \in ReportCalls
    <3>1. CASE web' = web /\ pool' = pool
      BY <1>0, <3>1 DEF ReportedAreUnlisted
    <3>2. CASE GetOrderid /\ web'.at = FirstCall(web.role, web.status)
      BY <1>0, <3>2 DEF ReportedAreUnlisted, GetOrderid, FirstCall, Handlers,
         STATUS_DRIVER_DRIVE, STATUS_DRIVER_CATCH, STATUS_DRIVER_IDLE, STATUS_DRIVER_READY,
         STATUS_PASSENGER_TRAVEL, STATUS_PASSENGER_WAIT
    <3>3. CASE web'.at \in {"refresh", "getOrderid"}
      BY <3>3 DEF ReportedAreUnlisted
    <3>4. CASE web.at \in {"remGeo", "addGeo", "startOrder", "setTemp"}
      <4>1. web'.sessionid = web.sessionid /\ web'.status = web.status /\ web'.role = web.role
        BY <1>0, <2>2, <3>4, ReportStep DEF LocationChanged
      <4> QED
        BY <1>0, <2>2, <3>3, <3>4, <4>1, ReportGoesOn DEF ReportedAreUnlisted, RemGeo,
           ListDriver, GetOrderid
    <3>5. (RemGeo => web.at = "remGeo") /\ (ListDriver => web.at = "addGeo")
      BY DEF RemGeo, ListDriver
    <3> QED BY <1>0, <2>2, <3>1, <3>2, <3>3, <3>4, <3>5, ReportGoesOn
  <2> QED BY <2>1, <2>2
<1> QED BY <1>1, <1>2 DEF ListedAreReady

\* As long as nothing fails, only ready drivers stay listed.
THEOREM BusyAlways == Spec => []BusyInv
<1>1. Init => BusyInv
  BY InitBusy
<1>2. Inv /\ PartyInv /\ BusyInv /\ [Next]_vars => BusyInv'
  BY NextBusy
<1> QED BY <1>1, <1>2, InvAlways, PartyAlways, PTL DEF Spec

\* Without a fault, a driver that was last told catching or driving is not offered.
THEOREM BusyUnlisted == Spec => []BusyDriversUnlisted
<1>1. BusyInv => BusyDriversUnlisted
  BY DEF BusyInv, ListedAreReady, BusyDriversUnlisted, BusyStatuses, At
<1> QED BY <1>1, BusyAlways, PTL

-----------------------------------------------------------------------------
(* What one step may take from a session, and from the hashes of no order. *)

\* A session lets go of an order when it is put, bound, cleared or expires, and in no
\* other way.
LEMMA HoldsLost ==
  ASSUME Inv, [Next]_vars, NEW s \in Sessions, NEW o,
         Holds(s, o), ~Holds(s, o)'
  PROVE  \/ PutSession /\ web.sessionid = s
         \/ BindDriver /\ web.driver = s /\ web.orderid # o
         \/ BindPassenger /\ web.sessionid = s
         \/ ClearDriver /\ web.driver = s
         \/ ClearPassenger /\ web.sessionid = s
         \/ KeyExpires /\ hash'[s].username = Nil /\ hash'[s].orderid = Nil
<1> USE DEF At
<1>0. /\ Typed /\ StoreTypeOK /\ LocalsSet /\ web \in Handlers /\ s \in Keys
      /\ web.orderid \in OrderNames /\ web.driver \in SessionNames
      /\ web.sessionid \in SessionNames /\ hash'[s] # hash[s]
      /\ hash'[s].orderid # hash[s].orderid
  BY DEF Inv, Typed, TypeOK, Keys, Handlers, Holds
<1>1. CASE PutSession
  <2> DEFINE w == [username |-> web.username, orderid |-> NONE]
  <2>1. PICK r \in Outcomes : SetHash(web.sessionid, w, r)
    BY <1>1 DEF PutSession
  <2>2. /\ web.sessionid \in Keys /\ TypedWrite(w)
    BY <1>0, <1>1, WritesTyped, KeysTyped DEF PutSession
  <2>3. \A j \in Keys \ {web.sessionid} : hash'[j] = hash[j]
    <3> HIDE DEF w
    <3> QED BY <1>0, <2>1, <2>2, SetHashWrites DEF StoreTypeOK, TypedWrite
  <2> QED BY <1>0, <1>1, <2>3
<1>2. CASE CreateOrder \/ StartOrder \/ SetTemp
  <2>1. PICK r \in Outcomes,
             w \in {[order_status |-> "INIT", passenger_sessionid |-> web.sessionid,
                     driver_sessionid |-> web.driver],
                    [order_status |-> "ACTIVE"], [ptemp |-> "loc"], [dtemp |-> "loc"]} :
          SetHash(web.orderid, w, r) /\ TypedWrite(w)
    BY <1>0, <1>2, WritesTyped DEF CreateOrder, StartOrder, SetTemp
  <2> QED BY <1>0, <2>1, OrderWritten
<1>3. CASE BindDriver
  <2>1. PICK r \in Outcomes : SetHash(web.driver, [orderid |-> web.orderid], r)
    BY <1>3 DEF BindDriver
  <2>2. s = web.driver /\ hash'[s].orderid = web.orderid
    BY <1>0, <2>1, OrderidWritten
  <2> QED BY <1>3, <2>2 DEF Holds
<1>4. CASE BindPassenger \/ ClearDriver \/ ClearPassenger
  <2>1. PICK r \in Outcomes, k \in {web.driver, web.sessionid}, x \in {web.orderid, NONE} :
          /\ SetHash(k, [orderid |-> x], r)
          /\ (BindPassenger \/ ClearPassenger => k = web.sessionid)
          /\ (ClearDriver => k = web.driver)
    BY <1>4 DEF BindPassenger, ClearDriver, ClearPassenger
  <2>2. k \in SessionNames /\ x \in OrderNames
    BY <1>0 DEF OrderNames
  <2>3. s = k
    BY <1>0, <2>1, <2>2, OrderidWritten
  <2> QED BY <1>4, <2>1, <2>3
<1>5. CASE KeyExpires
  <2>1. hash'[s] = EmptyHash
    BY <1>0, <1>5 DEF KeyExpires, Expire, StoreTypeOK
  <2> QED BY <1>5, <2>1 DEF EmptyHash, Fields
<1>6. CASE DropOrder
  BY <1>0, <1>6, NamesApart DEF DropOrder, DeleteKey, StoreTypeOK, OrderNames
<1>7. CASE \/ UNCHANGED vars \/ AnswerSession \/ GetOrderid \/ AnswerLocation
           \/ NamePassenger \/ NameDriver \/ Abandon \/ PutLifecycle \/ Refresh
           \/ RemGeo \/ ListDriver \/ PersistOrder
  BY <1>0, <1>7 DEF vars, AnswerSession, GetOrderid, AnswerLocation, NamePassenger,
       NameDriver, Abandon, PutLifecycle, Refresh, SetLifecycle, RemGeo, RemZset, ListDriver,
       AddGeo, PersistOrder, InsertOrder
<1>8. ASSUME NEW u \in Users, NEW role \in Roles PROVE ~Login(u, role) /\ ~Reg(u, role)
  BY <1>0, <1>8 DEF Login, Reg, InsertUser
<1>9. ASSUME NEW x \in Sessions PROVE ~SetOrder(x) /\ ~FinishOrder(x)
  BY <1>0, <1>9 DEF SetOrder, FinishOrder, HandleFinish
<1>10. ASSUME NEW x \in Sessions, NEW status \in Statuses, NEW autosend \in {"yes", "no"}
       PROVE  ~LocationChanged(x, status, autosend)
  BY <1>0, <1>10 DEF LocationChanged
<1> QED BY <1>1, <1>2, <1>3, <1>4, <1>5, <1>6, <1>7, <1>8, <1>9, <1>10 DEF Next

\* The name of a session that an app knows is never written again: it stays or it goes.
LEMMA NamesFall ==
  ASSUME Inv, AccountInv, [Next]_vars, NEW s \in Sessions, reply[s].role # Nil
  PROVE  hash'[s].username \in {hash[s].username, Nil}
<1> USE DEF At
<1>0. /\ Typed /\ StoreTypeOK /\ LocalsSet /\ s \in Keys
      /\ web.orderid \in OrderNames /\ web.driver \in SessionNames
      /\ web.sessionid \in SessionNames /\ web.orderid # s
  BY NamesApart DEF Inv, Typed, TypeOK, Keys, Handlers, OrderNames
<1>1. CASE PutSession
  <2> DEFINE w == [username |-> web.username, orderid |-> NONE]
  <2>1. PICK r \in Outcomes : SetHash(web.sessionid, w, r)
    BY <1>1 DEF PutSession
  <2>2. /\ web.sessionid \in Keys /\ TypedWrite(w) /\ web.sessionid # s
    BY <1>0, <1>1, WritesTyped, KeysTyped DEF PutSession, AccountInv, LoginKnows, LoginCalls
  <2>3. \A j \in Keys \ {web.sessionid} : hash'[j] = hash[j]
    <3> HIDE DEF w
    <3> QED BY <1>0, <2>1, <2>2, SetHashWrites DEF StoreTypeOK, TypedWrite
  <2> QED BY <1>0, <2>2, <2>3
<1>2. CASE CreateOrder \/ StartOrder \/ SetTemp
  <2>1. PICK r \in Outcomes,
             w \in {[order_status |-> "INIT", passenger_sessionid |-> web.sessionid,
                     driver_sessionid |-> web.driver],
                    [order_status |-> "ACTIVE"], [ptemp |-> "loc"], [dtemp |-> "loc"]} :
          SetHash(web.orderid, w, r) /\ TypedWrite(w)
    BY <1>0, <1>2, WritesTyped DEF CreateOrder, StartOrder, SetTemp
  <2> QED BY <1>0, <2>1, OrderWritten
<1>3. CASE BindDriver \/ BindPassenger \/ ClearDriver \/ ClearPassenger
  <2>1. PICK r \in Outcomes, k \in {web.driver, web.sessionid}, x \in {web.orderid, NONE} :
          SetHash(k, [orderid |-> x], r)
    BY <1>3 DEF BindDriver, BindPassenger, ClearDriver, ClearPassenger
  <2>2. k \in Keys /\ TypedWrite([orderid |-> x])
    BY <1>0, <2>1, KeysTyped, WritesTyped
  <2>3. NamesStay
    BY <1>0, <2>1, <2>2, NamesUnwritten
  <2> QED BY <2>3 DEF NamesStay
<1>4. CASE KeyExpires
  BY <1>0, <1>4 DEF KeyExpires, Expire, EmptyHash, Fields, StoreTypeOK
<1>5. CASE DropOrder
  BY <1>0, <1>5 DEF DropOrder, DeleteKey, StoreTypeOK
<1>6. CASE \/ UNCHANGED vars \/ AnswerSession \/ GetOrderid \/ AnswerLocation
           \/ NamePassenger \/ NameDriver \/ Abandon \/ PutLifecycle \/ Refresh
           \/ RemGeo \/ ListDriver \/ PersistOrder
  BY <1>6 DEF vars, AnswerSession, GetOrderid, AnswerLocation, NamePassenger,
       NameDriver, Abandon, PutLifecycle, Refresh, SetLifecycle, RemGeo, RemZset, ListDriver,
       AddGeo, PersistOrder, InsertOrder
<1>7. ASSUME NEW u \in Users, NEW role \in Roles, Login(u, role) \/ Reg(u, role)
      PROVE  hash' = hash
  BY <1>7 DEF Login, Reg, InsertUser
<1>8. ASSUME NEW x \in Sessions, SetOrder(x) \/ FinishOrder(x)
      PROVE  hash' = hash
  BY <1>8 DEF SetOrder, FinishOrder, HandleFinish
<1>9. ASSUME NEW x \in Sessions, NEW status \in Statuses, NEW autosend \in {"yes", "no"},
             LocationChanged(x, status, autosend)
      PROVE  hash' = hash
  BY <1>9 DEF LocationChanged
<1> QED BY <1>1, <1>2, <1>3, <1>4, <1>5, <1>6, <1>7, <1>8, <1>9 DEF Next

\* The hashes "NONE" and "", which a request without an order writes to, are never given
\* a passenger or a driver.
LEMMA StrayStep ==
  ASSUME Inv, [Next]_vars, NEW k \in {NONE, Nil}
  PROVE  /\ PassengerOf(k)' \in {PassengerOf(k), Nil}
         /\ DriverOf(k)' \in {DriverOf(k), Nil}
<1> USE DEF At
<1>0. /\ Typed /\ StoreTypeOK /\ LocalsSet /\ k \in Keys
      /\ web.orderid \in Keys /\ web.driver \in Keys /\ web.sessionid \in Keys
      /\ k \notin Sessions /\ k \notin Orders
      /\ hash \in [Keys -> [Fields -> Values]]
  BY KeysTyped, NamesApart DEF Inv, Typed, TypeOK, Keys, StoreTypeOK
<1>1. CASE PutSession
  <2> DEFINE w == [username |-> web.username, orderid |-> NONE]
  <2>1. PICK r \in Outcomes : SetHash(web.sessionid, w, r)
    BY <1>1 DEF PutSession
  <2>2. TypedWrite(w) /\ web.sessionid # k
    BY <1>0, <1>1, WritesTyped DEF PutSession, LocalsSet, SessionCalls
  <2>3. \A j \in Keys \ {web.sessionid} : hash'[j] = hash[j]
    <3> HIDE DEF w
    <3> QED BY <1>0, <2>1, <2>2, SetHashWrites DEF TypedWrite
  <2> QED BY <1>0, <2>2, <2>3
<1>2. CASE CreateOrder
  <2> DEFINE w == [order_status |-> "INIT", passenger_sessionid |-> web.sessionid,
                   driver_sessionid |-> web.driver]
  <2>1. PICK r \in Outcomes : SetHash(web.orderid, w, r)
    BY <1>2 DEF CreateOrder
  <2>2. TypedWrite(w) /\ web.orderid # k
    BY <1>0, <1>2, WritesTyped DEF CreateOrder, LocalsSet, BookingCalls
  <2>3. \A j \in Keys \ {web.orderid} : hash'[j] = hash[j]
    <3> HIDE DEF w
    <3> QED BY <1>0, <2>1, <2>2, SetHashWrites DEF TypedWrite
  <2> QED BY <1>0, <2>2, <2>3
<1>3. CASE \/ StartOrder \/ SetTemp \/ BindDriver \/ BindPassenger
           \/ ClearDriver \/ ClearPassenger
  <2>1. PICK r \in Outcomes, j \in Keys,
             w \in {[order_status |-> "ACTIVE"], [ptemp |-> "loc"], [dtemp |-> "loc"],
                    [orderid |-> web.orderid], [orderid |-> NONE]} :
          SetHash(j, w, r)
    BY <1>0, <1>3 DEF StartOrder, SetTemp, BindDriver, BindPassenger, ClearDriver,
       ClearPassenger
  <2>2. /\ TypedWrite(w)
        /\ "passenger_sessionid" \notin DOMAIN w /\ "driver_sessionid" \notin DOMAIN w
    BY <1>0, <2>1, WritesTyped
  <2>3. /\ \A i \in Keys \ {j} : hash'[i] = hash[i]
        /\ \A f \in Fields : hash'[j][f] = hash[j][f] \/ f \in DOMAIN w
    BY <1>0, <2>1, <2>2, SetHashWrites DEF TypedWrite
  <2> QED BY <1>0, <2>2, <2>3 DEF Fields
<1>4. CASE KeyExpires
  BY <1>0, <1>4 DEF KeyExpires, Expire, EmptyHash, Fields
<1>5. CASE DropOrder
  BY <1>0, <1>5 DEF DropOrder, DeleteKey, EmptyHash, Fields
<1>6. CASE \/ UNCHANGED vars \/ AnswerSession \/ GetOrderid \/ AnswerLocation
           \/ NamePassenger \/ NameDriver \/ Abandon \/ PutLifecycle \/ Refresh
           \/ RemGeo \/ ListDriver \/ PersistOrder
  BY <1>6 DEF vars, AnswerSession, GetOrderid, AnswerLocation, NamePassenger,
       NameDriver, Abandon, PutLifecycle, Refresh, SetLifecycle, RemGeo, RemZset, ListDriver,
       AddGeo, PersistOrder, InsertOrder
<1>7. ASSUME NEW u \in Users, NEW role \in Roles, Login(u, role) \/ Reg(u, role)
      PROVE  hash' = hash
  BY <1>7 DEF Login, Reg, InsertUser
<1>8. ASSUME NEW x \in Sessions, SetOrder(x) \/ FinishOrder(x)
      PROVE  hash' = hash
  BY <1>8 DEF SetOrder, FinishOrder, HandleFinish
<1>9. ASSUME NEW x \in Sessions, NEW status \in Statuses, NEW autosend \in {"yes", "no"},
             LocationChanged(x, status, autosend)
      PROVE  hash' = hash
  BY <1>9 DEF LocationChanged
<1> QED BY <1>1, <1>2, <1>3, <1>4, <1>5, <1>6, <1>7, <1>8, <1>9 DEF Next

-----------------------------------------------------------------------------
(* The name that a ride is stored under is that of its driver, as long as  *)
(* the driver's session has a name at all.                                 *)

\* A finish of no order names nobody.
StraysNameless == \A k \in {NONE, Nil} : PassengerOf(k) = Nil /\ DriverOf(k) = Nil
StrayFinish ==
  web.at \in FinishCalls /\ web.orderid \notin Orders => web.driver = Nil /\ web.sessionid = Nil

\* The driver's name has been read from its session.
DriverRead ==
  At("insert") /\ web.orderid \in Orders /\ web.driver \in Sessions
    /\ hash[web.driver].username # Nil =>
      web.drivername = reply[web.driver].username

\* A row whose order is still in Redis names the driver of that order.
RideNamed ==
  \A o \in Orders :
    rides[o] # NoRide /\ DriverOf(o) \in Sessions /\ hash[DriverOf(o)].username # Nil =>
      rides[o].driver = reply[DriverOf(o)].username

DriversNamed == StraysNameless /\ StrayFinish /\ DriverRead /\ RideNamed

\* The INSERT comes after the call that reads the driver's name.
LEMMA InsertEntered ==
  ASSUME Typed, [Next]_vars, web'.at = "insert" PROVE web' = web \/ NameDriver
<1> USE DEF At
<1>0. web \in Handlers /\ web' # Idle
  BY DEF Typed, TypeOK, Idle
<1>1. CASE UNCHANGED vars \/ KeyExpires
  BY <1>1 DEF vars, KeyExpires
<1>2. CASE \/ PutSession \/ PutLifecycle \/ Refresh \/ ListDriver \/ StartOrder \/ SetTemp
           \/ CreateOrder \/ BindDriver \/ PersistOrder \/ ClearDriver \/ ClearPassenger
  BY <1>0, <1>2 DEF PutSession, PutLifecycle, Refresh, ListDriver, StartOrder, SetTemp,
       CreateOrder, BindDriver, PersistOrder, ClearDriver, ClearPassenger, Chain, Goto, Handlers
<1>3. CASE RemGeo
  BY <1>0, <1>3 DEF RemGeo, AfterRemGeo, Chain, Goto, Handlers
<1>4. CASE GetOrderid
  BY <1>0, <1>4 DEF GetOrderid, FirstCall, Handlers
<1>5. CASE NamePassenger
  BY <1>0, <1>5 DEF NamePassenger, Handlers
<1>6. CASE AnswerSession \/ AnswerLocation \/ BindPassenger \/ DropOrder \/ Abandon
  BY <1>0, <1>6 DEF AnswerSession, AnswerLocation, BindPassenger, DropOrder, Abandon
<1>7. ASSUME NEW u \in Users, NEW role \in Roles, Login(u, role) \/ Reg(u, role)
      PROVE  web'.at \in {web.at, "session"} /\ web.at = "idle"
  BY <1>7 DEF Login, Reg, CreateSession, Idle
<1>8. ASSUME NEW s \in Sessions, SetOrder(s) \/ FinishOrder(s)
      PROVE  web'.at \in {"createOrder", "namePassenger"}
  BY <1>8 DEF SetOrder, FinishOrder, HandleFinish, Idle
<1>9. ASSUME NEW s \in Sessions, NEW status \in Statuses, NEW autosend \in {"yes", "no"},
             LocationChanged(s, status, autosend)
      PROVE  web'.at = "refresh"
  BY <1>9 DEF LocationChanged, Idle
<1> QED BY <1>1, <1>2, <1>3, <1>4, <1>5, <1>6, <1>7, <1>8, <1>9 DEF Next

\* Before the first request no ride is stored and no hash is there.
LEMMA InitDrivers == Init => DriversNamed
  BY DEF Init, StoreInit, OrderNames, Keys, EmptyHash, Fields, Idle, DriversNamed,
     StraysNameless, StrayFinish, DriverRead, RideNamed, FinishCalls, At

\* The driver of an order is a session that an app knows; its name, once gone, stays gone.
LEMMA DriverKnown ==
  ASSUME Inv, AccountInv, PartyInv, [Next]_vars, NEW o \in Orders, DriverOf(o) \in Sessions
  PROVE  /\ reply[DriverOf(o)].role = "driver"
         /\ reply[DriverOf(o)].username \in Users
         /\ reply'[DriverOf(o)].username = reply[DriverOf(o)].username
         /\ hash[DriverOf(o)].username \in {reply[DriverOf(o)].username, Nil}
         /\ hash'[DriverOf(o)].username \in {hash[DriverOf(o)].username, Nil}
<1>1. reply[DriverOf(o)].role = "driver" /\ Typed
  BY DEF PartyInv, PartiesAct, Inv
<1>2. SessionKnown(DriverOf(o))
  BY DEF AccountInv
<1>3. AccountInv /\ "driver" # Nil
  BY DEF Nil
<1> QED BY <1>1, <1>2, <1>3, NamesFall, RolesStay DEF SessionKnown, NameKept

\* No step breaks it.
LEMMA NextDrivers ==
  ASSUME Inv, AccountInv, LifeInv, PartyInv, DriversNamed, [Next]_vars
  PROVE  DriversNamed'
<1> USE DEF At
<1>0. /\ Typed /\ web \in Handlers /\ StraysNameless /\ StrayFinish /\ DriverRead /\ RideNamed
      /\ FinishNames /\ reply \in [Sessions -> Replies]
  BY DEF Inv, Typed, TypeOK, DriversNamed, FinishInv
<1>1. StraysNameless'
  BY <1>0, StrayStep DEF StraysNameless
<1>2. ASSUME web'.at \in FinishCalls, web'.orderid \notin Orders
      PROVE  web'.driver = Nil /\ web'.sessionid = Nil
  <2>1. CASE web.at \in FinishCalls /\ web'.orderid = web.orderid
             /\ web'.sessionid = web.sessionid /\ web'.driver = web.driver
    BY <1>0, <1>2, <2>1 DEF StrayFinish
  <2>2. ASSUME NEW s \in Sessions, web'.orderid = reply[s].orderid, UNCHANGED hash,
               web'.sessionid = PassengerOf(web'.orderid),
               web'.driver = DriverOf(web'.orderid)
        PROVE  web'.driver = Nil /\ web'.sessionid = Nil
    <3>1. reply[s].orderid \in OrderNames
      BY <1>0 DEF Replies
    <3> QED BY <1>0, <1>2, <2>2, <3>1 DEF OrderNames, StraysNameless
  <2> QED BY <1>0, <1>2, <2>1, <2>2, FinishingStep
<1>3. ASSUME web'.at = "insert", web'.orderid \in Orders, web'.driver \in Sessions,
             hash'[web'.driver].username # Nil
      PROVE  web'.drivername = reply'[web'.driver].username
  <2>1. web.at \in {"insert", "nameDriver"} /\ web'.driver = web.driver /\ web'.orderid = web.orderid
    BY <1>0, <1>3, InsertEntered DEF NameDriver, Handlers
  <2>2. web.driver = DriverOf(web.orderid)
    BY <1>0, <1>3, <2>1 DEF FinishNames, FinishCalls, NamesItsParties
  <2>3. /\ reply'[web.driver].username = reply[web.driver].username
        /\ hash[web.driver].username = reply[web.driver].username
        /\ hash[web.driver].username # Nil
    BY <1>3, <2>1, <2>2, DriverKnown
  <2>4. CASE web' = web
    BY <1>0, <1>3, <2>3, <2>4 DEF DriverRead
  <2>5. CASE NameDriver
    BY <1>0, <2>1, <2>3, <2>5 DEF NameDriver, Handlers
  <2> QED BY <1>0, <1>3, <2>4, <2>5, InsertEntered
<1>4. ASSUME NEW o \in Orders, rides'[o] # NoRide, DriverOf(o)' \in Sessions,
             hash'[DriverOf(o)'].username # Nil
      PROVE  rides'[o].driver = reply'[DriverOf(o)'].username
  <2>1. DriverOf(o)' = DriverOf(o)
    <3>1. CASE SameOrder(o) \/ StartsOrder(o)
      BY <3>1 DEF SameOrder, StartsOrder
    <3>2. CASE CreatesOrder(o)
      BY <1>4, <3>2, RidesStep DEF CreatesOrder, CreateOrder, PersistOrder, LifeInv,
         NewIsFresh, Placed
    <3>3. CASE DropsOrder(o)
      BY <1>4, <3>3, NamesApart DEF DropsOrder, EmptyHash, Fields
    <3> QED BY <3>1, <3>2, <3>3, OrderStep
  <2>2. /\ reply'[DriverOf(o)].username = reply[DriverOf(o)].username
        /\ hash[DriverOf(o)].username # Nil
    BY <1>4, <2>1, DriverKnown
  <2>3. CASE rides'[o] = rides[o]
    BY <1>0, <1>4, <2>1, <2>2, <2>3 DEF RideNamed
  <2>4. CASE PersistOrder /\ web.orderid = o
             /\ rides'[o] = [passenger |-> web.username, driver |-> web.drivername]
    <3>1. web.driver = DriverOf(o) /\ web.at = "insert"
      BY <1>0, <2>4 DEF PersistOrder, FinishNames, FinishCalls, NamesItsParties
    <3> QED BY <1>0, <1>4, <2>1, <2>2, <2>4, <3>1 DEF DriverRead
  <2> QED BY <2>3, <2>4, RidesStep
<1> QED BY <1>1, <1>2, <1>3, <1>4 DEF DriversNamed, StrayFinish, DriverRead, RideNamed

\* Rows and finishes name the drivers that their orders name.
THEOREM DriversNamedAlways == Spec => []DriversNamed
<1>1. Init => DriversNamed
  BY InitDrivers
<1>2. Inv /\ AccountInv /\ LifeInv /\ PartyInv /\ DriversNamed /\ [Next]_vars => DriversNamed'
  BY NextDrivers
<1> QED BY <1>1, <1>2, InvAlways, AccountsAlways, LifeAlways, PartyAlways, PTL DEF Spec

-----------------------------------------------------------------------------
(* The two ends of an order drift apart by double booking only.            *)

\* Without a fault, an order's hash is written at once and taken away at once.
Whole(o) ==
  IF hash[o].order_status = Nil
  THEN PassengerOf(o) = Nil /\ DriverOf(o) = Nil
  ELSE PassengerOf(o) \in Sessions /\ DriverOf(o) \in Sessions

\* The passenger holds the order, or is bound to it by the next call.
HeldOrBinding(o) ==
  Holds(PassengerOf(o), o) \/ (At("bindPassenger") /\ web.orderid = o)

\* The order's driver is logged in and no other order ever named it.
SingleBooked(o) ==
  /\ hash[DriverOf(o)].username # Nil
  /\ \A other \in Orders \ {o} : ~Named(DriverOf(o), other)

\* The driver holds the order that its passenger holds, up to the call of its finish that
\* clears the passenger's end after the driver's.
Paired(o) ==
  /\ PassengerOf(o) \in Sessions /\ HeldOrBinding(o) /\ SingleBooked(o)
  /\ ~(At("clearPassenger") /\ web.orderid = o)
  => Holds(DriverOf(o), o)

PairInv == faults = 0 => \A o \in Orders : Whole(o) /\ Paired(o)

\* Before the first request there is no order.
LEMMA InitPairs == Init => PairInv
<1> SUFFICES ASSUME Init, NEW o \in Orders PROVE Whole(o) /\ Paired(o)
  BY DEF PairInv
<1>1. hash[o] = EmptyHash
  BY DEF Init, StoreInit, Keys
<1> QED BY <1>1, NamesApart DEF EmptyHash, Fields, Whole, Paired

\* Without a fault, create_order writes the whole hash.
LEMMA NextWhole ==
  ASSUME Inv, LifeInv, OverInv, [Next]_vars, faults' = 0, faults = 0,
         NEW o \in Orders, Whole(o)
  PROVE  Whole(o)'
<1>0. Typed
  BY DEF Inv
<1>1. CASE SameOrder(o)
  BY <1>1 DEF SameOrder, Whole
<1>2. CASE CreatesOrder(o)
  <2>1. web.at = "createOrder" /\ web.orderid = o /\ web \in Handlers
    BY <1>0, <1>2 DEF CreatesOrder, CreateOrder, At, Typed, TypeOK
  <2>2. PICK r \in Outcomes : Fault(r) /\ Chain(r = "done", "bindDriver")
    BY <1>2 DEF CreatesOrder, CreateOrder
  <2>3. web'.at = "bindDriver"
    BY <1>0, <2>1, <2>2, FaultFree DEF Chain, Goto, Handlers
  <2>4. web.sessionid \in Sessions /\ web.driver \in Sessions
    BY <1>0, <2>1 DEF Typed, LocalsSet, SessionCalls, BookingCalls
  <2> QED BY <1>2, <2>3, <2>4 DEF CreatesOrder, Whole, Nil
<1>3. CASE StartsOrder(o)
  <2>1. web.at = "startOrder" /\ web.orderid = o
    BY <1>3 DEF StartsOrder, StartOrder, At
  <2>2. rides[o] = NoRide
    BY <2>1 DEF OverInv, WorkIsUnstored, ReportCalls
  <2>3. Complete(o)
    BY <2>1 DEF LifeInv, WorkedComplete, At
  <2> QED BY <1>3, <2>2, <2>3 DEF StartsOrder, Whole, Complete, Nil
<1>4. CASE DropsOrder(o)
  BY <1>4 DEF DropsOrder, Whole, EmptyHash, Fields
<1> QED BY <1>1, <1>2, <1>3, <1>4, OrderStep

\* A driver that was named by an order stays named, by its hash or by its row.
LEMMA NamedStays ==
  ASSUME Inv, AccountInv, LifeInv, PartyInv, DriversNamed, [Next]_vars,
         NEW d \in Sessions, reply[d].role = "driver", reply[d].username \in Users,
         NEW o \in Orders, hash[o].order_status = Nil => DriverOf(o) = Nil,
         Named(d, o), hash[d].username # Nil
  PROVE  Named(d, o)'
<1> USE DEF At
<1>0. Typed /\ reply'[d].username = reply[d].username
  BY RolesStay DEF Inv, Nil
<1>1. CASE rides[o].driver = reply[d].username
  <2>1. "no row" \notin Users
    <3> SUFFICES ASSUME "no row" \in Users PROVE FALSE
      OBVIOUS
    <3>1. "no row" \in {Nil, NONE, "INIT", "ACTIVE", "loc", "no row"}
                       \cap (Sessions \cup Orders \cup Users)
      OBVIOUS
    <3> QED BY <3>1, NamesAreDistinct
  <2>2. rides[o] # NoRide
    <3>1. NoRide.driver = "no row"
      BY DEF NoRide
    <3> QED BY <1>1, <2>1, <3>1
  <2> QED BY <1>0, <1>1, <2>2, RidesStay DEF Named
<1>2. CASE DriverOf(o) = d
  <2>1. CASE SameOrder(o) \/ StartsOrder(o)
    BY <1>2, <2>1 DEF SameOrder, StartsOrder, Named
  <2>2. CASE CreatesOrder(o)
    BY <1>2, <2>2, NamesApart DEF CreatesOrder, CreateOrder, LifeInv, NewIsFresh, Placed
  <2>3. CASE DropsOrder(o)
    <3>1. rides[o] # NoRide /\ ~PersistOrder
      BY <2>3 DEF DropsOrder, DropOrder, Inv, FinishInv, RideStored, PersistOrder
    <3>2. rides[o].driver = reply[d].username
      BY <1>2, <3>1 DEF DriversNamed, RideNamed
    <3> QED BY <1>0, <3>1, <3>2, RidesStay DEF Named
  <2> QED BY <2>1, <2>2, <2>3, OrderStep
<1> QED BY <1>1, <1>2 DEF Named

\* While the passenger holds an order whose driver is booked only once, nothing takes
\* the order from the driver but the finish of the order.
LEMMA DriverHolds ==
  ASSUME Inv, AccountInv, PartyInv, DriversNamed, [Next]_vars, faults' = 0,
         NEW o \in Orders, DriverOf(o) \in Sessions, Holds(DriverOf(o), o),
         hash'[DriverOf(o)].username # Nil,
         \A other \in Orders \ {o} : ~Named(DriverOf(o), other),
         ~(At("clearPassenger") /\ web.orderid = o)'
  PROVE  hash'[DriverOf(o)].orderid = o
<1> USE DEF At
<1>0. /\ Typed /\ web \in Handlers /\ LocalsSet /\ BookingInv /\ FinishNames /\ StrayFinish
      /\ DriverOf(o) # Nil /\ "driver" # Nil /\ "driver" # "passenger"
  BY NamesApart DEF Inv, Typed, TypeOK, FinishInv, DriversNamed, Nil
<1>1. PICK d \in Sessions : d = DriverOf(o)
  OBVIOUS
<1>2. reply[d].role = "driver"
  BY <1>1 DEF PartyInv, PartiesAct
<1> SUFFICES ASSUME hash'[d].orderid # o PROVE FALSE
  BY <1>1
<1>3. \/ PutSession /\ web.sessionid = d
      \/ BindDriver /\ web.driver = d /\ web.orderid # o
      \/ BindPassenger /\ web.sessionid = d
      \/ ClearDriver /\ web.driver = d
      \/ ClearPassenger /\ web.sessionid = d
      \/ KeyExpires /\ hash'[d].username = Nil
  BY <1>1, HoldsLost DEF Holds
<1>4. ~(PutSession /\ web.sessionid = d)
  BY <1>0, <1>2 DEF PutSession, AccountInv, LoginKnows, LoginCalls
<1>5. ~(BindDriver /\ web.driver = d /\ web.orderid # o)
  <2> SUFFICES ASSUME BindDriver, web.driver = d, web.orderid # o PROVE FALSE
    OBVIOUS
  <2>1. web.orderid \in Orders /\ DriverOf(web.orderid) = d
    BY <1>0 DEF BindDriver, LocalsSet, BookingCalls, BookingInv, NamesItsParties
  <2> QED BY <1>1, <2>1 DEF Named
<1>6. ~(BindPassenger /\ web.sessionid = d)
  BY <1>0, <1>2 DEF BindPassenger, PartyInv, BookersAct, BookingCalls
<1>7. ~(ClearDriver /\ web.driver = d)
  <2> SUFFICES ASSUME ClearDriver, web.driver = d PROVE FALSE
    OBVIOUS
  <2>1. web.orderid \in Orders /\ DriverOf(web.orderid) = d
    BY <1>0, <1>1 DEF ClearDriver, StrayFinish, FinishCalls, FinishNames, NamesItsParties
  <2>2. web.orderid = o
    BY <1>1, <2>1 DEF Named
  <2>3. PICK r \in Outcomes : Fault(r) /\ Chain(r = "done", "clearPassenger")
    BY DEF ClearDriver
  <2>4. web'.at = "clearPassenger" /\ web'.orderid = o
    BY <1>0, <2>2, <2>3, FaultFree DEF Chain, Goto, Handlers
  <2> QED BY <2>4
<1>8. ~(ClearPassenger /\ web.sessionid = d)
  <2> SUFFICES ASSUME ClearPassenger, web.sessionid = d PROVE FALSE
    OBVIOUS
  <2>1. web.orderid \in Orders /\ PassengerOf(web.orderid) = d
    BY <1>0, <1>1 DEF ClearPassenger, StrayFinish, FinishCalls, FinishNames, NamesItsParties
  <2> QED BY <1>0, <1>2, <2>1 DEF PartyInv, PartiesAct
<1> QED BY <1>1, <1>3, <1>4, <1>5, <1>6, <1>7, <1>8

\* The passenger is bound right after the driver.
LEMMA BindingEntered ==
  ASSUME Typed, [Next]_vars, web'.at = "bindPassenger"
  PROVE  web' = web \/ (BindDriver /\ web'.orderid = web.orderid)
<1> USE DEF At, BookingCalls
<1>0. web \in Handlers /\ web' # Idle
  BY DEF Typed, TypeOK, Idle
<1>1. CASE \E s \in Sessions : SetOrder(s)
  BY <1>1 DEF SetOrder, Idle
<1>2. CASE web.at \in BookingCalls
  BY <1>0, <1>2 DEF Next, vars, Idle, PutSession, PutLifecycle, AnswerSession, CreateOrder,
     BindDriver, BindPassenger, Refresh, GetOrderid, RemGeo, ListDriver, StartOrder, SetTemp,
     AnswerLocation, NamePassenger, NameDriver, PersistOrder, ClearDriver, ClearPassenger,
     DropOrder, Abandon, KeyExpires, Login, Reg, SetOrder, FinishOrder, HandleFinish,
     LocationChanged, Chain, Goto, Handlers
<1> QED BY <1>1, <1>2, BookingStep

\* Without a fault, a handler that is to clear the passenger's end does so.
LEMMA ClearingLeft ==
  ASSUME Typed, [Next]_vars, faults' = 0, web.at = "clearPassenger", web' # web
  PROVE  /\ ClearPassenger /\ web'.at = "deleteKey"
         /\ web.sessionid \in Sessions => hash'[web.sessionid].orderid = NONE
<1> USE DEF At
<1>0. web \in Handlers /\ faults \in Nat
  BY MaxFaultsType DEF Typed, TypeOK
<1>1. ClearPassenger
  BY <1>0 DEF Next, vars, Idle, PutSession, PutLifecycle, AnswerSession, CreateOrder,
     BindDriver, BindPassenger, Refresh, GetOrderid, RemGeo, ListDriver, StartOrder, SetTemp,
     AnswerLocation, NamePassenger, NameDriver, PersistOrder, ClearDriver, DropOrder, Abandon,
     KeyExpires, Login, Reg, SetOrder, FinishOrder, HandleFinish, LocationChanged
<1>2. PICK r \in Outcomes : /\ SetHash(web.sessionid, [orderid |-> NONE], r) /\ Fault(r)
                            /\ Chain(r = "done", "deleteKey")
  BY <1>1 DEF ClearPassenger
<1>3. r = "done"
  BY <1>2, FaultFree
<1>4. web.sessionid \in SessionNames /\ NONE \in OrderNames
  BY <1>0 DEF Handlers, OrderNames
<1>5. hash'[web.sessionid].orderid = NONE
  BY <1>2, <1>3, <1>4, OrderidWritten
<1> QED BY <1>0, <1>1, <1>2, <1>3, <1>5 DEF Chain, Goto, Handlers

\* A driver's binding gives no other session the order.
LEMMA NewHolder ==
  ASSUME Typed, [Next]_vars, web.at = "bindDriver", ~BindDriver,
         NEW s \in Sessions, NEW o \in Orders, hash'[s].orderid = o
  PROVE  Holds(s, o)
<1> USE DEF At
<1>0. s \in Keys /\ hash \in [Keys -> [Fields -> Values]] /\ o # Nil
  BY NamesApart DEF Typed, TypeOK, StoreTypeOK, Keys
<1>1. CASE KeyExpires
  BY <1>0, <1>1 DEF KeyExpires, Expire, EmptyHash, Fields, Holds
<1>2. CASE ~KeyExpires
  <2>1. hash' = hash
    BY <1>2 DEF Next, vars, Idle, PutSession, PutLifecycle, AnswerSession, CreateOrder,
     BindPassenger, Refresh, GetOrderid, RemGeo, ListDriver, StartOrder, SetTemp,
     AnswerLocation, NamePassenger, NameDriver, PersistOrder, ClearDriver, ClearPassenger,
     DropOrder, Abandon, Login, Reg, SetOrder, FinishOrder, HandleFinish, LocationChanged
  <2> QED BY <2>1 DEF Holds
<1> QED BY <1>1, <1>2

\* No step breaks it.
LEMMA NextPairs ==
  ASSUME Inv, AccountInv, LifeInv, PartyInv, OverInv, DriversNamed, PairInv, [Next]_vars
  PROVE  PairInv'
<1> SUFFICES ASSUME faults' = 0, NEW o \in Orders PROVE Whole(o)' /\ Paired(o)'
  BY DEF PairInv
<1> USE DEF At
<1>0. /\ Typed /\ web \in Handlers /\ LocalsSet /\ BookingInv /\ FinishNames /\ faults = 0
      /\ \A x \in Orders : Whole(x) /\ Paired(x)
  <2>1. Typed /\ faults \in Nat
    BY MaxFaultsType DEF Inv, Typed, TypeOK
  <2> QED BY <2>1, FaultsRise DEF PairInv, Inv, Typed, TypeOK, FinishInv
<1>1. Whole(o)'
  BY <1>0, NextWhole
<1>2. ASSUME PassengerOf(o)' \in Sessions, HeldOrBinding(o)', SingleBooked(o)',
             ~(At("clearPassenger") /\ web.orderid = o)'
      PROVE  Holds(DriverOf(o), o)'
  <2>1. /\ PassengerOf(o)' = PassengerOf(o) /\ DriverOf(o)' = DriverOf(o)
        /\ ~(web.at = "createOrder" /\ web.orderid = o)
    <3>1. ~(web.at = "createOrder" /\ web.orderid = o)
      <4> SUFFICES ASSUME web.at = "createOrder", web.orderid = o PROVE FALSE
        OBVIOUS
      <4>1. hash'[PassengerOf(o)'].orderid # o
        BY <1>0, <1>2, HoldsStep DEF BookingInv, Holds
      <4>2. web'.at = "bindPassenger" /\ web'.orderid = o
        BY <1>2, <4>1 DEF HeldOrBinding, Holds
      <4> QED BY <1>0, <4>2, BindingEntered DEF BindDriver
    <3>2. CASE SameOrder(o) \/ StartsOrder(o)
      BY <3>1, <3>2 DEF SameOrder, StartsOrder
    <3>3. CASE CreatesOrder(o)
      BY <3>1, <3>3 DEF CreatesOrder, CreateOrder
    <3>4. CASE DropsOrder(o)
      BY <1>2, <3>1, <3>4, NamesApart DEF DropsOrder, EmptyHash, Fields
    <3> QED BY <3>2, <3>3, <3>4, OrderStep
  <2>2. /\ PassengerOf(o) \in Sessions /\ DriverOf(o) \in Sessions
        /\ DriverOf(o) # PassengerOf(o)
    BY <1>0, <1>2, <2>1 DEF Whole, PartyInv, PartiesAct, Nil
  <2>3. PICK p \in Sessions, d \in Sessions : p = PassengerOf(o) /\ d = DriverOf(o)
    BY <2>2
  <2>4. /\ reply[d].role = "driver" /\ reply[d].username \in Users
        /\ hash'[d].username # Nil /\ hash[d].username # Nil
    BY <1>2, <2>1, <2>3, DriverKnown DEF SingleBooked
  <2>5. SingleBooked(o)
    <3>1. ASSUME NEW other \in Orders \ {o}, Named(d, other) PROVE Named(d, other)'
      BY <1>0, <2>4, <3>1, NamedStays DEF Whole
    <3> QED BY <1>2, <2>1, <2>3, <2>4, <3>1 DEF SingleBooked
  <2>6. CASE BindDriver /\ web.orderid = o
    <3>1. PICK r \in Outcomes : SetHash(web.driver, [orderid |-> web.orderid], r) /\ Fault(r)
      BY <2>6 DEF BindDriver
    <3>2. web.driver = d
      BY <1>0, <2>3, <2>6 DEF BindDriver, BookingInv, NamesItsParties
    <3>3. web.driver \in SessionNames /\ web.orderid \in OrderNames
      BY <1>0 DEF Handlers
    <3>4. hash'[d].orderid = o
      BY <1>0, <2>6, <3>1, <3>2, <3>3, FaultFree, OrderidWritten
    <3> QED BY <2>1, <2>3, <3>4 DEF Holds
  <2>7. CASE ~(BindDriver /\ web.orderid = o)
    <3>1. HeldOrBinding(o)
      <4>1. CASE web'.at = "bindPassenger" /\ web'.orderid = o
        BY <1>0, <2>7, <4>1, BindingEntered DEF HeldOrBinding
      <4>2. CASE hash'[p].orderid = o
        BY <1>0, <2>3, <2>7, <4>2, HoldsStep, NewHolder DEF HeldOrBinding, Holds
      <4> QED BY <1>2, <2>1, <2>3, <4>1, <4>2 DEF HeldOrBinding, Holds
    <3>2. ~(web.at = "clearPassenger" /\ web.orderid = o)
      <4> SUFFICES ASSUME web.at = "clearPassenger", web.orderid = o PROVE FALSE
        OBVIOUS
      <4>1. web' # web
        BY <1>2
      <4>2. ClearPassenger /\ web'.at = "deleteKey"
        BY <1>0, <4>1, ClearingLeft
      <4>3. hash'[p].orderid = NONE
        BY <1>0, <2>3, <4>1, ClearingLeft DEF FinishNames, FinishCalls, NamesItsParties
      <4> QED BY <1>2, <2>1, <2>3, <4>2, <4>3, NamesApart DEF HeldOrBinding, Holds
    <3>3. Holds(DriverOf(o), o)
      BY <1>0, <2>2, <2>5, <3>1, <3>2 DEF Paired
    <3>4. hash'[DriverOf(o)].orderid = o
      BY <1>2, <2>2, <2>3, <2>4, <2>5, <3>3, DriverHolds DEF SingleBooked
    <3> QED BY <2>1, <3>4 DEF Holds
  <2> QED BY <2>6, <2>7
<1> QED BY <1>1, <1>2 DEF Paired

\* As long as nothing fails, a driver booked once holds the order of its passenger.
THEOREM PairsAlways == Spec => []PairInv
<1>1. Init => PairInv
  BY InitPairs
<1>2. Inv /\ AccountInv /\ LifeInv /\ PartyInv /\ OverInv /\ DriversNamed /\ PairInv
        /\ [Next]_vars => PairInv'
  BY NextPairs
<1> QED
  BY <1>1, <1>2, InvAlways, AccountsAlways, LifeAlways, PartyAlways, OverAlways,
     DriversNamedAlways, PTL DEF Spec

\* Without a fault, the two ends of an order drift apart by double booking only.
THEOREM PairedUnlessBookedTwice == Spec => []PairedUnlessDoubleBooked
<1>1. PairInv => PairedUnlessDoubleBooked
  BY DEF PairInv, Paired, HeldOrBinding, SingleBooked, PairedUnlessDoubleBooked, At
<1> QED BY <1>1, PairsAlways, PTL
=============================================================================

--------------------------- MODULE OboLife_proofs ---------------------------
(***************************************************************************)
(* The life of an order: that the web server implements OrderLife, that an *)
(* order is started by its own driver only, and under whose names it is    *)
(* stored.                                                                 *)
(***************************************************************************)
EXTENDS OboAccounts_proofs

USE DEF PassengerOf, DriverOf

\* The order was placed: it has a status, or it is stored.
Placed(o) == rides[o] # NoRide \/ hash[o].order_status # Nil

\* The order is stored, or set_order.c has written its hash to the end.
Complete(o) ==
  \/ rides[o] # NoRide
  \/ /\ hash[o].order_status # Nil
     /\ PassengerOf(o) \in Sessions /\ DriverOf(o) \in Sessions

\* Only an order that set_order.c completed is ever held, told or worked on: a booking
\* that fails half way leaves a hash that nobody names.
PlacedWereIssued == \A o \in Orders : Placed(o) => o \in issued
NewIsFresh == At("createOrder") => ~Placed(web.orderid)
HeldComplete == \A s \in Sessions, o \in Orders : Holds(s, o) => Complete(o)
ToldComplete == \A s \in Sessions, o \in Orders : reply[s].orderid = o => Complete(o)
WorkedComplete ==
  ~At("createOrder") => \A o \in Orders : web.orderid = o => Complete(o)

LifeInv ==
  /\ PlacedWereIssued /\ NewIsFresh
  /\ HeldComplete /\ ToldComplete /\ WorkedComplete

-----------------------------------------------------------------------------
(* What one step may do to one order.                                      *)

SameOrder(o) ==
  /\ hash'[o].order_status = hash[o].order_status
  /\ hash'[o].passenger_sessionid = hash[o].passenger_sessionid
  /\ hash'[o].driver_sessionid = hash[o].driver_sessionid

CreatesOrder(o) ==
  /\ CreateOrder /\ web.orderid = o
  /\ hash'[o].order_status \in {hash[o].order_status, "INIT"}
  /\ hash'[o].passenger_sessionid \in {hash[o].passenger_sessionid, web.sessionid}
  /\ hash'[o].driver_sessionid \in {hash[o].driver_sessionid, web.driver}
  /\ web'.at = "bindDriver" => /\ hash'[o].order_status = "INIT"
                               /\ hash'[o].passenger_sessionid = web.sessionid
                               /\ hash'[o].driver_sessionid = web.driver

StartsOrder(o) ==
  /\ StartOrder /\ web.orderid = o
  /\ hash'[o].order_status \in {hash[o].order_status, "ACTIVE"}
  /\ hash'[o].passenger_sessionid = hash[o].passenger_sessionid
  /\ hash'[o].driver_sessionid = hash[o].driver_sessionid

DropsOrder(o) ==
  DropOrder /\ web.orderid = o /\ hash'[o] \in {hash[o], EmptyHash}

\* Nobody but CreateOrder, StartOrder and DropOrder changes an order's status or parties,
\* and each of them that of the handler's own order.
LEMMA OrderStep ==
  ASSUME Inv, [Next]_vars, NEW o \in Orders
  PROVE  \/ SameOrder(o) \/ CreatesOrder(o) \/ StartsOrder(o)
         \/ DropsOrder(o)
<1> USE DEF At
<1>0. Typed /\ TypeOK /\ StoreTypeOK /\ LocalsSet /\ OrdersStay /\ o \in Keys /\ web \in Handlers
  BY DEF Inv, Typed, TypeOK, Keys
<1>k. web.orderid \in OrderNames /\ web.orderid \in Keys /\ web.driver \in SessionNames
      /\ web.sessionid \in SessionNames
  BY <1>0, KeysTyped DEF Handlers
<1>1. ASSUME hash'[o] = hash[o] PROVE SameOrder(o)
  BY <1>1 DEF SameOrder
<1>2. CASE PutSession
  <2> DEFINE w == [username |-> web.username, orderid |-> NONE]
  <2>1. PICK r \in Outcomes : SetHash(web.sessionid, w, r)
    BY <1>2 DEF PutSession
  <2>2. web.sessionid \in Sessions /\ TypedWrite(w)
    BY <1>0, <1>2, WritesTyped DEF PutSession, LocalsSet, SessionCalls
  <2>3. \A j \in Keys \ {web.sessionid} : hash'[j] = hash[j]
    <3> HIDE DEF w
    <3> QED BY <1>0, <2>1, <2>2, SetHashWrites DEF Keys, StoreTypeOK, TypedWrite
  <2> QED BY <1>0, <1>1, <2>2, <2>3, NamesApart
<1>3. CASE CreateOrder
  <2> DEFINE w == [order_status |-> "INIT", passenger_sessionid |-> web.sessionid,
                   driver_sessionid |-> web.driver]
  <2>1. PICK r \in Outcomes : SetHash(web.orderid, w, r) /\ Chain(r = "done", "bindDriver")
    BY <1>3 DEF CreateOrder
  <2>2. /\ TypedWrite(w) /\ w["order_status"] = "INIT"
        /\ DOMAIN w = {"order_status", "passenger_sessionid", "driver_sessionid"}
        /\ w["passenger_sessionid"] = web.sessionid /\ w["driver_sessionid"] = web.driver
    BY <1>0, <1>3, WritesTyped DEF CreateOrder
  <2>3. /\ \A j \in Keys \ {web.orderid} : hash'[j] = hash[j]
        /\ \A f \in Fields : \/ hash'[web.orderid][f] = hash[web.orderid][f]
                             \/ f \in DOMAIN w /\ hash'[web.orderid][f] = w[f]
        /\ r = "done" => \A f \in Fields \cap DOMAIN w : hash'[web.orderid][f] = w[f]
    <3>1. \A f \in DOMAIN w : w[f] \in Values
      <4> HIDE DEF w
      <4> QED BY <2>2 DEF TypedWrite
    <3>2. SetHash(web.orderid, w, r) /\ hash \in [Keys -> [Fields -> Values]]
      BY <1>0, <2>1 DEF StoreTypeOK
    <3> HIDE DEF w
    <3> QED BY <1>k, <3>1, <3>2, SetHashWrites
  <2>4. web'.at = "bindDriver" => r = "done"
    BY <2>1 DEF Chain, Idle
  <2>5. CASE web.orderid = o
    <3> HIDE DEF w
    <3>1. CreatesOrder(o)
      BY <1>3, <2>2, <2>3, <2>4, <2>5 DEF CreatesOrder, Fields
    <3> QED BY <3>1
  <2> QED BY <1>0, <1>1, <2>3, <2>5
<1>4. CASE StartOrder \/ SetTemp
  <2>1. PICK r \in Outcomes, w \in {[order_status |-> "ACTIVE"], [ptemp |-> "loc"],
                                 [dtemp |-> "loc"]} :
          SetHash(web.orderid, w, r) /\ (SetTemp => "order_status" \notin DOMAIN w)
    BY <1>4 DEF StartOrder, SetTemp
  <2>2. /\ TypedWrite(w) /\ "passenger_sessionid" \notin DOMAIN w
        /\ "driver_sessionid" \notin DOMAIN w
        /\ "order_status" \in DOMAIN w => w["order_status"] = "ACTIVE"
    BY <1>0, <2>1, WritesTyped
  <2>3. /\ \A j \in Keys \ {web.orderid} : hash'[j] = hash[j]
        /\ \A f \in Fields : \/ hash'[web.orderid][f] = hash[web.orderid][f]
                             \/ f \in DOMAIN w /\ hash'[web.orderid][f] = w[f]
    BY <1>0, <1>k, <2>1, <2>2, SetHashWrites DEF StoreTypeOK, TypedWrite
  <2>4. CASE web.orderid = o
    BY <1>4, <2>1, <2>2, <2>3, <2>4 DEF StartsOrder, SameOrder, Fields
  <2> QED BY <1>0, <1>1, <2>3, <2>4
<1>5. CASE BindDriver \/ BindPassenger \/ ClearDriver \/ ClearPassenger
  <2>1. PICK r \in Outcomes, k \in {web.driver, web.sessionid}, x \in {web.orderid, NONE} :
          SetHash(k, [orderid |-> x], r)
    BY <1>5 DEF BindDriver, BindPassenger, ClearDriver, ClearPassenger
  <2>2. k \in SessionNames /\ x \in OrderNames
    BY <1>k DEF OrderNames
  <2> QED BY <1>0, <1>1, <2>1, <2>2, OrderidWritten
<1>6. CASE KeyExpires
  BY <1>0, <1>1, <1>6 DEF KeyExpires, Expire, OrdersStay, StoreTypeOK
<1>7. CASE DropOrder
  BY <1>0, <1>1, <1>7 DEF DropOrder, DropsOrder, DeleteKey, StoreTypeOK
<1>8. CASE \/ UNCHANGED vars \/ AnswerSession \/ GetOrderid \/ AnswerLocation
           \/ NamePassenger \/ NameDriver \/ Abandon \/ PutLifecycle \/ Refresh
           \/ RemGeo \/ ListDriver \/ PersistOrder
  BY <1>1, <1>8 DEF vars, AnswerSession, GetOrderid, AnswerLocation, NamePassenger,
       NameDriver, Abandon, PutLifecycle, Refresh, SetLifecycle, RemGeo, RemZset, ListDriver,
       AddGeo, PersistOrder, InsertOrder
<1>9. ASSUME NEW u \in Users, NEW role \in Roles, Login(u, role) \/ Reg(u, role)
      PROVE  SameOrder(o)
  BY <1>1, <1>9 DEF Login, Reg, InsertUser
<1>10. ASSUME NEW s \in Sessions, SetOrder(s) \/ FinishOrder(s)
       PROVE  SameOrder(o)
  BY <1>1, <1>10 DEF SetOrder, FinishOrder, HandleFinish
<1>11. ASSUME NEW s \in Sessions, NEW status \in Statuses, NEW autosend \in {"yes", "no"},
              LocationChanged(s, status, autosend)
       PROVE  SameOrder(o)
  BY <1>1, <1>11 DEF LocationChanged
<1> QED
  BY <1>2, <1>3, <1>4, <1>5, <1>6, <1>7, <1>8, <1>9, <1>10, <1>11 DEF Next

\* Which order a handler works on: the one it had; a new one; the one that the session
\* holds; or the one that the driver was told.
LEMMA WorkStep ==
  ASSUME Inv, [Next]_vars, NEW o \in Orders, web'.orderid = o
  PROVE  \/ web' = web
         \/ web.orderid = o /\ web.at # "createOrder" /\ web'.at # "createOrder"
         \/ CreateOrder /\ web.orderid = o /\ web'.at = "bindDriver"
         \/ web'.at = "createOrder" /\ o \notin issued /\ UNCHANGED <<hash, rides>>
         \/ GetOrderid /\ Holds(web.sessionid, o) /\ web'.at # "createOrder"
         \/ \E s \in Sessions : reply[s].orderid = o /\ web'.at # "createOrder"
<1> USE DEF At
<1>0. web \in Handlers /\ o # Nil /\ reply \in [Sessions -> Replies]
  BY NamesApart DEF Inv, Typed, TypeOK
<1>1. web' # Idle
  BY <1>0 DEF Idle
<1>2. CASE UNCHANGED vars \/ KeyExpires
  BY <1>2 DEF vars, KeyExpires
<1>3. CASE \/ PutSession \/ PutLifecycle \/ BindDriver \/ Refresh \/ RemGeo \/ ListDriver
           \/ StartOrder \/ SetTemp \/ NamePassenger \/ NameDriver \/ PersistOrder
           \/ ClearDriver \/ ClearPassenger
  <2>1. web.orderid = o /\ web.at # "createOrder" /\ web'.at # "createOrder"
    BY <1>0, <1>1, <1>3 DEF PutSession, PutLifecycle, BindDriver, Refresh, RemGeo,
         AfterRemGeo, ListDriver, StartOrder, SetTemp, NamePassenger, NameDriver,
         PersistOrder, ClearDriver, ClearPassenger, Chain, Goto, Handlers
  <2> QED BY <2>1
<1>4. CASE CreateOrder
  BY <1>0, <1>1, <1>4 DEF CreateOrder, Chain, Goto, Handlers
<1>5. CASE AnswerSession \/ AnswerLocation \/ BindPassenger \/ DropOrder \/ Abandon
  BY <1>1, <1>5 DEF AnswerSession, AnswerLocation, BindPassenger, DropOrder, Abandon
<1>6. CASE GetOrderid
  BY <1>0, <1>6 DEF GetOrderid, FirstCall, Handlers, Holds
<1>7. ASSUME NEW u \in Users, NEW role \in Roles, Login(u, role) \/ Reg(u, role)
      PROVE  web' = web
  BY <1>0, <1>7 DEF Login, Reg, CreateSession, Idle
<1>8. ASSUME NEW s \in Sessions, SetOrder(s)
      PROVE  web'.at = "createOrder" /\ o \notin issued /\ UNCHANGED <<hash, rides>>
  BY <1>0, <1>8 DEF SetOrder, Idle
<1>9. ASSUME NEW s \in Sessions, FinishOrder(s)
      PROVE  reply[s].orderid = o /\ web'.at # "createOrder"
  BY <1>0, <1>9 DEF FinishOrder, HandleFinish, Idle
<1>10. ASSUME NEW s \in Sessions, NEW status \in Statuses, NEW autosend \in {"yes", "no"},
              LocationChanged(s, status, autosend)
       PROVE  FALSE
  BY <1>0, <1>10 DEF LocationChanged, Idle
<1> QED
  BY <1>2, <1>3, <1>4, <1>5, <1>6, <1>7, <1>8, <1>9, <1>10 DEF Next

\* A session that names an order named it before, or is being bound to it.
LEMMA HoldsStep ==
  ASSUME Inv, [Next]_vars, NEW s \in Sessions, NEW o \in Orders, hash'[s].orderid = o
  PROVE  Holds(s, o) \/ (web.at \in {"bindDriver", "bindPassenger"} /\ web.orderid = o)
<1> USE DEF At
<1>0. /\ Typed /\ StoreTypeOK /\ LocalsSet /\ web \in Handlers /\ s \in Keys
      /\ o # Nil /\ o # NONE /\ o \in OrderNames
  BY NamesApart DEF Inv, Typed, TypeOK, Keys, OrderNames
<1>k. web.orderid \in OrderNames /\ web.driver \in SessionNames
      /\ web.sessionid \in SessionNames
  BY <1>0 DEF Handlers
<1>1. ASSUME hash'[s] = hash[s] PROVE Holds(s, o)
  BY <1>1 DEF Holds
<1>2. CASE PutSession
  <2> DEFINE w == [username |-> web.username, orderid |-> NONE]
  <2>1. PICK r \in Outcomes : SetHash(web.sessionid, w, r)
    BY <1>2 DEF PutSession
  <2>2. /\ web.sessionid \in Keys /\ TypedWrite(w) /\ w["orderid"] = NONE
    BY <1>0, <1>2, WritesTyped, KeysTyped DEF PutSession
  <2>3. /\ \A j \in Keys \ {web.sessionid} : hash'[j] = hash[j]
        /\ \A f \in Fields : \/ hash'[web.sessionid][f] = hash[web.sessionid][f]
                             \/ f \in DOMAIN w /\ hash'[web.sessionid][f] = w[f]
    <3> HIDE DEF w
    <3> QED BY <1>0, <2>1, <2>2, SetHashWrites DEF StoreTypeOK, TypedWrite
  <2> QED BY <1>0, <2>2, <2>3 DEF Holds, Fields
<1>3. CASE CreateOrder \/ StartOrder \/ SetTemp
  <2>1. PICK r \in Outcomes,
             w \in {[order_status |-> "INIT", passenger_sessionid |-> web.sessionid,
                     driver_sessionid |-> web.driver],
                    [order_status |-> "ACTIVE"], [ptemp |-> "loc"], [dtemp |-> "loc"]} :
          SetHash(web.orderid, w, r) /\ TypedWrite(w)
    BY <1>0, <1>3, WritesTyped DEF CreateOrder, StartOrder, SetTemp
  <2>2. hash'[s] = hash[s]
    BY <1>0, <1>k, <2>1, OrderWritten
  <2> QED BY <1>1, <2>2
<1>4. CASE ClearDriver \/ ClearPassenger
  <2>1. PICK r \in Outcomes, k \in {web.driver, web.sessionid} :
          SetHash(k, [orderid |-> NONE], r)
    BY <1>4 DEF ClearDriver, ClearPassenger
  <2>2. \/ hash'[s].orderid = hash[s].orderid
        \/ hash'[s].orderid = NONE
    BY <1>0, <1>k, <2>1, OrderidWritten DEF OrderNames
  <2> QED BY <1>0, <2>2 DEF Holds
<1>5. CASE BindDriver \/ BindPassenger
  <2>1. PICK r \in Outcomes, k \in {web.driver, web.sessionid} :
          SetHash(k, [orderid |-> web.orderid], r)
    BY <1>5 DEF BindDriver, BindPassenger
  <2>2. \/ hash'[s].orderid = hash[s].orderid
        \/ hash'[s].orderid = web.orderid
    BY <1>0, <1>k, <2>1, OrderidWritten
  <2> QED BY <1>5, <2>2 DEF Holds, BindDriver, BindPassenger
<1>6. CASE KeyExpires
  BY <1>0, <1>1, <1>6 DEF KeyExpires, Expire, EmptyHash, Fields, StoreTypeOK
<1>7. CASE DropOrder
  BY <1>0, <1>1, <1>7, NamesApart DEF DropOrder, DeleteKey, EmptyHash, Fields, StoreTypeOK
<1>8. CASE \/ UNCHANGED vars \/ AnswerSession \/ GetOrderid \/ AnswerLocation
           \/ NamePassenger \/ NameDriver \/ Abandon \/ PutLifecycle \/ Refresh
           \/ RemGeo \/ ListDriver \/ PersistOrder
  BY <1>1, <1>8 DEF vars, AnswerSession, GetOrderid, AnswerLocation, NamePassenger,
       NameDriver, Abandon, PutLifecycle, Refresh, SetLifecycle, RemGeo, RemZset, ListDriver,
       AddGeo, PersistOrder, InsertOrder
<1>9. ASSUME NEW u \in Users, NEW role \in Roles, Login(u, role) \/ Reg(u, role)
      PROVE  Holds(s, o)
  BY <1>1, <1>9 DEF Login, Reg, InsertUser
<1>10. ASSUME NEW x \in Sessions, SetOrder(x) \/ FinishOrder(x)
       PROVE  Holds(s, o)
  BY <1>1, <1>10 DEF SetOrder, FinishOrder, HandleFinish
<1>11. ASSUME NEW x \in Sessions, NEW status \in Statuses, NEW autosend \in {"yes", "no"},
              LocationChanged(x, status, autosend)
       PROVE  Holds(s, o)
  BY <1>1, <1>11 DEF LocationChanged
<1> QED
  BY <1>2, <1>3, <1>4, <1>5, <1>6, <1>7, <1>8, <1>9, <1>10, <1>11 DEF Next

\* An app is told the order that the handler of its report works on.
LEMMA ToldStep ==
  ASSUME Inv, [Next]_vars, NEW s \in Sessions, NEW o \in Orders, reply'[s].orderid = o
  PROVE  \/ reply[s].orderid = o
         \/ web.at = "answerLocation" /\ web.orderid = o /\ web.sessionid = s
<1> USE DEF At
<1>0. reply \in [Sessions -> Replies] /\ o # NONE
  BY NamesApart DEF Inv, Typed, TypeOK
<1>1. CASE UNCHANGED vars \/ KeyExpires \/ Abandon
  BY <1>1 DEF vars, KeyExpires, Abandon
<1>2. CASE AnswerSession
  BY <1>0, <1>2 DEF AnswerSession
<1>3. CASE AnswerLocation
  BY <1>0, <1>3 DEF AnswerLocation, Replies
<1>4. CASE \/ PutSession \/ PutLifecycle \/ CreateOrder \/ BindDriver \/ BindPassenger
           \/ Refresh \/ GetOrderid \/ RemGeo \/ ListDriver \/ StartOrder \/ SetTemp
           \/ NamePassenger \/ NameDriver \/ PersistOrder \/ ClearDriver \/ ClearPassenger
           \/ DropOrder
  BY <1>4 DEF PutSession, PutLifecycle, CreateOrder, BindDriver, BindPassenger, Refresh,
       GetOrderid, RemGeo, ListDriver, StartOrder, SetTemp, NamePassenger, NameDriver,
       PersistOrder, ClearDriver, ClearPassenger, DropOrder
<1>5. ASSUME NEW u \in Users, NEW role \in Roles, Login(u, role) \/ Reg(u, role)
      PROVE  UNCHANGED reply
  BY <1>5 DEF Login, Reg
<1>6. ASSUME NEW x \in Sessions, SetOrder(x) \/ FinishOrder(x)
      PROVE  UNCHANGED reply
  BY <1>6 DEF SetOrder, FinishOrder, HandleFinish
<1>7. ASSUME NEW x \in Sessions, NEW status \in Statuses, NEW autosend \in {"yes", "no"},
             LocationChanged(x, status, autosend)
      PROVE  UNCHANGED reply
  BY <1>7 DEF LocationChanged
<1> QED BY <1>1, <1>2, <1>3, <1>4, <1>5, <1>6, <1>7 DEF Next

\* The ids generated so far are never forgotten.
LEMMA IssuedGrows == [Next]_vars => issued \subseteq issued'
<1> SUFFICES ASSUME [Next]_vars PROVE issued \subseteq issued'
  OBVIOUS
<1>1. CASE UNCHANGED vars \/ KeyExpires \/ Abandon \/ AnswerSession \/ AnswerLocation
  BY <1>1 DEF vars, KeyExpires, Abandon, AnswerSession, AnswerLocation
<1>2. CASE \/ PutSession \/ PutLifecycle \/ CreateOrder \/ BindDriver \/ BindPassenger
           \/ Refresh \/ GetOrderid \/ RemGeo \/ ListDriver \/ StartOrder \/ SetTemp
           \/ NamePassenger \/ NameDriver \/ PersistOrder \/ ClearDriver \/ ClearPassenger
           \/ DropOrder
  BY <1>2 DEF PutSession, PutLifecycle, CreateOrder, BindDriver, BindPassenger, Refresh,
       GetOrderid, RemGeo, ListDriver, StartOrder, SetTemp, NamePassenger, NameDriver,
       PersistOrder, ClearDriver, ClearPassenger, DropOrder
<1>3. ASSUME NEW u \in Users, NEW role \in Roles, Login(u, role) \/ Reg(u, role)
      PROVE  issued \subseteq issued'
  BY <1>3 DEF Login, Reg, CreateSession
<1>4. ASSUME NEW s \in Sessions, SetOrder(s) \/ FinishOrder(s)
      PROVE  issued \subseteq issued'
  BY <1>4 DEF SetOrder, FinishOrder, HandleFinish
<1>5. ASSUME NEW s \in Sessions, NEW status \in Statuses, NEW autosend \in {"yes", "no"},
             LocationChanged(s, status, autosend)
      PROVE  issued \subseteq issued'
  BY <1>5 DEF LocationChanged
<1> QED BY <1>1, <1>2, <1>3, <1>4, <1>5 DEF Next

-----------------------------------------------------------------------------
(* What is known of every order.                                           *)

\* Before the first request no order is known.
LEMMA InitLife == Init => LifeInv
<1> SUFFICES ASSUME Init PROVE LifeInv
  OBVIOUS
<1>1. /\ \A k \in Keys : hash[k].order_status = Nil /\ hash[k].orderid = Nil
      /\ \A o \in Orders : rides[o] = NoRide
      /\ web.at = "idle" /\ web.orderid = Nil /\ \A s \in Sessions : reply[s].orderid = NONE
  BY DEF Init, StoreInit, EmptyHash, Fields, OrderNames, Idle, NoReply
<1>2. PlacedWereIssued /\ HeldComplete
  BY <1>1, NamesApart DEF PlacedWereIssued, HeldComplete, Placed, Holds, Keys
<1> QED BY <1>1, <1>2, NamesApart DEF LifeInv, NewIsFresh, ToldComplete, WorkedComplete, At

\* An order that was completed stays so: until its row is stored nobody takes back its
\* status or its parties.
LEMMA CompleteStays ==
  ASSUME Inv, LifeInv, [Next]_vars, NEW o \in Orders, Complete(o)
  PROVE  Complete(o)'
<1>1. CASE rides[o] # NoRide
  BY <1>1, RidesStay DEF Complete
<1>2. CASE rides[o] = NoRide
  <2>1. hash[o].order_status # Nil /\ PassengerOf(o) \in Sessions /\ DriverOf(o) \in Sessions
    BY <1>2 DEF Complete
  <2>2. CASE SameOrder(o) \/ StartsOrder(o)
    BY <2>1, <2>2 DEF Complete, SameOrder, StartsOrder, Nil
  <2>3. ~CreatesOrder(o)
    BY <2>1 DEF CreatesOrder, CreateOrder, LifeInv, NewIsFresh, Placed
  <2>4. ~DropsOrder(o)
    BY <1>2 DEF DropsOrder, DropOrder, Inv, FinishInv, RideStored, At
  <2> QED BY <2>2, <2>3, <2>4, OrderStep
<1> QED BY <1>1, <1>2

\* Whichever order a handler writes to after it was created is complete.
LEMMA WorkedStays ==
  ASSUME Inv, LifeInv, [Next]_vars, NEW o \in Orders, web'.orderid = o,
         web'.at # "createOrder"
  PROVE  Complete(o)'
<1>0. /\ HeldComplete /\ ToldComplete /\ WorkedComplete /\ LocalsSet
  BY DEF LifeInv, Inv, Typed
<1>1. ASSUME Complete(o) PROVE Complete(o)'
  BY <1>1, CompleteStays
<1>2. CASE web.orderid = o /\ web.at # "createOrder"
  BY <1>0, <1>1, <1>2 DEF WorkedComplete, At
<1>3. CASE CreateOrder /\ web.orderid = o /\ web'.at = "bindDriver"
  <2>1. web.sessionid \in Sessions /\ web.driver \in Sessions
    BY <1>0, <1>3 DEF CreateOrder, At, LocalsSet, SessionCalls, BookingCalls
  <2>2. ~Placed(o)
    BY <1>3 DEF LifeInv, NewIsFresh, CreateOrder
  <2>3. CASE CreatesOrder(o)
    BY <1>3, <2>1, <2>3 DEF CreatesOrder, Complete, Nil
  <2>4. ~StartsOrder(o) /\ ~DropsOrder(o)
    BY <1>3 DEF StartsOrder, StartOrder, DropsOrder, DropOrder, CreateOrder, At
  <2>5. CASE SameOrder(o)
    <3>1. PICK r \in Outcomes : /\ SetHash(o, [order_status |-> "INIT",
                                     passenger_sessionid |-> web.sessionid,
                                     driver_sessionid |-> web.driver], r)
                                /\ Chain(r = "done", "bindDriver")
      BY <1>3 DEF CreateOrder
    <3>2. r = "done"
      BY <1>3, <3>1 DEF Chain, Idle
    <3>3. hash'[o].order_status = "INIT"
      <4>1. \A f \in {"order_status", "passenger_sessionid", "driver_sessionid"} :
              hash'[o][f] = [order_status |-> "INIT", passenger_sessionid |-> web.sessionid,
                             driver_sessionid |-> web.driver][f]
        <5> DEFINE w == [order_status |-> "INIT", passenger_sessionid |-> web.sessionid,
                         driver_sessionid |-> web.driver]
        <5>1. TypedWrite(w)
                /\ DOMAIN w = {"order_status", "passenger_sessionid", "driver_sessionid"}
          BY <1>3, WritesTyped DEF CreateOrder, At, Inv
        <5>2. SetHash(o, w, r) /\ Typed /\ o \in OrderNames
          BY <3>1 DEF Inv, OrderNames
        <5>3. \A f \in DOMAIN w : hash'[o][f] = w[f]
          <6> HIDE DEF w
          <6> QED BY <3>2, <5>1, <5>2, OrderWritten
        <5> QED BY <5>1, <5>3
      <4> QED BY <4>1
    <3> QED BY <2>2, <2>5, <3>3 DEF SameOrder, Placed, Nil
  <2> QED BY <2>3, <2>4, <2>5, OrderStep
<1>4. CASE GetOrderid /\ Holds(web.sessionid, o)
  <2>1. web.sessionid \in Sessions
    BY <1>0, <1>4 DEF GetOrderid, At, LocalsSet, SessionCalls
  <2> QED BY <1>0, <1>1, <1>4, <2>1 DEF HeldComplete
<1>5. ASSUME NEW s \in Sessions, reply[s].orderid = o PROVE Complete(o)'
  BY <1>0, <1>1, <1>5 DEF ToldComplete
<1> QED BY <1>2, <1>3, <1>4, <1>5, WorkStep

\* No step breaks it.
LEMMA NextLife == Inv /\ LifeInv /\ [Next]_vars => LifeInv'
<1> SUFFICES ASSUME Inv, LifeInv, [Next]_vars PROVE LifeInv'
  OBVIOUS
<1>0. /\ PlacedWereIssued /\ NewIsFresh /\ HeldComplete /\ ToldComplete /\ WorkedComplete
      /\ issued \subseteq issued' /\ BookingInv /\ LocalsSet
  BY IssuedGrows DEF LifeInv, Inv, Typed
\* An order whose hash and row a step leaves alone is placed if it was.
<1>1. ASSUME NEW o \in Orders, Placed(o)', ~Placed(o)
      PROVE  CreatesOrder(o)
  <2>1. CASE rides'[o] # rides[o]
    <3>1. PersistOrder /\ web.orderid = o
      BY <2>1, RidesStep
    <3>2. Complete(o)
      BY <1>0, <3>1 DEF WorkedComplete, PersistOrder, At
    <3> QED BY <1>1, <3>2 DEF Complete, Placed
  <2>2. CASE rides'[o] = rides[o]
    <3>1. ~SameOrder(o)
      BY <1>1, <2>2 DEF SameOrder, Placed
    <3>2. ~StartsOrder(o)
      <4> SUFFICES ASSUME StartsOrder(o) PROVE FALSE
        OBVIOUS
      <4>1. Complete(o)
        BY <1>0 DEF StartsOrder, StartOrder, WorkedComplete, At
      <4> QED BY <1>1, <4>1 DEF Complete, Placed
    <3>3. ~DropsOrder(o)
      BY <1>1 DEF DropsOrder, DropOrder, Inv, FinishInv, RideStored, At, Placed
    <3> QED BY <3>1, <3>2, <3>3, OrderStep
  <2> QED BY <2>1, <2>2
<1>2. PlacedWereIssued'
  <2> SUFFICES ASSUME NEW o \in Orders, Placed(o)' PROVE o \in issued'
    BY DEF PlacedWereIssued
  <2>1. CASE Placed(o)
    BY <1>0, <2>1 DEF PlacedWereIssued
  <2>2. CASE ~Placed(o)
    <3>1. CreatesOrder(o)
      BY <1>1, <2>2
    <3> QED BY <1>0, <3>1 DEF CreatesOrder, CreateOrder, BookingInv, BookingCalls, At
  <2> QED BY <2>1, <2>2
<1>3. NewIsFresh'
  <2>1. web'.at = "createOrder" => web'.orderid \in Orders
    BY NextTyped DEF Inv, Typed, LocalsSet, BookingCalls
  <2>2. ASSUME NEW o \in Orders, web'.at = "createOrder", web'.orderid = o
        PROVE  ~Placed(o)'
    <3>1. CASE web' = web
      <4>1. ~Placed(o)
        BY <1>0, <2>2, <3>1 DEF NewIsFresh, At
      <4>2. ~CreatesOrder(o)
        BY <2>2, <3>1 DEF CreatesOrder, CreateOrder, Chain, Goto, Idle, At, Inv, Typed, TypeOK,
                          Handlers
      <4> QED BY <1>1, <4>1, <4>2
    <3>2. CASE o \notin issued /\ UNCHANGED <<hash, rides>>
      BY <1>0, <3>2 DEF PlacedWereIssued, Placed
    <3> QED BY <2>2, <3>1, <3>2, WorkStep
  <2> QED BY <2>1, <2>2 DEF NewIsFresh, At, Placed
<1>4. HeldComplete'
  <2> SUFFICES ASSUME NEW s \in Sessions, NEW o \in Orders, hash'[s].orderid = o
               PROVE  Complete(o)'
    BY DEF HeldComplete, Holds
  <2>1. Complete(o)
    BY <1>0, HoldsStep DEF HeldComplete, WorkedComplete, At
  <2> QED BY <2>1, CompleteStays
<1>5. ToldComplete'
  <2> SUFFICES ASSUME NEW s \in Sessions, NEW o \in Orders, reply'[s].orderid = o
               PROVE  Complete(o)'
    BY DEF ToldComplete
  <2>1. Complete(o)
    BY <1>0, ToldStep DEF ToldComplete, WorkedComplete, At
  <2> QED BY <2>1, CompleteStays
<1>6. WorkedComplete'
  BY WorkedStays DEF WorkedComplete, At
<1> QED BY <1>2, <1>3, <1>4, <1>5, <1>6 DEF LifeInv

\* What is known of every order always holds.
THEOREM LifeAlways == Spec => []LifeInv
<1>1. Init => LifeInv
  BY InitLife
<1>2. Inv /\ LifeInv /\ [Next]_vars => LifeInv'
  BY NextLife
<1> QED BY <1>1, <1>2, InvAlways, PTL DEF Spec

-----------------------------------------------------------------------------
(* The life of an order.                                                   *)

stages == [o \in Orders |-> StageOf(o)]

\* The step from one stage to another that the handlers' step is, for one order.
Moved(o) ==
  \/ StageOf(o) = "none" /\ StageOf(o)' = "placed"
  \/ StageOf(o) = "placed" /\ StageOf(o)' = "driving"
  \/ StageOf(o) \in {"placed", "driving"} /\ StageOf(o)' = "finished"

\* An order that a step does not move stays where it is, and the one that it moves is the
\* one that the handler works on.
LEMMA StageStep ==
  ASSUME Inv, LifeInv, [Next]_vars, NEW o \in Orders
  PROVE  StageOf(o)' = StageOf(o) \/ (Moved(o) /\ web.orderid = o)
<1>0. /\ hash[o].order_status \in {Nil, "INIT", "ACTIVE"} /\ Nil \notin {"INIT", "ACTIVE"}
      /\ WorkedComplete /\ NewIsFresh
  BY DEF Inv, Typed, TypeOK, StoreTypeOK, WellTyped, Keys, LifeInv, Nil
<1>1. CASE rides[o] # NoRide
  BY <1>1, RidesStay DEF StageOf
<1>2. CASE rides[o] = NoRide /\ rides'[o] # rides[o]
  <2>1. PersistOrder /\ web.orderid = o
    BY <1>2, RidesStep
  <2>2. hash[o].order_status # Nil
    BY <1>0, <1>2, <2>1 DEF WorkedComplete, Complete, PersistOrder, At
  <2> QED BY <1>0, <1>2, <2>1, <2>2 DEF StageOf, Moved
<1>3. CASE rides[o] = NoRide /\ rides'[o] = NoRide
  <2>1. CASE SameOrder(o)
    BY <1>3, <2>1 DEF SameOrder, StageOf
  <2>2. CASE CreatesOrder(o)
    <3>1. hash[o].order_status = Nil
      BY <2>2 DEF CreatesOrder, CreateOrder, LifeInv, NewIsFresh, Placed
    <3> QED BY <1>0, <1>3, <2>2, <3>1 DEF CreatesOrder, StageOf, Moved
  <2>3. CASE StartsOrder(o)
    <3>1. hash[o].order_status # Nil
      BY <1>0, <1>3, <2>3 DEF StartsOrder, StartOrder, WorkedComplete, Complete, At
    <3> QED BY <1>0, <1>3, <2>3, <3>1 DEF StartsOrder, StageOf, Moved
  <2>4. ~DropsOrder(o)
    BY <1>3 DEF DropsOrder, DropOrder, Inv, FinishInv, RideStored, At
  <2> QED BY <2>1, <2>2, <2>3, <2>4, OrderStep
<1> QED BY <1>1, <1>2, <1>3

\* Every step of the servers is a step in the life of one order, or of none.
LEMMA LifeStep ==
  ASSUME Inv, LifeInv, [Next]_vars
  PROVE  [Life!LifeNext]_stages
<1>1. CASE \A o \in Orders : StageOf(o)' = StageOf(o)
  BY <1>1 DEF stages
<1>2. ASSUME NEW o \in Orders, StageOf(o)' # StageOf(o)
      PROVE  Life!LifeNext
  <2>1. Moved(o) /\ web.orderid = o
    BY <1>2, StageStep
  <2>2. \A x \in Orders \ {o} : StageOf(x)' = StageOf(x)
    BY <2>1, StageStep
  <2>3. stages' = [stages EXCEPT ![o] = StageOf(o)'] /\ stages[o] = StageOf(o)
    BY <2>2 DEF stages
  <2>4. Life!Place(o) \/ Life!Start(o) \/ Life!Finish(o)
    BY <2>1, <2>3 DEF Moved, stages, Life!Place, Life!Start, Life!Finish, Life!Move
  <2> QED BY <2>4 DEF Life!LifeNext
<1> QED BY <1>1, <1>2

\* The web server and the data server implement OrderLife: whatever fails, expires or is
\* booked twice, every order is placed once, started once and finished once, in that order.
THEOREM LivesOnce == Spec => OrdersLiveOnce
<1>1. Init => Life!LifeInit
  <2> SUFFICES ASSUME Init, NEW o \in Orders PROVE StageOf(o) = "none"
    BY DEF Life!LifeInit
  <2> QED BY DEF Init, StoreInit, EmptyHash, Fields, Keys, OrderNames, StageOf, Nil
<1>2. Inv /\ LifeInv /\ [Next]_vars => [Life!LifeNext]_stages
  BY LifeStep
<1> QED BY <1>1, <1>2, InvAlways, LifeAlways, PTL
        DEF Spec, OrdersLiveOnce, Life!LifeSpec, stages

-----------------------------------------------------------------------------
(* Who may do what: passengers book, drivers are booked, drive and start.  *)

\* The sessions that an order names were handed to a passenger and to a driver.
PartiesAct ==
  \A o \in Orders :
    /\ PassengerOf(o) \in Sessions => reply[PassengerOf(o)].role = "passenger"
    /\ DriverOf(o) \in Sessions => reply[DriverOf(o)].role = "driver"
DriversListed == \A s \in pool : reply[s].role = "driver"
BookersAct ==
  web.at \in BookingCalls =>
    reply[web.sessionid].role = "passenger" /\ reply[web.driver].role = "driver"

\* The handler of a report knows whose report it is, and starts an order only for a driver
\* that drives, and only the order that it read from that driver's session.
ReportersAct ==
  /\ web.at \in ReportCalls =>
       /\ reply[web.sessionid].role = web.role /\ web.role \in Roles
       /\ web.autosend = "yes" => web.status = "driving"
  /\ web.at \in {"remGeo", "addGeo", "startOrder"} => web.role = "driver"
  /\ At("startOrder") => web.autosend = "yes"
  /\ web.at \in {"remGeo", "startOrder"} /\ web.orderid \in Orders =>
       web.sessionid \in Parties(web.orderid)

\* The names that a finish has read are those of the sessions that it read them from.
NamesRead ==
  /\ web.at \in {"nameDriver", "insert"} /\ web.orderid \in Orders
       /\ web.sessionid \in Sessions =>
         web.username \in {Nil, reply[web.sessionid].username}
  /\ At("insert") /\ web.orderid \in Orders /\ web.driver \in Sessions =>
       web.drivername \in {Nil, reply[web.driver].username}

PartyInv == PartiesAct /\ DriversListed /\ BookersAct /\ ReportersAct /\ NamesRead

\* An app keeps the role and the name that it was told.
LEMMA RolesStay ==
  ASSUME Typed, AccountInv, [Next]_vars, NEW s \in Sessions, reply[s].role # Nil
  PROVE  reply'[s].role = reply[s].role /\ reply'[s].username = reply[s].username
<1> USE DEF At
<1>0. reply \in [Sessions -> Replies]
  BY DEF Typed, TypeOK
<1>1. CASE UNCHANGED vars \/ KeyExpires \/ Abandon
  BY <1>1 DEF vars, KeyExpires, Abandon
<1>2. CASE AnswerSession
  <2>1. reply[web.sessionid].role = Nil
    BY <1>2 DEF AnswerSession, AccountInv, LoginKnows, LoginCalls
  <2> QED BY <1>0, <1>2, <2>1 DEF AnswerSession
<1>3. CASE AnswerLocation
  BY <1>0, <1>3 DEF AnswerLocation, Replies
<1>4. CASE \/ PutSession \/ PutLifecycle \/ CreateOrder \/ BindDriver \/ BindPassenger
           \/ Refresh \/ GetOrderid \/ RemGeo \/ ListDriver \/ StartOrder \/ SetTemp
           \/ NamePassenger \/ NameDriver \/ PersistOrder \/ ClearDriver \/ ClearPassenger
           \/ DropOrder
  BY <1>4 DEF PutSession, PutLifecycle, CreateOrder, BindDriver, BindPassenger, Refresh,
       GetOrderid, RemGeo, ListDriver, StartOrder, SetTemp, NamePassenger, NameDriver,
       PersistOrder, ClearDriver, ClearPassenger, DropOrder
<1>5. ASSUME NEW u \in Users, NEW role \in Roles, Login(u, role) \/ Reg(u, role)
      PROVE  UNCHANGED reply
  BY <1>5 DEF Login, Reg
<1>6. ASSUME NEW x \in Sessions, SetOrder(x) \/ FinishOrder(x)
      PROVE  UNCHANGED reply
  BY <1>6 DEF SetOrder, FinishOrder, HandleFinish
<1>7. ASSUME NEW x \in Sessions, NEW status \in Statuses, NEW autosend \in {"yes", "no"},
             LocationChanged(x, status, autosend)
      PROVE  UNCHANGED reply
  BY <1>7 DEF LocationChanged
<1> QED BY <1>1, <1>2, <1>3, <1>4, <1>5, <1>6, <1>7 DEF Next

\* Only the handler of a driver's report lists a driver: its own.
LEMMA PoolStep ==
  ASSUME [Next]_vars, NEW s \in pool'
  PROVE  s \in pool \/ (web.at = "addGeo" /\ s = web.sessionid)
<1> USE DEF At
<1>1. CASE ListDriver
  BY <1>1 DEF ListDriver, AddGeo
<1>2. CASE \/ PutSession \/ CreateOrder \/ BindDriver \/ BindPassenger \/ StartOrder
           \/ SetTemp \/ ClearDriver \/ ClearPassenger
  BY <1>2 DEF PutSession, CreateOrder, BindDriver, BindPassenger, StartOrder, SetTemp,
              ClearDriver, ClearPassenger, SetHash
<1>3. CASE \/ PutLifecycle \/ Refresh \/ RemGeo \/ DropOrder \/ KeyExpires \/ PersistOrder
  BY <1>3 DEF PutLifecycle, Refresh, SetLifecycle, RemGeo, RemZset, DropOrder, DeleteKey,
              KeyExpires, Expire, PersistOrder, InsertOrder
<1>4. CASE \/ UNCHANGED vars \/ AnswerSession \/ GetOrderid \/ AnswerLocation
           \/ NamePassenger \/ NameDriver \/ Abandon
  BY <1>4 DEF vars, AnswerSession, GetOrderid, AnswerLocation, NamePassenger, NameDriver,
              Abandon
<1>5. ASSUME NEW u \in Users, NEW role \in Roles, Login(u, role) \/ Reg(u, role)
      PROVE  UNCHANGED pool
  BY <1>5 DEF Login, Reg, InsertUser
<1>6. ASSUME NEW x \in Sessions, SetOrder(x) \/ FinishOrder(x)
      PROVE  UNCHANGED pool
  BY <1>6 DEF SetOrder, FinishOrder, HandleFinish
<1>7. ASSUME NEW x \in Sessions, NEW status \in Statuses, NEW autosend \in {"yes", "no"},
             LocationChanged(x, status, autosend)
      PROVE  UNCHANGED pool
  BY <1>7 DEF LocationChanged
<1> QED BY <1>1, <1>2, <1>3, <1>4, <1>5, <1>6, <1>7 DEF Next

\* The parties of the orders change in CreateOrder and in DropOrder only.
LEMMA PartiesStable ==
  ASSUME Inv, [Next]_vars, web.at \notin {"createOrder", "deleteKey"}
  PROVE  PartiesKept
  BY OrderStep DEF PartiesKept, SameOrder, StartsOrder, CreatesOrder, DropsOrder, CreateOrder,
                   DropOrder, At

\* Before the first request nobody has a role.
LEMMA InitParty == Init => PartyInv
<1> SUFFICES ASSUME Init PROVE PartyInv
  OBVIOUS
<1>1. /\ \A o \in Orders : PassengerOf(o) = Nil /\ DriverOf(o) = Nil
      /\ pool = {} /\ web.at = "idle"
  BY DEF Init, StoreInit, EmptyHash, Fields, Keys, Idle
<1> QED BY <1>1, NamesApart DEF PartyInv, PartiesAct, DriversListed, BookersAct, ReportersAct,
           NamesRead, BookingCalls, ReportCalls, At

\* The parties that a step gives an order have the roles that the order is booked in.
LEMMA NextPartiesAct ==
  ASSUME Inv, AccountInv, PartyInv, [Next]_vars PROVE PartiesAct' /\ DriversListed'
<1>0. Typed /\ PartiesAct /\ BookersAct /\ DriversListed /\ ReportersAct /\ LocalsSet
      /\ pool' \subseteq Sessions
  BY NextTyped DEF Inv, PartyInv, Typed, TypeOK, StoreTypeOK
<1>1. ASSUME NEW s \in Sessions, NEW role \in Roles, reply[s].role = role
      PROVE  reply'[s].role = role
  <2>1. reply[s].role # Nil
    BY <1>1 DEF Roles, Nil
  <2> QED BY <1>0, <1>1, <2>1, RolesStay
<1>2. ASSUME NEW o \in Orders
      PROVE  /\ PassengerOf(o)' \in Sessions => reply[PassengerOf(o)'].role = "passenger"
             /\ DriverOf(o)' \in Sessions => reply[DriverOf(o)'].role = "driver"
  <2>1. CASE SameOrder(o) \/ StartsOrder(o)
    BY <1>0, <2>1 DEF SameOrder, StartsOrder, PartiesAct
  <2>2. CASE CreatesOrder(o)
    BY <1>0, <2>2 DEF CreatesOrder, CreateOrder, PartiesAct, BookersAct, BookingCalls, At
  <2>3. CASE DropsOrder(o)
    <3>1. EmptyHash.passenger_sessionid = Nil /\ EmptyHash.driver_sessionid = Nil
      BY DEF EmptyHash, Fields
    <3> QED BY <1>0, <2>3, <3>1, NamesApart DEF DropsOrder, PartiesAct
  <2> QED BY <2>1, <2>2, <2>3, OrderStep
<1>3. PartiesAct'
  BY <1>1, <1>2 DEF PartiesAct, Roles
<1>4. ASSUME NEW s \in pool' PROVE reply[s].role = "driver" /\ s \in Sessions
  <2>1. CASE s \in pool
    BY <1>0, <2>1 DEF DriversListed
  <2>2. CASE web.at = "addGeo" /\ s = web.sessionid
    BY <1>0, <2>2 DEF ReportersAct, ReportCalls
  <2> QED BY <1>0, <2>1, <2>2, PoolStep
<1>5. DriversListed'
  BY <1>1, <1>4 DEF DriversListed, Roles
<1> QED BY <1>3, <1>5

\* No step breaks it.
LEMMA NextParty == Inv /\ AccountInv /\ PartyInv /\ [Next]_vars => PartyInv'
<1> SUFFICES ASSUME Inv, AccountInv, PartyInv, [Next]_vars PROVE PartyInv'
  OBVIOUS
<1> USE DEF At
<1>0. /\ Typed /\ StoreTypeOK /\ LocalsSet /\ web \in Handlers /\ DriversListed /\ BookersAct
      /\ ReportersAct /\ NamesRead /\ OrdersHeldByTheirParties /\ FinishNames
      /\ PartiesAct' /\ DriversListed' /\ reply \in [Sessions -> Replies]
      /\ \A s \in Sessions : SessionKnown(s)
  BY NextPartiesAct DEF Inv, PartyInv, Typed, TypeOK, FinishInv, AccountInv
<1>r. ASSUME NEW s \in Sessions, reply[s].role \in Roles
      PROVE  reply'[s].role = reply[s].role /\ reply'[s].username = reply[s].username
  BY <1>0, <1>r, RolesStay DEF Roles, Nil
<1>w. ASSUME BookersAct', ReportersAct', NamesRead' PROVE PartyInv'
  BY <1>0, <1>w DEF PartyInv
<1>i. Idle.at = "idle"
  BY DEF Idle
\* Steps that leave a handler in none of the places that matter.
<1>1. ASSUME web'.at \notin BookingCalls \cup ReportCalls \cup {"nameDriver", "insert"}
      PROVE  PartyInv'
  BY <1>1, <1>w DEF BookersAct, ReportersAct, NamesRead, ReportCalls
<1>2. CASE \/ PutSession \/ PutLifecycle \/ AnswerSession \/ AnswerLocation \/ BindPassenger
           \/ PersistOrder \/ ClearDriver \/ ClearPassenger \/ DropOrder \/ Abandon
  <2>1. web'.at \in {"idle", "lifecycle", "answerSession", "clearDriver", "clearPassenger",
                     "deleteKey"}
    BY <1>0, <1>2, <1>i DEF PutSession, PutLifecycle, AnswerSession, AnswerLocation,
         BindPassenger, PersistOrder, ClearDriver, ClearPassenger, DropOrder, Abandon,
         Chain, Goto, Handlers
  <2> QED BY <1>1, <2>1 DEF BookingCalls, ReportCalls
<1>3. CASE UNCHANGED vars \/ KeyExpires
  <2>1. UNCHANGED <<web, reply>>
    BY <1>3 DEF vars, KeyExpires
  <2>2. web.at \in {"remGeo", "startOrder"} => PartiesKept
    BY PartiesStable
  <2>3. BookersAct' /\ NamesRead'
    BY <1>0, <2>1 DEF BookersAct, NamesRead
  <2>4. ReportersAct'
    BY <1>0, <2>1, <2>2 DEF ReportersAct, PartiesKept, Parties
  <2> QED BY <1>w, <2>3, <2>4
<1>4. ASSUME NEW u \in Users, NEW role \in Roles, Login(u, role) \/ Reg(u, role)
      PROVE  PartyInv'
  <2>1. web'.at \in {"session", "idle"}
    BY <1>4 DEF Login, Reg, CreateSession, Idle
  <2> QED BY <1>1, <2>1 DEF BookingCalls, ReportCalls
\* A passenger books a driver of the pool.
<1>5. ASSUME NEW s \in Sessions, SetOrder(s)
      PROVE  PartyInv'
  <2>1. PICK d \in NearestDrivers, o \in Orders \ issued :
          web' = [Idle EXCEPT !.at = "createOrder", !.sessionid = s, !.driver = d,
                              !.orderid = o]
    BY <1>5 DEF SetOrder
  <2>2. /\ web'.at = "createOrder" /\ web'.sessionid = s /\ web'.driver = d
        /\ d \in pool /\ UNCHANGED reply /\ reply[s].role = "passenger"
    BY <1>5, <2>1 DEF SetOrder, Idle, NearestDrivers, RadiusGeo
  <2>3. BookersAct'
    BY <1>0, <2>2 DEF BookersAct, DriversListed
  <2>4. ReportersAct' /\ NamesRead'
    BY <2>2 DEF ReportersAct, NamesRead, ReportCalls
  <2> QED BY <1>w, <2>3, <2>4
<1>6. CASE CreateOrder \/ BindDriver
  <2>1. \/ web'.at = "idle"
        \/ /\ web'.at \in {"bindDriver", "bindPassenger"} /\ web'.sessionid = web.sessionid
           /\ web'.driver = web.driver
    BY <1>0, <1>6, <1>i DEF CreateOrder, BindDriver, Chain, Goto, Handlers
  <2>2. web.at \in BookingCalls /\ UNCHANGED reply
    BY <1>6 DEF CreateOrder, BindDriver, BookingCalls
  <2>3. BookersAct' /\ ReportersAct' /\ NamesRead'
    BY <1>0, <2>1, <2>2 DEF BookersAct, ReportersAct, NamesRead, BookingCalls, ReportCalls
  <2> QED BY <1>w, <2>3
\* A report is handled for the session that sent it.
<1>7. ASSUME NEW s \in Sessions, NEW status \in Statuses, NEW autosend \in {"yes", "no"},
             LocationChanged(s, status, autosend)
      PROVE  PartyInv'
  <2>1. /\ web'.at = "refresh" /\ web'.sessionid = s /\ web'.role = reply[s].role
        /\ web'.status = status /\ web'.autosend = autosend /\ reply[s].role \in Roles
        /\ autosend = "yes" => status = "driving"
        /\ UNCHANGED reply
    BY <1>7 DEF LocationChanged, Idle
  <2>2. BookersAct' /\ ReportersAct' /\ NamesRead'
    BY <2>1 DEF BookersAct, ReportersAct, NamesRead, BookingCalls, ReportCalls
  <2> QED BY <1>w, <2>2
<1>8. CASE Refresh \/ ListDriver \/ StartOrder \/ SetTemp
  <2>1. \/ web'.at = "idle"
        \/ /\ web'.at \in {"getOrderid", "answerLocation", "setTemp"}
           /\ web'.sessionid = web.sessionid /\ web'.role = web.role
           /\ web'.autosend = web.autosend /\ web'.status = web.status
    BY <1>0, <1>8, <1>i DEF Refresh, ListDriver, StartOrder, SetTemp, Chain, Goto, Handlers
  <2>2. web.at \in ReportCalls /\ UNCHANGED reply
    BY <1>8 DEF Refresh, ListDriver, StartOrder, SetTemp, ReportCalls
  <2>3. BookersAct' /\ ReportersAct' /\ NamesRead'
    BY <1>0, <2>1, <2>2 DEF BookersAct, ReportersAct, NamesRead, BookingCalls, ReportCalls
  <2> QED BY <1>w, <2>3
<1>9. CASE GetOrderid
  <2>1. /\ web'.at = FirstCall(web.role, web.status)
        /\ web'.at \in {"remGeo", "setTemp", "answerLocation"}
        /\ web'.at = "remGeo" => web.role = "driver"
        /\ web'.sessionid = web.sessionid /\ web'.role = web.role
        /\ web'.autosend = web.autosend /\ web'.status = web.status
        /\ web'.orderid = hash[web.sessionid].orderid
        /\ UNCHANGED <<reply, hash>>
    BY <1>0, <1>9 DEF GetOrderid, FirstCall, Handlers
  <2>2. web.at \in ReportCalls /\ web.sessionid \in Sessions
    BY <1>0, <1>9 DEF GetOrderid, ReportCalls, LocalsSet, SessionCalls
  <2>3. web'.orderid \in Orders => web'.sessionid \in Parties(web'.orderid)
    BY <1>0, <2>1, <2>2 DEF OrdersHeldByTheirParties, Holds
  <2>4. ReportersAct'
    BY <1>0, <2>1, <2>2, <2>3 DEF ReportersAct, ReportCalls, Parties
  <2>5. BookersAct' /\ NamesRead'
    BY <2>1 DEF BookersAct, NamesRead, BookingCalls
  <2> QED BY <1>w, <2>4, <2>5
<1>10. CASE RemGeo
  <2>1. \/ web'.at = "idle"
        \/ /\ web'.at \in {"answerLocation", "addGeo", "startOrder", "setTemp"}
           /\ web'.at = "startOrder" => web.autosend = "yes"
           /\ web'.sessionid = web.sessionid /\ web'.role = web.role
           /\ web'.autosend = web.autosend /\ web'.status = web.status
           /\ web'.orderid = web.orderid
    BY <1>0, <1>10, <1>i DEF RemGeo, AfterRemGeo, Chain, Goto, Handlers
  <2>2. UNCHANGED <<hash, reply>>
    BY <1>10 DEF RemGeo, RemZset
  <2>3. web.at \in ReportCalls /\ web.role = "driver"
        /\ (web.orderid \in Orders => web.sessionid \in Parties(web.orderid))
    BY <1>0, <1>10 DEF RemGeo, ReportersAct, ReportCalls
  <2>4. ReportersAct'
    BY <1>0, <2>1, <2>2, <2>3 DEF ReportersAct, ReportCalls, Parties
  <2>5. BookersAct' /\ NamesRead'
    BY <2>1 DEF BookersAct, NamesRead, BookingCalls
  <2> QED BY <1>w, <2>4, <2>5
\* A finish reads the names of the parties from their sessions.
<1>11. ASSUME NEW s \in Sessions, FinishOrder(s)
       PROVE  PartyInv'
  <2>1. web'.at = "namePassenger"
    BY <1>11 DEF FinishOrder, HandleFinish, Idle
  <2> QED BY <1>1, <2>1 DEF BookingCalls, ReportCalls
<1>12. CASE NamePassenger \/ NameDriver
  <2>1. /\ web'.at \in {"nameDriver", "insert"} /\ web'.orderid = web.orderid
        /\ web'.sessionid = web.sessionid /\ web'.driver = web.driver
        /\ UNCHANGED <<hash, reply>>
    BY <1>0, <1>12 DEF NamePassenger, NameDriver, Handlers
  <2>2. ASSUME web.orderid \in Orders
        PROVE  /\ web.sessionid \in Sessions =>
                    hash[web.sessionid].username \in {Nil, reply[web.sessionid].username}
               /\ web.driver \in Sessions =>
                    hash[web.driver].username \in {Nil, reply[web.driver].username}
    <3>1. NamesItsParties
      BY <1>0, <1>12, <2>2 DEF FinishNames, FinishCalls, NamePassenger, NameDriver
    <3>2. /\ web.sessionid \in Sessions => reply[web.sessionid].role = "passenger"
          /\ web.driver \in Sessions => reply[web.driver].role = "driver"
      BY <2>2, <3>1 DEF NamesItsParties, PartyInv, PartiesAct
    <3> QED BY <1>0, <3>2 DEF SessionKnown, NameKept, Nil
  <2>3. NamesRead'
    <3>1. CASE NamePassenger
      <4>1. web'.at = "nameDriver" /\ web'.username = hash[web.sessionid].username
        BY <1>0, <3>1 DEF NamePassenger, Handlers
      <4> QED BY <2>1, <2>2, <4>1 DEF NamesRead
    <3>2. CASE NameDriver
      <4>1. /\ web'.drivername = hash[web.driver].username /\ web'.username = web.username
            /\ web.at = "nameDriver"
        BY <1>0, <3>2 DEF NameDriver, Handlers
      <4> QED BY <1>0, <2>1, <2>2, <4>1 DEF NamesRead
    <3> QED BY <1>12, <3>1, <3>2
  <2>4. BookersAct' /\ ReportersAct'
    BY <2>1 DEF BookersAct, ReportersAct, BookingCalls, ReportCalls
  <2> QED BY <1>w, <2>3, <2>4
<1> QED
  BY <1>2, <1>3, <1>4, <1>5, <1>6, <1>7, <1>8, <1>9, <1>10, <1>11, <1>12 DEF Next

\* Who may do what always holds.
THEOREM PartyAlways == Spec => []PartyInv
<1>1. Init => PartyInv
  BY InitParty
<1>2. Inv /\ AccountInv /\ PartyInv /\ [Next]_vars => PartyInv'
  BY NextParty
<1> QED BY <1>1, <1>2, InvAlways, AccountsAlways, PTL DEF Spec

\* Nobody but the driver of an order, reporting that it drives, starts it.
THEOREM StartedByItsDriver == Spec => OnlyItsDriverStarts
<1>1. ASSUME Inv, PartyInv, [Next]_vars
      PROVE  [\A o \in Orders : hash'[o].order_status = "ACTIVE" =>
                \/ hash[o].order_status = "ACTIVE"
                \/ web.sessionid = DriverOf(o) /\ web.status = "driving"]_vars
  <2> SUFFICES ASSUME NEW o \in Orders, hash'[o].order_status = "ACTIVE",
                      hash[o].order_status # "ACTIVE"
               PROVE  web.sessionid = DriverOf(o) /\ web.status = "driving"
    OBVIOUS
  <2>1. StartsOrder(o)
    <3>1. EmptyHash.order_status = Nil
      BY DEF EmptyHash, Fields
    <3> QED BY <1>1, <3>1, OrderStep DEF SameOrder, CreatesOrder, DropsOrder, Nil
  <2>2. web.at = "startOrder" /\ web.orderid = o /\ web.sessionid \in Sessions
    BY <1>1, <2>1 DEF StartsOrder, StartOrder, At, Inv, Typed, LocalsSet, SessionCalls
  <2>3. /\ web.sessionid \in Parties(o) /\ reply[web.sessionid].role = "driver"
        /\ web.status = "driving"
    BY <1>1, <2>2 DEF PartyInv, ReportersAct, ReportCalls, At
  <2>4. web.sessionid # PassengerOf(o)
    BY <1>1, <2>2, <2>3 DEF PartyInv, PartiesAct
  <2> QED BY <2>3, <2>4 DEF Parties
<1> QED BY <1>1, InvAlways, PartyAlways, PTL DEF Spec, OnlyItsDriverStarts

\* The row of an order carries the names of its own passenger and driver, or none where a
\* session had expired; the names that a handler read never go to another order's row.
THEOREM RideNamesTheParties == Spec => RideNamesItsParties
<1>1. ASSUME Inv, LifeInv, PartyInv, [Next]_vars
      PROVE  [\A o \in Orders : rides'[o] # rides[o] =>
                /\ rides'[o].passenger \in {Nil, reply[PassengerOf(o)].username}
                /\ rides'[o].driver \in {Nil, reply[DriverOf(o)].username}]_vars
  <2> SUFFICES ASSUME NEW o \in Orders, rides'[o] # rides[o]
               PROVE  /\ rides'[o].passenger \in {Nil, reply[PassengerOf(o)].username}
                      /\ rides'[o].driver \in {Nil, reply[DriverOf(o)].username}
    OBVIOUS
  <2>1. /\ web.at = "insert" /\ web.orderid = o /\ rides[o] = NoRide
        /\ rides'[o] = [passenger |-> web.username, driver |-> web.drivername]
    BY <1>1, RidesStep DEF PersistOrder, At
  <2>2. PassengerOf(o) \in Sessions /\ DriverOf(o) \in Sessions
    BY <1>1, <2>1 DEF LifeInv, WorkedComplete, Complete, At
  <2>3. PassengerOf(o) = web.sessionid /\ DriverOf(o) = web.driver
    BY <1>1, <2>1 DEF Inv, FinishInv, FinishNames, FinishCalls, NamesItsParties
  <2> QED BY <1>1, <2>1, <2>2, <2>3 DEF PartyInv, NamesRead, At
<1> QED BY <1>1, InvAlways, LifeAlways, PartyAlways, PTL DEF Spec, RideNamesItsParties
=============================================================================

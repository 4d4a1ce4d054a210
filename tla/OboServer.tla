------------------------------ MODULE OboServer -----------------------------
(***************************************************************************)
(* The web server (OBO_server_https): one single-threaded evhttp loop whose *)
(* handlers each make a chain of remote calls (remote_store.c) to the data  *)
(* server.  The server keeps no state of its own between two requests; a    *)
(* handler's locals are the record web, and every remote call is one step,  *)
(* so that a key may expire, a call may fail and the process may be killed  *)
(* between any two of them.                                                 *)
(*                                                                          *)
(* A request that is answered without any effect on the databases (a wrong  *)
(* password, no driver within the radius, an unknown session, a GET, a bad  *)
(* URI) is a stuttering step and has no action.                             *)
(***************************************************************************)
EXTENDS OboStore

CONSTANTS
  Registered,   \* accounts that exist at the start: [Users -> Roles or Nil]
  MaxFaults     \* how many remote calls or handlers may fail in a behaviour

ASSUME RegisteredType == Registered \in [Users -> Roles \cup {Nil}]
ASSUME MaxFaultsType == MaxFaults \in Nat

VARIABLES
  web,          \* the handler that is running: its next call and its locals
  reply,        \* what each session's app was last answered
  issued,       \* every session id and order id generated so far
  faults        \* how many faults have happened

vars == <<hash, ttl, pool, users, rides, web, reply, issued, faults>>

\* include/busi_cb.h:44-50.
STATUS_DRIVER_IDLE == "idel"
STATUS_DRIVER_CATCH == "catching"
STATUS_DRIVER_READY == "ready"
STATUS_DRIVER_DRIVE == "driving"
STATUS_PASSENGER_WAIT == "waiting"
STATUS_PASSENGER_TRAVEL == "traveling"

\* The statuses the apps send (OBO/jni/Data.h): both roles call idleness "idle".
StatusesOf(role) ==
  IF role = "driver" THEN {"idle", "ready", "catching", "driving"}
                     ELSE {"idle", "waiting", "traveling"}
Statuses == {"idle", "ready", "catching", "driving", "waiting", "traveling"}

\* No handler is running.
Idle == [at |-> "idle", role |-> Nil, sessionid |-> Nil, driver |-> Nil,
         orderid |-> Nil, username |-> Nil, drivername |-> Nil,
         status |-> Nil, autosend |-> "no"]

\* The session id was never handed to an app.
NoReply == [role |-> Nil, username |-> Nil, status |-> Nil, orderid |-> NONE]

Init ==
  /\ StoreInit(Registered)
  /\ web = Idle
  /\ reply = [s \in Sessions |-> NoReply]
  /\ issued = {}
  /\ faults = 0

-----------------------------------------------------------------------------
(* How a handler goes from one remote call to the next.                    *)

At(label) == web.at = label
Goto(label) == web' = [web EXCEPT !.at = label]

\* "if (ret == 0)": a failed call skips the rest of the chain and the app is
\* told "error", which leaves the app's session and order as they were.
Chain(ok, label) == IF ok THEN Goto(label) ELSE web' = Idle

Fault(r) ==
  IF r = "done" THEN faults' = faults
                ELSE faults < MaxFaults /\ faults' = faults + 1

\* The calls of /startSetOrder, /locationChanged and /finishOrder.
BookingCalls == {"createOrder", "bindDriver", "bindPassenger"}
ReportCalls == {"refresh", "getOrderid", "remGeo", "addGeo", "startOrder", "setTemp",
                "answerLocation"}
FinishCalls == {"namePassenger", "nameDriver", "insert", "clearDriver",
                "clearPassenger", "deleteKey"}

\* The handler gets no further: its next call fails without being executed, a
\* value it reads cannot be had, the process is killed (start-up.sh: kill -9),
\* or its answer never arrives.
Abandon ==
  /\ ~At("idle")
  /\ faults < MaxFaults
  /\ faults' = faults + 1
  /\ web' = Idle
  /\ UNCHANGED <<hash, ttl, pool, users, rides, reply, issued>>

-----------------------------------------------------------------------------
(* /login and /reg.                                                        *)

\* create_sessionid: a uuid that no one has seen before.
CreateSession(u, role) ==
  \E s \in Sessions \ issued :
    /\ issued' = issued \cup {s}
    /\ web' = [Idle EXCEPT !.at = "session", !.role = role, !.sessionid = s,
                           !.username = u]

\* login_cb up to create_sessionid: the name, the password and the role match.
Login(u, role) ==
  /\ At("idle")
  /\ UserMatches(u, role)
  /\ CreateSession(u, role)
  /\ UNCHANGED <<hash, ttl, pool, users, rides, reply, faults>>

\* reg_cb up to create_sessionid: the account row is inserted first.
Reg(u, role) ==
  /\ At("idle")
  /\ \E r \in Outcomes :
       /\ InsertUser(u, role, r)
       /\ Fault(r)
       /\ IF r = "done" /\ users[u] = Nil
          THEN CreateSession(u, role)
          ELSE UNCHANGED <<web, issued>>
  /\ UNCHANGED reply

\* Slip: the lifecycle of the new session is never set.
PutSession_NoLifecycle ==
  /\ At("session")
  /\ \E r \in Outcomes :
       /\ SetHash(web.sessionid, [username |-> web.username, orderid |-> NONE], r)
       /\ Fault(r)
       /\ Chain(r = "done", "answerSession")
  /\ UNCHANGED <<reply, issued>>

\* curl_to_cacheserver_session
PutSession ==
  /\ At("session")
  /\ \E r \in Outcomes :
       /\ SetHash(web.sessionid, [username |-> web.username, orderid |-> NONE], r)
       /\ Fault(r)
       /\ Chain(r = "done", "lifecycle")
  /\ UNCHANGED <<reply, issued>>

\* curl_to_cacheserver_lifecycle, on the session that was just put.
PutLifecycle ==
  /\ At("lifecycle")
  /\ \E r \in Outcomes :
       /\ SetLifecycle(web.sessionid, r)
       /\ Fault(r)
       /\ Chain(r = "done" /\ Exists(web.sessionid), "answerSession")
  /\ UNCHANGED <<reply, issued>>

\* The app gets its session id; its order is "NONE" and its status idle.
AnswerSession ==
  /\ At("answerSession")
  /\ reply' = [reply EXCEPT ![web.sessionid] =
                 [role |-> web.role, username |-> web.username,
                  status |-> "idle", orderid |-> NONE]]
  /\ web' = Idle
  /\ UNCHANGED <<hash, ttl, pool, users, rides, issued, faults>>

-----------------------------------------------------------------------------
(* /startSetOrder                                                          *)

\* curl_to_cacheserver_radiusGeo: who drivers[0] may be; with no driver in the
\* answer, the request ends there.
NearestDrivers == RadiusGeo \ {Nil}

\* Slip: an order id is generated a second time.
SetOrder_Repeated(s) ==
  /\ At("idle")
  /\ reply[s].role = "passenger"
  /\ \E d \in NearestDrivers, o \in Orders :
       /\ issued' = issued \cup {o}
       /\ web' = [Idle EXCEPT !.at = "createOrder", !.sessionid = s,
                              !.driver = d, !.orderid = o]
  /\ UNCHANGED <<hash, ttl, pool, users, rides, reply, faults>>

\* set_order_cb up to create_orderid: the nearest driver is drivers[0].
SetOrder(s) ==
  /\ At("idle")
  /\ reply[s].role = "passenger"
  /\ \E d \in NearestDrivers, o \in Orders \ issued :
       /\ issued' = issued \cup {o}
       /\ web' = [Idle EXCEPT !.at = "createOrder", !.sessionid = s,
                              !.driver = d, !.orderid = o]
  /\ UNCHANGED <<hash, ttl, pool, users, rides, reply, faults>>

\* Slip: the result of create_order is not looked at.
CreateOrder_Unchecked ==
  /\ At("createOrder")
  /\ \E r \in Outcomes :
       /\ SetHash(web.orderid,
                  [order_status |-> "INIT", passenger_sessionid |-> web.sessionid,
                   driver_sessionid |-> web.driver], r)
       /\ Fault(r)
  /\ Goto("bindDriver")
  /\ UNCHANGED <<reply, issued>>

\* curl_to_cacheserver_create_order
CreateOrder ==
  /\ At("createOrder")
  /\ \E r \in Outcomes :
       /\ SetHash(web.orderid,
                  [order_status |-> "INIT", passenger_sessionid |-> web.sessionid,
                   driver_sessionid |-> web.driver], r)
       /\ Fault(r)
       /\ Chain(r = "done", "bindDriver")
  /\ UNCHANGED <<reply, issued>>

\* Slip: the passenger is bound where the driver should be.
BindDriver_Passenger ==
  /\ At("bindDriver")
  /\ \E r \in Outcomes :
       /\ SetHash(web.sessionid, [orderid |-> web.orderid], r)
       /\ Fault(r)
       /\ Chain(r = "done", "bindPassenger")
  /\ UNCHANGED <<reply, issued>>

\* Slip: the two arguments of set_orderid are swapped in the value.
BindDriver_Swapped ==
  /\ At("bindDriver")
  /\ \E r \in Outcomes :
       /\ SetHash(web.driver, [orderid |-> web.driver], r)
       /\ Fault(r)
       /\ Chain(r = "done", "bindPassenger")
  /\ UNCHANGED <<reply, issued>>

\* Slip: the nearest driver is asked for once more, and may be another by now.
BindDriver_Nearest ==
  /\ At("bindDriver")
  /\ \E d \in NearestDrivers, r \in Outcomes :
       /\ SetHash(d, [orderid |-> web.orderid], r)
       /\ Fault(r)
       /\ Chain(r = "done", "bindPassenger")
  /\ UNCHANGED <<reply, issued>>

\* curl_to_cacheserver_set_orderid(drivers[0].sessionid, orderid)
BindDriver ==
  /\ At("bindDriver")
  /\ \E r \in Outcomes :
       /\ SetHash(web.driver, [orderid |-> web.orderid], r)
       /\ Fault(r)
       /\ Chain(r = "done", "bindPassenger")
  /\ UNCHANGED <<reply, issued>>

\* curl_to_cacheserver_set_orderid(sessionid, orderid), the last call.
BindPassenger ==
  /\ At("bindPassenger")
  /\ \E r \in Outcomes :
       /\ SetHash(web.sessionid, [orderid |-> web.orderid], r)
       /\ Fault(r)
  /\ web' = Idle
  /\ UNCHANGED <<reply, issued>>

-----------------------------------------------------------------------------
(* /locationChanged                                                        *)

\* curl_to_cacheserver_existsessionid: any key that exists will do.
ExistsSession(s) == Exists(s)

\* locationChanged_cb up to existsessionid.  An app sends the status it is in;
\* autosend is "yes" only on a driver's first report after it starts driving.
LocationChanged(s, status, autosend) ==
  /\ At("idle")
  /\ reply[s].role \in Roles
  /\ status \in StatusesOf(reply[s].role)
  /\ autosend = "yes" => status = "driving"
  /\ ExistsSession(s)
  /\ web' = [Idle EXCEPT !.at = "refresh", !.role = reply[s].role, !.sessionid = s,
                         !.status = status, !.autosend = autosend]
  /\ UNCHANGED <<hash, ttl, pool, users, rides, reply, issued, faults>>

\* curl_to_cacheserver_lifecycle, on the session that reports.
Refresh ==
  /\ At("refresh")
  /\ \E r \in Outcomes :
       /\ SetLifecycle(web.sessionid, r)
       /\ Fault(r)
       /\ Chain(r = "done" /\ Exists(web.sessionid), "getOrderid")
  /\ UNCHANGED <<reply, issued>>

\* Slip: the catching branch is missing.
FirstCall_NoCatch(role, status) ==
  IF role = "driver"
  THEN IF status \in {STATUS_DRIVER_DRIVE, STATUS_DRIVER_IDLE, STATUS_DRIVER_READY}
       THEN "remGeo" ELSE "answerLocation"
  ELSE IF status \in {STATUS_PASSENGER_TRAVEL, STATUS_PASSENGER_WAIT}
       THEN "setTemp" ELSE "answerLocation"

\* The first call of the branch that the reported status selects, if it has one.
FirstCall(role, status) ==
  IF role = "driver"
  THEN IF status \in {STATUS_DRIVER_DRIVE, STATUS_DRIVER_IDLE, STATUS_DRIVER_CATCH,
                      STATUS_DRIVER_READY}
       THEN "remGeo" ELSE "answerLocation"
  ELSE IF status \in {STATUS_PASSENGER_TRAVEL, STATUS_PASSENGER_WAIT}
       THEN "setTemp" ELSE "answerLocation"

\* curl_to_cacheserver_get_orderid
GetOrderid ==
  /\ At("getOrderid")
  /\ web' = [web EXCEPT !.orderid = hash[web.sessionid].orderid,
                        !.at = FirstCall(web.role, web.status)]
  /\ UNCHANGED <<hash, ttl, pool, users, rides, reply, issued, faults>>

\* Slip: every report of a driver that drives starts the order.
AfterRemGeo_Always(r) ==
  IF web.status = STATUS_DRIVER_IDLE THEN Chain(r = "done", "answerLocation")
  ELSE Goto(CASE web.status = STATUS_DRIVER_READY -> "addGeo"
              [] web.status = STATUS_DRIVER_DRIVE -> "startOrder"
              [] OTHER                            -> "setTemp")

\* The driver's call after remGeo: only the idle branch looks at its result.
AfterRemGeo(r) ==
  IF web.status = STATUS_DRIVER_IDLE THEN Chain(r = "done", "answerLocation")
  ELSE Goto(CASE web.status = STATUS_DRIVER_READY -> "addGeo"
              [] web.autosend = "yes"             -> "startOrder"
              [] OTHER                            -> "setTemp")

\* curl_to_cacheserver_remGeo
RemGeo ==
  /\ At("remGeo")
  /\ \E r \in Outcomes :
       /\ RemZset(web.sessionid, r)
       /\ Fault(r)
       /\ AfterRemGeo(r)
  /\ UNCHANGED <<reply, issued>>

\* curl_to_cacheserver_addGeo
ListDriver ==
  /\ At("addGeo")
  /\ \E r \in Outcomes :
       /\ AddGeo(web.sessionid, r)
       /\ Fault(r)
  /\ Goto("answerLocation")
  /\ UNCHANGED <<reply, issued>>

\* curl_to_cacheserver_startorder_real(orderid, "ACTIVE", ...)
StartOrder ==
  /\ At("startOrder")
  /\ \E r \in Outcomes :
       /\ SetHash(web.orderid, [order_status |-> "ACTIVE"], r)
       /\ Fault(r)
  /\ Goto("setTemp")
  /\ UNCHANGED <<reply, issued>>

\* curl_to_cacheserver_set_dtemp_location or curl_to_cacheserver_set_ptemp_location
SetTemp ==
  /\ At("setTemp")
  /\ \E r \in Outcomes :
       /\ SetHash(web.orderid, IF web.role = "driver" THEN [dtemp |-> "loc"]
                                                    ELSE [ptemp |-> "loc"], r)
       /\ Fault(r)
  /\ Goto("answerLocation")
  /\ UNCHANGED <<reply, issued>>

\* curl_to_cacheserver_get_ptemp_location, curl_to_cacheserver_get_dtemp_location and
\* curl_to_cacheserver_get_order_status: what the answer carries beside the order id.
ReadPtemp == hash[web.orderid].ptemp
ReadDtemp == hash[web.orderid].dtemp
ReadStatus == hash[web.orderid].order_status

\* make_driver_/make_passenger_locationChanged_res_json: the status is echoed.  The
\* handler ignores the results of the three reads: when one fails, the answer says
\* "ok" and its field is empty.
AnswerLocation ==
  /\ At("answerLocation")
  /\ \E r \in {"done", "lost"} : Fault(r)
  /\ reply' = [reply EXCEPT ![web.sessionid].status = web.status,
                            ![web.sessionid].orderid = web.orderid]
  /\ web' = Idle
  /\ UNCHANGED <<hash, ttl, pool, users, rides, issued>>

-----------------------------------------------------------------------------
(* /finishOrder                                                            *)

\* curl_to_cacheserver_get_orderd: the two sessions that an order's hash names.
PassengerOf(o) == hash[o].passenger_sessionid
DriverOf(o) == hash[o].driver_sessionid

\* Slip: the two session ids that get_orderd returns are swapped.
HandleFinish_Swapped(o) ==
  /\ At("idle")
  /\ web' = [Idle EXCEPT !.at = "namePassenger", !.orderid = o,
                         !.sessionid = DriverOf(o), !.driver = PassengerOf(o)]
  /\ UNCHANGED <<hash, ttl, pool, users, rides, reply, issued, faults>>

\* finish_order_cb up to get_orderd, for the order id of the request.
HandleFinish(o) ==
  /\ At("idle")
  /\ web' = [Idle EXCEPT !.at = "namePassenger", !.orderid = o,
                         !.sessionid = PassengerOf(o), !.driver = DriverOf(o)]
  /\ UNCHANGED <<hash, ttl, pool, users, rides, reply, issued, faults>>

\* A driver finishes the order it was last told.
FinishOrder(s) == reply[s].role = "driver" /\ HandleFinish(reply[s].orderid)

\* curl_to_cacheserver_get_username(passenger_sessionid, ...)
NamePassenger ==
  /\ At("namePassenger")
  /\ web' = [web EXCEPT !.username = hash[web.sessionid].username,
                        !.at = "nameDriver"]
  /\ UNCHANGED <<hash, ttl, pool, users, rides, reply, issued, faults>>

\* Slip: the sessions are unbound without the INSERT.
NameDriver_NoInsert ==
  /\ At("nameDriver")
  /\ web' = [web EXCEPT !.drivername = hash[web.driver].username,
                        !.at = "clearDriver"]
  /\ UNCHANGED <<hash, ttl, pool, users, rides, reply, issued, faults>>

\* curl_to_cacheserver_get_username(driver_sessionid, ...)
NameDriver ==
  /\ At("nameDriver")
  /\ web' = [web EXCEPT !.drivername = hash[web.driver].username,
                        !.at = "insert"]
  /\ UNCHANGED <<hash, ttl, pool, users, rides, reply, issued, faults>>

\* Slip: the result of the INSERT is not looked at.
PersistOrder_Unchecked ==
  /\ At("insert")
  /\ \E r \in Outcomes :
       /\ InsertOrder(web.orderid, web.username, web.drivername, r)
       /\ Fault(r)
  /\ Goto("clearDriver")
  /\ UNCHANGED <<reply, issued>>

\* curl_to_dataserver_create_order
PersistOrder ==
  /\ At("insert")
  /\ \E r \in Outcomes :
       /\ InsertOrder(web.orderid, web.username, web.drivername, r)
       /\ Fault(r)
       /\ Chain(r = "done" /\ rides[web.orderid] = NoRide, "clearDriver")
  /\ UNCHANGED <<reply, issued>>

\* curl_to_cacheserver_set_orderid(driver_sessionid, "NONE")
ClearDriver ==
  /\ At("clearDriver")
  /\ \E r \in Outcomes :
       /\ SetHash(web.driver, [orderid |-> NONE], r)
       /\ Fault(r)
       /\ Chain(r = "done", "clearPassenger")
  /\ UNCHANGED <<reply, issued>>

\* Slip: the driver's session is cleared twice and the passenger's never.
ClearPassenger_Driver ==
  /\ At("clearPassenger")
  /\ \E r \in Outcomes :
       /\ SetHash(web.driver, [orderid |-> NONE], r)
       /\ Fault(r)
       /\ Chain(r = "done", "deleteKey")
  /\ UNCHANGED <<reply, issued>>

\* curl_to_cacheserver_set_orderid(passenger_sessionid, "NONE")
ClearPassenger ==
  /\ At("clearPassenger")
  /\ \E r \in Outcomes :
       /\ SetHash(web.sessionid, [orderid |-> NONE], r)
       /\ Fault(r)
       /\ Chain(r = "done", "deleteKey")
  /\ UNCHANGED <<reply, issued>>

\* curl_to_cacheserver_delete_key(orderid), the last call.
DropOrder ==
  /\ At("deleteKey")
  /\ \E r \in Outcomes : DeleteKey(web.orderid, r) /\ Fault(r)
  /\ web' = Idle
  /\ UNCHANGED <<reply, issued>>

-----------------------------------------------------------------------------
KeyExpires ==
  /\ \E k \in Keys : Expire(k)
  /\ UNCHANGED <<web, reply, issued, faults>>

Next ==
  \/ \E u \in Users, role \in Roles : Login(u, role) \/ Reg(u, role)
  \/ PutSession \/ PutLifecycle \/ AnswerSession
  \/ \E s \in Sessions : SetOrder(s) \/ FinishOrder(s)
  \/ CreateOrder \/ BindDriver \/ BindPassenger
  \/ \E s \in Sessions, status \in Statuses, autosend \in {"yes", "no"} :
       LocationChanged(s, status, autosend)
  \/ Refresh \/ GetOrderid \/ RemGeo \/ ListDriver \/ StartOrder \/ SetTemp
  \/ AnswerLocation
  \/ NamePassenger \/ NameDriver \/ PersistOrder
  \/ ClearDriver \/ ClearPassenger \/ DropOrder
  \/ Abandon \/ KeyExpires

Spec == Init /\ [][Next]_vars
-----------------------------------------------------------------------------
(* Properties.                                                             *)

Labels == {"idle", "session", "lifecycle", "answerSession", "createOrder",
           "bindDriver", "bindPassenger", "refresh", "getOrderid", "remGeo",
           "addGeo", "startOrder", "setTemp", "answerLocation", "namePassenger",
           "nameDriver", "insert", "clearDriver", "clearPassenger", "deleteKey"}

Handlers == [at : Labels, role : Roles \cup {Nil}, sessionid : SessionNames,
             driver : SessionNames, orderid : OrderNames, username : UserNames,
             drivername : UserNames, status : Statuses \cup {Nil},
             autosend : {"yes", "no"}]
Replies == [role : Roles \cup {Nil}, username : UserNames,
            status : Statuses \cup {Nil}, orderid : OrderNames]

\* Every database entry, handler local and answer is of its kind: in particular
\* no handler ever writes an order id where a session id or a name belongs.
TypeOK ==
  /\ StoreTypeOK
  /\ web \in Handlers
  /\ reply \in [Sessions -> Replies]
  /\ issued \subseteq Sessions \cup Orders
  /\ faults \in 0..MaxFaults

Parties(o) == {PassengerOf(o), DriverOf(o)}
Holds(s, o) == hash[s].orderid = o

\* A session that names an order is the passenger or the driver which that order
\* names: set_order.c binds the two sessions only after the order hash is complete,
\* and finish_order.c unbinds both before it deletes the hash, whatever fails,
\* expires or is booked again in between.
OrdersHeldByTheirParties ==
  \A s \in Sessions, o \in Orders : Holds(s, o) => s \in Parties(o)

\* finish_order.c: an order leaves Redis only once it is a row of OBO_TABLE_ORDER.
NoOrderLost ==
  [][\A o \in Orders : Exists(o) /\ ~Exists(o)' => rides'[o] # NoRide]_vars

\* The names a ride is stored under are those its passenger and its driver logged
\* in with, or empty when the session had expired by the time finish_order.c read
\* it; never those of anyone else, although the session ids, the names and the
\* row are read and written by four calls.
RideNamesItsParties ==
  [][\A o \in Orders : rides'[o] # rides[o] =>
       /\ rides'[o].passenger \in {Nil, reply[PassengerOf(o)].username}
       /\ rides'[o].driver \in {Nil, reply[DriverOf(o)].username}]_vars

\* Without a fault, a stored ride is over everywhere: its hash is gone and no
\* session names it.
StoredRidesAreOver ==
  faults = 0 /\ At("idle") =>
    \A o \in Orders : rides[o] # NoRide =>
      ~Exists(o) /\ \A s \in Sessions : ~Holds(s, o)

\* A finish that failed after its INSERT can never be completed: every retry runs
\* into the primary key of OBO_TABLE_ORDER before it reaches the calls that unbind
\* the sessions and delete the hash (finish_order.c:122-140).
HalfFinished(o) ==
  /\ rides[o] # NoRide
  /\ Exists(o)
  /\ ~(web.orderid = o /\ web.at \in {"clearDriver", "clearPassenger", "deleteKey"})
HalfFinishedForever ==
  [][\A o \in Orders : HalfFinished(o) => HalfFinished(o)']_vars

\* A session that still carries a user name expires by itself, unless its
\* lifecycle is yet to be set or the call that sets it failed, in which case the
\* app never got the session id (login.c:110-121).
NamedSessionsExpire ==
  \A s \in Sessions : hash[s].username # Nil =>
    \/ ttl[s]
    \/ At("lifecycle") /\ web.sessionid = s
    \/ faults > 0 /\ reply[s].role = Nil

\* Without a fault, a driver whose last answered report said catching or driving
\* is not offered to passengers (location_changed.c:156-195).
BusyDriversUnlisted ==
  faults = 0 /\ At("idle") =>
    \A s \in pool : reply[s].status \notin {"catching", "driving"}

\* Only the driver that an order names, reporting that it drives, starts it, whichever
\* other driver was booked before or since: the report names no order, the server starts
\* what the driver's session holds (location_changed.c:163-167).
OnlyItsDriverStarts ==
  [][\A o \in Orders : hash'[o].order_status = "ACTIVE" => 
       \/ hash[o].order_status = "ACTIVE"
       \/ web.sessionid = DriverOf(o) /\ web.status = "driving"]_vars

\* Without a fault, the driver of an order that a passenger holds holds it too,
\* unless the driver's session expired or some other order named that driver:
\* double booking is the only way in which the two ends drift apart.
Named(d, o) ==
  \/ DriverOf(o) = d
  \/ rides[o].driver = reply[d].username
PairedUnlessDoubleBooked ==
  faults = 0 /\ At("idle") =>
    \A o \in Orders : LET p == PassengerOf(o)
                          d == DriverOf(o) IN
      (/\ p \in Sessions /\ Holds(p, o)
       /\ hash[d].username # Nil
       /\ \A other \in Orders \ {o} : ~Named(d, other))
      => Holds(d, o)

\* Who acts under a name acts in the role it registered with: a session that was
\* handed out belongs to an account, as a driver only if the account is a driver's.
SessionsMatchAccounts ==
  \A s \in Sessions : reply[s].role # Nil => users[reply[s].username] = reply[s].role

\* The comment at location_changed.c:178 says that a driver who reports idle takes
\* itself out of the pool.
IdleDriversUnlisted ==
  faults = 0 /\ At("idle") => \A s \in pool : reply[s].status # "idle"

\* An order's stage, read off its row and its hash.
StageOf(o) ==
  IF rides[o] # NoRide THEN "finished"
  ELSE CASE hash[o].order_status = "INIT"   -> "placed"
         [] hash[o].order_status = "ACTIVE" -> "driving"
         [] OTHER                           -> "none"

\* The handlers implement the life of an order: set_order.c places it,
\* location_changed.c starts it, finish_order.c finishes it, each once.
Life == INSTANCE OrderLife WITH life <- [o \in Orders |-> StageOf(o)]
OrdersLiveOnce == Life!LifeSpec
=============================================================================

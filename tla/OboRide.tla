------------------------------- MODULE OboRide ------------------------------
(***************************************************************************)
(* The whole system: the apps of drivers and passengers (OBO) and the web   *)
(* server they talk to.  OboServer lets an app send any status at any time; *)
(* here the requests are those that the screens (DriverMapActivity.java,    *)
(* PassengerMapActivity.java) and the JNI code (OBO/jni) really send, and    *)
(* the apps change their state as the answers tell them.                    *)
(*                                                                          *)
(* An app runs on one thread: the location callback every two seconds, the  *)
(* clicks and the results of map searches come one after another, and a JNI *)
(* call blocks the thread until curl returns.  So a request carries the     *)
(* app's state at the moment the server takes it up, and the app does       *)
(* nothing until it is answered.                                            *)
(***************************************************************************)
EXTENDS OboServer

CONSTANTS
  MaxDialogs,   \* bound: confirmation dialogs open at a time; later ones are not counted
  MaxSearches,  \* bound: map searches of one passenger under way at a time
  Willing,      \* sessions whose driver never refuses and never stops offering
  Offline       \* sessions whose phone may be off the network for ten minutes, or whose
                \* app may end

ASSUME DialogBound == MaxDialogs \in Nat /\ MaxSearches \in Nat

VARIABLES
  app,          \* [Sessions -> Apps]: class Data and the screen's own fields
  client        \* the session whose request the server works on, or Nil

rideVars == <<hash, ttl, pool, users, rides, web, reply, issued, faults, app, client>>

\* A driver's button (_bt_status) always shows the status, so it is no field of its own.
NoApp == [status |-> Nil, orderid |-> NONE, autosend |-> "no", dialogs |-> 0,
          searches |-> 0, ptemp |-> Nil]
Apps == [status : Statuses \cup {Nil, "gone"}, orderid : OrderNames,
         autosend : {"yes", "no"}, dialogs : 0..MaxDialogs,
         searches : 0..MaxSearches, ptemp : {Nil, "loc"}]

Running(s) == app[s].status \in Statuses
\* The app's thread is not inside a JNI call.
Free(s) == Running(s) /\ client # s
Driver(s) == reply[s].role = "driver"
Passenger(s) == reply[s].role = "passenger"

RideInit ==
  /\ Init
  /\ app = [s \in Sessions |-> NoApp]
  /\ client = Nil

-----------------------------------------------------------------------------
(* What an app makes of an answer.                                         *)

\* Slip: the order id is compared with the empty string.
AfterReport_Empty(role, a) ==
  IF role # "driver" THEN a
  ELSE LET b == [a EXCEPT !.autosend = "no"] IN
       CASE a.status \in {"driving", "catching"} ->
              IF a.ptemp = Nil THEN [NoApp EXCEPT !.status = "gone"] ELSE b
         [] a.status = "ready" /\ a.orderid = Nil ->
              [b EXCEPT !.dialogs = IF @ < MaxDialogs THEN @ + 1 ELSE @]
         [] OTHER -> b

\* onLocationChanged after its report, answered or not.  The driver's screen parses the
\* passenger's position, which is a NumberFormatException when it is empty, or asks
\* whether to take an order, once for every report.
AfterReport(role, a) ==
  IF role # "driver" THEN a
  ELSE LET b == [a EXCEPT !.autosend = "no"] IN
       CASE a.status \in {"driving", "catching"} ->
              IF a.ptemp = Nil THEN [NoApp EXCEPT !.status = "gone"] ELSE b
         [] a.status = "ready" /\ a.orderid # NONE ->
              [b EXCEPT !.dialogs = IF @ < MaxDialogs THEN @ + 1 ELSE @]
         [] OTHER -> b

\* Slip: an order id that the app already has is not replaced.
DriverTold_Kept(a, position) ==
  [a EXCEPT !.status = web.status,
            !.orderid = IF @ = NONE THEN web.orderid ELSE @,
            !.ptemp = IF web.status \in {"catching", "driving"} THEN position ELSE @]

\* DriverLocationChanged, answered "ok" with a position of the passenger.
DriverTold(a, position) ==
  [a EXCEPT !.status = web.status, !.orderid = web.orderid,
            !.ptemp = IF web.status \in {"catching", "driving"} THEN position ELSE @]

\* Slip: a passenger whose order is over goes on travelling.
PassengerTold_NoEnd(a, order_status) ==
  [a EXCEPT
     !.orderid = web.orderid,
     !.status = CASE web.status = "idle" /\ web.orderid # NONE         -> "waiting"
                  [] web.status = "waiting" /\ order_status = "ACTIVE" -> "traveling"
                  [] OTHER                                             -> web.status]

\* Slip: a waiting passenger goes idle when it is told that it has no order.
PassengerTold_WaitOver(a, order_status) ==
  [a EXCEPT
     !.orderid = web.orderid,
     !.status = CASE web.status # "idle" /\ web.orderid = NONE         -> "idle"
                  [] web.status = "idle" /\ web.orderid # NONE         -> "waiting"
                  [] web.status = "waiting" /\ order_status = "ACTIVE" -> "traveling"
                  [] OTHER                                             -> web.status]

\* PassengerLocationChanged, answered "ok" with a status of the order.
PassengerTold(a, order_status) ==
  [a EXCEPT
     !.orderid = web.orderid,
     !.status = CASE web.status = "traveling" /\ web.orderid = NONE    -> "idle"
                  [] web.status = "idle" /\ web.orderid # NONE         -> "waiting"
                  [] web.status = "waiting" /\ order_status = "ACTIVE" -> "traveling"
                  [] OTHER                                             -> web.status]

\* FinishOrder returned; the screen goes idle whatever the result.
FinishReturned(a, ok) ==
  [a EXCEPT !.status = "idle", !.orderid = IF ok THEN NONE ELSE @]

-----------------------------------------------------------------------------
(* The server's steps, and the app that is answered.                       *)

AnswerLogin ==
  /\ AnswerSession
  /\ app' = [app EXCEPT ![web.sessionid] = [NoApp EXCEPT !.status = "idle"]]
  /\ UNCHANGED client

\* A read that failed leaves its field of the answer empty.
Answered(field) == IF faults' = faults THEN {field} ELSE {field, Nil}

AnswerReport ==
  /\ AnswerLocation
  /\ \E position \in Answered(ReadPtemp), order_status \in Answered(ReadStatus) :
       app' = [app EXCEPT ![client] =
                 AfterReport(web.role,
                             IF web.role = "driver" THEN DriverTold(@, position)
                                                    ELSE PassengerTold(@, order_status))]
  /\ client' = Nil

\* Slip: the app takes its session id for the order id.
AnswerBooking_Session ==
  /\ BindPassenger
  /\ app' = IF faults' = faults THEN [app EXCEPT ![client].orderid = client] ELSE app
  /\ client' = Nil

\* StartOrder.cpp:129 looks for "ordierid", which no answer has.
AnswerBooking ==
  /\ BindPassenger
  /\ app' = IF faults' = faults THEN [app EXCEPT ![client].orderid = Nil] ELSE app
  /\ client' = Nil

\* deleteKey on a missing key is an error.
AnswerFinish ==
  /\ DropOrder
  /\ app' = [app EXCEPT ![client] =
               FinishReturned(@, faults' = faults /\ Exists(web.orderid))]
  /\ client' = Nil

\* The calls that are not a handler's last one.
InnerCall ==
  \/ PutSession \/ PutLifecycle
  \/ CreateOrder \/ BindDriver
  \/ Refresh \/ GetOrderid \/ RemGeo \/ ListDriver \/ StartOrder \/ SetTemp
  \/ NamePassenger \/ NameDriver \/ PersistOrder \/ ClearDriver \/ ClearPassenger

\* The app of a handler that ends early is answered "error", or not at all.
ClientFailed ==
  /\ app' = CASE web.at \in ReportCalls ->
                   [app EXCEPT ![client] = AfterReport(web.role, @)]
              [] web.at \in FinishCalls ->
                   [app EXCEPT ![client] = FinishReturned(@, FALSE)]
              [] OTHER -> app
  /\ client' = Nil

ServerCall ==
  /\ InnerCall \/ Abandon
  /\ IF web'.at = "idle" THEN ClientFailed ELSE UNCHANGED <<app, client>>

ServerStep == AnswerLogin \/ AnswerReport \/ AnswerBooking \/ AnswerFinish \/ ServerCall

-----------------------------------------------------------------------------
(* Requests of the apps.                                                   *)

\* The login and the registration screen: there is no session yet, and the screen of its
\* role is opened when the server has answered.
LogsIn(u, role) == Login(u, role) /\ UNCHANGED <<app, client>>
Registers(u, role) == Reg(u, role) /\ UNCHANGED <<app, client>>

Sends(s) == client' = s

\* A driver's report says with autosend whether it starts its ride: the server looks at it
\* only when the driver drives.
DriverReports(s) ==
  /\ Driver(s)
  /\ LocationChanged(s, app[s].status,
                     IF app[s].status = "driving" THEN app[s].autosend ELSE "no")

PassengerReports(s) == Passenger(s) /\ LocationChanged(s, app[s].status, "no")

\* onLocationChanged, every two seconds.
Report(s) ==
  /\ Free(s)
  /\ DriverReports(s) \/ PassengerReports(s)
  /\ Sends(s)
  /\ UNCHANGED app

\* The session is unknown to the server: the report is answered "error" at once.
ReportRefused(s) ==
  /\ Free(s) /\ At("idle")
  /\ ~ExistsSession(s)
  /\ app' = [app EXCEPT ![s] = AfterReport(reply[s].role, @)]
  /\ UNCHANGED <<hash, ttl, pool, users, rides, web, reply, issued, faults, client>>

\* The JNI call StartOrder: it posts the order and blocks until it is answered.
SendsOrder(s) == SetOrder(s) /\ Sends(s)

\* onDriveRouteSearched: the two searches succeeded, the order is sent.
Book(s) ==
  /\ Free(s) /\ app[s].searches > 0
  /\ SendsOrder(s)
  /\ app' = [app EXCEPT ![s].searches = @ - 1]

\* A tap on "arrived": FinishOrder sends the order id that Data holds.
Finish(s) ==
  /\ Free(s) /\ Driver(s)
  /\ app[s].status = "driving" /\ app[s].dialogs = 0
  /\ HandleFinish(app[s].orderid)
  /\ Sends(s)
  /\ UNCHANGED app

-----------------------------------------------------------------------------
(* What happens on a phone alone.                                          *)

OnPhone(s, a) ==
  /\ Free(s)
  /\ app' = [app EXCEPT ![s] = a]
  /\ UNCHANGED <<hash, ttl, pool, users, rides, web, reply, issued, faults, client>>

\* Slip: the button can be tapped under an open dialog.
Tap_Under(s, from, to, autosend) ==
  /\ Driver(s) /\ app[s].status = from
  /\ OnPhone(s, [app[s] EXCEPT !.status = to, !.autosend = autosend])

\* The driver's button; an open dialog covers it.
Tap(s, from, to, autosend) ==
  /\ Driver(s) /\ app[s].dialogs = 0 /\ app[s].status = from
  /\ OnPhone(s, [app[s] EXCEPT !.status = to, !.autosend = autosend])

StartOffering(s) == Tap(s, "idle", "ready", app[s].autosend)
StopOffering(s) == s \notin Willing /\ Tap(s, "ready", "idle", app[s].autosend)
PickUp(s) == Tap(s, "catching", "driving", "yes")

\* The dialog's buttons set status and button, whatever they are by then.
CloseDialog(s, status) ==
  /\ app[s].dialogs > 0
  /\ OnPhone(s, [app[s] EXCEPT !.dialogs = @ - 1, !.status = status])

Accept(s) == CloseDialog(s, "catching")
Refuse(s) == s \notin Willing /\ CloseDialog(s, "idle")
Dismiss(s) == s \notin Willing /\ CloseDialog(s, app[s].status)

\* The passenger's button, which stays active while a search is under way.
Search(s) ==
  /\ Passenger(s) /\ app[s].status = "idle" /\ app[s].searches < MaxSearches
  /\ OnPhone(s, [app[s] EXCEPT !.searches = @ + 1])

\* A search failed, or the server had no driver to offer.
SearchEnds(s) ==
  /\ app[s].searches > 0
  /\ OnPhone(s, [app[s] EXCEPT !.searches = @ - 1])

\* The user quits the app, or it dies: of a search with an empty result, for instance
\* (PassengerMapActivity.java:184).
SwitchOff(s) == s \in Offline /\ OnPhone(s, [NoApp EXCEPT !.status = "gone"])

\* A phone that reports every two seconds never loses its session, which lives for
\* ten minutes.
SessionExpires(s) ==
  /\ s \in Offline \/ app[s].status = "gone"
  /\ Expire(s)
  /\ UNCHANGED <<web, reply, issued, faults, app, client>>

-----------------------------------------------------------------------------
AppStep(s) ==
  \/ Report(s) \/ ReportRefused(s) \/ Book(s) \/ Finish(s)
  \/ StartOffering(s) \/ StopOffering(s) \/ PickUp(s)
  \/ Accept(s) \/ Refuse(s) \/ Dismiss(s)
  \/ Search(s) \/ SearchEnds(s)
  \/ SwitchOff(s) \/ SessionExpires(s)

RideNext ==
  \/ \E u \in Users, role \in Roles : LogsIn(u, role) \/ Registers(u, role)
  \/ ServerStep
  \/ \E s \in Sessions : AppStep(s)

RideSpec == RideInit /\ [][RideNext]_rideVars

\* What a willing driver does next, be it with the dialog or with the button.
Serve(s) == StartOffering(s) \/ Accept(s) \/ PickUp(s) \/ Finish(s)

\* The server is one loop that never waits for anything but its own calls.  A report is
\* due every two seconds and the server takes up requests in the order they arrive, so
\* one that is possible again and again is made; the same of a tap, which waits in the
\* phone's queue until the JNI call that blocks it returns.  That drivers do tap is an
\* assumption about people.
FairRideSpec ==
  /\ RideSpec
  /\ WF_rideVars(ServerStep)
  /\ \A s \in Sessions : SF_rideVars(Report(s)) /\ SF_rideVars(Serve(s))
-----------------------------------------------------------------------------
(* Properties.                                                             *)

RideTypeOK ==
  /\ app \in [Sessions -> Apps]
  /\ client \in SessionNames
  /\ At("idle") => client = Nil

\* The apps send only what OboServer assumes: above all, the order that a driver
\* finishes is the one it was last told, although Data keeps it from one ride to the
\* next and the screen never looks at it.  So every property of OboServer holds here.
ServerRequests == Spec

Gone(s) == s \in Sessions /\ app[s].status = "gone"
DriverGone(o) == Gone(DriverOf(o))

\* Without a fault, a ride that was started has its driver's position, and its driver is
\* driving until it is stored, unless the driver's session expired or its app died:
\* FinishOrder's result is ignored by the screen (DriverMapActivity.java:120), and the
\* order it finishes may have replaced the one it accepted.
ActiveRidesAreDriven ==
  faults = 0 /\ At("idle") =>
    \A o \in Orders : hash[o].order_status = "ACTIVE" =>
      /\ hash[o].dtemp # Nil
      /\ \/ app[DriverOf(o)].status = "driving"
         \/ DriverGone(o) \/ hash[DriverOf(o)].username = Nil

\* The order that a driver starts is the one its screen showed when its user confirmed,
\* although the report names no order and the server starts whatever the session holds
\* (location_changed.c:166).  A driver that was booked twice is safe, without a fault, from
\* the first answered report of its ride on; when it is picking up by then, before it was
\* told of the second order, or when its session expired, it may start another.
TookUp(d) == faults = 0 /\ reply[d].status \in {"catching", "driving"}
StartsToldOrder ==
  [][\A o \in Orders :
       /\ hash[o].order_status # "ACTIVE" /\ hash'[o].order_status = "ACTIVE"
       /\ hash[DriverOf(o)].username # Nil
       /\ TookUp(DriverOf(o)) \/ \A other \in Orders \ {o} : ~Named(DriverOf(o), other)
       => app[client].orderid = o]_rideVars

\* A travel ends only with its ride stored, whatever fails and whoever vanishes meanwhile,
\* unless the passenger's own session expired or it booked twice: the end of one of two
\* orders takes the other from its session.  Data's order id is empty when the passenger
\* has just ordered again.
BookedBy(p, o) == PassengerOf(o) = p \/ rides[o].passenger = reply[p].username
TravelEndsStored ==
  [][\A p \in Sessions, o \in Orders :
       /\ app[p].status = "traveling" /\ app'[p].status = "idle" /\ app[p].orderid = o
       /\ hash[p].username # Nil
       /\ \A other \in Orders \ {o} : ~BookedBy(p, other)
       => rides[o] # NoRide]_rideVars

\* A driver who drives an order that is not started will never start it: autosend was
\* sent with a report that failed (DriverMapActivity.java:237).
LostStart(d) ==
  /\ Driver(d) /\ app[d].status = "driving" /\ app[d].autosend = "no"
  /\ app[d].orderid \in Orders /\ hash[app[d].orderid].order_status = "INIT"
LostStartStaysLost ==
  [][\A d \in Sessions :
       LostStart(d) /\ app'[d].status = "driving" /\ app'[d].orderid = app[d].orderid
       => hash'[app[d].orderid].order_status # "ACTIVE"]_rideVars

\* A passenger that waits when its order is finished waits for ever: only a travelling
\* one looks at the order id "NONE" (PassengerLocationChanged.cpp:139).  What ends its
\* wait is another's mistake: a driver whose session holds no order starts the hash
\* "NONE" (location_changed.c:166), which every stuck passenger then reads as its own.
Stuck(p) == Passenger(p) /\ app[p].status = "waiting" /\ hash[p].orderid = NONE
NoneStarted == hash[NONE].order_status = "ACTIVE"
StuckForever ==
  [][\A p \in Sessions :
       Stuck(p) /\ ~NoneStarted => app'[p].status \in {"waiting", "gone"}]_rideVars

\* What a driver leaves behind when its app ends: it stays listed for the next booking,
\* since members of the geo set have no lifetime (deal_cache.c:347), and an order that
\* names it is neither started, stored nor given to another driver, whoever books, reports
\* or finishes: only its own app would have.
GhostsKeepOrders ==
  [][\A d \in Sessions : Driver(d) /\ Gone(d) =>
       /\ Gone(d)'
       /\ d \in pool => d \in pool'
       /\ \A o \in Orders : DriverOf(o) = d =>
            DriverOf(o)' = d /\ StageOf(o)' = StageOf(o)]_rideVars

\* Whatever fails, an order that its driver's session holds is stored in the end,
\* unless the driver was booked again or its app died: reports repeat themselves,
\* and what is not repeated by them is repeated by the driver.
BoundOrdersAreStored ==
  \A o \in Orders :
    DriverOf(o) \in Sessions /\ Holds(DriverOf(o), o) ~>
      \/ rides[o] # NoRide
      \/ DriverOf(o) \in Sessions /\ ~Holds(DriverOf(o), o)
      \/ DriverGone(o)

\* Without a fault, an order that was placed is stored in the end.
OrdersAreServed ==
  \A o \in Orders : Exists(o) ~> rides[o] # NoRide \/ DriverGone(o) \/ faults > 0

\* Without a fault, a passenger's wait ends with a travel, or its order is over before
\* it saw it started.
WaitsEnd ==
  \A p \in Sessions :
    Passenger(p) /\ app[p].status = "waiting" ~>
      \/ app[p].status = "traveling"
      \/ Stuck(p) \/ DriverGone(app[p].orderid) \/ faults > 0

\* Without a fault, a travel ends.
TravelsEnd ==
  \A p \in Sessions :
    app[p].status = "traveling" ~>
      app[p].status = "idle" \/ DriverGone(app[p].orderid) \/ faults > 0

\* DriverMapActivity.java:243 says of the states catching and driving that the
\* passenger's position can be had, and parses it: no driver's app dies of it.
PassengersAreLocated == \A s \in Sessions : s \notin Offline => ~Gone(s)
=============================================================================

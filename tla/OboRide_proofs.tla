---------------------------- MODULE OboRide_proofs ---------------------------
(***************************************************************************)
(* The apps keep to what OboServer assumes of them, for every number of     *)
(* apps, orders, faults, dialogs and searches: so what is proved of the     *)
(* server for apps that send anything holds of the whole system.            *)
(***************************************************************************)
EXTENDS OboRide, OboQuiet_proofs

\* A driver's app holds the order o that the server last told it, unless it has just
\* finished it and is not driving any other.
Told(a, o) ==
  a.status \in Statuses =>
    \/ a.orderid = o
    \/ a.orderid = NONE /\ a.dialogs = 0 /\ a.status \in {"idle", "ready"}

ToldOrder == \A s \in Sessions : Driver(s) => Told(app[s], reply[s].orderid)

\* Whose request the server works on.
ClientSet ==
  /\ web.at \in LoginCalls \cup {"idle"} => client = Nil
  /\ web.at \in ReportCalls => client \in Sessions /\ client = web.sessionid
  /\ web.at \in BookingCalls => client \in Sessions /\ Passenger(client)
  /\ web.at \in FinishCalls =>
       client \in Sessions /\ Running(client) /\ app[client].dialogs = 0

AppsTyped == app \in [Sessions -> Apps] /\ client \in SessionNames

\* ToldOrder makes a step of Finish one of FinishOrder; ClientSet says which app an
\* answer changes.
RideInv == Typed /\ AppsTyped /\ ClientSet /\ ToldOrder

-----------------------------------------------------------------------------
(* What an answer makes of an app.                                         *)

\* An app that was just started is well typed.
LEMMA NoAppTyped ==
  /\ NoApp \in Apps
  /\ [NoApp EXCEPT !.status = "idle"] \in Apps
  /\ [NoApp EXCEPT !.status = "gone"] \in Apps
<1>1. NoApp \in Apps
  BY DialogBound DEF NoApp, Apps, OrderNames
<1>2. /\ [NoApp EXCEPT !.status = "idle"] \in Apps
      /\ [NoApp EXCEPT !.status = "gone"] \in Apps
  BY <1>1 DEF Apps, Statuses
<1> QED BY <1>1, <1>2

\* An app that was just started, or that died, holds no order it was not told.
LEMMA NoAppTold ==
  ASSUME NEW o
  PROVE  /\ Told(NoApp, o)
         /\ Told([NoApp EXCEPT !.status = "gone"], o)
         /\ Told([NoApp EXCEPT !.status = "idle"], NONE)
  BY DEF NoApp, Told, Statuses, Nil

\* A report, answered or not, changes neither the order nor the status, unless the app
\* dies; it opens a dialog only about an order.
LEMMA AfterReportKeeps ==
  ASSUME NEW role, NEW a \in Apps, NEW o, Told(a, o)
  PROVE  AfterReport(role, a) \in Apps /\ Told(AfterReport(role, a), o)
<1> DEFINE b == [a EXCEPT !.autosend = "no"]
           c == [b EXCEPT !.dialogs = IF @ < MaxDialogs THEN @ + 1 ELSE @]
           gone == [NoApp EXCEPT !.status = "gone"]
<1>1. b \in Apps /\ Told(b, o)
  BY DEF Apps, Told
<1>2. c \in Apps /\ (a.orderid # NONE => Told(c, o))
  <2> DEFINE n == IF b.dialogs < MaxDialogs THEN b.dialogs + 1 ELSE b.dialogs
  <2>1. n \in 0..MaxDialogs /\ c = [b EXCEPT !.dialogs = n]
    BY <1>1, DialogBound DEF Apps
  <2> HIDE DEF n, c
  <2> QED BY <1>1, <2>1 DEF Apps, Told
<1>3. gone \in Apps /\ Told(gone, o)
  BY NoAppTyped, NoAppTold
<1>4. \/ AfterReport(role, a) \in {a, b, gone}
      \/ AfterReport(role, a) = c /\ a.orderid # NONE
  BY DEF AfterReport
<1> HIDE DEF b, c, gone
<1> QED BY <1>1, <1>2, <1>3, <1>4

\* What a report's answer makes of a driver's app is an app.
LEMMA DriverToldTyped ==
  ASSUME NEW a \in Apps, NEW position \in {Nil, "loc"}, web \in Handlers
  PROVE  DriverTold(a, position) \in Apps /\ Told(DriverTold(a, position), web.orderid)
  BY DEF DriverTold, Apps, Handlers, Told, OrderNames

\* What a report's answer makes of a passenger's app is an app.
LEMMA PassengerToldTyped ==
  ASSUME NEW a \in Apps, NEW order_status, web \in Handlers
  PROVE  /\ PassengerTold(a, order_status) \in Apps
         /\ Told(PassengerTold(a, order_status), web.orderid)
<1> DEFINE status == CASE web.status = "traveling" /\ web.orderid = NONE    -> "idle"
                       [] web.status = "idle" /\ web.orderid # NONE         -> "waiting"
                       [] web.status = "waiting" /\ order_status = "ACTIVE" -> "traveling"
                       [] OTHER                                             -> web.status
<1>1. status \in Statuses \cup {Nil}
  BY DEF Statuses, Handlers
<1>2. PassengerTold(a, order_status) = [a EXCEPT !.orderid = web.orderid, !.status = status]
  BY DEF PassengerTold
<1> HIDE DEF status
<1> QED BY <1>1, <1>2 DEF Apps, Handlers, Told, OrderNames

\* The screen goes idle; with no dialog open, it keeps the order it was told or none.
LEMMA FinishReturnedKeeps ==
  ASSUME NEW a \in Apps, NEW ok \in BOOLEAN, NEW o, Told(a, o), a.dialogs = 0
  PROVE  /\ FinishReturned(a, ok) \in Apps
         /\ a.status \in Statuses => Told(FinishReturned(a, ok), o)
  BY DEF FinishReturned, Apps, Told, OrderNames, Statuses

-----------------------------------------------------------------------------
(* The steps of the whole system are steps of the server.                  *)

\* A call that is not a handler's last one leads to the next call of its handler, or
\* ends it.
LEMMA InnerCallKeeps ==
  ASSUME Typed, InnerCall
  PROVE  /\ reply' = reply
         /\ web.at \in LoginCalls \cup ReportCalls \cup BookingCalls \cup FinishCalls
         /\ \/ web' = Idle
            \/ /\ web'.sessionid = web.sessionid
               /\ \/ web.at \in LoginCalls /\ web'.at \in LoginCalls
                  \/ web.at \in BookingCalls /\ web'.at \in BookingCalls
                  \/ web.at \in ReportCalls /\ web'.at \in ReportCalls
                  \/ web.at \in FinishCalls /\ web'.at \in FinishCalls
<1> USE DEF At, LoginCalls, BookingCalls, ReportCalls, FinishCalls
<1>0. web \in Handlers
  BY DEF Typed, TypeOK
<1>1. CASE PutSession \/ PutLifecycle
  BY <1>0, <1>1 DEF PutSession, PutLifecycle, Chain, Goto, Handlers
<1>2. CASE CreateOrder \/ BindDriver
  BY <1>0, <1>2 DEF CreateOrder, BindDriver, Chain, Goto, Handlers
<1>3. CASE Refresh \/ ListDriver \/ StartOrder \/ SetTemp
  BY <1>0, <1>3 DEF Refresh, ListDriver, StartOrder, SetTemp, Chain, Goto, Handlers
<1>4. CASE GetOrderid
  BY <1>0, <1>4 DEF GetOrderid, FirstCall, Handlers
<1>5. CASE RemGeo
  BY <1>0, <1>5 DEF RemGeo, AfterRemGeo, Chain, Goto, Handlers
<1>6. CASE NamePassenger \/ NameDriver
  BY <1>0, <1>6 DEF NamePassenger, NameDriver, Handlers
<1>7. CASE PersistOrder \/ ClearDriver \/ ClearPassenger
  BY <1>0, <1>7 DEF PersistOrder, ClearDriver, ClearPassenger, Chain, Goto, Handlers
<1> QED BY <1>1, <1>2, <1>3, <1>4, <1>5, <1>6, <1>7 DEF InnerCall

\* Every step of the apps and the server is a step that OboServer allows; the one that
\* needs the invariant is Finish, whose order id comes from the app.
LEMMA RideStepIsServerStep == RideInv /\ [RideNext]_rideVars => [Next]_vars
<1> SUFFICES ASSUME RideInv, [RideNext]_rideVars PROVE [Next]_vars
  OBVIOUS
<1>1. CASE UNCHANGED rideVars
  BY <1>1 DEF rideVars, vars
<1>2. CASE \E u \in Users, role \in Roles : LogsIn(u, role) \/ Registers(u, role)
  BY <1>2 DEF LogsIn, Registers, Next
<1>3. CASE ServerStep
  <2>1. \/ AnswerSession \/ AnswerLocation \/ BindPassenger \/ DropOrder
        \/ InnerCall \/ Abandon
    BY <1>3 DEF ServerStep, AnswerLogin, AnswerReport, AnswerBooking, AnswerFinish,
                ServerCall
  <2> QED BY <2>1 DEF InnerCall, Next
<1>4. ASSUME NEW s \in Sessions, AppStep(s) PROVE [Next]_vars
  <2>1. CASE Report(s)
    <3>1. PICK autosend \in {"yes", "no"} : LocationChanged(s, app[s].status, autosend)
      BY <2>1 DEF Report, DriverReports, PassengerReports, RideInv, AppsTyped, Apps
    <3>2. app[s].status \in Statuses
      BY <2>1 DEF Report, Free, Running
    <3> QED BY <3>1, <3>2 DEF Next
  <2>2. CASE Finish(s)
    <3>1. Driver(s) /\ app[s].status = "driving" /\ HandleFinish(app[s].orderid)
      BY <2>2 DEF Finish
    <3>2. app[s].orderid = reply[s].orderid
      BY <3>1 DEF RideInv, ToldOrder, Told, Statuses
    <3>3. FinishOrder(s)
      BY <3>1, <3>2 DEF FinishOrder, Driver
    <3> QED BY <3>3 DEF Next
  <2>3. CASE Book(s)
    BY <2>3 DEF Book, SendsOrder, Next
  <2>4. CASE SessionExpires(s)
    BY <2>4 DEF SessionExpires, KeyExpires, Keys, Next
  <2>5. CASE \/ ReportRefused(s) \/ StartOffering(s) \/ StopOffering(s) \/ PickUp(s)
             \/ Accept(s) \/ Refuse(s) \/ Dismiss(s) \/ Search(s) \/ SearchEnds(s)
             \/ SwitchOff(s)
    BY <2>5 DEF ReportRefused, StartOffering, StopOffering, PickUp, Tap, Accept, Refuse,
                Dismiss, CloseDialog, Search, SearchEnds, SwitchOff, OnPhone, vars
  <2> QED BY <1>4, <2>1, <2>2, <2>3, <2>4, <2>5 DEF AppStep
<1> QED BY <1>1, <1>2, <1>3, <1>4 DEF RideNext

-----------------------------------------------------------------------------
(* The invariant.                                                          *)

\* The invariant holds before any app is started.
LEMMA RideInitInv == RideInit => RideInv
<1> SUFFICES ASSUME RideInit PROVE RideInv
  OBVIOUS
<1>1. Typed
  BY InitTyped DEF RideInit
<1>2. AppsTyped
  BY NoAppTyped DEF RideInit, AppsTyped, SessionNames
<1>3. ClientSet
  BY DEF RideInit, Init, Idle, ClientSet, ReportCalls, BookingCalls, FinishCalls
<1>4. ToldOrder
  BY NoAppTold DEF RideInit, ToldOrder
<1> QED BY <1>1, <1>2, <1>3, <1>4 DEF RideInv

\* A step that changes one app, and no session's answer.
LEMMA OneAppKeeps ==
  ASSUME AppsTyped, ToldOrder, reply' = reply, NEW s \in Sessions, NEW a \in Apps,
         app' = [app EXCEPT ![s] = a], Driver(s) => Told(a, reply[s].orderid)
  PROVE  app' \in [Sessions -> Apps] /\ ToldOrder'
  BY DEF AppsTyped, ToldOrder, Driver

\* When no handler runs, no app waits.
LEMMA IdleClientSet == ASSUME web' = Idle, client' = Nil PROVE ClientSet'
  BY DEF Idle, ClientSet, LoginCalls, ReportCalls, BookingCalls, FinishCalls

\* The start of a login or a registration keeps the invariant.
LEMMA LoginKeeps ==
  ASSUME RideInv, NEW u \in Users, NEW role \in Roles, Login(u, role) \/ Reg(u, role),
         UNCHANGED <<app, client>>
  PROVE  AppsTyped' /\ ClientSet' /\ ToldOrder'
<1>1. At("idle") /\ reply' = reply /\ web'.at \in {"idle", "session"}
  BY DEF Login, Reg, CreateSession, Idle, At
<1>2. client' = Nil
  BY <1>1 DEF RideInv, ClientSet, At
<1>3. ClientSet'
  BY <1>1, <1>2 DEF ClientSet, ReportCalls, BookingCalls, FinishCalls
<1> QED BY <1>1, <1>3 DEF RideInv, AppsTyped, ToldOrder, Driver

\* The answer to a login keeps the invariant.
LEMMA AnswerLoginKeeps ==
  ASSUME RideInv, AnswerLogin PROVE AppsTyped' /\ ClientSet' /\ ToldOrder'
<1> DEFINE a == [NoApp EXCEPT !.status = "idle"]
           s == web.sessionid
<1>1. /\ web' = Idle /\ client' = client /\ client = Nil /\ s \in Sessions
      /\ app' = [app EXCEPT ![s] = a]
      /\ reply' = [reply EXCEPT ![s] = [role |-> web.role, username |-> web.username,
                                        status |-> "idle", orderid |-> NONE]]
  BY DEF AnswerLogin, AnswerSession, RideInv, Typed, LocalsSet, SessionCalls, ClientSet,
         LoginCalls, At
<1>2. a \in Apps /\ Told(a, NONE)
  BY NoAppTyped, NoAppTold
<1>3. ClientSet'
  BY <1>1, IdleClientSet
<1>4. AppsTyped'
  BY <1>1, <1>2 DEF RideInv, AppsTyped
<1> HIDE DEF a
<1>5. ToldOrder'
  <2> SUFFICES ASSUME NEW x \in Sessions, Driver(x)'
               PROVE  Told(app'[x], reply'[x].orderid)
    BY DEF ToldOrder
  <2>1. CASE x = s
    BY <1>1, <1>2, <2>1 DEF RideInv, AppsTyped, Typed, TypeOK
  <2>2. CASE x # s
    BY <1>1, <2>2 DEF RideInv, AppsTyped, Typed, TypeOK, ToldOrder, Driver
  <2> QED BY <2>1, <2>2
<1> QED BY <1>3, <1>4, <1>5

\* The answer to a report keeps the invariant.
LEMMA AnswerReportKeeps ==
  ASSUME RideInv, AnswerReport PROVE AppsTyped' /\ ClientSet' /\ ToldOrder'
<1> DEFINE s == web.sessionid
<1>0. web \in Handlers /\ reply \in [Sessions -> Replies] /\ web.orderid \in Keys
  BY KeysTyped DEF RideInv, Typed, TypeOK
<1>1. /\ web' = Idle /\ client' = Nil /\ client = s /\ s \in Sessions
      /\ reply' = [reply EXCEPT ![s].status = web.status, ![s].orderid = web.orderid]
  BY DEF AnswerReport, AnswerLocation, RideInv, ClientSet, ReportCalls, At
<1>2. PICK position \in Answered(ReadPtemp), order_status \in Answered(ReadStatus) :
        app' = [app EXCEPT ![client] =
                 AfterReport(web.role,
                             IF web.role = "driver" THEN DriverTold(@, position)
                                                    ELSE PassengerTold(@, order_status))]
  BY DEF AnswerReport
<1>3. position \in {Nil, "loc"}
  BY <1>0, <1>2 DEF Answered, ReadPtemp, RideInv, Typed, TypeOK, StoreTypeOK, WellTyped
<1> DEFINE b == IF web.role = "driver" THEN DriverTold(app[s], position)
                                       ELSE PassengerTold(app[s], order_status)
           a == AfterReport(web.role, b)
<1>4. app' = [app EXCEPT ![s] = a]
  BY <1>1, <1>2
<1>5. app[s] \in Apps
  BY <1>1 DEF RideInv, AppsTyped
<1>6. b \in Apps /\ Told(b, web.orderid)
  BY <1>0, <1>3, <1>5, DriverToldTyped, PassengerToldTyped
<1> HIDE DEF b
<1>7. a \in Apps /\ Told(a, web.orderid)
  BY <1>6, AfterReportKeeps
<1> HIDE DEF a
<1>8. ToldOrder'
  <2> SUFFICES ASSUME NEW x \in Sessions, Driver(x)'
               PROVE  Told(app'[x], reply'[x].orderid)
    BY DEF ToldOrder
  <2>1. CASE x = s
    <3>1. app'[x] = a
      BY <1>1, <1>4, <2>1 DEF RideInv, AppsTyped
    <3>2. reply'[x].orderid = web.orderid
      BY <1>0, <1>1, <2>1 DEF Replies
    <3> QED BY <1>7, <3>1, <3>2
  <2>2. CASE x # s
    BY <1>0, <1>1, <1>4, <2>2 DEF RideInv, AppsTyped, ToldOrder, Driver
  <2> QED BY <2>1, <2>2
<1>9. ClientSet'
  BY <1>1, IdleClientSet
<1>10. AppsTyped'
  BY <1>1, <1>4, <1>7 DEF RideInv, AppsTyped, SessionNames
<1> QED BY <1>8, <1>9, <1>10

\* The answer to a booking keeps the invariant.
LEMMA AnswerBookingKeeps ==
  ASSUME RideInv, AnswerBooking PROVE AppsTyped' /\ ClientSet' /\ ToldOrder'
<1>1. /\ web' = Idle /\ client' = Nil /\ client \in Sessions /\ Passenger(client)
      /\ reply' = reply
      /\ app' = app \/ app' = [app EXCEPT ![client].orderid = Nil]
  BY DEF AnswerBooking, BindPassenger, RideInv, ClientSet, BookingCalls, At
<1> DEFINE a == IF app' = app THEN app[client] ELSE [app[client] EXCEPT !.orderid = Nil]
<1>2. a \in Apps /\ app' = [app EXCEPT ![client] = a]
  BY <1>1 DEF RideInv, AppsTyped, Apps, OrderNames
<1>3. ~Driver(client)
  BY <1>1 DEF Driver, Passenger
<1> HIDE DEF a
<1>4. AppsTyped' /\ ToldOrder'
  BY <1>1, <1>2, <1>3, OneAppKeeps DEF RideInv, AppsTyped, SessionNames
<1> QED BY <1>1, <1>4, IdleClientSet

\* The answer to a finish keeps the invariant.
LEMMA AnswerFinishKeeps ==
  ASSUME RideInv, AnswerFinish PROVE AppsTyped' /\ ClientSet' /\ ToldOrder'
<1> DEFINE ok == faults' = faults /\ Exists(web.orderid)
           a == FinishReturned(app[client], ok)
<1>1. /\ web' = Idle /\ client' = Nil /\ client \in Sessions /\ reply' = reply
      /\ Running(client) /\ app[client].dialogs = 0 /\ app' = [app EXCEPT ![client] = a]
  BY DEF AnswerFinish, DropOrder, RideInv, ClientSet, FinishCalls, At
<1>2. app[client] \in Apps /\ ok \in BOOLEAN
  BY <1>1 DEF RideInv, AppsTyped
<1> HIDE DEF ok
<1>3. ASSUME NEW o, Told(app[client], o) PROVE Told(a, o)
  BY <1>1, <1>2, <1>3, FinishReturnedKeeps DEF Running
<1>4. a \in Apps
  BY <1>2 DEF FinishReturned, Apps, OrderNames, Statuses
<1> HIDE DEF a
<1>5. AppsTyped' /\ ToldOrder'
  BY <1>1, <1>3, <1>4, OneAppKeeps DEF RideInv, AppsTyped, SessionNames, ToldOrder
<1> QED BY <1>1, <1>5, IdleClientSet

\* An app whose handler ended early.
LEMMA ClientFailedKeeps ==
  ASSUME RideInv, ClientFailed, web' = Idle, reply' = reply
  PROVE  AppsTyped' /\ ClientSet' /\ ToldOrder'
<1>1. client' = Nil /\ ClientSet'
  BY IdleClientSet DEF ClientFailed
<1>2. CASE web.at \notin ReportCalls \cup FinishCalls
  BY <1>1, <1>2 DEF ClientFailed, RideInv, AppsTyped, ToldOrder, Driver, SessionNames
<1>3. CASE web.at \in ReportCalls
  <2> DEFINE a == AfterReport(web.role, app[client])
  <2>0. client \in Sessions /\ app[client] \in Apps
    BY <1>3 DEF RideInv, ClientSet, AppsTyped
  <2>1. client \in Sessions /\ app[client] \in Apps /\ app' = [app EXCEPT ![client] = a]
    BY <1>3, <2>0 DEF ClientFailed, ReportCalls, FinishCalls
  <2>2. Told(app[client], app[client].orderid)
    BY DEF Told
  <2>3. a \in Apps /\ (Driver(client) => Told(a, reply[client].orderid))
    BY <2>1, <2>2, AfterReportKeeps DEF RideInv, ToldOrder
  <2> HIDE DEF a
  <2> QED BY <1>1, <2>1, <2>3, OneAppKeeps DEF RideInv, AppsTyped, SessionNames
<1>4. CASE web.at \in FinishCalls
  <2> DEFINE a == FinishReturned(app[client], FALSE)
  <2>1. /\ client \in Sessions /\ app[client] \in Apps /\ Running(client)
        /\ app[client].dialogs = 0
    BY <1>4 DEF RideInv, ClientSet, AppsTyped
  <2>2. app' = [app EXCEPT ![client] = a]
    BY <1>4 DEF ClientFailed, ReportCalls, FinishCalls
  <2>3. a \in Apps
    BY <2>1 DEF FinishReturned, Apps, Statuses
  <2>4. Driver(client) => Told(a, reply[client].orderid)
    BY <2>1, FinishReturnedKeeps DEF RideInv, ToldOrder, Running
  <2> HIDE DEF a
  <2> QED BY <1>1, <2>1, <2>2, <2>3, <2>4, OneAppKeeps DEF RideInv, AppsTyped, SessionNames
<1> QED BY <1>2, <1>3, <1>4

\* A remote call of a handler, or its failure, keeps the invariant.
LEMMA ServerCallKeeps ==
  ASSUME RideInv, ServerCall PROVE AppsTyped' /\ ClientSet' /\ ToldOrder'
<1>1. reply' = reply
  BY InnerCallKeeps DEF ServerCall, Abandon, RideInv
<1>2. CASE web' = Idle
  BY <1>1, <1>2, ClientFailedKeeps DEF ServerCall, Idle
<1>3. CASE web' # Idle
  <2>1. InnerCall
    BY <1>3 DEF ServerCall, Abandon
  <2>2. /\ web'.sessionid = web.sessionid
        /\ \/ web.at \in LoginCalls /\ web'.at \in LoginCalls
           \/ web.at \in BookingCalls /\ web'.at \in BookingCalls
           \/ web.at \in ReportCalls /\ web'.at \in ReportCalls
           \/ web.at \in FinishCalls /\ web'.at \in FinishCalls
    BY <1>3, <2>1, InnerCallKeeps DEF RideInv
  <2>3. UNCHANGED <<app, client>>
    BY <2>2 DEF ServerCall, LoginCalls, BookingCalls, ReportCalls, FinishCalls
  <2>4. ClientSet'
    BY <1>1, <2>2, <2>3 DEF RideInv, ClientSet, LoginCalls, BookingCalls, ReportCalls,
                            FinishCalls, Passenger, Running
  <2> QED BY <1>1, <2>3, <2>4 DEF RideInv, AppsTyped, ToldOrder, Driver
<1> QED BY <1>2, <1>3

\* A step of one phone leaves the app that waits for the server alone.
LEMMA PhoneKeeps ==
  ASSUME RideInv, NEW s \in Sessions, Free(s), NEW a \in Apps, app' = [app EXCEPT ![s] = a],
         UNCHANGED <<web, reply, client>>, Driver(s) => Told(a, reply[s].orderid)
  PROVE  AppsTyped' /\ ClientSet' /\ ToldOrder'
<1>1. AppsTyped' /\ ToldOrder'
  BY OneAppKeeps DEF RideInv, AppsTyped
<1>2. client \in Sessions => app'[client] = app[client]
  BY DEF Free, RideInv, AppsTyped
<1>3. ClientSet'
  BY <1>2 DEF RideInv, ClientSet, Passenger, Running
<1> QED BY <1>1, <1>3

\* What an app does by itself keeps the invariant.
LEMMA AppStepKeeps ==
  ASSUME RideInv, NEW s \in Sessions, AppStep(s)
  PROVE  AppsTyped' /\ ClientSet' /\ ToldOrder'
<1>0. /\ app[s] \in Apps /\ app \in [Sessions -> Apps] /\ client \in SessionNames
      /\ (Driver(s) => Told(app[s], reply[s].orderid)) /\ AppsTyped /\ ClientSet /\ ToldOrder
  BY DEF RideInv, AppsTyped, ToldOrder
<1>1. CASE Report(s)
  <2>1. /\ web'.at = "refresh" /\ web'.sessionid = s /\ client' = s
        /\ UNCHANGED <<reply, app>>
    BY <1>1 DEF Report, DriverReports, PassengerReports, Sends, LocationChanged, Idle
  <2> QED BY <1>0, <2>1 DEF AppsTyped, ClientSet, ToldOrder, Driver, SessionNames, LoginCalls,
                            ReportCalls, BookingCalls, FinishCalls
<1>2. CASE ReportRefused(s)
  <2>1. AfterReport(reply[s].role, app[s]) \in Apps
    <3>1. Told(app[s], app[s].orderid)
      BY DEF Told
    <3> QED BY <1>0, <3>1, AfterReportKeeps
  <2>2. Driver(s) => Told(AfterReport(reply[s].role, app[s]), reply[s].orderid)
    BY <1>0, AfterReportKeeps
  <2> QED BY <1>2, <2>1, <2>2, PhoneKeeps DEF ReportRefused
<1>3. CASE Book(s)
  <2>1. /\ web'.at = "createOrder" /\ client' = s /\ reply' = reply /\ Passenger(s)
        /\ app' = [app EXCEPT ![s].searches = @ - 1] /\ app[s].searches > 0
    BY <1>3 DEF Book, SendsOrder, Sends, SetOrder, Idle, Passenger
  <2>2. ~Driver(s)
    BY <2>1 DEF Driver, Passenger
  <2> DEFINE a == [app[s] EXCEPT !.searches = @ - 1]
  <2>3. a \in Apps /\ app' = [app EXCEPT ![s] = a]
    BY <1>0, <2>1, DialogBound DEF Apps
  <2>4. app' \in [Sessions -> Apps] /\ ToldOrder'
    BY <1>0, <2>1, <2>2, <2>3, OneAppKeeps
  <2> QED BY <2>1, <2>4 DEF AppsTyped, ClientSet, SessionNames, Passenger, LoginCalls,
                            ReportCalls, BookingCalls, FinishCalls
<1>4. CASE Finish(s)
  <2>1. /\ web'.at = "namePassenger" /\ client' = s /\ UNCHANGED <<reply, app>>
        /\ app[s].dialogs = 0 /\ Running(s)
    BY <1>4 DEF Finish, Sends, HandleFinish, Idle, Free
  <2> QED BY <1>0, <2>1 DEF AppsTyped, ClientSet, ToldOrder, Driver, Running, SessionNames,
                            LoginCalls, ReportCalls, BookingCalls, FinishCalls
<1>5. ASSUME NEW a \in Apps, OnPhone(s, a), Driver(s) => Told(a, reply[s].orderid)
      PROVE  AppsTyped' /\ ClientSet' /\ ToldOrder'
  BY <1>5, PhoneKeeps DEF OnPhone
<1>6. ASSUME NEW from \in {"idle", "ready", "catching"}, NEW to \in Statuses,
             NEW autosend \in {"yes", "no"}, Tap(s, from, to, autosend),
             from = "catching" \/ to \in {"idle", "ready"}
      PROVE  AppsTyped' /\ ClientSet' /\ ToldOrder'
  <2> DEFINE a == [app[s] EXCEPT !.status = to, !.autosend = autosend]
  <2>1. a \in Apps
    BY <1>0 DEF Apps
  <2>2. Driver(s) => Told(a, reply[s].orderid)
    BY <1>0, <1>6 DEF Tap, Told, Apps, Statuses
  <2> QED BY <1>5, <1>6, <2>1, <2>2 DEF Tap
<1>7. CASE StartOffering(s) \/ StopOffering(s) \/ PickUp(s)
  <2>1. app[s].autosend \in {"yes", "no"}
    BY <1>0 DEF Apps
  <2>2. "idle" \in Statuses /\ "ready" \in Statuses /\ "driving" \in Statuses
    BY DEF Statuses
  <2> QED BY <1>6, <1>7, <2>1, <2>2 DEF StartOffering, StopOffering, PickUp
<1>8. ASSUME NEW status \in Statuses, CloseDialog(s, status)
      PROVE  AppsTyped' /\ ClientSet' /\ ToldOrder'
  <2> DEFINE a == [app[s] EXCEPT !.dialogs = @ - 1, !.status = status]
  <2>1. a \in Apps
    <3>1. app[s].dialogs - 1 \in 0..MaxDialogs
      BY <1>0, <1>8, DialogBound DEF CloseDialog, Apps
    <3> QED BY <1>0, <3>1 DEF Apps
  <2>2. app[s].status \in Statuses /\ app[s].dialogs \in Nat /\ app[s].dialogs > 0
    BY <1>0, <1>8, DialogBound DEF CloseDialog, OnPhone, Free, Running, Apps
  <2>3. Driver(s) => Told(a, reply[s].orderid)
    BY <1>0, <2>2 DEF Told, Apps
  <2> QED BY <1>5, <1>8, <2>1, <2>3 DEF CloseDialog
<1>9. CASE Accept(s) \/ Refuse(s) \/ Dismiss(s)
  <2>1. "idle" \in Statuses /\ "catching" \in Statuses
    BY DEF Statuses
  <2>2. app[s].status \in Statuses
    BY <1>9 DEF Accept, Refuse, Dismiss, CloseDialog, OnPhone, Free, Running
  <2> QED BY <1>8, <1>9, <2>1, <2>2 DEF Accept, Refuse, Dismiss
<1>10. CASE Search(s) \/ SearchEnds(s)
  <2> DEFINE up == [app[s] EXCEPT !.searches = @ + 1]
             down == [app[s] EXCEPT !.searches = @ - 1]
  <2>1. CASE Search(s)
    <3>1. up \in Apps
      BY <1>0, <2>1, DialogBound DEF Search, Apps
    <3>2. Driver(s) => Told(up, reply[s].orderid)
      BY <1>0 DEF Told, Apps
    <3> QED BY <1>5, <2>1, <3>1, <3>2 DEF Search
  <2>2. CASE SearchEnds(s)
    <3>1. down \in Apps
      BY <1>0, <2>2, DialogBound DEF SearchEnds, Apps
    <3>2. Driver(s) => Told(down, reply[s].orderid)
      BY <1>0 DEF Told, Apps
    <3> QED BY <1>5, <2>2, <3>1, <3>2 DEF SearchEnds
  <2> QED BY <1>10, <2>1, <2>2
<1>11. CASE SwitchOff(s)
  BY <1>5, <1>11, NoAppTyped, NoAppTold DEF SwitchOff
<1>12. CASE SessionExpires(s)
  BY <1>0, <1>12 DEF SessionExpires, AppsTyped, ClientSet, ToldOrder, Driver, Passenger,
                     Running
<1> QED BY <1>1, <1>2, <1>3, <1>4, <1>7, <1>9, <1>10, <1>11, <1>12 DEF AppStep

\* No step of the whole system breaks the invariant.
LEMMA RideNextInv == RideInv /\ [RideNext]_rideVars => RideInv'
<1> SUFFICES ASSUME RideInv, [RideNext]_rideVars PROVE RideInv'
  OBVIOUS
<1>1. Typed'
  BY RideStepIsServerStep, NextTyped DEF RideInv
<1>2. CASE UNCHANGED rideVars
  BY <1>1, <1>2 DEF rideVars, RideInv, AppsTyped, ClientSet, ToldOrder, Driver, Passenger,
                    Running
<1>3. CASE \E u \in Users, role \in Roles : LogsIn(u, role) \/ Registers(u, role)
  BY <1>1, <1>3, LoginKeeps DEF RideInv, LogsIn, Registers
<1>4. CASE ServerStep
  BY <1>1, <1>4, AnswerLoginKeeps, AnswerReportKeeps, AnswerBookingKeeps, AnswerFinishKeeps,
     ServerCallKeeps DEF ServerStep, RideInv
<1>5. CASE \E s \in Sessions : AppStep(s)
  BY <1>1, <1>5, AppStepKeeps DEF RideInv
<1> QED BY <1>2, <1>3, <1>4, <1>5 DEF RideNext

\* The strengthened invariant, from which the other results follow, always holds.
THEOREM RideInvAlways == RideSpec => []RideInv
<1> QED BY RideInitInv, RideNextInv, PTL DEF RideSpec

\* The fields of the apps are of their kinds, and no app waits for an idle server.
THEOREM AppsAlwaysTyped == RideSpec => []RideTypeOK
<1>1. RideInv => RideTypeOK
  BY DEF RideInv, AppsTyped, ClientSet, RideTypeOK, At
<1> QED BY <1>1, RideInvAlways, PTL

\* The whole system implements OboServer: the apps send nothing that it does not allow,
\* and a driver finishes only the order that it was last told.
THEOREM RequestsAreServers == RideSpec => ServerRequests
<1>1. RideInit => Init
  BY DEF RideInit
<1>2. RideInv /\ [RideNext]_rideVars => [Next]_vars
  BY RideStepIsServerStep
<1> QED BY <1>1, <1>2, RideInvAlways, PTL DEF RideSpec, ServerRequests, Spec

\* So the server's promises about orders and accounts hold in the whole system.
THEOREM RideKeepsOrders ==
  RideSpec => /\ []OrdersHeldByTheirParties /\ NoOrderLost /\ OrdersLiveOnce
              /\ OnlyItsDriverStarts /\ RideNamesItsParties
              /\ []SessionsMatchAccounts
              /\ []StoredRidesAreOver /\ []BusyDriversUnlisted
              /\ []PairedUnlessDoubleBooked
<1> QED BY RequestsAreServers, HeldByParties, NoOrderIsLost, LivesOnce, StartedByItsDriver,
           RideNamesTheParties, AccountsMatch, StoredRidesOver, BusyUnlisted,
           PairedUnlessBookedTwice, PTL DEF ServerRequests
=============================================================================

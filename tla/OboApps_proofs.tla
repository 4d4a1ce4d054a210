---------------------------- MODULE OboApps_proofs ---------------------------
(***************************************************************************)
(* What becomes of the apps: which order a driver starts, how a travel     *)
(* ends, and what a lost answer or a vanished phone leaves behind for ever. *)
(***************************************************************************)
EXTENDS OboRide_proofs

USE DEF PassengerOf, DriverOf

-----------------------------------------------------------------------------
(* The order that a report reads, and that its app is told.                *)

\* The calls of a report after the one that reads the order id.
WorkingCalls == ReportCalls \ {"refresh", "getOrderid"}

\* The session still holds the order that was read from it, unless it expired.
ReadHeld ==
  web.at \in WorkingCalls =>
    \/ hash[web.sessionid].orderid = web.orderid
    \/ hash[web.sessionid].orderid = Nil /\ hash[web.sessionid].username = Nil

\* Who reads an order, or was told of it, is its passenger or its driver, as long as the
\* order has any.
ReadParties ==
  web.at \in ReportCalls /\ web.orderid \in Orders => web.sessionid \in Parties(web.orderid)
ToldParties ==
  \A s \in Sessions, o \in Orders :
    reply[s].orderid = o => s \in Parties(o) \/ Parties(o) = {Nil}

ToldInv == ReadHeld /\ ReadParties /\ ToldParties

\* Before the first request nobody was told anything.
LEMMA InitTold == Init => ToldInv
  BY NamesApart DEF Init, Idle, NoReply, ToldInv, ReadHeld, ReadParties, ToldParties,
     WorkingCalls, ReportCalls

\* No step breaks it.
LEMMA NextTold ==
  ASSUME Inv, AccountInv, LifeInv, PartyInv, ToldInv, [Next]_vars PROVE ToldInv'
<1>0. /\ Typed /\ Typed' /\ web \in Handlers /\ LocalsSet /\ ReadHeld /\ ReadParties
      /\ ToldParties /\ ToldComplete /\ NewIsFresh /\ OrdersHeldByTheirParties
  BY NextTyped DEF Inv, LifeInv, Typed, TypeOK, ToldInv
<1>1. ReadHeld'
  <2> SUFFICES ASSUME web'.at \in WorkingCalls PROVE ReadHeld'
    BY DEF ReadHeld
  <2> DEFINE s == web.sessionid
  <2>1. /\ web.at \in ReportCalls /\ web'.sessionid = s
        /\ web.at # "refresh"
        /\ \/ web'.orderid = web.orderid /\ (web.at = "getOrderid" => web' = web)
           \/ GetOrderid /\ web'.orderid = hash[s].orderid
    BY <1>0, ReportStep DEF WorkingCalls, ReportCalls, LocationChanged, Idle
  <2>2. s \in Sessions /\ reply[s].role # Nil
    <3>1. reply[s].role \in Roles
      BY <2>1 DEF PartyInv, ReportersAct
    <3> QED BY <1>0, <2>1, <3>1 DEF LocalsSet, SessionCalls, ReportCalls, Roles, Nil
  <2>3. CASE GetOrderid
    BY <2>1, <2>3 DEF GetOrderid, ReadHeld, WorkingCalls, At, ReportCalls
  <2>4. CASE web.at \in WorkingCalls /\ web'.orderid = web.orderid
    <3>1. hash'[s].username \in {hash[s].username, Nil}
      BY <2>2, NamesFall
    <3>2. \/ hash'[s].orderid = hash[s].orderid
          \/ hash'[s].username = Nil /\ hash'[s].orderid = Nil
      BY <2>2, <2>4, HoldsLost DEF WorkingCalls, ReportCalls, Holds, PutSession, BindDriver,
         BindPassenger, ClearDriver, ClearPassenger, At
    <3> QED BY <1>0, <2>1, <2>4, <3>1, <3>2 DEF ReadHeld
  <2> QED BY <2>1, <2>3, <2>4 DEF WorkingCalls
<1>2. ReadParties'
  <2> SUFFICES ASSUME web'.at \in ReportCalls, web'.orderid \in Orders PROVE ReadParties'
    BY DEF ReadParties
  <2>1. web'.orderid # Nil
    BY NamesApart
  <2>2. /\ web.at \in ReportCalls /\ web'.sessionid = web.sessionid
        /\ \/ web'.orderid = web.orderid
           \/ GetOrderid /\ web'.orderid = hash[web.sessionid].orderid
    BY <1>0, <2>1, ReportStep DEF LocationChanged, Idle
  <2>3. \A o \in Orders : Parties(o)' = Parties(o)
    BY <2>2, PartiesStable DEF PartiesKept, Parties, ReportCalls
  <2>4. web.sessionid \in Sessions
    BY <1>0, <2>2 DEF LocalsSet, SessionCalls, ReportCalls
  <2> QED BY <1>0, <2>2, <2>3, <2>4 DEF ReadParties, OrdersHeldByTheirParties, Holds
<1>3. ToldParties'
  <2> SUFFICES ASSUME NEW s \in Sessions, NEW o \in Orders, reply'[s].orderid = o
               PROVE  s \in Parties(o)' \/ Parties(o)' = {Nil}
    BY DEF ToldParties
  <2>1. s \in Parties(o) \/ Parties(o) = {Nil}
    <3>1. \/ reply[s].orderid = o
          \/ web.at = "answerLocation" /\ web.orderid = o /\ web.sessionid = s
      BY ToldStep
    <3> QED BY <1>0, <3>1 DEF ToldParties, ReadParties, ReportCalls
  <2>2. CASE SameOrder(o) \/ StartsOrder(o)
    BY <2>1, <2>2 DEF SameOrder, StartsOrder, Parties
  <2>3. CASE CreatesOrder(o)
    <3>1. web.at = "createOrder" /\ web.orderid = o /\ ~Placed(o) /\ reply' = reply
      BY <1>0, <2>3 DEF CreatesOrder, CreateOrder, At, NewIsFresh
    <3> QED BY <1>0, <3>1 DEF ToldComplete, Complete, Placed
  <2>4. CASE DropsOrder(o)
    BY <2>1, <2>4 DEF DropsOrder, EmptyHash, Fields, Parties
  <2> QED BY <2>2, <2>3, <2>4, OrderStep
<1> QED BY <1>1, <1>2, <1>3 DEF ToldInv

\* A report works on the order that it read, and an app is told of its own orders only.
THEOREM ToldAlways == Spec => []ToldInv
<1>1. Init => ToldInv
  BY InitTold
<1>2. Inv /\ AccountInv /\ LifeInv /\ PartyInv /\ ToldInv /\ [Next]_vars => ToldInv'
  BY NextTold
<1> QED BY <1>1, <1>2, InvAlways, AccountsAlways, LifeAlways, PartyAlways, PTL DEF Spec

-----------------------------------------------------------------------------
(* What one step may make of an app.                                       *)

\* What the proofs about apps use of the server.
ServerInv ==
  /\ Inv /\ AccountInv /\ LifeInv /\ PartyInv /\ ToldInv
  /\ OverInv /\ BusyInv /\ DriversNamed /\ PairInv

\* In the whole system, the server keeps its invariants.
LEMMA ServerInvAlways == RideSpec => []ServerInv
<1>1. Inv /\ AccountInv /\ LifeInv /\ PartyInv /\ ToldInv /\ OverInv /\ BusyInv
        /\ DriversNamed /\ PairInv => ServerInv
  BY DEF ServerInv
<1> QED
  BY <1>1, RequestsAreServers, InvAlways, AccountsAlways, LifeAlways, PartyAlways,
     ToldAlways, OverAlways, BusyAlways, DriversNamedAlways, PairsAlways, PTL
     DEF ServerRequests

\* The app of a driver's report, or of a passenger's, takes what it is told.
Answer(a, position, order_status) ==
  AfterReport(web.role, IF web.role = "driver" THEN DriverTold(a, position)
                                               ELSE PassengerTold(a, order_status))

LoggedIn(s) ==
  AnswerLogin /\ s = web.sessionid /\ app'[s] = [NoApp EXCEPT !.status = "idle"]
GetsAnswer(s) ==
  /\ AnswerReport /\ s = client
  /\ \E position \in Answered(ReadPtemp), order_status \in Answered(ReadStatus) :
       app'[s] = Answer(app[s], position, order_status)
Booked(s) ==
  AnswerBooking /\ s = client /\ Passenger(s) /\ app'[s] = [app[s] EXCEPT !.orderid = Nil]
Finished(s) ==
  /\ web.at \in FinishCalls /\ s = client /\ web' = Idle
  /\ \E ok \in BOOLEAN : app'[s] = FinishReturned(app[s], ok)
Unanswered(s) ==
  \/ /\ web.at \in ReportCalls /\ s = client /\ web' = Idle
     /\ app'[s] = AfterReport(web.role, app[s])
  \/ ~Exists(s) /\ app'[s] = AfterReport(reply[s].role, app[s])
OnItsOwn(s) ==
  \/ \E n : app'[s] = [app[s] EXCEPT !.searches = n]
  \/ /\ Driver(s) /\ app[s].dialogs = 0 /\ app[s].status \in {"idle", "ready"}
     /\ \E to \in {"idle", "ready"}, autosend \in {"yes", "no"} :
          app'[s] = [app[s] EXCEPT !.status = to, !.autosend = autosend]
  \/ /\ Driver(s) /\ app[s].dialogs = 0 /\ app[s].status = "catching"
     /\ app'[s] = [app[s] EXCEPT !.status = "driving", !.autosend = "yes"]
  \/ /\ Running(s) /\ app[s].dialogs > 0
     /\ \E status \in {"catching", "idle", app[s].status} :
          app'[s] = [app[s] EXCEPT !.dialogs = @ - 1, !.status = status]
  \/ app'[s] = [NoApp EXCEPT !.status = "gone"]

\* An app changes when it is answered, when it waits for no answer any more, and by what
\* its user does.
LEMMA AppChange ==
  ASSUME RideInv, [RideNext]_rideVars, NEW s \in Sessions, app'[s] # app[s]
  PROVE  \/ LoggedIn(s) \/ GetsAnswer(s) \/ Booked(s) \/ Finished(s) \/ Unanswered(s)
         \/ OnItsOwn(s)
<1>0. app \in [Sessions -> Apps] /\ ClientSet /\ Typed
  BY DEF RideInv, AppsTyped
<1>1. CASE UNCHANGED rideVars
  BY <1>1 DEF rideVars
<1>2. CASE \E u \in Users, role \in Roles : LogsIn(u, role) \/ Registers(u, role)
  BY <1>2 DEF LogsIn, Registers
<1>3. CASE AnswerLogin
  BY <1>0, <1>3 DEF AnswerLogin, LoggedIn
<1>4. CASE AnswerReport
  <2>1. client \in Sessions
    BY <1>0, <1>4 DEF AnswerReport, AnswerLocation, At, ClientSet, ReportCalls
  <2>2. PICK position \in Answered(ReadPtemp), order_status \in Answered(ReadStatus) :
          app' = [app EXCEPT ![client] = Answer(@, position, order_status)]
    BY <1>4 DEF AnswerReport, Answer
  <2>3. s = client /\ app'[s] = Answer(app[s], position, order_status)
    BY <1>0, <2>1, <2>2
  <2> QED BY <1>4, <2>3 DEF GetsAnswer
<1>5. CASE AnswerBooking
  BY <1>0, <1>5 DEF AnswerBooking, BindPassenger, At, ClientSet, BookingCalls, Booked
<1>6. CASE AnswerFinish
  <2>1. web.at \in FinishCalls /\ client \in Sessions /\ web' = Idle
    BY <1>0, <1>6 DEF AnswerFinish, DropOrder, At, ClientSet, FinishCalls
  <2> DEFINE ok == faults' = faults /\ Exists(web.orderid)
  <2>2. app' = [app EXCEPT ![client] = FinishReturned(@, ok)] /\ ok \in BOOLEAN
    BY <1>6 DEF AnswerFinish
  <2> HIDE DEF ok
  <2> QED BY <1>0, <2>1, <2>2 DEF Finished
<1>7. CASE ServerCall
  <2>1. ClientFailed /\ web'.at = "idle"
    BY <1>7 DEF ServerCall
  <2>2. web' = Idle
    BY <1>0, <1>7, <2>1, InnerCallKeeps DEF ServerCall, Abandon, LoginCalls, ReportCalls,
       BookingCalls, FinishCalls
  <2>3. CASE web.at \in ReportCalls
    BY <1>0, <2>1, <2>2, <2>3 DEF ClientFailed, ClientSet, Unanswered, ReportCalls, FinishCalls
  <2>4. CASE web.at \in FinishCalls
    BY <1>0, <2>1, <2>2, <2>4 DEF ClientFailed, ClientSet, Finished, ReportCalls, FinishCalls
  <2>5. CASE web.at \notin ReportCalls \cup FinishCalls
    BY <2>1, <2>5 DEF ClientFailed
  <2> QED BY <2>3, <2>4, <2>5
<1>8. ASSUME NEW x \in Sessions, AppStep(x)
      PROVE  Unanswered(s) \/ OnItsOwn(s)
  <2>1. CASE Report(x) \/ Finish(x) \/ SessionExpires(x)
    BY <2>1 DEF Report, Finish, SessionExpires
  <2>2. CASE ReportRefused(x)
    BY <1>0, <2>2 DEF ReportRefused, ExistsSession, Unanswered
  <2>3. CASE Book(x) \/ Search(x) \/ SearchEnds(x)
    <3>1. PICK n \in {app[x].searches + 1, app[x].searches - 1} :
            app' = [app EXCEPT ![x] = [app[x] EXCEPT !.searches = n]]
      BY <1>0, <2>3 DEF Book, Search, SearchEnds, OnPhone
    <3>2. app'[s] = [app[s] EXCEPT !.searches = n]
      BY <1>0, <3>1
    <3> QED BY <3>2 DEF OnItsOwn
  <2>4. CASE StartOffering(x) \/ StopOffering(x)
    <3>1. PICK to \in {"idle", "ready"} :
            /\ Driver(x) /\ app[x].dialogs = 0 /\ app[x].status \in {"idle", "ready"}
            /\ app' = [app EXCEPT ![x] = [app[x] EXCEPT !.status = to,
                                                       !.autosend = app[x].autosend]]
      BY <1>0, <2>4 DEF StartOffering, StopOffering, Tap, OnPhone
    <3>2. /\ s = x /\ app[s].autosend \in {"yes", "no"}
          /\ app'[s] = [app[s] EXCEPT !.status = to, !.autosend = app[s].autosend]
      BY <1>0, <3>1 DEF Apps
    <3> QED BY <3>1, <3>2 DEF OnItsOwn
  <2>7. CASE PickUp(x)
    BY <1>0, <2>7 DEF PickUp, Tap, OnPhone, OnItsOwn
  <2>5. CASE Accept(x) \/ Refuse(x) \/ Dismiss(x)
    BY <1>0, <2>5 DEF Accept, Refuse, Dismiss, CloseDialog, OnPhone, Free, OnItsOwn
  <2>6. CASE SwitchOff(x)
    BY <1>0, <2>6 DEF SwitchOff, OnPhone, OnItsOwn
  <2> QED BY <1>8, <2>1, <2>2, <2>3, <2>4, <2>5, <2>6, <2>7 DEF AppStep
<1> QED BY <1>1, <1>2, <1>3, <1>4, <1>5, <1>6, <1>7, <1>8 DEF RideNext, ServerStep

\* After a report a driver's app may be dead; else its status and its order are what they
\* were, and it may ask about an order.  A passenger's app is what it was.
LEMMA AfterReportLeaves ==
  ASSUME NEW role, NEW a \in Apps
  PROVE  LET r == AfterReport(role, a) IN
         \/ role = "driver" /\ r = [NoApp EXCEPT !.status = "gone"]
         \/ /\ r.status = a.status /\ r.orderid = a.orderid
            /\ role # "driver" => r = a
            /\ r.dialogs # a.dialogs =>
                 role = "driver" /\ a.status = "ready" /\ a.orderid # NONE
<1> DEFINE b == [a EXCEPT !.autosend = "no"]
           n == IF b.dialogs < MaxDialogs THEN b.dialogs + 1 ELSE b.dialogs
           c == [b EXCEPT !.dialogs = n]
           gone == [NoApp EXCEPT !.status = "gone"]
<1>1. /\ b.status = a.status /\ b.orderid = a.orderid /\ b.dialogs = a.dialogs
      /\ c.status = a.status /\ c.orderid = a.orderid
  BY DEF Apps
<1>2. \/ AfterReport(role, a) = a /\ role # "driver"
      \/ AfterReport(role, a) \in {b, gone} /\ role = "driver"
      \/ AfterReport(role, a) = c /\ role = "driver" /\ a.status = "ready" /\ a.orderid # NONE
  BY DEF AfterReport
<1> HIDE DEF b, c, gone
<1> QED BY <1>1, <1>2 DEF gone

\* The app that waits for an answer does nothing until its handler ends, and the handler
\* goes on with the request that it began with.
LEMMA ClientKept ==
  ASSUME RideInv, [RideNext]_rideVars
  PROVE  \/ web' = Idle
         \/ \E s \in Sessions : Report(s) \/ Book(s) \/ Finish(s)
         \/ /\ client' = client
            /\ client \in Sessions =>
                 app'[client] = app[client] /\ reply'[client] = reply[client]
            /\ web'.at \in ReportCalls => web.at \in ReportCalls
            /\ web'.at \in FinishCalls => web.at \in FinishCalls
<1> USE DEF ReportCalls, FinishCalls
<1>0. app \in [Sessions -> Apps] /\ ClientSet /\ Typed
  BY DEF RideInv, AppsTyped
<1>1. CASE UNCHANGED rideVars
  BY <1>1 DEF rideVars
<1>2. CASE \E u \in Users, role \in Roles : LogsIn(u, role) \/ Registers(u, role)
  <2>1. PICK u \in Users, role \in Roles :
          (Login(u, role) \/ Reg(u, role)) /\ UNCHANGED <<app, client>>
    BY <1>2 DEF LogsIn, Registers
  <2>2. reply' = reply /\ web'.at \in {"idle", "session"}
    BY <2>1 DEF Login, Reg, CreateSession, Idle, At
  <2> QED BY <2>1, <2>2
<1>3. CASE AnswerLogin \/ AnswerReport \/ AnswerBooking \/ AnswerFinish
  BY <1>3 DEF AnswerLogin, AnswerReport, AnswerBooking, AnswerFinish, AnswerSession,
     AnswerLocation, BindPassenger, DropOrder
<1>4. CASE ServerCall /\ web' # Idle
  <2>1. InnerCall
    BY <1>4 DEF ServerCall, Abandon
  <2>2. UNCHANGED <<app, client>>
    BY <1>0, <1>4, <2>1, InnerCallKeeps DEF ServerCall, LoginCalls, BookingCalls
  <2> QED BY <1>0, <1>4, <2>1, <2>2, InnerCallKeeps DEF LoginCalls, BookingCalls
<1>5. ASSUME NEW s \in Sessions, AppStep(s), ~Report(s), ~Book(s), ~Finish(s)
      PROVE  /\ client' = client /\ web' = web /\ reply' = reply
             /\ client \in Sessions => app'[client] = app[client]
  BY <1>0, <1>5 DEF AppStep, ReportRefused, StartOffering, StopOffering, PickUp, Tap, Accept,
     Refuse, Dismiss, CloseDialog, Search, SearchEnds, SwitchOff, SessionExpires, OnPhone, Free
<1> QED BY <1>1, <1>2, <1>3, <1>4, <1>5 DEF RideNext, ServerStep

-----------------------------------------------------------------------------
(* What an app and the handler of its request know of each other.          *)

\* The handler of a report works with the status that its app still has.
SentAsIs ==
  web.at \in ReportCalls =>
    /\ web.status = app[client].status
    /\ web.autosend = IF Driver(client) /\ app[client].status = "driving"
                      THEN app[client].autosend ELSE "no"

\* The handler of a finish ends the order that its driver's app drives, and unbinds no
\* other driver.
FinisherDrives ==
  web.at \in FinishCalls =>
    /\ Driver(client) /\ app[client].status = "driving"
    /\ app[client].orderid = web.orderid
    /\ web.driver \in {Nil, client}

\* No dialog is open over a screen that drives, or over a passenger's.
DialogsClosed ==
  \A s \in Sessions : ~Driver(s) \/ app[s].status = "driving" => app[s].dialogs = 0

AppInv == SentAsIs /\ FinisherDrives /\ DialogsClosed

\* Before the first request no app runs.
LEMMA InitApps == RideInit => AppInv
  BY DEF RideInit, Init, Idle, NoApp, AppInv, SentAsIs, FinisherDrives, DialogsClosed,
     ReportCalls, FinishCalls

\* A report carries the status of its app, up to its answer.
LEMMA NextSent ==
  ASSUME RideInv, AppInv, [RideNext]_rideVars PROVE SentAsIs'
<1> SUFFICES ASSUME web'.at \in ReportCalls PROVE SentAsIs'
  BY DEF SentAsIs
<1>0. Typed /\ ClientSet /\ [Next]_vars /\ app \in [Sessions -> Apps]
  BY RideStepIsServerStep DEF RideInv, AppsTyped
<1>1. web' # Idle
  BY DEF Idle, ReportCalls
<1>2. ASSUME NEW s \in Sessions, Report(s) PROVE SentAsIs'
  BY <1>0, <1>2 DEF Report, Sends, DriverReports, PassengerReports, LocationChanged, Idle,
     Driver, Passenger, SentAsIs
<1>3. ASSUME NEW s \in Sessions PROVE ~Book(s) /\ ~Finish(s)
  BY <1>3 DEF Book, SendsOrder, SetOrder, Finish, HandleFinish, Idle, ReportCalls
<1>4. CASE /\ client' = client /\ web.at \in ReportCalls
           /\ client \in Sessions =>
                app'[client] = app[client] /\ reply'[client] = reply[client]
  <2>1. client \in Sessions
    BY <1>0, <1>4 DEF ClientSet
  <2>2. web'.status = web.status /\ web'.autosend = web.autosend
    BY <1>0, <1>4, ReportStep DEF LocationChanged, At, ReportCalls
  <2> QED BY <1>4, <2>1, <2>2 DEF AppInv, SentAsIs, Driver
<1> QED BY <1>1, <1>2, <1>3, <1>4, ClientKept

\* A finish is for the order that its driver's app drives, up to its answer.
LEMMA NextFinisher ==
  ASSUME RideInv, ServerInv, AppInv, [RideNext]_rideVars PROVE FinisherDrives'
<1> SUFFICES ASSUME web'.at \in FinishCalls PROVE FinisherDrives'
  BY DEF FinisherDrives
<1>0. /\ Typed /\ ClientSet /\ [Next]_vars /\ app \in [Sessions -> Apps]
      /\ ToldOrder /\ ToldParties /\ PartiesAct /\ StraysNameless
      /\ reply \in [Sessions -> Replies]
  BY RideStepIsServerStep DEF RideInv, AppsTyped, ServerInv, ToldInv, PartyInv, DriversNamed,
     Typed, TypeOK
<1>1. web' # Idle
  BY DEF Idle, FinishCalls
<1>2. ASSUME NEW s \in Sessions, Finish(s) PROVE FinisherDrives'
  <2>1. /\ Driver(s) /\ app[s].status = "driving" /\ client' = s /\ app' = app /\ reply' = reply
        /\ web'.orderid = app[s].orderid /\ web'.driver = DriverOf(app[s].orderid)
    BY <1>2 DEF Finish, Sends, HandleFinish, Idle
  <2>2. app[s].orderid = reply[s].orderid
    BY <1>0, <2>1 DEF ToldOrder, Told, Statuses
  <2>3. CASE reply[s].orderid \in Orders
    <3>1. s \in Parties(reply[s].orderid) \/ Parties(reply[s].orderid) = {Nil}
      BY <1>0, <2>3 DEF ToldParties
    <3>2. s # PassengerOf(reply[s].orderid)
      BY <1>0, <2>1, <2>3 DEF PartiesAct, Driver
    <3>3. web'.driver \in {Nil, s}
      BY <2>1, <2>2, <3>1, <3>2 DEF Parties
    <3> QED BY <2>1, <3>3 DEF FinisherDrives, Driver
  <2>4. CASE reply[s].orderid \in {NONE, Nil}
    BY <1>0, <2>1, <2>2, <2>4 DEF StraysNameless, FinisherDrives, Driver
  <2> QED BY <1>0, <2>3, <2>4 DEF Replies, OrderNames
<1>3. ASSUME NEW s \in Sessions PROVE ~Book(s) /\ ~Report(s)
  BY <1>3 DEF Book, SendsOrder, SetOrder, Report, DriverReports, PassengerReports,
     LocationChanged, Idle, FinishCalls
<1>4. CASE /\ client' = client /\ web.at \in FinishCalls
           /\ client \in Sessions =>
                app'[client] = app[client] /\ reply'[client] = reply[client]
  <2>1. client \in Sessions
    BY <1>0, <1>4 DEF ClientSet
  <2>2. web'.orderid = web.orderid /\ web'.driver = web.driver
    BY <1>0, <1>4, FinishingStep DEF FinishCalls
  <2> QED BY <1>4, <2>1, <2>2 DEF AppInv, FinisherDrives, Driver
<1> QED BY <1>1, <1>2, <1>3, <1>4, ClientKept

\* A dialog is about an order, and none is opened over a driving screen.
LEMMA NextDialogs ==
  ASSUME RideInv, ServerInv, AppInv, [RideNext]_rideVars PROVE DialogsClosed'
<1> SUFFICES ASSUME NEW s \in Sessions, Driver(s)' => app'[s].status = "driving"
             PROVE  app'[s].dialogs = 0
  BY DEF DialogsClosed
<1>0. /\ Typed /\ ClientSet /\ [Next]_vars /\ app[s] \in Apps /\ AccountInv /\ ReportersAct
      /\ SentAsIs /\ FinisherDrives
      /\ ~Driver(s) \/ app[s].status = "driving" => app[s].dialogs = 0
  BY RideStepIsServerStep DEF RideInv, AppsTyped, ServerInv, PartyInv, AppInv, DialogsClosed
<1>1. Driver(s) => Driver(s)'
  BY <1>0, RolesStay DEF Driver, Nil
<1>2. ASSUME app'[s] = app[s] PROVE app'[s].dialogs = 0
  BY <1>0, <1>1, <1>2
<1>3. CASE LoggedIn(s)
  BY <1>3 DEF LoggedIn, NoApp
<1>4. CASE GetsAnswer(s)
  <2>1. PICK position \in Answered(ReadPtemp), order_status \in Answered(ReadStatus) :
          app'[s] = Answer(app[s], position, order_status)
    BY <1>4 DEF GetsAnswer
  <2>2. /\ s = client /\ client = web.sessionid /\ web.role = reply[s].role
        /\ web.status = app[s].status /\ web \in Handlers
    BY <1>0, <1>4 DEF GetsAnswer, AnswerReport, AnswerLocation, At, ClientSet, ReportersAct,
       SentAsIs, ReportCalls, Typed, TypeOK
  <2>3. position \in {Nil, "loc"}
    BY <1>0, KeysTyped DEF Answered, ReadPtemp, Typed, TypeOK, StoreTypeOK, WellTyped
  <2> DEFINE b == IF web.role = "driver" THEN DriverTold(app[s], position)
                                         ELSE PassengerTold(app[s], order_status)
  <2>4. b \in Apps /\ b.dialogs = app[s].dialogs /\ (Driver(s) => b.status = app[s].status)
    <3>1. b \in Apps
      BY <1>0, <2>2, <2>3, DriverToldTyped, PassengerToldTyped
    <3> QED BY <1>0, <2>2, <3>1 DEF DriverTold, PassengerTold, Driver, Apps
  <2>5. app'[s] = AfterReport(web.role, b)
    BY <2>1 DEF Answer
  <2> HIDE DEF b
  <2>6. Driver(s) <=> web.role = "driver"
    BY <2>2 DEF Driver
  <2>7. [NoApp EXCEPT !.status = "gone"].dialogs = 0
    BY DEF NoApp
  <2>8. \/ app'[s] = [NoApp EXCEPT !.status = "gone"]
        \/ /\ app'[s].status = b.status
           /\ app'[s].dialogs # b.dialogs => web.role = "driver" /\ b.status = "ready"
    BY <2>4, <2>5, AfterReportLeaves
  <2> QED BY <1>0, <1>1, <2>4, <2>6, <2>7, <2>8
<1>5. CASE Booked(s)
  BY <1>0, <1>5 DEF Booked, Passenger, Driver, Apps
<1>6. CASE Finished(s)
  BY <1>0, <1>6 DEF Finished, FinishReturned, FinisherDrives, Apps
<1>7. CASE Unanswered(s)
  <2>1. app'[s] = AfterReport(reply[s].role, app[s])
    BY <1>0, <1>7 DEF Unanswered, ClientSet, ReportersAct
  <2>2. [NoApp EXCEPT !.status = "gone"].dialogs = 0
    BY DEF NoApp
  <2>3. \/ app'[s] = [NoApp EXCEPT !.status = "gone"]
        \/ /\ app'[s].status = app[s].status
           /\ app'[s].dialogs # app[s].dialogs => Driver(s) /\ app[s].status = "ready"
    BY <1>0, <2>1, AfterReportLeaves DEF Driver
  <2> QED BY <1>0, <1>1, <2>2, <2>3
<1>8. CASE OnItsOwn(s)
  <2>1. [NoApp EXCEPT !.status = "gone"].dialogs = 0
    BY DEF NoApp
  <2>2. app[s].dialogs \in Nat
    BY <1>0, DialogBound DEF Apps
  <2>3. ASSUME app[s].dialogs > 0, NEW status \in {"catching", "idle", app[s].status},
               app'[s] = [app[s] EXCEPT !.dialogs = @ - 1, !.status = status]
        PROVE  FALSE
    <3>1. app'[s].status = status
      BY <1>0, <2>3 DEF Apps
    <3> QED BY <1>0, <1>1, <2>2, <2>3, <3>1
  <2>4. ASSUME NEW n, app'[s] = [app[s] EXCEPT !.searches = n] PROVE app'[s].dialogs = 0
    <3>1. app'[s].status = app[s].status /\ app'[s].dialogs = app[s].dialogs
      BY <1>0, <2>4 DEF Apps
    <3> QED BY <1>0, <1>1, <3>1
  <2>5. ASSUME NEW to, NEW autosend, app[s].dialogs = 0,
               app'[s] = [app[s] EXCEPT !.status = to, !.autosend = autosend]
        PROVE  app'[s].dialogs = 0
    BY <1>0, <2>5 DEF Apps
  <2>6. CASE \E n : app'[s] = [app[s] EXCEPT !.searches = n]
    BY <2>4, <2>6
  <2>7. CASE /\ app[s].dialogs = 0
             /\ \E to \in {"idle", "ready"}, autosend \in {"yes", "no"} :
                  app'[s] = [app[s] EXCEPT !.status = to, !.autosend = autosend]
    BY <2>5, <2>7
  <2>8. CASE /\ app[s].dialogs > 0
             /\ \E status \in {"catching", "idle", app[s].status} :
                  app'[s] = [app[s] EXCEPT !.dialogs = @ - 1, !.status = status]
    BY <2>3, <2>8
  <2>9. CASE /\ app[s].dialogs = 0
             /\ app'[s] = [app[s] EXCEPT !.status = "driving", !.autosend = "yes"]
    BY <2>5, <2>9
  <2> QED BY <1>8, <2>1, <2>6, <2>7, <2>8, <2>9 DEF OnItsOwn
<1> QED BY <1>2, <1>3, <1>4, <1>5, <1>6, <1>7, <1>8, AppChange

\* What an app and the handler of its request know of each other is true.
THEOREM AppsAlways == RideSpec => []AppInv
<1>1. RideInit => AppInv
  BY InitApps
<1>2. RideInv /\ ServerInv /\ AppInv /\ [RideNext]_rideVars => AppInv'
  BY NextSent, NextFinisher, NextDialogs DEF AppInv
<1> QED BY <1>1, <1>2, RideInvAlways, ServerInvAlways, PTL DEF RideSpec

-----------------------------------------------------------------------------
(* What stays for ever.                                                    *)

\* Only the handler of a driver's own report takes the driver out of the pool.
LEMMA PoolLost ==
  ASSUME [Next]_vars, NEW d \in pool, d \notin pool'
  PROVE  web.at = "remGeo" /\ d = web.sessionid
<1> USE DEF At
<1>1. CASE RemGeo
  BY <1>1 DEF RemGeo, RemZset
<1>2. CASE \/ PutSession \/ CreateOrder \/ BindDriver \/ BindPassenger \/ StartOrder
           \/ SetTemp \/ ClearDriver \/ ClearPassenger
  BY <1>2 DEF PutSession, CreateOrder, BindDriver, BindPassenger, StartOrder, SetTemp,
              ClearDriver, ClearPassenger, SetHash
<1>3. CASE \/ PutLifecycle \/ Refresh \/ ListDriver \/ DropOrder \/ KeyExpires \/ PersistOrder
  BY <1>3 DEF PutLifecycle, Refresh, SetLifecycle, ListDriver, AddGeo, DropOrder, DeleteKey,
              KeyExpires, Expire, PersistOrder, InsertOrder
<1>4. CASE \/ UNCHANGED vars \/ AnswerSession \/ GetOrderid \/ AnswerLocation
           \/ NamePassenger \/ NameDriver \/ Abandon
  BY <1>4 DEF vars, AnswerSession, GetOrderid, AnswerLocation, NamePassenger, NameDriver,
              Abandon
<1>5. ASSUME NEW u \in Users, NEW role \in Roles, Login(u, role) \/ Reg(u, role)
      PROVE  UNCHANGED pool
  BY <1>5 DEF Login, Reg, InsertUser
<1>6. ASSUME NEW x \in Sessions, SetOrder(x) \/ FinishOrder(x)
      PROVE  UNCHANGED pool
  BY <1>6 DEF SetOrder, FinishOrder, HandleFinish
<1>7. ASSUME NEW x \in Sessions, NEW status \in Statuses, NEW autosend \in {"yes", "no"},
             LocationChanged(x, status, autosend)
      PROVE  UNCHANGED pool
  BY <1>7 DEF LocationChanged
<1> QED BY <1>1, <1>2, <1>3, <1>4, <1>5, <1>6, <1>7 DEF Next

\* An order is started by its driver, which reports that it starts; the order is the one
\* that the driver's session held.
LEMMA StartedBy ==
  ASSUME RideInv, ServerInv, AppInv, [Next]_vars, NEW o \in Orders,
         hash[o].order_status # "ACTIVE", hash'[o].order_status = "ACTIVE"
  PROVE  /\ StartOrder /\ web.orderid = o /\ client \in Sessions /\ client = web.sessionid
         /\ client = DriverOf(o) /\ Driver(client) /\ app[client].status = "driving"
         /\ app[client].autosend = "yes"
<1>0. /\ Inv /\ LifeInv /\ ReportersAct /\ PartiesAct /\ ReadParties /\ SentAsIs /\ ClientSet
  BY DEF RideInv, ServerInv, ToldInv, AppInv, PartyInv
<1>1. StartsOrder(o)
  <2>1. ~CreatesOrder(o) /\ ~DropsOrder(o)
    BY DEF CreatesOrder, DropsOrder, EmptyHash, Fields, Nil
  <2> QED BY <1>0, <2>1, OrderStep DEF SameOrder
<1>2. StartOrder /\ web.at = "startOrder" /\ web.orderid = o
  BY <1>1 DEF StartsOrder, StartOrder, At
<1>3. /\ client \in Sessions /\ client = web.sessionid /\ Driver(client)
      /\ web.autosend = "yes" /\ web.sessionid \in Parties(o)
  BY <1>0, <1>2 DEF ClientSet, ReportersAct, ReadParties, ReportCalls, Driver, At
<1>4. client = DriverOf(o)
  BY <1>0, <1>3 DEF Parties, PartiesAct, Driver
<1> QED BY <1>0, <1>2, <1>3, <1>4 DEF SentAsIs, ReportCalls

\* A driver whose first report of its drive was lost never starts that order.
THEOREM LostStartsStayLost == RideSpec => LostStartStaysLost
<1>1. ASSUME RideInv, ServerInv, AppInv, [RideNext]_rideVars, NEW d \in Sessions, LostStart(d)
      PROVE  hash'[app[d].orderid].order_status # "ACTIVE"
  <2> DEFINE o == app[d].orderid
  <2>1. /\ [Next]_vars /\ o \in Orders /\ hash[o].order_status = "INIT" /\ Driver(d)
        /\ app[d].status = "driving" /\ app[d].autosend = "no"
    BY <1>1, RideStepIsServerStep DEF LostStart
  <2>2. reply[d].orderid = o
    BY <1>1, <2>1 DEF RideInv, ToldOrder, Told, Statuses
  <2> HIDE DEF o
  <2> SUFFICES ASSUME hash'[o].order_status = "ACTIVE" PROVE FALSE
    BY DEF o
  <2>3. client = DriverOf(o) /\ app[client].autosend = "yes" /\ client \in Sessions
    BY <1>1, <2>1, StartedBy
  <2>4. d \in Parties(o)
    BY <1>1, <2>1, <2>2, <2>3, NamesApart DEF ServerInv, ToldInv, ToldParties, Parties
  <2>5. d = DriverOf(o)
    BY <1>1, <2>1, <2>4 DEF ServerInv, PartyInv, PartiesAct, Parties, Driver
  <2> QED BY <2>1, <2>3, <2>5
<1>2. RideInv /\ ServerInv /\ AppInv /\ [RideNext]_rideVars
        => [\A d \in Sessions :
             LostStart(d) /\ app'[d].status = "driving" /\ app'[d].orderid = app[d].orderid
             => hash'[app[d].orderid].order_status # "ACTIVE"]_rideVars
  BY <1>1
<1> QED BY <1>2, RideInvAlways, ServerInvAlways, AppsAlways, PTL
        DEF RideSpec, LostStartStaysLost

\* What a passenger's app makes of an answer that names no order while it waits.
LEMMA ToldToWait ==
  ASSUME NEW a \in Apps, NEW order_status, order_status # "ACTIVE",
         web.status = "waiting", web.orderid = NONE
  PROVE  PassengerTold(a, order_status).status = "waiting"
  BY DEF PassengerTold, Apps

\* A passenger whose session holds no order any more waits for ever, or until its app ends.
THEOREM StuckStay == RideSpec => StuckForever
<1>1. ASSUME RideInv, ServerInv, AppInv, [RideNext]_rideVars, NEW p \in Sessions,
             Stuck(p), ~NoneStarted
      PROVE  app'[p].status \in {"waiting", "gone"}
  <2>0. /\ Typed /\ ClientSet /\ AccountInv /\ ReportersAct /\ ReadHeld /\ app[p] \in Apps
        /\ SentAsIs /\ FinisherDrives /\ DialogsClosed
        /\ reply[p].role = "passenger" /\ app[p].status = "waiting" /\ hash[p].orderid = NONE
    BY <1>1 DEF RideInv, AppsTyped, ServerInv, PartyInv, ToldInv, AppInv, Stuck, Passenger
  <2>1. CASE app'[p] = app[p]
    BY <2>0, <2>1
  <2>2. CASE LoggedIn(p)
    BY <2>0, <2>2 DEF LoggedIn, AnswerLogin, AnswerSession, At, AccountInv, LoginKnows,
       LoginCalls, Nil
  <2>3. CASE GetsAnswer(p)
    <3>1. PICK position \in Answered(ReadPtemp), order_status \in Answered(ReadStatus) :
            app'[p] = Answer(app[p], position, order_status)
      BY <2>3 DEF GetsAnswer
    <3>2. /\ web.at = "answerLocation" /\ client = p /\ web.sessionid = p
          /\ web.role = "passenger" /\ web.status = "waiting"
      BY <2>0, <2>3 DEF GetsAnswer, AnswerReport, AnswerLocation, At, ClientSet, ReportersAct,
         SentAsIs, ReportCalls
    <3>3. web.orderid = NONE
      BY <2>0, <3>2 DEF ReadHeld, WorkingCalls, ReportCalls, NONE, Nil
    <3>4. order_status # "ACTIVE"
      BY <1>1, <3>3 DEF Answered, ReadStatus, NoneStarted, Nil
    <3>5. app'[p] = PassengerTold(app[p], order_status)
      BY <3>1, <3>2 DEF Answer, AfterReport
    <3> QED BY <2>0, <3>2, <3>3, <3>4, <3>5, ToldToWait
  <2>4. CASE Booked(p)
    BY <2>0, <2>4 DEF Booked, Apps
  <2>5. CASE Finished(p)
    BY <2>0, <2>5 DEF Finished, FinisherDrives, Driver
  <2>6. CASE Unanswered(p)
    <3>1. app'[p] = AfterReport("passenger", app[p])
      BY <2>0, <2>6 DEF Unanswered, ClientSet, ReportersAct
    <3> QED BY <2>0, <3>1 DEF AfterReport
  <2>7. CASE OnItsOwn(p)
    <3>1. ~Driver(p) /\ app[p].dialogs = 0
      BY <2>0 DEF DialogsClosed, Driver
    <3>2. ASSUME NEW n, app'[p] = [app[p] EXCEPT !.searches = n]
          PROVE  app'[p].status = "waiting"
      BY <2>0, <3>2 DEF Apps
    <3>3. CASE app'[p] = [NoApp EXCEPT !.status = "gone"]
      BY <3>3 DEF NoApp
    <3>4. app[p].dialogs > 0 => FALSE
      BY <3>1
    <3> QED BY <2>7, <3>1, <3>2, <3>3, <3>4 DEF OnItsOwn
  <2> QED BY <1>1, <2>1, <2>2, <2>3, <2>4, <2>5, <2>6, <2>7, AppChange
<1>2. RideInv /\ ServerInv /\ AppInv /\ [RideNext]_rideVars
        => [\A p \in Sessions :
             Stuck(p) /\ ~NoneStarted => app'[p].status \in {"waiting", "gone"}]_rideVars
  BY <1>1
<1> QED BY <1>2, RideInvAlways, ServerInvAlways, AppsAlways, PTL DEF RideSpec, StuckForever

-----------------------------------------------------------------------------
(* A started ride is driven.                                               *)

\* A driver that is being booked is listed: nobody but itself takes it out of the pool,
\* and its report waits until the booking is answered.
BookedListed == web.at \in BookingCalls => web.driver \in pool

\* The driver's report that started the order is writing the position or is being answered.
Reporting(d, o) ==
  web.at \in {"setTemp", "answerLocation"} /\ web.sessionid = d /\ web.orderid = o

\* The order's hash has its driver's position, or gets it by the next call.
Located(o) ==
  \/ hash[o].dtemp # Nil
  \/ At("setTemp") /\ web.orderid = o /\ web.role = "driver"

\* The driver's app drives the order, which its session holds until the finish takes it
\* away, and is not listed, so that no other order replaces it.
Drives(d, o) ==
  /\ app[d].status = "driving" /\ d \notin pool
  /\ Holds(d, o) \/ (web.at \in AfterInsert /\ web.orderid = o)
  /\ reply[d].orderid = o \/ Reporting(d, o)

\* The app died or its session expired.
Vanished(d) == Gone(d) \/ hash[d].username = Nil

ActiveDriven(o) ==
  hash[o].order_status = "ACTIVE" =>
    Located(o) /\ (Vanished(DriverOf(o)) \/ Drives(DriverOf(o), o))

DrivenInv == BookedListed /\ (faults = 0 => \A o \in Orders : ActiveDriven(o))

\* Before the first request nobody is booked or drives.
LEMMA InitDriven == RideInit => DrivenInv
<1> SUFFICES ASSUME RideInit PROVE DrivenInv
  OBVIOUS
<1>1. BookedListed
  BY DEF RideInit, Init, Idle, BookedListed, BookingCalls
<1>2. \A o \in Orders : hash[o].order_status = Nil
  BY DEF RideInit, Init, StoreInit, Keys, EmptyHash, Fields
<1> QED BY <1>1, <1>2 DEF DrivenInv, ActiveDriven, Nil

\* A booking keeps its driver, and the driver stays listed.
LEMMA NextListed ==
  ASSUME Inv, BookedListed, [Next]_vars PROVE BookedListed'
<1> SUFFICES ASSUME web'.at \in BookingCalls PROVE web'.driver \in pool'
  BY DEF BookedListed
<1>1. CASE web.at \in BookingCalls /\ web'.driver = web.driver
  BY <1>1, PoolLost DEF BookedListed, BookingCalls
<1>2. CASE \E s \in Sessions : SetOrder(s)
  BY <1>2 DEF SetOrder, NearestDrivers, RadiusGeo, Idle
<1> QED BY <1>1, <1>2, BookingStep DEF Inv

\* Without a fault, a finish ends with the order's hash gone, or it finds the order stored.
LEMMA FinishEnds ==
  ASSUME Inv, [Next]_vars, faults' = 0, web.at \in FinishCalls, web' = Idle
  PROVE  \/ \A o \in Orders : web.orderid = o => ~Exists(o)'
         \/ web.at = "insert" /\ rides[web.orderid] # NoRide
<1> USE DEF At
<1>0. web \in Handlers /\ Typed /\ faults \in Nat /\ web'.at = "idle"
  BY MaxFaultsType DEF Inv, Typed, TypeOK, Idle
<1>1. CASE web.at \in AfterInsert
  BY <1>0, <1>1, LeavingGoesOn DEF AfterInsert
<1>2. CASE web.at \in {"namePassenger", "nameDriver", "insert"}
  <2>0. ~UNCHANGED vars /\ ~KeyExpires /\ ~Abandon /\ ~NamePassenger /\ ~NameDriver
    <3>1. ~UNCHANGED vars /\ ~KeyExpires
      BY <1>0, <1>2 DEF vars, KeyExpires
    <3>2. ~NamePassenger /\ ~NameDriver
      BY <1>0 DEF NamePassenger, NameDriver, Handlers
    <3>3. ~Abandon
      BY <1>0 DEF Abandon
    <3> QED BY <3>1, <3>2, <3>3
  <2>1. PersistOrder
    BY <1>2, <2>0 DEF Next, PutSession, PutLifecycle, AnswerSession, CreateOrder,
       BindDriver, BindPassenger, Refresh, GetOrderid, RemGeo, ListDriver, StartOrder, SetTemp,
       AnswerLocation, ClearDriver, ClearPassenger, DropOrder, Login, Reg, SetOrder,
       FinishOrder, HandleFinish, LocationChanged
  <2>2. PICK r \in Outcomes :
          Fault(r) /\ Chain(r = "done" /\ rides[web.orderid] = NoRide, "clearDriver")
    BY <2>1 DEF PersistOrder
  <2>3. r = "done"
    BY <1>0, <2>2, FaultFree
  <2> QED BY <1>0, <2>1, <2>2, <2>3 DEF PersistOrder, Chain, Goto, Handlers
<1> QED BY <1>1, <1>2 DEF FinishCalls, AfterInsert

\* Without a fault, a driver's report writes its position and is answered.
LEMMA PositionGoesOn ==
  ASSUME Inv, [Next]_vars, faults' = 0, web.at \in {"setTemp", "answerLocation"}
  PROVE  \/ web' = web
         \/ AnswerLocation
         \/ /\ web'.at = "answerLocation" /\ web'.orderid = web.orderid
            /\ web'.sessionid = web.sessionid
            /\ \A o \in Orders : web.orderid = o /\ web.role = "driver" => hash'[o].dtemp # Nil
<1> USE DEF At
<1>0. web \in Handlers /\ Typed /\ faults \in Nat
  BY MaxFaultsType DEF Inv, Typed, TypeOK
<1>1. web' = web \/ AnswerLocation \/ SetTemp
  <2>1. UNCHANGED vars \/ KeyExpires => web' = web
    BY DEF vars, KeyExpires
  <2>2. ~Abandon
    BY <1>0 DEF Abandon
  <2> QED BY <2>1, <2>2 DEF Next, PutSession, PutLifecycle, AnswerSession, CreateOrder,
     BindDriver, BindPassenger, Refresh, GetOrderid, RemGeo, ListDriver, StartOrder,
     NamePassenger, NameDriver, PersistOrder, ClearDriver, ClearPassenger, DropOrder,
     Login, Reg, SetOrder, FinishOrder, HandleFinish, LocationChanged
<1>2. SetTemp => /\ web'.at = "answerLocation" /\ web'.orderid = web.orderid
                 /\ web'.sessionid = web.sessionid
  BY <1>0 DEF SetTemp, Goto, Handlers
<1>3. ASSUME SetTemp, NEW o \in Orders, web.orderid = o, web.role = "driver"
      PROVE  hash'[o].dtemp # Nil
  <2>1. PICK r \in Outcomes : SetHash(o, [dtemp |-> "loc"], r) /\ Fault(r)
    BY <1>3 DEF SetTemp
  <2>2. r = "done" /\ o \in OrderNames /\ TypedWrite([dtemp |-> "loc"])
    BY <1>0, <2>1, FaultFree, WritesTyped DEF OrderNames
  <2>3. hash'[o]["dtemp"] = "loc"
    BY <1>0, <2>1, <2>2, OrderWritten
  <2> QED BY <2>3 DEF Nil
<1> QED BY <1>1, <1>2, <1>3

\* A driver's app stops driving by its own finish only, or dies, and does not come back.
LEMMA DriverStays ==
  ASSUME RideInv, ServerInv, AppInv, [RideNext]_rideVars, NEW d \in Sessions, Driver(d)
  PROVE  /\ Gone(d) => app'[d].status = "gone"
         /\ app[d].status = "driving" =>
              \/ app'[d].status \in {"driving", "gone"}
              \/ web.at \in FinishCalls /\ d = client /\ web' = Idle
<1> DEFINE st == app[d].status
<1> SUFFICES ASSUME st \in {"driving", "gone"}, app'[d].status \notin {st, "gone"}
             PROVE  st = "driving" /\ web.at \in FinishCalls /\ d = client /\ web' = Idle
  BY DEF Gone
<1>0. /\ Typed /\ ClientSet /\ AccountInv /\ ReportersAct /\ app[d] \in Apps
      /\ SentAsIs /\ FinisherDrives /\ DialogsClosed /\ web \in Handlers
      /\ reply[d].role = "driver"
  BY DEF RideInv, AppsTyped, ServerInv, PartyInv, AppInv, Driver, Typed, TypeOK
<1>1. CASE LoggedIn(d)
  BY <1>0, <1>1 DEF LoggedIn, AnswerLogin, AnswerSession, At, AccountInv, LoginKnows,
     LoginCalls, Nil
<1>2. CASE GetsAnswer(d)
  <2>1. PICK position \in Answered(ReadPtemp), order_status \in Answered(ReadStatus) :
          app'[d] = Answer(app[d], position, order_status)
    BY <1>2 DEF GetsAnswer
  <2>2. /\ client = d /\ web.role = "driver" /\ web.status = st
    BY <1>0, <1>2 DEF GetsAnswer, AnswerReport, AnswerLocation, At, ClientSet, ReportersAct,
       SentAsIs, ReportCalls
  <2>3. position \in {Nil, "loc"}
    BY <1>0, KeysTyped DEF Answered, ReadPtemp, Typed, TypeOK, StoreTypeOK, WellTyped
  <2> DEFINE b == DriverTold(app[d], position)
  <2>4. app'[d] = AfterReport("driver", b)
    BY <2>1, <2>2 DEF Answer
  <2>5. b \in Apps /\ b.status = st
    BY <1>0, <2>2, <2>3, DriverToldTyped DEF DriverTold, Apps
  <2> HIDE DEF b, st
  <2>6. app'[d].status = b.status \/ app'[d] = [NoApp EXCEPT !.status = "gone"]
    BY <2>4, <2>5, AfterReportLeaves
  <2> QED BY <2>5, <2>6 DEF NoApp
<1>3. CASE Booked(d)
  BY <1>0, <1>3 DEF Booked, Passenger
<1>4. CASE Finished(d)
  BY <1>0, <1>4 DEF Finished, FinisherDrives
<1>5. CASE Unanswered(d)
  <2>1. app'[d] = AfterReport("driver", app[d])
    BY <1>0, <1>5 DEF Unanswered, ClientSet, ReportersAct
  <2>2. app'[d].status = st \/ app'[d] = [NoApp EXCEPT !.status = "gone"]
    BY <1>0, <2>1, AfterReportLeaves
  <2> QED BY <2>2 DEF NoApp
<1>6. CASE OnItsOwn(d)
  <2>1. ~(Running(d) /\ app[d].dialogs > 0)
    BY <1>0 DEF DialogsClosed, Running, Statuses
  <2>2. ASSUME NEW n, app'[d] = [app[d] EXCEPT !.searches = n] PROVE app'[d].status = st
    BY <1>0, <2>2 DEF Apps
  <2>3. CASE app'[d] = [NoApp EXCEPT !.status = "gone"]
    BY <2>3 DEF NoApp
  <2> QED BY <1>6, <2>1, <2>2, <2>3 DEF OnItsOwn
<1> QED BY <1>1, <1>2, <1>3, <1>4, <1>5, <1>6, AppChange

\* A position that was written stays as long as the order does.
LEMMA PositionStays ==
  ASSUME Inv, LifeInv, [Next]_vars, NEW o \in Orders, hash[o].order_status # Nil,
         hash'[o].order_status # Nil, hash[o].dtemp # Nil
  PROVE  hash'[o].dtemp # Nil
<1> USE DEF At
<1>0. /\ Typed /\ hash \in [Keys -> [Fields -> Values]] /\ o \in OrderNames /\ o \in Keys
      /\ ~ttl[o]
  BY DEF Inv, Typed, TypeOK, StoreTypeOK, OrderNames, Keys, OrdersStay
<1>1. CASE hash'[o] = hash[o]
  BY <1>1
<1>2. CASE web.orderid = o /\ web.at = "createOrder"
  BY <1>2 DEF LifeInv, NewIsFresh, Placed
<1>3. CASE DropOrder /\ hash'[o] = EmptyHash
  BY <1>3 DEF EmptyHash, Fields
<1>4. CASE web.orderid = o /\ web.at \in {"startOrder", "setTemp"}
  <2>1. CASE StartOrder \/ SetTemp
    <3>1. PICK r \in Outcomes,
               w \in {[order_status |-> "ACTIVE"], [ptemp |-> "loc"], [dtemp |-> "loc"]} :
            SetHash(o, w, r) /\ TypedWrite(w)
      BY <1>0, <1>4, <2>1, WritesTyped DEF StartOrder, SetTemp
    <3>2. \/ hash'[o]["dtemp"] = hash[o]["dtemp"]
          \/ "dtemp" \in DOMAIN w /\ hash'[o]["dtemp"] = w["dtemp"]
      <4> HIDE <3>1
      <4>1. "dtemp" \in Fields /\ \A f \in DOMAIN w : w[f] \in Values
        BY <3>1 DEF Fields, TypedWrite
      <4> QED BY <1>0, <3>1, <4>1, SetHashWrites
    <3>3. "dtemp" \in DOMAIN w => w["dtemp"] = "loc"
      OBVIOUS
    <3> QED BY <3>2, <3>3 DEF Nil
  <2>2. CASE KeyExpires
    <3>1. PICK k \in Keys : ttl[k] /\ hash' = [hash EXCEPT ![k] = EmptyHash]
      BY <2>2 DEF KeyExpires, Expire
    <3> QED BY <1>0, <3>1
  <2>3. CASE ~StartOrder /\ ~SetTemp /\ ~KeyExpires
    <3>1. UNCHANGED vars \/ Abandon
      BY <1>4, <2>3 DEF Next, PutSession, PutLifecycle, AnswerSession, CreateOrder,
         BindDriver, BindPassenger, Refresh, GetOrderid, RemGeo, ListDriver, AnswerLocation,
         NamePassenger, NameDriver, PersistOrder, ClearDriver, ClearPassenger, DropOrder,
         Login, Reg, SetOrder, FinishOrder, HandleFinish, LocationChanged
    <3> QED BY <3>1 DEF vars, Abandon
  <2> QED BY <2>1, <2>2, <2>3
<1> QED BY <1>1, <1>2, <1>3, <1>4, OrderHashStep

\* An order that is and stays started keeps its parties.
LEMMA ActivePartiesStay ==
  ASSUME Inv, LifeInv, [Next]_vars, NEW o \in Orders, hash[o].order_status = "ACTIVE",
         hash'[o].order_status = "ACTIVE"
  PROVE  PassengerOf(o)' = PassengerOf(o) /\ DriverOf(o)' = DriverOf(o)
<1>1. CASE SameOrder(o) \/ StartsOrder(o)
  BY <1>1 DEF SameOrder, StartsOrder
<1>2. ~CreatesOrder(o)
  BY DEF CreatesOrder, CreateOrder, At, LifeInv, NewIsFresh, Placed, Nil
<1>3. CASE DropsOrder(o)
  BY <1>3 DEF DropsOrder, EmptyHash, Fields, Nil
<1> QED BY <1>1, <1>2, <1>3, OrderStep

\* An app is told something else by the answer to its own request.
LEMMA ReplyStep ==
  ASSUME Typed, [Next]_vars, NEW s \in Sessions, reply'[s] # reply[s]
  PROVE  /\ web.sessionid = s
         /\ AnswerSession \/ AnswerLocation
         /\ AnswerLocation => reply'[s].orderid = web.orderid
<1>0. reply \in [Sessions -> Replies]
  BY DEF Typed, TypeOK
<1>1. CASE AnswerSession
  BY <1>0, <1>1 DEF AnswerSession, AnswerLocation, At
<1>2. CASE AnswerLocation
  BY <1>0, <1>2 DEF AnswerLocation, Replies
<1>3. CASE ~AnswerSession /\ ~AnswerLocation
  BY <1>3 DEF Next, vars, PutSession, PutLifecycle, CreateOrder, BindDriver, BindPassenger,
     Refresh, GetOrderid, RemGeo, ListDriver, StartOrder, SetTemp, NamePassenger, NameDriver,
     PersistOrder, ClearDriver, ClearPassenger, DropOrder, Abandon, KeyExpires, Login, Reg,
     SetOrder, FinishOrder, HandleFinish, LocationChanged
<1> QED BY <1>1, <1>2, <1>3

\* A driver that drives an order and is not listed loses it to the finish of that order only.
LEMMA OrderKept ==
  ASSUME RideInv, ServerInv, AppInv, BookedListed, [Next]_vars, faults' = 0,
         NEW d \in Sessions, NEW o \in Orders, Driver(d), app[d].status = "driving",
         d \notin pool, reply[d].orderid = o \/ Reporting(d, o), Holds(d, o),
         hash'[d].username # Nil
  PROVE  hash'[d].orderid = o \/ (web'.at \in AfterInsert /\ web'.orderid = o)
<1> USE DEF At
<1>0. /\ Inv /\ AccountInv /\ PartiesAct /\ BookersAct /\ FinishNames /\ StrayFinish
      /\ ToldOrder /\ FinisherDrives /\ reply[d].role = "driver"
      /\ "driver" # Nil /\ "driver" # "passenger" /\ d # Nil
  BY NamesApart DEF RideInv, ServerInv, PartyInv, DriversNamed, Inv, FinishInv, AppInv,
     Driver, Nil
<1> SUFFICES ASSUME hash'[d].orderid # o PROVE web'.at \in AfterInsert /\ web'.orderid = o
  OBVIOUS
<1>1. \/ PutSession /\ web.sessionid = d
      \/ BindDriver /\ web.driver = d /\ web.orderid # o
      \/ BindPassenger /\ web.sessionid = d
      \/ ClearDriver /\ web.driver = d
      \/ ClearPassenger /\ web.sessionid = d
      \/ KeyExpires /\ hash'[d].username = Nil
  BY <1>0, HoldsLost DEF Holds
<1>2. ~(PutSession /\ web.sessionid = d)
  BY <1>0 DEF PutSession, AccountInv, LoginKnows, LoginCalls
<1>3. ~(BindDriver /\ web.driver = d)
  BY DEF BindDriver, BookedListed, BookingCalls
<1>4. ~(BindPassenger /\ web.sessionid = d)
  BY <1>0 DEF BindPassenger, BookersAct, BookingCalls
<1>5. ~(ClearPassenger /\ web.sessionid = d)
  <2> SUFFICES ASSUME ClearPassenger, web.sessionid = d PROVE FALSE
    OBVIOUS
  <2>1. web.orderid \in Orders /\ PassengerOf(web.orderid) = d
    BY <1>0 DEF ClearPassenger, StrayFinish, FinishCalls, FinishNames, NamesItsParties
  <2> QED BY <1>0, <2>1 DEF PartiesAct
<1>6. CASE ClearDriver /\ web.driver = d
  <2>1. web.at = "clearDriver" /\ client = d /\ app[d].orderid = web.orderid
    BY <1>0, <1>6 DEF ClearDriver, FinisherDrives, FinishCalls
  <2>2. reply[d].orderid = o
    BY <2>1 DEF Reporting
  <2>3. app[d].orderid = o
    BY <1>0, <2>2 DEF ToldOrder, Told, Statuses
  <2> QED BY <1>0, <1>6, <2>1, <2>3, LeavingGoesOn DEF AfterInsert, DropOrder
<1> QED BY <1>1, <1>2, <1>3, <1>4, <1>5, <1>6

\* Such a driver is told of no other order.
LEMMA ToldKept ==
  ASSUME RideInv, ServerInv, AppInv, [Next]_vars, faults' = 0,
         NEW d \in Sessions, NEW o \in Orders, Driver(d), hash[d].username # Nil,
         Holds(d, o) \/ (web.at \in AfterInsert /\ web.orderid = o),
         reply[d].orderid = o \/ Reporting(d, o)
  PROVE  reply'[d].orderid = o \/ (Reporting(d, o))'
<1> USE DEF At
<1>0. Inv /\ Typed /\ AccountInv /\ ReadHeld /\ reply[d].role = "driver"
  BY DEF RideInv, ServerInv, ToldInv, Driver
<1>1. CASE AnswerLocation /\ web.sessionid = d
  <2>1. web.orderid = o
    BY <1>0, <1>1 DEF AnswerLocation, ReadHeld, WorkingCalls, ReportCalls, AfterInsert, Holds
  <2>2. reply'[d].orderid = web.orderid
    BY <1>0, <1>1 DEF AnswerLocation, Typed, TypeOK, Replies
  <2> QED BY <2>1, <2>2
<1>2. CASE ~(AnswerLocation /\ web.sessionid = d)
  <2>1. reply'[d] = reply[d]
    BY <1>0, <1>2, ReplyStep DEF AnswerSession, AccountInv, LoginKnows, LoginCalls, Nil
  <2>2. CASE reply[d].orderid = o
    BY <2>1, <2>2
  <2>3. CASE Reporting(d, o)
    BY <1>0, <1>2, <2>3, PositionGoesOn DEF Reporting
  <2> QED BY <2>2, <2>3
<1> QED BY <1>1, <1>2

\* An order that is started is driven from then on.
LEMMA StartDriven ==
  ASSUME RideInv, ServerInv, AppInv, [RideNext]_rideVars, faults = 0, faults' = 0,
         NEW o \in Orders, hash[o].order_status # "ACTIVE", hash'[o].order_status = "ACTIVE"
  PROVE  ActiveDriven(o)'
<1> USE DEF At
<1>0. /\ Inv /\ Typed /\ [Next]_vars /\ ReadHeld /\ BusyInv /\ ReportersAct /\ SentAsIs
      /\ hash \in [Keys -> [Fields -> Values]] /\ web \in Handlers
  BY RideStepIsServerStep DEF RideInv, ServerInv, ToldInv, PartyInv, AppInv, Typed, TypeOK,
     StoreTypeOK
<1>1. PICK d \in Sessions :
        /\ StartOrder /\ web.at = "startOrder" /\ web.orderid = o /\ client = d
        /\ web.sessionid = d /\ d = DriverOf(o) /\ Driver(d) /\ app[d].status = "driving"
  BY <1>0, StartedBy DEF StartOrder
<1>2. /\ web'.at = "setTemp" /\ web'.orderid = o /\ web'.sessionid = d
      /\ web'.role = "driver"
  BY <1>0, <1>1 DEF StartOrder, Goto, Handlers, ReportersAct
<1>3. PICK r \in Outcomes : SetHash(o, [order_status |-> "ACTIVE"], r)
  BY <1>1 DEF StartOrder
<1>4. /\ pool' = pool /\ hash'[d] = hash[d] /\ DriverOf(o)' = d
  <2>1. TypedWrite([order_status |-> "ACTIVE"]) /\ o \in OrderNames
    BY <1>0, WritesTyped DEF OrderNames
  <2>2. /\ \A s \in Sessions : hash'[s] = hash[s]
        /\ \A f \in Fields : f # "order_status" => hash'[o][f] = hash[o][f]
        /\ pool' = pool
    <3> DEFINE w == [order_status |-> "ACTIVE"]
    <3>1. \A f \in Fields : f # "order_status" => f \notin DOMAIN w
      OBVIOUS
    <3> HIDE DEF w
    <3> QED BY <1>0, <1>3, <2>1, <3>1, OrderWritten DEF w
  <2>3. hash'[o]["driver_sessionid"] = hash[o]["driver_sessionid"]
    BY <2>2 DEF Fields
  <2> QED BY <1>1, <2>2, <2>3
<1>5. d \notin pool
  BY <1>0, <1>1 DEF BusyInv, ReportedAreUnlisted, BusyStatuses, SentAsIs, ReportCalls,
     ReportersAct
<1>6. app'[d] = app[d]
  <2>1. ~Report(d) /\ \A s \in Sessions : ~Report(s) /\ ~Book(s) /\ ~Finish(s)
    BY <1>1 DEF Report, DriverReports, PassengerReports, LocationChanged, Book, SendsOrder,
       SetOrder, Finish, HandleFinish
  <2>2. web' # Idle
    BY <1>2 DEF Idle
  <2> QED BY <1>1, <2>1, <2>2, ClientKept
<1>7. Located(o)'
  BY <1>2 DEF Located
<1>8. Vanished(d)' \/ Drives(d, o)'
  <2>1. hash[d].username = Nil \/ hash[d].orderid = o
    BY <1>0, <1>1 DEF ReadHeld, WorkingCalls, ReportCalls
  <2> QED BY <1>1, <1>2, <1>4, <1>5, <1>6, <2>1 DEF Vanished, Drives, Holds, Reporting
<1> QED BY <1>4, <1>7, <1>8 DEF ActiveDriven

\* An order that is driven goes on being driven until it is over.
LEMMA DrivenStays ==
  ASSUME RideInv, ServerInv, AppInv, BookedListed, [RideNext]_rideVars, faults = 0,
         faults' = 0, NEW o \in Orders, hash[o].order_status = "ACTIVE",
         hash'[o].order_status = "ACTIVE", ActiveDriven(o)
  PROVE  ActiveDriven(o)'
<1> USE DEF At
<1>0. /\ Inv /\ Typed /\ [Next]_vars /\ LifeInv /\ AccountInv /\ PartiesAct /\ OverInv
      /\ BusyInv /\ PairInv /\ SentAsIs /\ FinisherDrives /\ ToldOrder /\ ClientSet
  BY RideStepIsServerStep DEF RideInv, ServerInv, PartyInv, AppInv
<1>1. PICK d \in Sessions : d = DriverOf(o) /\ DriverOf(o)' = d /\ Driver(d)
  <2>1. DriverOf(o) \in Sessions
    BY <1>0 DEF PairInv, Whole, Nil
  <2>2. DriverOf(o)' = DriverOf(o)
    BY <1>0, ActivePartiesStay
  <2>3. reply[DriverOf(o)].role = "driver"
    BY <1>0, <2>1 DEF PartiesAct
  <2> QED BY <2>1, <2>2, <2>3 DEF Driver
<1>2. Located(o)'
  <2>1. CASE hash[o].dtemp # Nil
    BY <1>0, <2>1, PositionStays DEF Located, Nil
  <2>2. CASE web.at = "setTemp" /\ web.orderid = o /\ web.role = "driver"
    BY <1>0, <2>2, PositionGoesOn DEF Located, AnswerLocation
  <2> QED BY <2>1, <2>2 DEF ActiveDriven, Located
<1>3. ASSUME ~Vanished(d)' PROVE Drives(d, o)'
  <2>1. hash'[d].username # Nil /\ app'[d].status # "gone"
    BY <1>3 DEF Vanished, Gone
  <2>2. /\ hash[d].username # Nil /\ ~Gone(d)
    BY <1>0, <1>1, <2>1, NamesFall, DriverStays DEF Driver, Nil
  <2>3. Drives(d, o)
    BY <1>1, <2>2 DEF ActiveDriven, Vanished
  <2>4. app'[d].status = "driving"
    <3> SUFFICES ASSUME web.at \in FinishCalls, d = client, web' = Idle PROVE FALSE
      BY <1>1, <2>1, <2>3, DriverStays DEF Drives
    <3>1. app[d].orderid = web.orderid
      BY <1>0 DEF FinisherDrives
    <3>2. reply[d].orderid = o
      BY <2>3 DEF Drives, Reporting, FinishCalls
    <3>3. web.orderid = o
      BY <1>0, <1>1, <2>3, <3>1, <3>2 DEF ToldOrder, Told, Statuses, Drives
    <3>4. Exists(o) /\ hash'[o] # EmptyHash
      BY DEF Exists, EmptyHash, Fields, Nil
    <3>5. web.at = "insert" /\ rides[o] # NoRide
      BY <1>0, <3>3, <3>4, FinishEnds DEF Exists
    <3> QED BY <1>0, <3>4, <3>5 DEF OverInv, StoredAreOver, OverOrLeaving, AfterInsert
  <2>5. d \notin pool'
    <3> SUFFICES ASSUME web.at = "addGeo", d = web.sessionid PROVE FALSE
      BY <1>0, <2>3, PoolStep DEF Drives
    <3> QED BY <1>0, <2>3 DEF BusyInv, ReportedAreUnlisted, SentAsIs, ClientSet, ReportCalls,
               Drives
  <2>6. hash'[d].orderid = o \/ (web'.at \in AfterInsert /\ web'.orderid = o)
    <3>1. CASE Holds(d, o)
      BY <1>0, <1>1, <2>1, <2>3, <3>1, OrderKept DEF Drives
    <3>2. CASE web.at \in AfterInsert /\ web.orderid = o
      <4>1. hash'[o] # EmptyHash
        BY DEF EmptyHash, Fields, Nil
      <4> QED BY <1>0, <3>2, <4>1, LeavingGoesOn DEF Exists
    <3> QED BY <2>3, <3>1, <3>2 DEF Drives
  <2>7. reply'[d].orderid = o \/ (Reporting(d, o))'
    BY <1>0, <1>1, <2>2, <2>3, ToldKept DEF Drives
  <2> QED BY <2>4, <2>5, <2>6, <2>7 DEF Drives, Holds
<1> QED BY <1>1, <1>2, <1>3 DEF ActiveDriven

\* A started ride is driven, as long as nothing fails.
THEOREM DrivenAlways == RideSpec => []DrivenInv
<1>1. RideInit => DrivenInv
  BY InitDriven
<1>2. ASSUME RideInv, ServerInv, AppInv, DrivenInv, [RideNext]_rideVars PROVE DrivenInv'
  <2>1. [Next]_vars /\ Inv /\ Typed
    BY <1>2, RideStepIsServerStep DEF RideInv, ServerInv
  <2>2. BookedListed'
    BY <1>2, <2>1, NextListed DEF DrivenInv
  <2>3. ASSUME faults' = 0, NEW o \in Orders, hash'[o].order_status = "ACTIVE"
        PROVE  ActiveDriven(o)'
    <3>1. faults = 0
      BY <2>1, <2>3, FaultsRise, MaxFaultsType DEF Typed, TypeOK
    <3> QED BY <1>2, <2>3, <3>1, StartDriven, DrivenStays DEF DrivenInv
  <2> QED BY <2>2, <2>3 DEF DrivenInv, ActiveDriven
<1>3. RideInv /\ ServerInv /\ AppInv /\ DrivenInv /\ [RideNext]_rideVars => DrivenInv'
  BY <1>2
<1> QED BY <1>1, <1>3, RideInvAlways, ServerInvAlways, AppsAlways, PTL DEF RideSpec

\* A started ride has a position and a driver that drives it, unless the driver vanished.
THEOREM RidesAreDriven == RideSpec => []ActiveRidesAreDriven
<1>1. DrivenInv => ActiveRidesAreDriven
  BY DEF DrivenInv, ActiveDriven, Located, Vanished, Drives, ActiveRidesAreDriven, DriverGone,
     At
<1> QED BY <1>1, DrivenAlways, PTL

-----------------------------------------------------------------------------
(* Who is named by an order: by its hash, or by its row.                   *)

\* createOrder writes the status of an order before its parties.
PlacedFirst ==
  \A o \in Orders : hash[o].order_status = Nil => PassengerOf(o) = Nil /\ DriverOf(o) = Nil

\* The passenger's name has been read from its session.
PassengerRead ==
  web.at \in {"nameDriver", "insert"} /\ web.orderid \in Orders /\ web.sessionid \in Sessions
    /\ hash[web.sessionid].username # Nil =>
      web.username = reply[web.sessionid].username

\* A row whose order is still in Redis names the passenger of that order.
PassengerNamed ==
  \A o \in Orders :
    rides[o] # NoRide /\ PassengerOf(o) \in Sessions /\ hash[PassengerOf(o)].username # Nil =>
      rides[o].passenger = reply[PassengerOf(o)].username

PassengersNamed == PlacedFirst /\ PassengerRead /\ PassengerNamed

\* Before the first request there is no order.
LEMMA InitPassengers == Init => PassengersNamed
  BY DEF Init, StoreInit, OrderNames, Keys, EmptyHash, Fields, Idle, PassengersNamed,
     PlacedFirst, PassengerRead, PassengerNamed

\* A party of an order is a session that an app knows; its name, once gone, stays gone.
LEMMA PartyKnown ==
  ASSUME Inv, AccountInv, [Next]_vars, NEW s \in Sessions, reply[s].role # Nil
  PROVE  /\ reply[s].username \in Users
         /\ reply'[s].username = reply[s].username
         /\ hash[s].username \in {reply[s].username, Nil}
         /\ hash'[s].username \in {hash[s].username, Nil}
<1>1. SessionKnown(s) /\ Typed
  BY DEF AccountInv, Inv
<1> QED BY <1>1, NamesFall, RolesStay DEF SessionKnown, NameKept

\* The driver's name is read after the passenger's.
LEMMA NameDriverEntered ==
  ASSUME Typed, [Next]_vars, web'.at = "nameDriver" PROVE web' = web \/ NamePassenger
<1> USE DEF At
<1>0. web \in Handlers /\ web' # Idle
  BY DEF Typed, TypeOK, Idle
<1>1. CASE UNCHANGED vars \/ KeyExpires
  BY <1>1 DEF vars, KeyExpires
<1>2. CASE \/ PutSession \/ PutLifecycle \/ Refresh \/ ListDriver \/ StartOrder \/ SetTemp
           \/ CreateOrder \/ BindDriver \/ PersistOrder \/ ClearDriver \/ ClearPassenger
  BY <1>0, <1>2 DEF PutSession, PutLifecycle, Refresh, ListDriver, StartOrder, SetTemp,
       CreateOrder, BindDriver, PersistOrder, ClearDriver, ClearPassenger, Chain, Goto, Handlers
<1>3. CASE RemGeo
  BY <1>0, <1>3 DEF RemGeo, AfterRemGeo, Chain, Goto, Handlers
<1>4. CASE GetOrderid
  BY <1>0, <1>4 DEF GetOrderid, FirstCall, Handlers
<1>5. CASE NameDriver
  BY <1>0, <1>5 DEF NameDriver, Handlers
<1>6. CASE AnswerSession \/ AnswerLocation \/ BindPassenger \/ DropOrder \/ Abandon
  BY <1>0, <1>6 DEF AnswerSession, AnswerLocation, BindPassenger, DropOrder, Abandon
<1>7. ASSUME NEW u \in Users, NEW role \in Roles, Login(u, role) \/ Reg(u, role)
      PROVE  web'.at \in {web.at, "session"} /\ web.at = "idle"
  BY <1>7 DEF Login, Reg, CreateSession, Idle
<1>8. ASSUME NEW s \in Sessions, SetOrder(s) \/ FinishOrder(s)
      PROVE  web'.at \in {"createOrder", "namePassenger"}
  BY <1>8 DEF SetOrder, FinishOrder, HandleFinish, Idle
<1>9. ASSUME NEW s \in Sessions, NEW status \in Statuses, NEW autosend \in {"yes", "no"},
             LocationChanged(s, status, autosend)
      PROVE  web'.at = "refresh"
  BY <1>9 DEF LocationChanged, Idle
<1> QED BY <1>1, <1>2, <1>3, <1>4, <1>5, <1>6, <1>7, <1>8, <1>9 DEF Next

\* A pipeline that is cut leaves a prefix of the order's fields.
LEMMA NextPlaced == ASSUME Inv, PlacedFirst, [Next]_vars PROVE PlacedFirst'
<1> SUFFICES ASSUME NEW o \in Orders, hash'[o].order_status = Nil
             PROVE  PassengerOf(o)' = Nil /\ DriverOf(o)' = Nil
  BY DEF PlacedFirst
<1>1. CASE SameOrder(o)
  BY <1>1 DEF SameOrder, PlacedFirst
<1>2. CASE StartsOrder(o)
  BY <1>2 DEF StartsOrder, PlacedFirst, Nil
<1>3. CASE DropsOrder(o)
  BY <1>3 DEF DropsOrder, PlacedFirst, EmptyHash, Fields
<1>4. CASE CreatesOrder(o)
  <2> DEFINE w == [order_status |-> "INIT", passenger_sessionid |-> web.sessionid,
                   driver_sessionid |-> web.driver]
  <2>1. PICK n \in 0..3 : hash' = [hash EXCEPT ![o] = Written(hash[o], w, n)]
    BY <1>4 DEF CreatesOrder, CreateOrder, SetHash
  <2>2. hash'[o] = Written(hash[o], w, n)
    <3>1. hash \in [Keys -> [Fields -> Values]] /\ o \in Keys
      BY DEF Inv, Typed, TypeOK, StoreTypeOK, Keys
    <3> QED BY <2>1, <3>1
  <2>3. /\ Place("order_status") = 1 /\ Place("passenger_sessionid") = 2
        /\ Place("driver_sessionid") = 3
        /\ {"order_status", "passenger_sessionid", "driver_sessionid"} \subseteq Fields
        /\ DOMAIN w = {"order_status", "passenger_sessionid", "driver_sessionid"}
        /\ w["order_status"] = "INIT"
    BY DEF Place, Fields
  <2> HIDE DEF w
  <2>4. CASE n = 0
    <3>1. /\ hash'[o]["order_status"] = hash[o]["order_status"]
          /\ hash'[o]["passenger_sessionid"] = hash[o]["passenger_sessionid"]
          /\ hash'[o]["driver_sessionid"] = hash[o]["driver_sessionid"]
      BY <2>2, <2>3, <2>4 DEF Written
    <3> QED BY <3>1 DEF PlacedFirst
  <2>5. CASE n # 0
    <3>1. 1 <= n
      BY <2>1, <2>5
    <3>2. hash'[o]["order_status"] = "INIT"
      BY <2>2, <2>3, <3>1 DEF Written
    <3> QED BY <3>2 DEF Nil
  <2> QED BY <2>4, <2>5
<1> QED BY <1>1, <1>2, <1>3, <1>4, OrderStep

\* No step breaks it.
LEMMA NextPassengers ==
  ASSUME Inv, AccountInv, LifeInv, PartyInv, PassengersNamed, [Next]_vars
  PROVE  PassengersNamed'
<1> USE DEF At
<1>0. /\ Typed /\ web \in Handlers /\ PlacedFirst /\ PassengerRead /\ PassengerNamed
      /\ FinishNames /\ PartiesAct /\ reply \in [Sessions -> Replies] /\ "passenger" # Nil
  BY DEF Inv, Typed, TypeOK, PassengersNamed, PartyInv, FinishInv, Nil
<1>1. PlacedFirst'
  BY <1>0, NextPlaced
<1>2. ASSUME web'.at \in {"nameDriver", "insert"}, web'.orderid \in Orders,
             web'.sessionid \in Sessions, hash'[web'.sessionid].username # Nil
      PROVE  web'.username = reply'[web'.sessionid].username
  <2>1. \/ web' = web
        \/ NamePassenger /\ web'.at = "nameDriver"
        \/ NameDriver /\ web'.at = "insert"
    BY <1>0, <1>2, InsertEntered, NameDriverEntered
  <2>2. /\ web.at \in FinishCalls /\ web'.sessionid = web.sessionid /\ web'.orderid = web.orderid
        /\ web.sessionid \in Sessions /\ web.orderid \in Orders
    BY <1>0, <1>2, <2>1 DEF NamePassenger, NameDriver, Handlers, FinishCalls
  <2>3. web.sessionid = PassengerOf(web.orderid)
    BY <1>0, <2>2 DEF FinishNames, NamesItsParties
  <2>4. reply[web.sessionid].role # Nil
    BY <1>0, <2>2, <2>3 DEF PartiesAct
  <2>5. /\ reply'[web.sessionid].username = reply[web.sessionid].username
        /\ hash[web.sessionid].username = reply[web.sessionid].username
        /\ hash[web.sessionid].username # Nil
    BY <1>2, <2>2, <2>4, PartyKnown
  <2>6. CASE web' = web
    BY <1>0, <1>2, <2>5, <2>6 DEF PassengerRead
  <2>7. CASE NamePassenger
    BY <1>0, <2>2, <2>5, <2>7 DEF NamePassenger, Handlers
  <2>8. CASE NameDriver
    <3>1. web.at = "nameDriver" /\ web'.username = web.username
      BY <1>0, <2>8 DEF NameDriver, Handlers
    <3> QED BY <1>0, <2>2, <2>5, <3>1 DEF PassengerRead
  <2> QED BY <2>1, <2>6, <2>7, <2>8
<1>3. ASSUME NEW o \in Orders, rides'[o] # NoRide, PassengerOf(o)' \in Sessions,
             hash'[PassengerOf(o)'].username # Nil
      PROVE  rides'[o].passenger = reply'[PassengerOf(o)'].username
  <2>1. PassengerOf(o)' = PassengerOf(o)
    <3>1. CASE SameOrder(o) \/ StartsOrder(o)
      BY <3>1 DEF SameOrder, StartsOrder
    <3>2. CASE CreatesOrder(o)
      BY <1>3, <3>2, RidesStep DEF CreatesOrder, CreateOrder, PersistOrder, LifeInv,
         NewIsFresh, Placed
    <3>3. CASE DropsOrder(o)
      BY <1>3, <3>3, NamesApart DEF DropsOrder, EmptyHash, Fields
    <3> QED BY <3>1, <3>2, <3>3, OrderStep
  <2>2. reply[PassengerOf(o)].role # Nil
    BY <1>0, <1>3, <2>1 DEF PartiesAct
  <2>3. /\ reply'[PassengerOf(o)].username = reply[PassengerOf(o)].username
        /\ hash[PassengerOf(o)].username # Nil
    BY <1>3, <2>1, <2>2, PartyKnown
  <2>4. CASE rides'[o] = rides[o]
    BY <1>0, <1>3, <2>1, <2>3, <2>4 DEF PassengerNamed
  <2>5. CASE PersistOrder /\ web.orderid = o
             /\ rides'[o] = [passenger |-> web.username, driver |-> web.drivername]
    <3>1. web.sessionid = PassengerOf(o) /\ web.at = "insert"
      BY <1>0, <2>5 DEF PersistOrder, FinishNames, FinishCalls, NamesItsParties
    <3> QED BY <1>0, <1>3, <2>1, <2>3, <2>5, <3>1 DEF PassengerRead
  <2> QED BY <2>4, <2>5, RidesStep
<1> QED BY <1>1, <1>2, <1>3 DEF PassengersNamed, PassengerRead, PassengerNamed

\* Rows and finishes name the passengers that their orders name.
THEOREM PassengersNamedAlways == Spec => []PassengersNamed
<1>1. Init => PassengersNamed
  BY InitPassengers
<1>2. Inv /\ AccountInv /\ LifeInv /\ PartyInv /\ PassengersNamed /\ [Next]_vars
        => PassengersNamed'
  BY NextPassengers
<1> QED BY <1>1, <1>2, InvAlways, AccountsAlways, LifeAlways, PartyAlways, PTL DEF Spec

-----------------------------------------------------------------------------
(* What a driver leaves behind when its app ends.                          *)

\* An order that has a driver is finished by that driver's own app, which still drives.
LEMMA FinishedBy ==
  ASSUME RideInv, ServerInv, AppInv, web.at \in FinishCalls, NEW o \in Orders,
         web.orderid = o, DriverOf(o) \in Sessions
  PROVE  client = DriverOf(o) /\ ~Gone(client)
<1>1. /\ client \in Sessions /\ Driver(client) /\ app[client].status = "driving"
      /\ app[client].orderid = o
  BY DEF RideInv, ClientSet, AppInv, FinisherDrives
<1>2. reply[client].orderid = o
  BY <1>1 DEF RideInv, ToldOrder, Told, Statuses
<1>3. client \in Parties(o)
  BY <1>1, <1>2, NamesApart DEF ServerInv, ToldInv, ToldParties, Parties
<1> QED BY <1>1, <1>3 DEF ServerInv, PartyInv, PartiesAct, Parties, Driver, Gone

\* No report of a driver whose app has ended is worked on.
LEMMA GhostsSilent ==
  ASSUME RideInv, AppInv, web.at \in ReportCalls PROVE ~Gone(client)
BY DEF RideInv, Typed, TypeOK, Handlers, Statuses, AppInv, SentAsIs, Gone, Nil

\* Orders that name a driver whose app has ended keep their driver and their stage.
LEMMA GhostOrderStays ==
  ASSUME RideInv, ServerInv, AppInv, PassengersNamed, [RideNext]_rideVars,
         NEW d \in Sessions, Gone(d), NEW o \in Orders, DriverOf(o) = d
  PROVE  DriverOf(o)' = d /\ StageOf(o)' = StageOf(o)
<1>0. Inv /\ LifeInv /\ [Next]_vars
  BY RideStepIsServerStep DEF RideInv, ServerInv
<1>1. ~(web.at \in FinishCalls /\ web.orderid = o)
  BY FinishedBy
<1>2. rides'[o] = rides[o]
  BY <1>0, <1>1, RidesStep DEF PersistOrder, At, FinishCalls
<1>3. ~DropsOrder(o)
  BY <1>1 DEF DropsOrder, DropOrder, At, FinishCalls
<1>4. ~CreatesOrder(o)
  <2>1. hash[o].order_status # Nil
    BY NamesApart DEF PassengersNamed, PlacedFirst
  <2> QED BY <1>0, <2>1 DEF CreatesOrder, CreateOrder, LifeInv, NewIsFresh, Placed
<1>5. CASE SameOrder(o)
  BY <1>2, <1>5 DEF SameOrder, StageOf
<1>6. CASE StartsOrder(o)
  <2>1. hash'[o].order_status = hash[o].order_status
    <3>1. ~(hash[o].order_status # "ACTIVE" /\ hash'[o].order_status = "ACTIVE")
      BY <1>0, StartedBy DEF Gone
    <3> QED BY <1>6, <3>1 DEF StartsOrder
  <2> QED BY <1>2, <1>6, <2>1 DEF StartsOrder, StageOf
<1> QED BY <1>0, <1>3, <1>4, <1>5, <1>6, OrderStep

\* A driver whose app has ended stays listed, and the orders that name it are neither
\* started nor stored, whoever else acts and whatever fails.
THEOREM GhostsKeep == RideSpec => GhostsKeepOrders
<1>1. ASSUME RideInv, ServerInv, AppInv, PassengersNamed, [RideNext]_rideVars,
             NEW d \in Sessions, Driver(d), Gone(d)
      PROVE  /\ Gone(d)'
             /\ d \in pool => d \in pool'
             /\ \A o \in Orders : DriverOf(o) = d =>
                  DriverOf(o)' = d /\ StageOf(o)' = StageOf(o)
  <2>1. Gone(d)'
    BY <1>1, DriverStays DEF Gone
  <2>2. d \in pool => d \in pool'
    <3> SUFFICES ASSUME d \in pool, d \notin pool' PROVE FALSE
      OBVIOUS
    <3>1. web.at = "remGeo" /\ d = web.sessionid
      BY <1>1, RideStepIsServerStep, PoolLost
    <3>2. web.at \in ReportCalls /\ client = d
      BY <1>1, <3>1 DEF RideInv, ClientSet, ReportCalls
    <3> QED BY <1>1, <3>2, GhostsSilent
  <2>3. \A o \in Orders : DriverOf(o) = d =>
          DriverOf(o)' = d /\ StageOf(o)' = StageOf(o)
    BY <1>1, GhostOrderStays
  <2> QED BY <2>1, <2>2, <2>3
<1>2. RideInv /\ ServerInv /\ AppInv /\ PassengersNamed /\ [RideNext]_rideVars
        => [\A d \in Sessions : Driver(d) /\ Gone(d) =>
              /\ Gone(d)'
              /\ d \in pool => d \in pool'
              /\ \A o \in Orders : DriverOf(o) = d =>
                   DriverOf(o)' = d /\ StageOf(o)' = StageOf(o)]_rideVars
  BY <1>1
<1>3. RideSpec => []PassengersNamed
  BY RequestsAreServers, PassengersNamedAlways, PTL DEF ServerRequests
<1> QED BY <1>2, <1>3, RideInvAlways, ServerInvAlways, AppsAlways, PTL
        DEF RideSpec, GhostsKeepOrders

-----------------------------------------------------------------------------
(* A travel ends with its ride stored.                                     *)

\* An order that a passenger booked stays so, by its hash or by its row.
LEMMA BookedByStays ==
  ASSUME Inv, AccountInv, LifeInv, PassengersNamed, [Next]_vars,
         NEW p \in Sessions, reply[p].role # Nil, hash[p].username # Nil,
         NEW o \in Orders, BookedBy(p, o)
  PROVE  BookedBy(p, o)'
<1> USE DEF At
<1>0. reply[p].username \in Users /\ reply'[p].username = reply[p].username
  BY PartyKnown
<1>1. CASE rides[o].passenger = reply[p].username
  <2>1. rides[o] # NoRide
    <3>1. NoRide.passenger = "no row"
      BY DEF NoRide
    <3>2. "no row" \in Users =>
            "no row" \in {Nil, NONE, "INIT", "ACTIVE", "loc", "no row"}
                           \cap (Sessions \cup Orders \cup Users)
      OBVIOUS
    <3> QED BY <1>0, <1>1, <3>1, <3>2, NamesAreDistinct
  <2> QED BY <1>0, <1>1, <2>1, RidesStay DEF BookedBy
<1>2. CASE PassengerOf(o) = p
  <2>1. CASE SameOrder(o) \/ StartsOrder(o)
    BY <1>2, <2>1 DEF SameOrder, StartsOrder, BookedBy
  <2>2. CASE CreatesOrder(o)
    BY <1>2, <2>2, NamesApart DEF CreatesOrder, CreateOrder, LifeInv, NewIsFresh, Placed,
       PassengersNamed, PlacedFirst
  <2>3. CASE DropsOrder(o)
    <3>1. rides[o] # NoRide
      BY <2>3 DEF DropsOrder, DropOrder, Inv, FinishInv, RideStored
    <3>2. rides[o].passenger = reply[p].username
      BY <1>2, <3>1 DEF PassengersNamed, PassengerNamed
    <3> QED BY <1>0, <3>1, <3>2, RidesStay DEF BookedBy
  <2> QED BY <2>1, <2>2, <2>3, OrderStep
<1> QED BY <1>1, <1>2 DEF BookedBy

\* Nothing takes its only order from a passenger but the finish of that order.
LEMMA PassengerHolds ==
  ASSUME Inv, AccountInv, PartyInv, DriversNamed, [Next]_vars,
         NEW p \in Sessions, Passenger(p), NEW o \in Orders, Holds(p, o),
         hash'[p].username # Nil, \A other \in Orders \ {o} : ~BookedBy(p, other)
  PROVE  hash'[p].orderid = o \/ rides'[o] # NoRide
<1> USE DEF At
<1>0. /\ Typed /\ LocalsSet /\ BookingInv /\ FinishNames /\ StrayFinish /\ PartiesAct
      /\ reply[p].role = "passenger" /\ "passenger" # Nil /\ "driver" # "passenger" /\ p # Nil
  BY NamesApart DEF Inv, Typed, FinishInv, DriversNamed, PartyInv, Passenger, Nil
<1> SUFFICES ASSUME hash'[p].orderid # o PROVE rides'[o] # NoRide
  OBVIOUS
<1>1. \/ PutSession /\ web.sessionid = p
      \/ BindDriver /\ web.driver = p
      \/ BindPassenger /\ web.sessionid = p
      \/ ClearDriver /\ web.driver = p
      \/ ClearPassenger /\ web.sessionid = p
      \/ KeyExpires /\ hash'[p].username = Nil
  BY HoldsLost DEF Holds
<1>2. ~(PutSession /\ web.sessionid = p)
  BY <1>0 DEF PutSession, AccountInv, LoginKnows, LoginCalls
<1>3. ~(BindDriver /\ web.driver = p)
  BY <1>0 DEF BindDriver, PartyInv, BookersAct, BookingCalls
<1>4. ~(BindPassenger /\ web.sessionid = p)
  <2> SUFFICES ASSUME BindPassenger, web.sessionid = p PROVE FALSE
    OBVIOUS
  <2>1. web.orderid \in Orders /\ PassengerOf(web.orderid) = p
    BY <1>0 DEF BindPassenger, LocalsSet, BookingCalls, BookingInv, NamesItsParties
  <2>2. web.orderid = o
    BY <2>1 DEF BookedBy
  <2>3. PICK r \in Outcomes : SetHash(p, [orderid |-> o], r)
    BY <2>2 DEF BindPassenger
  <2> QED BY <1>0, <2>3, OrderidWritten DEF SessionNames, OrderNames, Holds
<1>5. ~(ClearDriver /\ web.driver = p)
  <2> SUFFICES ASSUME ClearDriver, web.driver = p PROVE FALSE
    OBVIOUS
  <2>1. web.orderid \in Orders /\ DriverOf(web.orderid) = p
    BY <1>0 DEF ClearDriver, StrayFinish, FinishCalls, FinishNames, NamesItsParties
  <2> QED BY <1>0, <2>1 DEF PartiesAct
<1>6. CASE ClearPassenger /\ web.sessionid = p
  <2>1. web.orderid \in Orders /\ PassengerOf(web.orderid) = p
    BY <1>0, <1>6 DEF ClearPassenger, StrayFinish, FinishCalls, FinishNames, NamesItsParties
  <2>2. web.orderid = o
    BY <2>1 DEF BookedBy
  <2>3. rides[o] # NoRide
    BY <1>6, <2>2 DEF ClearPassenger, Inv, FinishInv, RideStored
  <2> QED BY <2>3, RidesStay
<1> QED BY <1>1, <1>2, <1>3, <1>4, <1>5, <1>6

\* An app gets an order by the answer to its report only.
LEMMA OrderidGot ==
  ASSUME RideInv, [RideNext]_rideVars, NEW s \in Sessions, NEW o \in Orders,
         app'[s].orderid = o
  PROVE  \/ app[s].orderid = o
         \/ AnswerReport /\ web.sessionid = s /\ web.orderid = o
<1>0. /\ Typed /\ ClientSet /\ app[s] \in Apps /\ web \in Handlers /\ o # NONE /\ o # Nil
  BY NamesApart DEF RideInv, AppsTyped, Typed, TypeOK
<1> DEFINE gone == [NoApp EXCEPT !.status = "gone"]
<1>1. gone.orderid = NONE
  BY DEF NoApp
<1>2. CASE LoggedIn(s)
  BY <1>0, <1>2 DEF LoggedIn, NoApp
<1>3. CASE GetsAnswer(s)
  <2>1. PICK position \in Answered(ReadPtemp), order_status \in Answered(ReadStatus) :
          app'[s] = Answer(app[s], position, order_status)
    BY <1>3 DEF GetsAnswer
  <2>2. AnswerReport /\ web.sessionid = s
    BY <1>0, <1>3 DEF GetsAnswer, AnswerReport, AnswerLocation, At, ClientSet, ReportCalls
  <2>3. position \in {Nil, "loc"}
    BY <1>0, KeysTyped DEF Answered, ReadPtemp, Typed, TypeOK, StoreTypeOK, WellTyped
  <2> DEFINE b == IF web.role = "driver" THEN DriverTold(app[s], position)
                                         ELSE PassengerTold(app[s], order_status)
  <2>4. b \in Apps /\ b.orderid = web.orderid
    <3>1. b \in Apps
      BY <1>0, <2>3, DriverToldTyped, PassengerToldTyped
    <3> QED BY <1>0, <3>1 DEF DriverTold, PassengerTold, Apps
  <2>5. app'[s] = AfterReport(web.role, b)
    BY <2>1 DEF Answer
  <2> HIDE DEF b
  <2>6. app'[s].orderid = b.orderid \/ app'[s] = gone
    BY <2>4, <2>5, AfterReportLeaves
  <2> QED BY <1>0, <1>1, <2>2, <2>4, <2>6
<1>4. CASE Booked(s)
  BY <1>0, <1>4 DEF Booked, Apps
<1>5. CASE Finished(s)
  BY <1>0, <1>5 DEF Finished, FinishReturned, Apps
<1>6. CASE Unanswered(s)
  <2>1. PICK role : app'[s] = AfterReport(role, app[s])
    BY <1>6 DEF Unanswered
  <2>2. app'[s].orderid = app[s].orderid \/ app'[s] = gone
    BY <1>0, <2>1, AfterReportLeaves
  <2> QED BY <1>0, <1>1, <2>2
<1>7. CASE OnItsOwn(s)
  <2>1. app'[s].orderid = app[s].orderid \/ app'[s] = gone
    BY <1>0, <1>7 DEF OnItsOwn, Apps
  <2> QED BY <1>0, <1>1, <2>1
<1> QED BY <1>2, <1>3, <1>4, <1>5, <1>6, <1>7, AppChange

\* Only passengers travel.
PassengersTravel ==
  \A s \in Sessions : app[s].status = "traveling" => Passenger(s)

\* The order that a passenger's app has is the one that its session holds, until the order
\* is stored.
TravelKept ==
  \A p \in Sessions, o \in Orders :
    /\ Passenger(p) /\ app[p].orderid = o /\ hash[p].username # Nil
    /\ \A other \in Orders \ {o} : ~BookedBy(p, other)
    => Holds(p, o) \/ rides[o] # NoRide

TravelInv == PassengersTravel /\ TravelKept

\* Who is given a role has just logged in.
LEMMA RoleTaken ==
  ASSUME RideInv, [RideNext]_rideVars, NEW s \in Sessions, reply'[s].role # reply[s].role
  PROVE  app'[s] = [NoApp EXCEPT !.status = "idle"]
<1>0. Typed /\ [Next]_vars /\ app \in [Sessions -> Apps] /\ reply \in [Sessions -> Replies]
  BY RideStepIsServerStep DEF RideInv, AppsTyped, Typed, TypeOK
<1>1. web.sessionid = s /\ (AnswerSession \/ AnswerLocation)
  BY <1>0, ReplyStep
<1>2. AnswerSession
  BY <1>0, <1>1 DEF AnswerLocation, Replies
<1>3. web.at = "answerSession" /\ reply' # reply
  BY <1>2 DEF AnswerSession, At
<1>4. CASE AnswerLogin
  BY <1>0, <1>1, <1>4 DEF AnswerLogin
<1>5. ~(AnswerReport \/ AnswerBooking \/ AnswerFinish)
  BY <1>3 DEF AnswerReport, AnswerLocation, AnswerBooking, BindPassenger, AnswerFinish,
     DropOrder, At
<1>6. ~ServerCall
  BY <1>0, <1>3, InnerCallKeeps DEF ServerCall, Abandon
<1>7. ~UNCHANGED rideVars
  BY <1>3 DEF rideVars
<1>8. ASSUME NEW u \in Users, NEW role \in Roles, LogsIn(u, role) \/ Registers(u, role)
      PROVE  FALSE
  BY <1>3, <1>8 DEF LogsIn, Registers, Login, Reg, At
<1>9. ASSUME NEW x \in Sessions, AppStep(x) PROVE FALSE
  BY <1>3, <1>9 DEF AppStep, Report, DriverReports, PassengerReports, LocationChanged, Book,
     SendsOrder, SetOrder, Finish, HandleFinish, ReportRefused, StartOffering, StopOffering,
     PickUp, Tap, Accept, Refuse, Dismiss, CloseDialog, Search, SearchEnds, SwitchOff,
     SessionExpires, OnPhone
<1> QED BY <1>4, <1>5, <1>6, <1>7, <1>8, <1>9 DEF RideNext, ServerStep

\* A passenger stays a passenger, and who becomes one was told of no order.
LEMMA PassengersStay ==
  ASSUME RideInv, ServerInv, [RideNext]_rideVars, NEW s \in Sessions
  PROVE  /\ Passenger(s) => Passenger(s)'
         /\ Passenger(s)' => Passenger(s) \/ app'[s].orderid = NONE
<1>1. Typed /\ AccountInv /\ [Next]_vars /\ "passenger" # Nil
  BY RideStepIsServerStep DEF RideInv, ServerInv, Nil
<1>2. Passenger(s) => Passenger(s)'
  BY <1>1, RolesStay DEF Passenger
<1>3. ASSUME Passenger(s)', ~Passenger(s) PROVE app'[s].orderid = NONE
  BY <1>3, RoleTaken DEF Passenger, NoApp
<1> QED BY <1>2, <1>3

\* Before the first request no app runs.
LEMMA InitTravel == RideInit => TravelInv
<1> SUFFICES ASSUME RideInit PROVE TravelInv
  OBVIOUS
<1>1. \A s \in Sessions : app[s].status = Nil /\ app[s].orderid = NONE
  BY DEF RideInit, NoApp
<1> QED BY <1>1, NamesApart DEF TravelInv, PassengersTravel, TravelKept, Nil

\* A waiting passenger travels, and nobody else does.
LEMMA NextTravelers ==
  ASSUME RideInv, ServerInv, AppInv, PassengersTravel, [RideNext]_rideVars
  PROVE  PassengersTravel'
<1> SUFFICES ASSUME NEW s \in Sessions, app'[s].status = "traveling", ~Passenger(s)
             PROVE  FALSE
  BY PassengersStay DEF PassengersTravel
<1>0. /\ Typed /\ ClientSet /\ SentAsIs /\ ReportersAct /\ FinisherDrives
      /\ app[s] \in Apps /\ app[s].status # "traveling"
  BY DEF RideInv, AppsTyped, ServerInv, PartyInv, AppInv, PassengersTravel
<1> DEFINE gone == [NoApp EXCEPT !.status = "gone"]
<1>1. gone.status = "gone"
  BY DEF NoApp
<1>2. CASE LoggedIn(s)
  BY <1>2 DEF LoggedIn, NoApp
<1>3. CASE GetsAnswer(s)
  <2>1. PICK position \in Answered(ReadPtemp), order_status \in Answered(ReadStatus) :
          app'[s] = Answer(app[s], position, order_status)
    BY <1>3 DEF GetsAnswer
  <2>2. /\ web.role = "driver" /\ web.status = app[s].status /\ web \in Handlers
    BY <1>0, <1>3 DEF GetsAnswer, AnswerReport, AnswerLocation, At, ClientSet, ReportersAct,
       SentAsIs, ReportCalls, Roles, Passenger, Typed, TypeOK
  <2>3. position \in {Nil, "loc"}
    BY <1>0, KeysTyped DEF Answered, ReadPtemp, Typed, TypeOK, StoreTypeOK, WellTyped
  <2> DEFINE b == DriverTold(app[s], position)
  <2>4. b \in Apps /\ b.status = app[s].status
    BY <1>0, <2>2, <2>3, DriverToldTyped DEF DriverTold, Apps
  <2>5. app'[s] = AfterReport("driver", b)
    BY <2>1, <2>2 DEF Answer
  <2> HIDE DEF b
  <2>6. app'[s].status = b.status \/ app'[s] = gone
    BY <2>4, <2>5, AfterReportLeaves
  <2> QED BY <1>0, <1>1, <2>4, <2>6
<1>4. CASE Booked(s)
  BY <1>0, <1>4 DEF Booked, Apps
<1>5. CASE Finished(s)
  BY <1>0, <1>5 DEF Finished, FinishReturned, Apps
<1>6. CASE Unanswered(s)
  <2>1. PICK role : app'[s] = AfterReport(role, app[s])
    BY <1>6 DEF Unanswered
  <2>2. app'[s].status = app[s].status \/ app'[s] = gone
    BY <1>0, <2>1, AfterReportLeaves
  <2> QED BY <1>0, <1>1, <2>2
<1>7. CASE OnItsOwn(s)
  BY <1>0, <1>1, <1>7 DEF OnItsOwn, Apps
<1> QED BY <1>0, <1>2, <1>3, <1>4, <1>5, <1>6, <1>7, AppChange

\* No step takes the order away before it is stored.
LEMMA NextTravelKept ==
  ASSUME RideInv, ServerInv, PassengersNamed, TravelKept, [RideNext]_rideVars
  PROVE  TravelKept'
<1> SUFFICES ASSUME NEW p \in Sessions, NEW o \in Orders, Passenger(p)', app'[p].orderid = o,
                    hash'[p].username # Nil, \A other \in Orders \ {o} : ~BookedBy(p, other)'
             PROVE  hash'[p].orderid = o \/ rides'[o] # NoRide
  BY DEF TravelKept, Holds
<1>0. /\ [Next]_vars /\ Inv /\ AccountInv /\ LifeInv /\ PartyInv /\ DriversNamed /\ ReadHeld
      /\ "passenger" # Nil /\ o # NONE
  BY RideStepIsServerStep, NamesApart DEF RideInv, ServerInv, ToldInv, Nil
<1>1. Passenger(p) /\ reply[p].role # Nil
  BY <1>0, PassengersStay DEF Passenger
<1>2. hash[p].username # Nil
  BY <1>0, <1>1, PartyKnown
<1>3. \A other \in Orders \ {o} : ~BookedBy(p, other)
  BY <1>0, <1>1, <1>2, BookedByStays
<1>4. CASE AnswerReport /\ web.sessionid = p /\ web.orderid = o
  <2>1. web.at = "answerLocation" /\ hash' = hash
    BY <1>4 DEF AnswerReport, AnswerLocation, At
  <2> QED BY <1>0, <1>2, <1>4, <2>1 DEF ReadHeld, WorkingCalls, ReportCalls
<1>5. CASE app[p].orderid = o
  <2>1. CASE Holds(p, o)
    BY <1>0, <1>1, <1>3, <2>1, PassengerHolds
  <2>2. CASE rides[o] # NoRide
    BY <1>0, <2>2, RidesStay
  <2> QED BY <1>1, <1>2, <1>3, <1>5, <2>1, <2>2 DEF TravelKept
<1> QED BY <1>4, <1>5, OrderidGot

\* Passengers lose their only order by its finish.
THEOREM TravelAlways == RideSpec => [](PassengersNamed /\ TravelInv)
<1>1. RideInit => TravelInv
  BY InitTravel
<1>2. RideInv /\ ServerInv /\ AppInv /\ PassengersNamed /\ TravelInv /\ [RideNext]_rideVars
        => TravelInv'
  BY NextTravelers, NextTravelKept DEF TravelInv
<1>3. RideSpec => []PassengersNamed
  BY RequestsAreServers, PassengersNamedAlways, PTL DEF ServerRequests
<1> QED BY <1>1, <1>2, <1>3, RideInvAlways, ServerInvAlways, AppsAlways, PTL DEF RideSpec

\* A travel of a passenger that booked once ends with the ride stored.
THEOREM TravelsEndStored == RideSpec => TravelEndsStored
<1>1. ASSUME RideInv, ServerInv, AppInv, TravelInv, [RideNext]_rideVars,
             NEW p \in Sessions, NEW o \in Orders, app[p].status = "traveling",
             app'[p].status = "idle", app[p].orderid = o, hash[p].username # Nil,
             \A other \in Orders \ {o} : ~BookedBy(p, other)
      PROVE  rides[o] # NoRide
  <2>0. /\ Typed /\ ClientSet /\ AccountInv /\ ReportersAct /\ ReadHeld /\ app[p] \in Apps
        /\ SentAsIs /\ FinisherDrives /\ DialogsClosed /\ o # NONE
        /\ reply[p].role = "passenger" /\ ~Driver(p)
    BY <1>1, NamesApart DEF RideInv, AppsTyped, ServerInv, PartyInv, ToldInv, AppInv, TravelInv,
       PassengersTravel, Passenger, Driver
  <2>1. CASE GetsAnswer(p)
    <3>1. PICK position \in Answered(ReadPtemp), order_status \in Answered(ReadStatus) :
            app'[p] = Answer(app[p], position, order_status)
      BY <2>1 DEF GetsAnswer
    <3>2. /\ web.at = "answerLocation" /\ client = p /\ web.sessionid = p
          /\ web.role = "passenger" /\ web.status = "traveling"
      BY <1>1, <2>0, <2>1 DEF GetsAnswer, AnswerReport, AnswerLocation, At, ClientSet,
         ReportersAct, SentAsIs, ReportCalls
    <3>3. app'[p] = PassengerTold(app[p], order_status)
      BY <3>1, <3>2 DEF Answer, AfterReport
    <3>4. web.orderid = NONE
      BY <1>1, <2>0, <3>2, <3>3 DEF PassengerTold, Apps
    <3>5. hash[p].orderid = NONE
      BY <1>1, <2>0, <3>2, <3>4 DEF ReadHeld, WorkingCalls, ReportCalls
    <3> QED BY <1>1, <2>0, <3>5 DEF TravelInv, TravelKept, Holds, Passenger
  <2>2. CASE LoggedIn(p)
    BY <2>0, <2>2 DEF LoggedIn, AnswerLogin, AnswerSession, At, AccountInv, LoginKnows,
       LoginCalls, Nil
  <2>3. CASE Booked(p)
    BY <1>1, <2>0, <2>3 DEF Booked, Apps
  <2>4. CASE Finished(p)
    BY <2>0, <2>4 DEF Finished, FinisherDrives
  <2>5. CASE Unanswered(p)
    <3>1. app'[p] = AfterReport("passenger", app[p])
      BY <2>0, <2>5 DEF Unanswered, ClientSet, ReportersAct
    <3> QED BY <1>1, <3>1 DEF AfterReport
  <2>6. CASE OnItsOwn(p)
    <3>1. app[p].dialogs = 0
      BY <2>0 DEF DialogsClosed
    <3>2. ASSUME NEW n, app'[p] = [app[p] EXCEPT !.searches = n] PROVE FALSE
      BY <1>1, <2>0, <3>2 DEF Apps
    <3>3. CASE app'[p] = [NoApp EXCEPT !.status = "gone"]
      BY <1>1, <3>3 DEF NoApp
    <3>4. app[p].dialogs > 0 => FALSE
      BY <3>1
    <3> QED BY <2>0, <2>6, <3>2, <3>3, <3>4 DEF OnItsOwn
  <2> QED BY <1>1, <2>1, <2>2, <2>3, <2>4, <2>5, <2>6, AppChange
<1>2. RideInv /\ ServerInv /\ AppInv /\ TravelInv /\ [RideNext]_rideVars
        => [\A p \in Sessions, o \in Orders :
             /\ app[p].status = "traveling" /\ app'[p].status = "idle" /\ app[p].orderid = o
             /\ hash[p].username # Nil
             /\ \A other \in Orders \ {o} : ~BookedBy(p, other)
             => rides[o] # NoRide]_rideVars
  BY <1>1
<1> QED BY <1>2, RideInvAlways, ServerInvAlways, AppsAlways, TravelAlways, PTL
        DEF RideSpec, TravelEndsStored

-----------------------------------------------------------------------------
(* The order that a driver was asked about.                                *)

\* A session that is used has an order id: login.c and reg.c write it with the name, and
\* its app is told of the session only when both are there.
SessionsWhole ==
  \A s \in Sessions :
    /\ \/ reply[s].role # Nil
       \/ web.at \in {"lifecycle", "answerSession"} /\ web.sessionid = s
    /\ hash[s].username # Nil
    => hash[s].orderid # Nil

\* The order that a driver was told names it.
ToldNamed ==
  \A d \in Sessions :
    Driver(d) /\ hash[d].username # Nil =>
      \/ reply[d].orderid = NONE
      \/ \E o \in Orders : reply[d].orderid = o /\ Named(d, o)

ToldWhole == SessionsWhole /\ ToldNamed

\* Before the first request nobody was told anything.
LEMMA InitToldWhole == Init => ToldWhole
<1> SUFFICES ASSUME Init PROVE ToldWhole
  OBVIOUS
<1>1. web.at = "idle" /\ \A s \in Sessions : reply[s].role = Nil
  BY DEF Init, NoReply, Idle
<1> QED BY <1>1 DEF ToldWhole, SessionsWhole, ToldNamed, Driver, Nil

\* A new session is given its lifetime after it was written.
LEMMA LoginEntered ==
  ASSUME Typed, [Next]_vars, web'.at \in {"lifecycle", "answerSession"}
  PROVE  /\ web'.sessionid = web.sessionid
         /\ web.at \in {"lifecycle", "answerSession"} \/ (PutSession /\ web'.at = "lifecycle")
<1> USE DEF At
<1>0. web \in Handlers /\ web' # Idle
  BY DEF Typed, TypeOK, Idle
<1>1. CASE UNCHANGED vars \/ KeyExpires
  BY <1>1 DEF vars, KeyExpires
<1>2. CASE \/ PutSession \/ PutLifecycle \/ Refresh \/ ListDriver \/ StartOrder \/ SetTemp
           \/ CreateOrder \/ BindDriver \/ PersistOrder \/ ClearDriver \/ ClearPassenger
  BY <1>0, <1>2 DEF PutSession, PutLifecycle, Refresh, ListDriver, StartOrder, SetTemp,
       CreateOrder, BindDriver, PersistOrder, ClearDriver, ClearPassenger, Chain, Goto, Handlers
<1>3. CASE RemGeo
  BY <1>0, <1>3 DEF RemGeo, AfterRemGeo, Chain, Goto, Handlers
<1>4. CASE GetOrderid
  BY <1>0, <1>4 DEF GetOrderid, FirstCall, Handlers
<1>5. CASE NameDriver \/ NamePassenger
  BY <1>0, <1>5 DEF NameDriver, NamePassenger, Handlers
<1>6. CASE AnswerSession \/ AnswerLocation \/ BindPassenger \/ DropOrder \/ Abandon
  BY <1>0, <1>6 DEF AnswerSession, AnswerLocation, BindPassenger, DropOrder, Abandon
<1>7. ASSUME NEW u \in Users, NEW role \in Roles, Login(u, role) \/ Reg(u, role)
      PROVE  web'.at \in {web.at, "session"} /\ web.at = "idle"
  BY <1>7 DEF Login, Reg, CreateSession, Idle
<1>8. ASSUME NEW s \in Sessions, SetOrder(s) \/ FinishOrder(s)
      PROVE  web'.at \in {"createOrder", "namePassenger"}
  BY <1>8 DEF SetOrder, FinishOrder, HandleFinish, Idle
<1>9. ASSUME NEW s \in Sessions, NEW status \in Statuses, NEW autosend \in {"yes", "no"},
             LocationChanged(s, status, autosend)
      PROVE  web'.at = "refresh"
  BY <1>9 DEF LocationChanged, Idle
<1> QED BY <1>1, <1>2, <1>3, <1>4, <1>5, <1>6, <1>7, <1>8, <1>9 DEF Next

\* Nothing is written to it before its app is told of it.
LEMMA LoginUnwritten ==
  ASSUME Typed, [Next]_vars, web.at \in {"lifecycle", "answerSession"}, NEW s \in Sessions
  PROVE  hash'[s] \in {hash[s], EmptyHash}
<1> USE DEF At
<1>0. s \in Keys /\ hash \in [Keys -> [Fields -> Values]]
  BY DEF Typed, TypeOK, StoreTypeOK, Keys
<1>1. CASE KeyExpires
  BY <1>0, <1>1 DEF KeyExpires, Expire
<1>2. CASE PutLifecycle
  BY <1>2 DEF PutLifecycle, SetLifecycle
<1>3. CASE ~KeyExpires /\ ~PutLifecycle
  BY <1>3 DEF Next, vars, Idle, PutSession, AnswerSession, CreateOrder, BindDriver,
     BindPassenger, Refresh, GetOrderid, RemGeo, ListDriver, StartOrder, SetTemp,
     AnswerLocation, NamePassenger, NameDriver, PersistOrder, ClearDriver, ClearPassenger,
     DropOrder, Abandon, Login, Reg, SetOrder, FinishOrder, HandleFinish, LocationChanged
<1> QED BY <1>1, <1>2, <1>3

\* Only a booking and a finish write an order id to a session that an app knows.
LEMMA NextWholeSessions ==
  ASSUME Inv, AccountInv, SessionsWhole, [Next]_vars PROVE SessionsWhole'
<1> USE DEF At
<1> SUFFICES ASSUME NEW s \in Sessions, hash'[s].username # Nil, hash'[s].orderid = Nil,
                    \/ reply'[s].role # Nil
                    \/ web'.at \in {"lifecycle", "answerSession"} /\ web'.sessionid = s
             PROVE  FALSE
  BY DEF SessionsWhole
<1>0. /\ Typed /\ LocalsSet /\ LoginKnows /\ reply \in [Sessions -> Replies]
      /\ web \in Handlers /\ EmptyHash.username = Nil
  BY DEF Inv, Typed, TypeOK, AccountInv, EmptyHash, Fields
<1>1. CASE web.at \in {"lifecycle", "answerSession"} /\ web.sessionid = s
  <2>1. hash'[s] = hash[s]
    BY <1>0, <1>1, LoginUnwritten
  <2> QED BY <1>1, <2>1 DEF SessionsWhole
<1>2. CASE reply[s].role # Nil
  <2>1. hash[s].username # Nil
    BY <1>2, NamesFall
  <2>2. hash[s].orderid # Nil
    BY <1>2, <2>1 DEF SessionsWhole
  <2>3. PICK o : o = hash[s].orderid
    OBVIOUS
  <2>4. \/ PutSession /\ web.sessionid = s
        \/ BindDriver /\ web.driver = s
        \/ BindPassenger /\ web.sessionid = s
        \/ ClearDriver /\ web.driver = s
        \/ ClearPassenger /\ web.sessionid = s
    BY <2>2, <2>3, HoldsLost DEF Holds
  <2>5. ~(PutSession /\ web.sessionid = s)
    BY <1>0, <1>2 DEF PutSession, LoginKnows, LoginCalls
  <2>6. ASSUME NEW x \in Orders \cup {NONE}, NEW r \in Outcomes,
               SetHash(s, [orderid |-> x], r)
        PROVE  FALSE
    <3>1. s \in SessionNames /\ x \in OrderNames /\ x # Nil
      BY NamesApart DEF SessionNames, OrderNames, NONE, Nil
    <3> QED BY <1>0, <2>2, <2>6, <3>1, OrderidWritten
  <2>7. web.at \in BookingCalls => web.orderid \in Orders
    BY <1>0 DEF LocalsSet
  <2> QED BY <2>4, <2>5, <2>6, <2>7 DEF BindDriver, BindPassenger, ClearDriver,
        ClearPassenger, BookingCalls
<1>3. CASE ~(web.at \in {"lifecycle", "answerSession"} /\ web.sessionid = s)
           /\ reply[s].role = Nil
  <2>1. ~(reply'[s].role # Nil)
    BY <1>0, <1>3, ReplyStep DEF AnswerSession, AnswerLocation, Replies
  <2>2. PutSession /\ web.sessionid = s /\ web'.at = "lifecycle"
    BY <1>0, <1>3, <2>1, LoginEntered
  <2>3. PICK r \in Outcomes : /\ SetHash(s, [username |-> web.username, orderid |-> NONE], r)
                              /\ Chain(r = "done", "lifecycle")
    BY <2>2 DEF PutSession
  <2>4. r = "done"
    BY <2>2, <2>3 DEF Chain, Idle
  <2> DEFINE w == [username |-> web.username, orderid |-> NONE]
  <2>5. TypedWrite(w) /\ DOMAIN w = {"username", "orderid"} /\ w["orderid"] = NONE
    BY <1>0, <2>2, WritesTyped DEF PutSession
  <2>6. /\ s \in Keys /\ hash \in [Keys -> [Fields -> Values]] /\ "orderid" \in Fields
        /\ NONE # Nil
    BY <1>0 DEF Typed, TypeOK, StoreTypeOK, Keys, Fields, NONE, Nil
  <2>7. SetHash(s, w, r)
    BY <2>3
  <2> HIDE DEF w
  <2>8. hash'[s]["orderid"] = NONE
    BY <2>4, <2>5, <2>6, <2>7, SetHashWrites DEF TypedWrite
  <2> QED BY <2>6, <2>8
<1> QED BY <1>1, <1>2, <1>3

\* A driver is told what its session holds, and stays named by it.
LEMMA NextToldNamed ==
  ASSUME Inv, AccountInv, LifeInv, PartyInv, ToldInv, DriversNamed, PlacedFirst,
         SessionsWhole, ToldNamed, [Next]_vars
  PROVE  ToldNamed'
<1> USE DEF At
<1> SUFFICES ASSUME NEW d \in Sessions, Driver(d)', hash'[d].username # Nil,
                    reply'[d].orderid # NONE
             PROVE  \E o \in Orders : reply'[d].orderid = o /\ Named(d, o)'
  BY DEF ToldNamed
<1>0. /\ Typed /\ LoginKnows /\ ReadHeld /\ OrdersHeldByTheirParties /\ PartiesAct
      /\ reply \in [Sessions -> Replies] /\ "driver" # Nil /\ "driver" # "passenger"
      /\ hash[d].orderid \in OrderNames
  <2>1. d \in Keys
    BY DEF Keys
  <2> QED BY <2>1 DEF Inv, Typed, TypeOK, StoreTypeOK, WellTyped, AccountInv, PartyInv, ToldInv, Nil
<1>1. Driver(d)
  BY <1>0, ReplyStep DEF Driver, AnswerSession, AnswerLocation, Replies
<1>2. reply[d].role = "driver" /\ reply[d].username \in Users /\ hash[d].username # Nil
  BY <1>0, <1>1, PartyKnown DEF Driver
<1>3. CASE reply'[d] = reply[d]
  <2>1. PICK o \in Orders : o = reply[d].orderid /\ Named(d, o)
    BY <1>1, <1>2, <1>3 DEF ToldNamed
  <2>2. Named(d, o)'
    BY <1>2, <2>1, NamedStays DEF PlacedFirst
  <2> QED BY <1>3, <2>1, <2>2
<1>4. CASE reply'[d] # reply[d]
  <2>1. AnswerLocation /\ web.sessionid = d /\ reply'[d].orderid = web.orderid
    BY <1>0, <1>2, <1>4, ReplyStep DEF AnswerSession, LoginKnows, LoginCalls
  <2>2. hash' = hash /\ rides' = rides /\ reply'[d].orderid = hash[d].orderid
    BY <1>0, <1>2, <2>1 DEF AnswerLocation, ReadHeld, WorkingCalls, ReportCalls
  <2>3. hash[d].orderid # Nil
    BY <1>0, <1>2 DEF SessionsWhole
  <2>4. PICK o \in Orders : o = hash[d].orderid
    BY <1>0, <2>2, <2>3 DEF OrderNames
  <2>5. DriverOf(o) = d
    BY <1>0, <1>2, <2>4 DEF OrdersHeldByTheirParties, Holds, Parties, PartiesAct
  <2>6. Named(d, o)'
    BY <2>2, <2>5 DEF Named
  <2> QED BY <2>2, <2>4, <2>6
<1> QED BY <1>3, <1>4

\* Every driver that was told of an order is named by it.
THEOREM ToldWholeAlways == Spec => []ToldWhole
<1>1. Init => ToldWhole
  BY InitToldWhole
<1>2. /\ Inv /\ AccountInv /\ LifeInv /\ PartyInv /\ ToldInv /\ DriversNamed
      /\ PassengersNamed /\ ToldWhole /\ [Next]_vars
      => ToldWhole'
  BY NextWholeSessions, NextToldNamed DEF ToldWhole, PassengersNamed
<1> QED BY <1>1, <1>2, InvAlways, AccountsAlways, LifeAlways, PartyAlways, ToldAlways,
          DriversNamedAlways, PassengersNamedAlways, PTL DEF Spec

\* A driver is asked whether to take an order, or is with one that it accepted.
Asking(d) == app[d].dialogs > 0 \/ app[d].status \in {"catching", "driving"}

\* The session does not hold the order, and will not hold it again.
Past(d, o) ==
  /\ o \in issued /\ ~Holds(d, o)
  /\ ~(web.at \in {"createOrder", "bindDriver"} /\ web.orderid = o)

\* A driver that is named by one order only is asked about that order, or it has lost it
\* meanwhile.
AskedAbout ==
  \A d \in Sessions, o \in Orders :
    /\ Driver(d) /\ hash[d].username # Nil /\ Asking(d)
    /\ \A other \in Orders \ {o} : ~Named(d, other)
    => reply[d].orderid = o \/ Past(d, o)

\* A driver is bound to an order that was just created.
LEMMA BinderEntered ==
  ASSUME Typed, [Next]_vars, web'.at = "bindDriver"
  PROVE  web' = web \/ (CreateOrder /\ web'.orderid = web.orderid)
<1> USE DEF At, BookingCalls
<1>0. web \in Handlers /\ web' # Idle
  BY DEF Typed, TypeOK, Idle
<1>1. CASE \E s \in Sessions : SetOrder(s)
  BY <1>1 DEF SetOrder, Idle
<1>2. CASE web.at \in BookingCalls
  BY <1>0, <1>2 DEF Next, vars, Idle, PutSession, PutLifecycle, AnswerSession, CreateOrder,
     BindDriver, BindPassenger, Refresh, GetOrderid, RemGeo, ListDriver, StartOrder, SetTemp,
     AnswerLocation, NamePassenger, NameDriver, PersistOrder, ClearDriver, ClearPassenger,
     DropOrder, Abandon, KeyExpires, Login, Reg, SetOrder, FinishOrder, HandleFinish,
     LocationChanged, Chain, Goto, Handlers
<1> QED BY <1>1, <1>2, BookingStep

\* The last call of a booking binds its passenger.
LEMMA PassengerBound ==
  ASSUME Typed, [Next]_vars, web.at = "bindPassenger",
         NEW s \in Sessions, s # web.sessionid, NEW o \in Orders, hash'[s].orderid = o
  PROVE  Holds(s, o)
<1> USE DEF At
<1>0. /\ s \in Keys /\ hash \in [Keys -> [Fields -> Values]] /\ o # Nil
      /\ web.sessionid \in SessionNames /\ web.orderid \in OrderNames
  BY NamesApart DEF Typed, TypeOK, StoreTypeOK, Keys, Handlers
<1>1. CASE KeyExpires
  BY <1>0, <1>1 DEF KeyExpires, Expire, EmptyHash, Fields, Holds
<1>2. CASE BindPassenger
  <2>1. PICK r \in Outcomes : SetHash(web.sessionid, [orderid |-> web.orderid], r)
    BY <1>2 DEF BindPassenger
  <2> QED BY <1>0, <2>1, OrderidWritten DEF Holds
<1>3. CASE ~KeyExpires /\ ~BindPassenger
  <2>1. hash' = hash
    BY <1>3 DEF Next, vars, Idle, PutSession, PutLifecycle, AnswerSession, CreateOrder,
     BindDriver, Refresh, GetOrderid, RemGeo, ListDriver, StartOrder, SetTemp,
     AnswerLocation, NamePassenger, NameDriver, PersistOrder, ClearDriver, ClearPassenger,
     DropOrder, Abandon, Login, Reg, SetOrder, FinishOrder, HandleFinish, LocationChanged
  <2> QED BY <2>1 DEF Holds
<1> QED BY <1>1, <1>2, <1>3

\* A driver gets an order from its booking only, and an order is booked once.
LEMMA PastStays ==
  ASSUME Inv, AccountInv, PartyInv, [Next]_vars, NEW d \in Sessions, Driver(d),
         NEW o \in Orders, Past(d, o)
  PROVE  Past(d, o)'
<1>0. Typed /\ "driver" # "passenger"
  BY DEF Inv
<1>1. o \in issued'
  BY IssuedGrows DEF Past
<1>2. ~Holds(d, o)'
  <2> SUFFICES ASSUME hash'[d].orderid = o PROVE FALSE
    BY DEF Holds
  <2>1. web.at = "bindPassenger"
    BY HoldsStep DEF Past
  <2>2. d # web.sessionid
    BY <1>0, <2>1 DEF PartyInv, BookersAct, BookingCalls, Driver
  <2> QED BY <1>0, <2>1, <2>2, PassengerBound DEF Past
<1>3. ASSUME web'.orderid = o, web'.at = "createOrder" PROVE FALSE
  BY <1>3, WorkStep DEF Past
<1>4. ASSUME web'.orderid = o, web'.at = "bindDriver" PROVE FALSE
  BY <1>0, <1>4, BinderEntered DEF Past, CreateOrder, At
<1> QED BY <1>1, <1>2, <1>3, <1>4 DEF Past

\* A driver is asked anew by the end of a report that told it of an order.
LEMMA AskingBegins ==
  ASSUME RideInv, ServerInv, AppInv, [RideNext]_rideVars, NEW d \in Sessions, Driver(d),
         ~Asking(d), Asking(d)'
  PROVE  /\ app'[d].orderid # NONE /\ app'[d].status = "ready"
         /\ GetsAnswer(d) \/ Unanswered(d)
<1>0. /\ Typed /\ ClientSet /\ SentAsIs /\ ReportersAct /\ app[d] \in Apps
      /\ web \in Handlers /\ reply[d].role = "driver" /\ ~Passenger(d)
      /\ app[d].dialogs = 0 /\ app[d].status \notin {"catching", "driving"}
  BY DEF RideInv, AppsTyped, ServerInv, PartyInv, AppInv, Driver, Passenger, Typed, TypeOK,
     Asking, Apps
<1>1. app'[d] # app[d] /\ (app'[d].dialogs > 0 \/ app'[d].status \in {"catching", "driving"})
  BY DEF Asking
<1> DEFINE gone == [NoApp EXCEPT !.status = "gone"]
<1>2. app'[d] # gone
  BY <1>1 DEF NoApp
<1>3. ASSUME NEW role, NEW a \in Apps, a.dialogs = 0,
             a.status \notin {"catching", "driving"}, app'[d] = AfterReport(role, a)
      PROVE  app'[d].orderid # NONE /\ app'[d].status = "ready"
  <2>1. \/ app'[d] = gone
        \/ /\ app'[d].status = a.status /\ app'[d].orderid = a.orderid
           /\ app'[d].dialogs # a.dialogs => a.status = "ready" /\ a.orderid # NONE
    BY <1>3, AfterReportLeaves
  <2> QED BY <1>1, <1>2, <1>3, <2>1
<1> HIDE DEF gone
<1>4. CASE LoggedIn(d)
  BY <1>1, <1>4 DEF LoggedIn, NoApp
<1>5. CASE GetsAnswer(d)
  <2>1. PICK position \in Answered(ReadPtemp), order_status \in Answered(ReadStatus) :
          app'[d] = Answer(app[d], position, order_status)
    BY <1>5 DEF GetsAnswer
  <2>2. web.role = "driver" /\ web.status = app[d].status
    BY <1>0, <1>5 DEF GetsAnswer, AnswerReport, AnswerLocation, At, ClientSet, ReportersAct,
       SentAsIs, ReportCalls
  <2>3. position \in {Nil, "loc"}
    BY <1>0, KeysTyped DEF Answered, ReadPtemp, Typed, TypeOK, StoreTypeOK, WellTyped
  <2> DEFINE b == DriverTold(app[d], position)
  <2>4. b \in Apps /\ b.status = app[d].status /\ b.dialogs = app[d].dialogs
    <3>1. b \in Apps
      BY <1>0, <2>3, DriverToldTyped
    <3> QED BY <1>0, <2>2, <3>1 DEF DriverTold, Apps
  <2>5. app'[d] = AfterReport("driver", b)
    BY <2>1, <2>2 DEF Answer
  <2> HIDE DEF b
  <2> QED BY <1>0, <1>3, <1>5, <2>4, <2>5
<1>6. ~Booked(d)
  BY <1>0 DEF Booked
<1>7. CASE Finished(d)
  BY <1>0, <1>1, <1>7 DEF Finished, FinishReturned, Apps
<1>8. CASE Unanswered(d)
  <2>1. app'[d].orderid # NONE /\ app'[d].status = "ready"
    BY <1>0, <1>3, <1>8 DEF Unanswered
  <2> QED BY <1>8, <2>1
<1>9. CASE OnItsOwn(d)
  <2>1. ASSUME NEW n, app'[d] = [app[d] EXCEPT !.searches = n] PROVE FALSE
    BY <1>0, <1>1, <2>1 DEF Apps
  <2>2. ASSUME NEW to \in {"idle", "ready"}, NEW autosend \in {"yes", "no"},
               app'[d] = [app[d] EXCEPT !.status = to, !.autosend = autosend]
        PROVE  FALSE
    BY <1>0, <1>1, <2>2 DEF Apps
  <2>3. ~(app[d].dialogs > 0) /\ app[d].status # "catching"
    BY <1>0
  <2> QED BY <1>2, <1>9, <2>1, <2>2, <2>3 DEF OnItsOwn, gone
<1> QED BY <1>1, <1>4, <1>5, <1>6, <1>7, <1>8, <1>9, AppChange

\* Before the first request no app runs.
LEMMA InitAsked == RideInit => AskedAbout
<1> SUFFICES ASSUME RideInit, NEW d \in Sessions PROVE ~Asking(d)
  BY DEF AskedAbout
<1>1. app[d].dialogs = 0 /\ app[d].status = Nil
  BY DEF RideInit, NoApp
<1>2. ~(0 > 0) /\ Nil \notin {"catching", "driving"}
  BY DEF Nil
<1> QED BY <1>1, <1>2 DEF Asking

\* While the dialog is open, or the driver is with its order, another order may come only
\* after the first is lost.
LEMMA NextAsked ==
  ASSUME RideInv, RideInv', ServerInv, AppInv, PassengersNamed, ToldWhole', AskedAbout,
         [RideNext]_rideVars
  PROVE  AskedAbout'
<1> SUFFICES ASSUME NEW d \in Sessions, NEW o \in Orders, Driver(d)', hash'[d].username # Nil,
                    Asking(d)', \A other \in Orders \ {o} : ~Named(d, other)'
             PROVE  reply'[d].orderid = o \/ Past(d, o)'
  BY DEF AskedAbout
<1> USE DEF At
<1>0. /\ Typed /\ [Next]_vars /\ Inv /\ AccountInv /\ LifeInv /\ PartyInv /\ DriversNamed
      /\ ReadHeld /\ LoginKnows /\ PlacedFirst /\ "driver" # Nil
  BY RideStepIsServerStep DEF RideInv, ServerInv, ToldInv, AccountInv, PassengersNamed, Nil
<1>1. Driver(d)
  <2> SUFFICES ASSUME ~Driver(d) PROVE FALSE
    OBVIOUS
  <2>1. app'[d] = [NoApp EXCEPT !.status = "idle"]
    BY RoleTaken DEF Driver
  <2> QED BY <2>1 DEF Asking, NoApp
<1>2. reply[d].role = "driver" /\ reply[d].username \in Users /\ hash[d].username # Nil
  BY <1>0, <1>1, PartyKnown DEF Driver
<1>3. \A other \in Orders \ {o} : ~Named(d, other)
  BY <1>0, <1>2, NamedStays DEF PlacedFirst
<1>4. CASE Asking(d)
  <2>1. reply[d].orderid = o \/ Past(d, o)
    BY <1>1, <1>2, <1>3, <1>4 DEF AskedAbout
  <2>2. CASE Past(d, o)
    BY <1>0, <1>1, <2>2, PastStays
  <2>3. CASE reply[d].orderid = o /\ reply'[d].orderid # o
    <3>1. AnswerLocation /\ web.sessionid = d /\ web.orderid # o
      BY <1>0, <1>2, <2>3, ReplyStep DEF AnswerSession, LoginKnows, LoginCalls
    <3>2. ~Holds(d, o) /\ hash' = hash /\ web' = Idle /\ issued' = issued
      BY <1>0, <1>2, <3>1 DEF AnswerLocation, ReadHeld, WorkingCalls, ReportCalls, Holds
    <3>3. o \in issued
      BY <1>0, <2>3 DEF LifeInv, ToldComplete, PlacedWereIssued, Complete, Placed
    <3> QED BY <3>2, <3>3 DEF Past, Holds, Idle
  <2> QED BY <2>1, <2>2, <2>3
<1>5. CASE ~Asking(d)
  <2>1. app'[d].orderid # NONE /\ app'[d].status = "ready"
    BY <1>1, <1>5, AskingBegins
  <2>2. app'[d].orderid = reply'[d].orderid
    BY <2>1 DEF RideInv, ToldOrder, Told, Statuses
  <2>3. PICK other \in Orders : reply'[d].orderid = other /\ Named(d, other)'
    BY <2>1, <2>2 DEF ToldWhole, ToldNamed
  <2> QED BY <2>3
<1> QED BY <1>4, <1>5

\* A driver is asked about its order.
THEOREM AskedAlways == RideSpec => [](ToldWhole /\ AskedAbout)
<1>1. RideInit => AskedAbout
  BY InitAsked
<1>2. /\ RideInv /\ RideInv' /\ ServerInv /\ AppInv /\ PassengersNamed /\ ToldWhole'
      /\ AskedAbout /\ [RideNext]_rideVars
      => AskedAbout'
  BY NextAsked
<1>3. RideSpec => [](PassengersNamed /\ ToldWhole)
  BY RequestsAreServers, PassengersNamedAlways, ToldWholeAlways, PTL DEF ServerRequests
<1> QED BY <1>1, <1>2, <1>3, RideInvAlways, ServerInvAlways, AppsAlways, PTL DEF RideSpec

\* A driver whose answered report took up its ride is with the order that its session
\* holds, up to its finish.
KeepsTold ==
  faults = 0 =>
    \A d \in Sessions :
      Driver(d) /\ hash[d].username # Nil /\ Asking(d) /\ reply[d].status \in BusyStatuses =>
        \/ hash[d].orderid = reply[d].orderid
        \/ client = d /\ web.at \notin ReportCalls

\* Without a fault, a report ends with its answer, or its session has expired.
LEMMA ReportEnds ==
  ASSUME Inv, [Next]_vars, faults' = 0, web.at \in ReportCalls, web' = Idle
  PROVE  AnswerLocation \/ ~Exists(web.sessionid)
<1> USE DEF At
<1>0. web \in Handlers /\ Typed /\ faults \in Nat /\ web'.at = "idle"
  BY MaxFaultsType DEF Inv, Typed, TypeOK, Idle
<1>1. ~UNCHANGED vars /\ ~KeyExpires /\ ~Abandon
  BY <1>0 DEF vars, KeyExpires, Abandon, ReportCalls
<1>2. CASE Refresh
  <2>1. PICK r \in Outcomes : Fault(r) /\ Chain(r = "done" /\ Exists(web.sessionid), "getOrderid")
    BY <1>2 DEF Refresh
  <2>2. r = "done"
    BY <1>0, <2>1, FaultFree
  <2> QED BY <1>0, <2>1, <2>2 DEF Chain, Goto, Handlers
<1>3. ~RemGeo
  <2> SUFFICES ASSUME RemGeo PROVE FALSE
    OBVIOUS
  <2>1. PICK r \in Outcomes : Fault(r) /\ AfterRemGeo(r)
    BY DEF RemGeo
  <2>2. r = "done"
    BY <1>0, <2>1, FaultFree
  <2> QED BY <1>0, <2>1, <2>2 DEF AfterRemGeo, Chain, Goto, Handlers
<1>4. ~GetOrderid
  BY <1>0 DEF GetOrderid, FirstCall, Handlers
<1>5. ~ListDriver /\ ~StartOrder /\ ~SetTemp
  BY <1>0 DEF ListDriver, StartOrder, SetTemp, Goto, Handlers
<1> QED BY <1>1, <1>2, <1>3, <1>4, <1>5 DEF ReportCalls, Next, PutSession, PutLifecycle,
       AnswerSession, CreateOrder, BindDriver, BindPassenger, NamePassenger, NameDriver,
       PersistOrder, ClearDriver, ClearPassenger, DropOrder, Login, Reg, SetOrder, FinishOrder,
       HandleFinish, LocationChanged

\* A driver whose finish ended, however it did, is with no order any more.
LEMMA FinishIdles ==
  ASSUME RideInv, ServerInv, AppInv, [RideNext]_rideVars,
         web.at \in FinishCalls, web' = Idle, NEW c \in Sessions, c = client
  PROVE  ~Asking(c)'
<1>0. /\ Typed /\ ClientSet /\ app[c] \in Apps
      /\ app \in [Sessions -> Apps] /\ app[c].dialogs = 0
  BY DEF RideInv, AppsTyped, ClientSet
<1>1. PICK ok \in BOOLEAN : app' = [app EXCEPT ![c] = FinishReturned(app[c], ok)]
  <2>1. CASE AnswerFinish
    BY <2>1 DEF AnswerFinish
  <2>2. CASE ServerCall
    BY <2>2 DEF ServerCall, ClientFailed, ReportCalls, FinishCalls, Idle
  <2>3. ~UNCHANGED rideVars
    BY DEF rideVars, Idle, FinishCalls
  <2>4. ~AnswerLogin /\ ~AnswerReport /\ ~AnswerBooking
    BY DEF AnswerLogin, AnswerReport, AnswerBooking, AnswerSession, AnswerLocation,
       BindPassenger, At, FinishCalls
  <2>5. \A u \in Users, role \in Roles : ~LogsIn(u, role) /\ ~Registers(u, role)
    BY DEF LogsIn, Registers, Login, Reg, At, FinishCalls
  <2>6. \A s \in Sessions : ~AppStep(s)
    <3> SUFFICES ASSUME NEW s \in Sessions, AppStep(s) PROVE FALSE
      OBVIOUS
    <3>1. web' # web
      BY DEF Idle, FinishCalls
    <3> QED BY <3>1 DEF AppStep, Report, DriverReports, PassengerReports, LocationChanged,
           ReportRefused, Book, SendsOrder, SetOrder, Finish, HandleFinish, StartOffering,
           StopOffering, PickUp, Tap, Accept, Refuse, Dismiss, CloseDialog, Search,
           SearchEnds, SwitchOff, SessionExpires, OnPhone, At, FinishCalls
  <2> QED BY <2>1, <2>2, <2>3, <2>4, <2>5, <2>6 DEF RideNext, ServerStep
<1>2. app'[c].status = "idle" /\ app'[c].dialogs = 0
  BY <1>0, <1>1 DEF FinishReturned, Apps
<1>3. ~(0 > 0)
  OBVIOUS
<1> QED BY <1>2, <1>3 DEF Asking

\* No step of a driver that is already with an order parts it from what it was told.
LEMMA KeptWhileAsking ==
  ASSUME RideInv, ServerInv, AppInv, BookedListed, KeepsTold, [RideNext]_rideVars,
         faults = 0, NEW d \in Sessions, Driver(d), Asking(d), Asking(d)',
         hash[d].username # Nil, hash'[d].username # Nil,
         reply[d].status \in BusyStatuses, reply'[d] = reply[d]
  PROVE  \/ hash'[d].orderid = reply[d].orderid
         \/ client' = d /\ web'.at \notin ReportCalls
<1> USE DEF At
<1>0. /\ Inv /\ [Next]_vars /\ ClientSet /\ AccountInv /\ PartiesAct /\ BookersAct
      /\ FinishNames /\ StrayFinish /\ FinisherDrives /\ BusyInv /\ reply[d].role = "driver"
      /\ "driver" # Nil /\ "driver" # "passenger" /\ d # Nil
  BY RideStepIsServerStep, NamesApart DEF RideInv, ServerInv, PartyInv, DriversNamed, Inv,
     FinishInv, AppInv, Driver, Nil
<1>1. CASE client = d /\ web.at \in FinishCalls
  <2>1. web' # Idle
    BY <1>1, FinishIdles
  <2>2. \A s \in Sessions : ~Report(s) /\ ~Book(s) /\ ~Finish(s)
    BY <1>1 DEF Report, DriverReports, PassengerReports, LocationChanged, Book, SendsOrder,
       SetOrder, Finish, HandleFinish, FinishCalls
  <2> QED BY <1>1, <2>1, <2>2, ClientKept DEF ReportCalls, FinishCalls
<1>2. CASE client = d /\ web.at \notin FinishCalls \cup ReportCalls
  <2>1. web.at \notin BookingCalls \cup LoginCalls \cup {"idle"}
    BY <1>0, <1>2 DEF ClientSet, Passenger
  <2> QED BY <1>0, <1>2, <2>1 DEF Inv, Typed, TypeOK, Handlers, Labels, FinishCalls,
             ReportCalls, BookingCalls, LoginCalls
<1>3. CASE hash[d].orderid = reply[d].orderid
  <2> SUFFICES ASSUME hash'[d].orderid # reply[d].orderid PROVE client = d /\ web.at \in FinishCalls
    BY <1>1
  <2>1. \/ PutSession /\ web.sessionid = d
        \/ BindDriver /\ web.driver = d
        \/ BindPassenger /\ web.sessionid = d
        \/ ClearDriver /\ web.driver = d
        \/ ClearPassenger /\ web.sessionid = d
        \/ KeyExpires /\ hash'[d].username = Nil
    BY <1>0, <1>3, HoldsLost DEF Holds
  <2>2. ~(PutSession /\ web.sessionid = d)
    BY <1>0 DEF PutSession, AccountInv, LoginKnows, LoginCalls
  <2>3. ~(BindDriver /\ web.driver = d)
    BY <1>0 DEF BindDriver, BookedListed, BookingCalls, BusyInv, ListedAreReady
  <2>4. ~(BindPassenger /\ web.sessionid = d)
    BY <1>0 DEF BindPassenger, BookersAct, BookingCalls
  <2>5. ~(ClearPassenger /\ web.sessionid = d)
    <3> SUFFICES ASSUME ClearPassenger, web.sessionid = d PROVE FALSE
      OBVIOUS
    <3>1. web.orderid \in Orders /\ PassengerOf(web.orderid) = d
      BY <1>0 DEF ClearPassenger, StrayFinish, FinishCalls, FinishNames, NamesItsParties
    <3> QED BY <1>0, <3>1 DEF PartiesAct
  <2>6. ClearDriver /\ web.driver = d => client = d /\ web.at \in FinishCalls
    BY <1>0 DEF ClearDriver, FinisherDrives, FinishCalls
  <2> QED BY <2>1, <2>2, <2>3, <2>4, <2>5, <2>6
<1> QED BY <1>1, <1>2, <1>3 DEF KeepsTold

\* A driver that is asked anew was answered a report that it is ready.
LEMMA AskedWhenReady ==
  ASSUME RideInv, ServerInv, AppInv, [RideNext]_rideVars, faults' = 0,
         NEW d \in Sessions, Driver(d), ~Asking(d), Asking(d)', hash[d].username # Nil
  PROVE  reply'[d].status = "ready"
<1>0. /\ Inv /\ Typed /\ [Next]_vars /\ ClientSet /\ SentAsIs /\ ReportersAct
      /\ app[d] \in Apps /\ reply[d].role = "driver" /\ web \in Handlers
  BY RideStepIsServerStep DEF RideInv, AppsTyped, ServerInv, PartyInv, AppInv, Driver, Typed,
     TypeOK
<1>1. app'[d].status = "ready" /\ (GetsAnswer(d) \/ Unanswered(d))
  BY AskingBegins
<1>2. Exists(d)
  BY DEF Exists, EmptyHash, Fields
<1> DEFINE gone == [NoApp EXCEPT !.status = "gone"]
<1>g. gone.status = "gone"
  BY DEF NoApp
<1>a. ASSUME NEW role, NEW a \in Apps, app'[d] = AfterReport(role, a) PROVE a.status = "ready"
  <2>1. app'[d] = gone \/ app'[d].status = a.status
    BY <1>a, AfterReportLeaves
  <2> HIDE DEF gone
  <2> QED BY <1>1, <1>g, <2>1
<1> HIDE DEF gone
<1>3. CASE GetsAnswer(d)
  <2>1. PICK position \in Answered(ReadPtemp), order_status \in Answered(ReadStatus) :
          app'[d] = Answer(app[d], position, order_status)
    BY <1>3 DEF GetsAnswer
  <2>2. /\ AnswerLocation /\ web.sessionid = d /\ web.role = "driver"
        /\ web.status = app[d].status
    BY <1>0, <1>3 DEF GetsAnswer, AnswerReport, AnswerLocation, At, ClientSet, ReportersAct,
       SentAsIs, ReportCalls
  <2>3. position \in {Nil, "loc"}
    BY <1>0, KeysTyped DEF Answered, ReadPtemp, Typed, TypeOK, StoreTypeOK, WellTyped
  <2> DEFINE b == DriverTold(app[d], position)
  <2>4. b \in Apps /\ b.status = app[d].status
    <3>1. b \in Apps
      BY <1>0, <2>2, <2>3, DriverToldTyped
    <3> QED BY <1>0, <2>2, <3>1 DEF DriverTold, Apps
  <2>5. app'[d] = AfterReport("driver", b)
    BY <2>1, <2>2 DEF Answer
  <2> HIDE DEF b
  <2>6. web.status = "ready"
    BY <1>a, <2>2, <2>4, <2>5
  <2> QED BY <1>0, <2>2, <2>6 DEF AnswerLocation, Typed, TypeOK, Replies
<1>4. CASE Unanswered(d)
  <2>1. /\ web.at \in ReportCalls /\ d = client /\ web' = Idle
        /\ app'[d] = AfterReport(web.role, app[d])
    BY <1>2, <1>4 DEF Unanswered
  <2>2. AnswerLocation /\ web.sessionid = d /\ web.status = app[d].status
    BY <1>0, <1>2, <2>1, ReportEnds DEF ClientSet, SentAsIs
  <2>3. web.status = "ready"
    BY <1>0, <1>a, <2>1, <2>2
  <2> QED BY <1>0, <2>2, <2>3 DEF AnswerLocation, Typed, TypeOK, Replies
<1> QED BY <1>1, <1>3, <1>4

\* No step breaks it.
LEMMA NextKeepsTold ==
  ASSUME RideInv, ServerInv, AppInv, BookedListed, KeepsTold, [RideNext]_rideVars
  PROVE  KeepsTold'
<1> SUFFICES ASSUME faults' = 0, NEW d \in Sessions, Driver(d)', hash'[d].username # Nil,
                    Asking(d)', reply'[d].status \in BusyStatuses
             PROVE  \/ hash'[d].orderid = reply'[d].orderid
                    \/ client' = d /\ web'.at \notin ReportCalls
  BY DEF KeepsTold
<1> USE DEF At
<1>0. /\ Typed /\ [Next]_vars /\ Inv /\ AccountInv /\ ReadHeld /\ LoginKnows /\ "driver" # Nil
  BY RideStepIsServerStep DEF RideInv, ServerInv, ToldInv, AccountInv, Nil
<1>1. faults = 0
  BY <1>0, FaultsRise, MaxFaultsType DEF Typed, TypeOK
<1>2. Driver(d)
  <2> SUFFICES ASSUME ~Driver(d) PROVE FALSE
    OBVIOUS
  <2>1. app'[d] = [NoApp EXCEPT !.status = "idle"]
    BY RoleTaken DEF Driver
  <2> QED BY <2>1 DEF Asking, NoApp
<1>3. reply[d].role = "driver" /\ hash[d].username # Nil
  BY <1>0, <1>2, PartyKnown DEF Driver
<1>4. CASE reply'[d] # reply[d]
  <2>1. /\ web.at = "answerLocation" /\ web.sessionid = d /\ hash' = hash
        /\ reply'[d].orderid = web.orderid
    BY <1>0, <1>3, <1>4, ReplyStep DEF AnswerSession, AnswerLocation, LoginKnows, LoginCalls
  <2> QED BY <1>0, <1>3, <2>1 DEF ReadHeld, WorkingCalls, ReportCalls
<1>5. CASE reply'[d] = reply[d]
  <2>1. Asking(d)
    BY <1>2, <1>3, <1>5, AskedWhenReady DEF BusyStatuses
  <2> QED BY <1>1, <1>2, <1>3, <1>5, <2>1, KeptWhileAsking
<1> QED BY <1>4, <1>5

\* A driver is with the order that it was told of.
THEOREM KeepsToldAlways == RideSpec => []KeepsTold
<1>1. RideInit => KeepsTold
  <2> SUFFICES ASSUME RideInit, NEW d \in Sessions PROVE ~Driver(d)
    BY DEF KeepsTold
  <2> QED BY DEF RideInit, Init, NoReply, Driver, Nil
<1>2. RideInv /\ ServerInv /\ AppInv /\ DrivenInv /\ KeepsTold /\ [RideNext]_rideVars
        => KeepsTold'
  BY NextKeepsTold DEF DrivenInv
<1> QED BY <1>1, <1>2, RideInvAlways, ServerInvAlways, AppsAlways, DrivenAlways, PTL
        DEF RideSpec

\* The order that a driver starts is the one that its app shows.
THEOREM StartsTold == RideSpec => StartsToldOrder
<1>1. ASSUME RideInv, ServerInv, AppInv, AskedAbout, KeepsTold, [RideNext]_rideVars,
             NEW o \in Orders, hash[o].order_status # "ACTIVE", hash'[o].order_status = "ACTIVE",
             hash[DriverOf(o)].username # Nil,
             TookUp(DriverOf(o)) \/ \A other \in Orders \ {o} : ~Named(DriverOf(o), other)
      PROVE  app[client].orderid = o
  <2>1. [Next]_vars
    BY <1>1, RideStepIsServerStep
  <2>2. /\ StartOrder /\ web.orderid = o /\ client \in Sessions /\ client = web.sessionid
        /\ client = DriverOf(o) /\ Driver(client) /\ app[client].status = "driving"
    BY <1>1, <2>1, StartedBy
  <2>3. Holds(client, o)
    BY <1>1, <2>2 DEF StartOrder, At, ServerInv, ToldInv, ReadHeld, WorkingCalls, ReportCalls,
       Holds
  <2>4. reply[client].orderid = o
    <3>1. CASE TookUp(client)
      BY <1>1, <2>2, <2>3, <3>1 DEF TookUp, KeepsTold, Asking, BusyStatuses, Holds, StartOrder,
         At, ReportCalls
    <3>2. CASE \A other \in Orders \ {o} : ~Named(client, other)
      BY <1>1, <2>2, <2>3, <3>2 DEF AskedAbout, Asking, Past
    <3> QED BY <1>1, <2>2, <3>1, <3>2
  <2> QED BY <1>1, <2>2, <2>4 DEF RideInv, ToldOrder, Told, Statuses
<1>2. RideInv /\ ServerInv /\ AppInv /\ AskedAbout /\ KeepsTold /\ [RideNext]_rideVars
        => [\A o \in Orders :
             /\ hash[o].order_status # "ACTIVE" /\ hash'[o].order_status = "ACTIVE"
             /\ hash[DriverOf(o)].username # Nil
             /\ TookUp(DriverOf(o)) \/ \A other \in Orders \ {o} : ~Named(DriverOf(o), other)
             => app[client].orderid = o]_rideVars
  BY <1>1
<1> QED BY <1>2, RideInvAlways, ServerInvAlways, AppsAlways, AskedAlways, KeepsToldAlways, PTL
        DEF RideSpec, StartsToldOrder
=============================================================================

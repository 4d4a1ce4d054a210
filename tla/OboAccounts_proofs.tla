------------------------- MODULE OboAccounts_proofs -------------------------
(***************************************************************************)
(* Sessions and accounts: what holds of logins and registrations for every *)
(* set of sessions and users, whatever fails and expires.                  *)
(***************************************************************************)
EXTENDS OboServer_proofs

LoginCalls == {"session", "lifecycle", "answerSession"}

\* What the handler of a login knows of the session that it creates: the account exists
\* in its role, nobody was told of the session, and the name in its hash, once it is
\* there, is the account's and gets an expiry time before the answer.
LoginKnows ==
  web.at \in LoginCalls =>
    /\ web.username \in Users /\ web.role \in Roles /\ users[web.username] = web.role
    /\ web.sessionid \in issued /\ reply[web.sessionid].role = Nil
    /\ hash[web.sessionid].username \in {Nil, web.username}
    /\ At("session") => hash[web.sessionid].username = Nil
    /\ At("answerSession") /\ hash[web.sessionid].username # Nil => ttl[web.sessionid]

\* A session that an app knows carries the name of its account, or none.
NameKept(s) == hash[s].username \in {Nil, reply[s].username}

SessionKnown(s) ==
  /\ hash[s].username # Nil => s \in issued
  /\ reply[s].role # Nil =>
       /\ s \in issued /\ NameKept(s)
       /\ reply[s].username \in Users /\ users[reply[s].username] = reply[s].role

AccountInv ==
  /\ LoginKnows
  /\ \A s \in Sessions : SessionKnown(s)
  /\ NamedSessionsExpire

-----------------------------------------------------------------------------
\* Nobody has logged in before the first request.
LEMMA InitAccounts == Init => AccountInv
<1> SUFFICES ASSUME Init PROVE AccountInv
  OBVIOUS
<1>1. \A s \in Sessions : hash[s].username = Nil /\ reply[s].role = Nil
  BY DEF Init, StoreInit, EmptyHash, Fields, Keys, NoReply
<1>2. web.at = "idle"
  BY DEF Init, Idle
<1> QED BY <1>1, <1>2 DEF AccountInv, LoginKnows, LoginCalls, SessionKnown,
                          NamedSessionsExpire

\* A row of OBO_TABLE_USER is never changed.
AccountsStay == \A u \in Users : users[u] # Nil => users'[u] = users[u]

\* No session gets a name, and none that expires stops doing so while it keeps its name.
NamesStay ==
  \A s \in Sessions : /\ hash'[s].username \in {hash[s].username, Nil}
                      /\ hash'[s].username # Nil /\ ttl[s] => ttl'[s]

\* No app is told another name or role.
AppsStay ==
  \A s \in Sessions : reply'[s].role = reply[s].role /\ reply'[s].username = reply[s].username

\* A step that names no session and tells no app a name keeps the invariant, unless it
\* ends a login without a fault.
LEMMA AccountsKept ==
  ASSUME Typed, AccountInv, AccountsStay, NamesStay, AppsStay, issued \subseteq issued',
         faults' \in Nat, faults' >= faults,
         \/ UNCHANGED web
         \/ web'.at \notin LoginCalls /\ (web.at \notin LoginCalls \/ faults' > 0)
  PROVE  AccountInv'
<1> USE DEF At, NameKept
<1>0. /\ LoginKnows /\ NamedSessionsExpire /\ faults \in Nat /\ Nil \notin Roles
      /\ \A s \in Sessions : SessionKnown(s)
      /\ web.at \in LoginCalls => web.sessionid \in Sessions
  BY MaxFaultsType DEF AccountInv, Typed, TypeOK, LocalsSet, SessionCalls, LoginCalls, Roles, Nil
<1>1. \A s \in Sessions : SessionKnown(s)'
  <2> SUFFICES ASSUME NEW s \in Sessions PROVE SessionKnown(s)'
    OBVIOUS
  <2>1. SessionKnown(s) /\ (users[reply[s].username] = reply[s].role => reply[s].role \in Roles \cup {Nil})
    BY <1>0 DEF Typed, TypeOK, Replies
  <2> QED BY <2>1 DEF SessionKnown, AccountsStay, NamesStay, AppsStay
<1>2. LoginKnows'
  <2> SUFFICES ASSUME web'.at \in LoginCalls PROVE LoginKnows'
    BY DEF LoginKnows
  <2>1. web' = web /\ web.sessionid \in Sessions
    BY <1>0
  <2> QED BY <1>0, <2>1 DEF LoginKnows, AccountsStay, NamesStay, AppsStay
<1>3. NamedSessionsExpire'
  <2> SUFFICES ASSUME NEW s \in Sessions, hash'[s].username # Nil
               PROVE  \/ ttl'[s]
                      \/ web'.at = "lifecycle" /\ web'.sessionid = s
                      \/ faults' > 0 /\ reply'[s].role = Nil
    BY DEF NamedSessionsExpire
  <2>1. hash[s].username # Nil
    BY DEF NamesStay
  <2>2. CASE ttl[s]
    BY <2>2 DEF NamesStay
  <2>3. CASE web.at = "lifecycle" /\ web.sessionid = s
    BY <1>0, <2>3 DEF LoginKnows, LoginCalls, AppsStay
  <2>4. CASE faults > 0 /\ reply[s].role = Nil
    BY <1>0, <2>4 DEF AppsStay
  <2> QED BY <1>0, <2>1, <2>2, <2>3, <2>4 DEF NamedSessionsExpire
<1> QED BY <1>1, <1>2, <1>3 DEF AccountInv

\* A setHash that writes no user name leaves the sessions' names alone.
LEMMA NamesUnwritten ==
  ASSUME Typed, NEW k \in Keys, NEW w, TypedWrite(w), "username" \notin DOMAIN w,
         NEW r \in Outcomes, SetHash(k, w, r)
  PROVE  NamesStay /\ UNCHANGED users
<1>1. /\ \A j \in Keys \ {k} : hash'[j] = hash[j]
      /\ \A f \in Fields : \/ hash'[k][f] = hash[k][f]
                           \/ f \in DOMAIN w /\ hash'[k][f] = w[f]
  BY SetHashWrites DEF Typed, TypeOK, StoreTypeOK, TypedWrite
<1>2. \A s \in Keys : hash'[s].username = hash[s].username
  BY <1>1 DEF Fields
<1> QED BY <1>2 DEF NamesStay, SetHash, Keys

\* The number of faults never falls, and rises when a call is not done.
LEMMA FaultRises ==
  ASSUME Typed, NEW r, Fault(r)
  PROVE  faults' \in Nat /\ faults' >= faults /\ (r # "done" => faults' > 0)
  BY MaxFaultsType DEF Fault, Typed, TypeOK
\* No step breaks the invariant.
LEMMA NextAccounts == Typed /\ AccountInv /\ [Next]_vars => AccountInv'
<1> SUFFICES ASSUME Typed, AccountInv, [Next]_vars PROVE AccountInv'
  OBVIOUS
<1> USE DEF At
<1>0. /\ TypeOK /\ StoreTypeOK /\ web \in Handlers /\ faults \in Nat
      /\ LoginKnows /\ NamedSessionsExpire
      /\ \A s \in Sessions : SessionKnown(s)
      /\ web.at \in LoginCalls => web.sessionid \in Sessions
  BY MaxFaultsType DEF AccountInv, Typed, TypeOK, LocalsSet, SessionCalls, LoginCalls
<1>i. Idle.at = "idle" /\ Idle.at \notin LoginCalls
  BY DEF Idle, LoginCalls
\* Steps that name no session.
<1>1. CASE UNCHANGED vars
  BY <1>0, <1>1, AccountsKept DEF vars, AccountsStay, NamesStay, AppsStay
<1>2. ASSUME NEW s \in Sessions, SetOrder(s) \/ FinishOrder(s)
      PROVE  AccountInv'
  <2>1. web'.at \in {"createOrder", "namePassenger"} /\ web.at = "idle"
    BY <1>2 DEF SetOrder, FinishOrder, HandleFinish, Idle
  <2>2. UNCHANGED <<hash, ttl, users, reply, faults>> /\ issued \subseteq issued'
    BY <1>2 DEF SetOrder, FinishOrder, HandleFinish
  <2> QED BY <1>0, <2>1, <2>2, AccountsKept DEF LoginCalls, AccountsStay, NamesStay, AppsStay
<1>3. ASSUME NEW s \in Sessions, NEW status \in Statuses, NEW autosend \in {"yes", "no"},
             LocationChanged(s, status, autosend)
      PROVE  AccountInv'
  <2>1. web'.at = "refresh" /\ web.at = "idle"
    BY <1>3 DEF LocationChanged, Idle
  <2>2. UNCHANGED <<hash, ttl, users, reply, faults, issued>>
    BY <1>3 DEF LocationChanged
  <2> QED BY <1>0, <2>1, <2>2, AccountsKept DEF LoginCalls, AccountsStay, NamesStay, AppsStay
<1>4. CASE GetOrderid \/ NamePassenger \/ NameDriver
  <2>1. web'.at \notin LoginCalls /\ web.at \notin LoginCalls
    BY <1>0, <1>4 DEF GetOrderid, NamePassenger, NameDriver, FirstCall, LoginCalls, Handlers
  <2>2. UNCHANGED <<hash, ttl, users, reply, faults, issued>>
    BY <1>4 DEF GetOrderid, NamePassenger, NameDriver
  <2> QED BY <1>0, <2>1, <2>2, AccountsKept DEF AccountsStay, NamesStay, AppsStay
<1>5. CASE AnswerLocation
  <2>1. web'.at \notin LoginCalls /\ web.at \notin LoginCalls
    BY <1>5, <1>i DEF AnswerLocation, LoginCalls
  <2>2. UNCHANGED <<hash, ttl, users, issued>> /\ AppsStay
    BY <1>0, <1>5 DEF AnswerLocation, AppsStay, TypeOK, Replies
  <2>3. faults' \in Nat /\ faults' >= faults
    BY <1>5, FaultRises DEF AnswerLocation
  <2> QED BY <1>0, <2>1, <2>2, <2>3, AccountsKept DEF AccountsStay, NamesStay
<1>6. CASE Abandon
  <2>1. web'.at \notin LoginCalls /\ faults' > 0 /\ faults' \in Nat /\ faults' >= faults
    BY <1>0, <1>6, <1>i DEF Abandon
  <2>2. UNCHANGED <<hash, ttl, users, reply, issued>>
    BY <1>6 DEF Abandon
  <2> QED BY <1>0, <2>1, <2>2, AccountsKept DEF AccountsStay, NamesStay, AppsStay
<1>7. CASE KeyExpires
  <2>1. PICK k \in Keys : Expire(k)
    BY <1>7 DEF KeyExpires
  <2>2. UNCHANGED <<web, users, reply, issued, faults>>
    BY <1>7, <2>1 DEF KeyExpires, Expire
  <2>3. NamesStay
    BY <1>0, <2>1 DEF NamesStay, Expire, EmptyHash, Fields, StoreTypeOK, Keys
  <2> QED BY <1>0, <2>2, <2>3, AccountsKept DEF AccountsStay, AppsStay
<1>8. CASE Refresh \/ RemGeo \/ ListDriver \/ PersistOrder \/ DropOrder
  <2>1. PICK r \in Outcomes :
          /\ Fault(r)
          /\ \/ SetLifecycle(web.sessionid, r) \/ RemZset(web.sessionid, r)
             \/ AddGeo(web.sessionid, r) \/ DeleteKey(web.orderid, r)
             \/ InsertOrder(web.orderid, web.username, web.drivername, r)
    BY <1>8 DEF Refresh, RemGeo, ListDriver, PersistOrder, DropOrder
  <2>2. web'.at \notin LoginCalls /\ web.at \notin LoginCalls
    BY <1>0, <1>8, <1>i DEF Refresh, RemGeo, ListDriver, PersistOrder, DropOrder, AfterRemGeo,
                            Chain, Goto, LoginCalls, Handlers
  <2>3. UNCHANGED <<users, reply, issued>>
    BY <1>8, <2>1 DEF Refresh, RemGeo, ListDriver, PersistOrder, DropOrder, SetLifecycle,
                      RemZset, AddGeo, DeleteKey, InsertOrder
  <2>4. web.orderid \in OrderNames /\ \A s \in Sessions : s # web.orderid
    BY <1>0, NamesApart DEF Handlers, OrderNames
  <2>5. NamesStay
    BY <1>0, <2>1, <2>4 DEF NamesStay, SetLifecycle, RemZset, AddGeo, DeleteKey, InsertOrder,
                            StoreTypeOK, Keys
  <2> QED BY <1>0, <2>1, <2>2, <2>3, <2>5, AccountsKept, FaultRises DEF AccountsStay, AppsStay
<1>9. CASE \/ CreateOrder \/ BindDriver \/ BindPassenger \/ StartOrder \/ SetTemp
           \/ ClearDriver \/ ClearPassenger
  <2>1. PICK r \in Outcomes, k \in Keys,
             w \in {[order_status |-> "INIT", passenger_sessionid |-> web.sessionid,
                     driver_sessionid |-> web.driver],
                    [orderid |-> web.orderid], [orderid |-> NONE],
                    [order_status |-> "ACTIVE"], [ptemp |-> "loc"], [dtemp |-> "loc"]} :
          Fault(r) /\ SetHash(k, w, r) /\ TypedWrite(w)
    BY <1>9, KeysTyped, WritesTyped
       DEF CreateOrder, BindDriver, BindPassenger, StartOrder, SetTemp, ClearDriver,
           ClearPassenger
  <2>2. "username" \notin DOMAIN w
    BY <2>1
  <2>3. web'.at \notin LoginCalls /\ web.at \notin LoginCalls
    BY <1>0, <1>9, <1>i DEF CreateOrder, BindDriver, BindPassenger, StartOrder, SetTemp,
           ClearDriver, ClearPassenger, Chain, Goto, LoginCalls, Handlers
  <2>4. UNCHANGED <<reply, issued>>
    BY <1>9 DEF CreateOrder, BindDriver, BindPassenger, StartOrder, SetTemp, ClearDriver,
                ClearPassenger
  <2>5. NamesStay /\ UNCHANGED users
    BY <2>1, <2>2, NamesUnwritten
  <2> QED BY <1>0, <2>1, <2>3, <2>4, <2>5, AccountsKept, FaultRises DEF AccountsStay, AppsStay
\* A login: the session is new, gets its name, then its lifetime, and then its app.
<1>10. ASSUME NEW u \in Users, NEW role \in Roles, Login(u, role) \/ Reg(u, role)
       PROVE  AccountInv'
  <2>1. /\ web.at = "idle" /\ UNCHANGED <<hash, ttl, reply>> /\ NamesStay /\ AppsStay
        /\ faults' \in Nat /\ faults' >= faults /\ AccountsStay
    <3>1. CASE Login(u, role)
      BY <1>0, <3>1 DEF Login, NamesStay, AppsStay, AccountsStay
    <3>2. CASE Reg(u, role)
      BY <1>0, <3>2, FaultRises DEF Reg, InsertUser, NamesStay, AppsStay, AccountsStay,
                                    StoreTypeOK
    <3> QED BY <1>10, <3>1, <3>2
  <2>2. CASE UNCHANGED <<web, issued>>
    BY <2>1, <2>2, AccountsKept
  <2>3. CASE CreateSession(u, role)
    <3>1. PICK s \in Sessions \ issued :
            /\ issued' = issued \cup {s}
            /\ web' = [Idle EXCEPT !.at = "session", !.role = role, !.sessionid = s,
                                   !.username = u]
      BY <2>3 DEF CreateSession
    <3>2. web'.at = "session" /\ web'.role = role /\ web'.sessionid = s /\ web'.username = u
      BY <3>1 DEF Idle
    <3>3. users'[u] = role
      BY <1>0, <1>10, <3>2 DEF Login, Reg, UserMatches, InsertUser, StoreTypeOK, Executed,
                               Idle
    <3>4. reply[s].role = Nil /\ hash[s].username = Nil
      BY <1>0, <3>1 DEF SessionKnown
    <3>5. LoginKnows'
      BY <2>1, <3>1, <3>2, <3>3, <3>4 DEF LoginKnows, LoginCalls
    <3>6. \A x \in Sessions : SessionKnown(x)'
      BY <1>0, <2>1, <3>1 DEF SessionKnown, NameKept, AccountsStay, TypeOK, Replies, Roles, Nil
    <3>7. NamedSessionsExpire'
      BY <1>0, <2>1, <3>4 DEF NamedSessionsExpire
    <3> QED BY <3>5, <3>6, <3>7 DEF AccountInv
  <2> QED BY <1>10, <2>1, <2>2, <2>3 DEF Login, Reg
<1>11. CASE PutSession
  <2> DEFINE k == web.sessionid
             w == [username |-> web.username, orderid |-> NONE]
  <2>1. PICK r \in Outcomes :
          SetHash(k, w, r) /\ Fault(r) /\ Chain(r = "done", "lifecycle")
    BY <1>11 DEF PutSession
  <2>2. /\ k \in Sessions /\ k \in issued /\ reply[k].role = Nil /\ hash[k].username = Nil
        /\ web.username \in Users /\ web.role \in Roles /\ users[web.username] = web.role
    BY <1>0, <1>11 DEF PutSession, LoginKnows, LoginCalls
  <2>3. TypedWrite(w) /\ w["username"] = web.username
    BY <1>11, WritesTyped DEF PutSession
  <2>4. /\ \A j \in Sessions \ {k} : hash'[j] = hash[j]
        /\ hash'[k].username \in {Nil, web.username}
    <3> HIDE DEF w
    <3> QED BY <1>0, <2>1, <2>2, <2>3, SetHashWrites DEF StoreTypeOK, TypedWrite, Keys, Fields
  <2>5. UNCHANGED <<ttl, users, reply, issued>> /\ faults' \in Nat
    BY <1>11, <2>1, FaultRises DEF PutSession, SetHash
  <2>6. \/ /\ web'.at = "lifecycle" /\ web'.sessionid = k /\ web'.username = web.username
           /\ web'.role = web.role
        \/ web'.at = "idle" /\ faults' > 0
    BY <1>0, <2>1, FaultRises DEF Chain, Goto, Idle, Handlers
  <2>7. LoginKnows'
    BY <2>2, <2>4, <2>5, <2>6 DEF LoginKnows, LoginCalls
  <2>8. \A x \in Sessions : SessionKnown(x)'
    BY <1>0, <2>2, <2>4, <2>5 DEF SessionKnown, NameKept
  <2>9. NamedSessionsExpire'
    <3> SUFFICES ASSUME NEW x \in Sessions, hash'[x].username # Nil
                 PROVE  \/ ttl'[x]
                        \/ web'.at = "lifecycle" /\ web'.sessionid = x
                        \/ faults' > 0 /\ reply'[x].role = Nil
      BY DEF NamedSessionsExpire
    <3>1. CASE x = k
      BY <2>2, <2>5, <2>6, <3>1
    <3>2. CASE x # k
      <4>1. ttl[x] \/ (faults > 0 /\ reply[x].role = Nil)
        BY <1>0, <1>11, <2>4, <3>2 DEF NamedSessionsExpire, PutSession
      <4> QED BY <1>0, <2>1, <2>5, <4>1, FaultRises
    <3> QED BY <3>1, <3>2
  <2> QED BY <2>7, <2>8, <2>9 DEF AccountInv
<1>12. CASE PutLifecycle
  <2> DEFINE k == web.sessionid
  <2>1. PICK r \in Outcomes : /\ SetLifecycle(k, r) /\ Fault(r)
                              /\ Chain(r = "done" /\ Exists(k), "answerSession")
    BY <1>12 DEF PutLifecycle
  <2>2. /\ k \in Sessions /\ k \in issued /\ reply[k].role = Nil
        /\ hash[k].username \in {Nil, web.username}
        /\ web.username \in Users /\ web.role \in Roles /\ users[web.username] = web.role
    BY <1>0, <1>12 DEF PutLifecycle, LoginKnows, LoginCalls
  <2>3. UNCHANGED <<hash, users, reply, issued>> /\ faults' \in Nat /\ faults' >= faults
    BY <1>12, <2>1, FaultRises DEF PutLifecycle, SetLifecycle
  <2>4. /\ \A x \in Sessions : ttl[x] => ttl'[x]
        /\ r = "done" /\ Exists(k) => ttl'[k]
    BY <1>0, <2>1, <2>2 DEF SetLifecycle, StoreTypeOK, Keys, Executed
  <2>5. hash[k].username # Nil => Exists(k)
    BY DEF Exists, EmptyHash, Fields
  <2>6. \/ /\ web'.at = "answerSession" /\ web'.sessionid = k /\ web'.username = web.username
           /\ web'.role = web.role /\ ttl'[k]
        \/ web'.at = "idle" /\ (faults' > 0 \/ hash[k].username = Nil)
    BY <1>0, <2>1, <2>4, <2>5, FaultRises DEF Chain, Goto, Idle, Handlers
  <2>7. LoginKnows'
    BY <2>2, <2>3, <2>6 DEF LoginKnows, LoginCalls
  <2>8. \A x \in Sessions : SessionKnown(x)'
    BY <1>0, <2>3 DEF SessionKnown, NameKept
  <2>9. NamedSessionsExpire'
    BY <1>0, <2>2, <2>3, <2>4, <2>6 DEF NamedSessionsExpire
  <2> QED BY <2>7, <2>8, <2>9 DEF AccountInv
<1>13. CASE AnswerSession
  <2> DEFINE k == web.sessionid
  <2>1. /\ k \in Sessions /\ k \in issued
        /\ hash[k].username \in {Nil, web.username} /\ (hash[k].username # Nil => ttl[k])
        /\ web.username \in Users /\ web.role \in Roles /\ users[web.username] = web.role
    BY <1>0, <1>13 DEF AnswerSession, LoginKnows, LoginCalls
  <2>2. /\ UNCHANGED <<hash, ttl, users, issued, faults>> /\ web'.at = "idle"
        /\ reply'[k].role = web.role /\ reply'[k].username = web.username
        /\ \A x \in Sessions \ {k} : reply'[x] = reply[x]
    BY <1>0, <1>13, <2>1 DEF AnswerSession, Idle, TypeOK
  <2>3. LoginKnows'
    BY <2>2 DEF LoginKnows, LoginCalls
  <2>4. \A x \in Sessions : SessionKnown(x)'
    BY <1>0, <2>1, <2>2 DEF SessionKnown, NameKept
  <2>5. NamedSessionsExpire'
    BY <1>0, <1>13, <2>1, <2>2 DEF NamedSessionsExpire, AnswerSession
  <2> QED BY <2>3, <2>4, <2>5 DEF AccountInv
<1> QED
  BY <1>1, <1>2, <1>3, <1>4, <1>5, <1>6, <1>7, <1>8, <1>9, <1>10, <1>11, <1>12, <1>13 DEF Next

-----------------------------------------------------------------------------
\* Types and what is known of accounts and sessions always hold.
THEOREM AccountsAlways == Spec => []AccountInv
<1>1. Init => AccountInv
  BY InitAccounts
<1>2. Typed /\ AccountInv /\ [Next]_vars => AccountInv'
  BY NextAccounts
<1> QED BY <1>1, <1>2, TypedAlways, PTL DEF Spec

\* Every session that carries a name expires by itself, unless the call that was to see
\* to it failed, and then no app knows the session.
THEOREM NamesExpire == Spec => []NamedSessionsExpire
<1>1. AccountInv => NamedSessionsExpire
  BY DEF AccountInv
<1> QED BY <1>1, AccountsAlways, PTL

\* An app acts in the role that its account was registered with.
THEOREM AccountsMatch == Spec => []SessionsMatchAccounts
<1>1. AccountInv => SessionsMatchAccounts
  BY DEF AccountInv, SessionKnown, SessionsMatchAccounts
<1> QED BY <1>1, AccountsAlways, PTL
=============================================================================

------------------------ MODULE OboDataServer_proofs ------------------------
(***************************************************************************)
(* Proofs about the data server: as long as Redis answers without errors,    *)
(* it implements the commands of OboCommands, for any requests, any number   *)
(* of sessions, orders and users, and any breaks, kills and lost answers.    *)
(***************************************************************************)
EXTENDS OboDataServer, OboStore_proofs

-----------------------------------------------------------------------------
(* The inductive invariant.                                                *)

Shape ==
  job \in [at       : {"answered", "sent", "connect", "exchange", "query", "close",
                       "respond"},
           req      : Requests \cup {NoJob.req},
           executed : Nat, refused : BOOLEAN, arrived : Nat, read : Nat,
           good     : BOOLEAN, values : {job.values}, ret : {0, -1},
           result   : {"none", "ok", "error"}]

\* The commands whose execution cannot fail.
Sure == {"setHash", "getHash", "remZset", "addGeo", "radiusGeo"}

\* A request that is under way: no more replies are read than arrived, no more arrive
\* than commands were executed, and what was not executed to the end has no effect to
\* report.
Progress ==
  /\ job.req \in Requests
  /\ job.result = "none" /\ job.refused = FALSE
  /\ job.executed \in 0..Commands
  /\ job.arrived \in 0..job.executed
  /\ job.read \in 0..job.arrived
  /\ job.good \in BOOLEAN
  /\ job.executed = 0 => ~job.good /\ job.values = <<>>
  /\ job.executed # Commands => ~job.good
  /\ job.executed # 0 /\ job.executed = Commands /\ job.req.cmd \in Sure => job.good

JobInv ==
  /\ Shape
  /\ ~At("answered") => Progress
  /\ At("sent") \/ At("connect") \/ At("query") => job.executed = 0
  /\ At("query") => job.req.cmd \in {"insertUser", "insertOrder", "query"}
  /\ (At("close") \/ At("respond")) /\ job.ret = 0 => job.good

-----------------------------------------------------------------------------
(* Lemmas about requests.                                                  *)

CommandsIn(q) == IF q.cmd \in {"setHash", "getHash"} THEN Len(q.fields) ELSE 1

\* A pipeline has at least one command, any other request exactly one.
LEMMA CommandsCounted ==
  ASSUME NEW q \in Requests
  PROVE  CommandsIn(q) \in Nat /\ CommandsIn(q) > 0
<1>1. CASE q \in SetHashRequests \cup GetHashRequests
  <2>1. q.fields \in {<<"username", "orderid">>, <<"order_status">>, <<"orderid">>,
                     <<"order_status", "passenger_sessionid", "driver_sessionid">>,
                     <<"ptemp">>, <<"dtemp">>, <<"username">>,
                     <<"passenger_sessionid", "driver_sessionid">>}
    BY <1>1 DEF SetHashRequests, GetHashRequests, Request
  <2>2. Len(q.fields) \in {1, 2, 3}
    BY <2>1
  <2>3. CommandsIn(q) = Len(q.fields) \/ CommandsIn(q) = 1
    BY DEF CommandsIn
  <2> QED BY <2>2, <2>3
<1>3. CASE q \in OtherCacheRequests \cup PersistentRequests
  <2>1. q.cmd \notin {"setHash", "getHash"}
    BY <1>3 DEF OtherCacheRequests, PersistentRequests, Request
  <2> QED BY <2>1 DEF CommandsIn
<1> QED BY <1>1, <1>3 DEF Requests, CacheRequests

\* The requests with the command setHash are those of SetHashRequests.
LEMMA SetHashIsSetHash ==
  ASSUME NEW q \in Requests, q.cmd = "setHash"
  PROVE  q \in SetHashRequests
BY DEF Requests, CacheRequests, SetHashRequests, GetHashRequests, OtherCacheRequests,
       PersistentRequests, Request

\* The first n HSETs of a request's pipeline leave what a cut SetHash may leave, and all
\* of them what SetHash leaves when it is done.
LEMMA PipelineWrites ==
  ASSUME NEW q \in SetHashRequests, NEW n \in 1..Len(q.fields), NEW h
  PROVE  [f \in Fields |-> IF \E i \in 1..n : q.fields[i] = f THEN q.write[f] ELSE h[f]]
           = Written(h, q.write, IF n = Len(q.fields) THEN 3 ELSE n)
<1> USE DEF Written, Place, Fields
<1>1. CASE \E s \in Sessions, u \in Users :
             q = Request("setHash", s, <<"username", "orderid">>,
                         [username |-> u, orderid |-> NONE])
  BY <1>1 DEF Request
<1>2. CASE \E o \in Orders, p \in Sessions, d \in Sessions :
             q = Request("setHash", o,
                         <<"order_status", "passenger_sessionid", "driver_sessionid">>,
                         [order_status |-> "INIT", passenger_sessionid |-> p,
                          driver_sessionid |-> d])
  <2>1. Len(q.fields) = 3 /\ n \in {1, 2, 3}
    BY <1>2 DEF Request
  <2>2. PICK p \in Sessions, d \in Sessions :
          /\ q.fields = <<"order_status", "passenger_sessionid", "driver_sessionid">>
          /\ q.write = [order_status |-> "INIT", passenger_sessionid |-> p,
                        driver_sessionid |-> d]
    BY <1>2 DEF Request
  <2> QED BY <2>1, <2>2
<1>3. CASE \E o \in Orders :
             q \in {Request("setHash", o, <<"order_status">>, [order_status |-> "ACTIVE"]),
                    Request("setHash", o, <<"ptemp">>, [ptemp |-> "loc"]),
                    Request("setHash", o, <<"dtemp">>, [dtemp |-> "loc"])}
  BY <1>3 DEF Request
<1>4. CASE \E s \in Sessions, o \in Orders \cup {NONE} :
             q = Request("setHash", s, <<"orderid">>, [orderid |-> o])
  BY <1>4 DEF Request
<1> HIDE DEF Written, Place, Fields
<1> QED BY <1>1, <1>2, <1>3, <1>4 DEF SetHashRequests

-----------------------------------------------------------------------------
(* The invariant is inductive.                                             *)

\* Before the first request there is nothing to keep.
LEMMA JobInvInit == DataInit => JobInv
BY DEF DataInit, NoJob, Request, JobInv, Shape, At

\* What a step leaves alone of a request: what can be seen of it, and its progress.
SameCall ==
  /\ job'.req = job.req /\ job'.result = job.result /\ job'.executed = job.executed
  /\ job'.good = job.good /\ job'.values = job.values
SameProgress ==
  /\ SameCall
  /\ job'.refused = job.refused /\ job'.arrived = job.arrived /\ job'.read = job.read

\* A step that leaves a request alone keeps what is known of its progress.
LEMMA ProgressKept ==
  ASSUME Progress, SameProgress
  PROVE  Progress'
<1>1. Commands' = Commands
  BY DEF SameProgress, SameCall, Commands, Pipelined
<1> QED BY <1>1 DEF Progress, SameProgress, SameCall

\* The steps that only move a request on, or give it up before it is executed.
LEMMA Moved ==
  ASSUME Shape, NEW label \in {"connect", "exchange", "query", "close", "respond"},
         job' = [job EXCEPT !.at = label] \/ job' = [job EXCEPT !.at = label, !.ret = -1]
  PROVE  Shape' /\ SameProgress /\ job'.at = label
BY DEF Shape, SameProgress, SameCall

\* A request that is given up is answered with an error.
LEMMA GivenUp ==
  ASSUME Shape, Progress, NEW label \in {"connect", "exchange", "query", "close", "respond"},
         job' = [job EXCEPT !.at = label, !.ret = -1]
  PROVE  Shape' /\ Progress' /\ job'.at = label /\ job'.ret = -1
<1>1. Shape' /\ SameProgress /\ job'.at = label
  BY Moved
<1>2. job'.ret = -1
  BY DEF Shape
<1> QED BY <1>1, <1>2, ProgressKept

\* The steps that execute a request.
LEMMA ExecutedJob ==
  ASSUME Shape, NEW n \in Nat, NEW m \in Nat, NEW good \in BOOLEAN, NEW values,
         job' = [job EXCEPT !.executed = n, !.arrived = m, !.good = good,
                            !.values = values]
  PROVE  /\ Shape'
         /\ job'.good = good /\ job'.executed = n /\ job'.arrived = m
         /\ job'.values = values /\ job'.req = job.req /\ job'.read = job.read
         /\ job'.at = job.at /\ job'.result = job.result /\ job'.refused = job.refused
BY DEF Shape

\* What a query of MySQL changes of a request.
LEMMA QueriedJob ==
  ASSUME Shape, NEW good \in BOOLEAN, NEW ret \in {0, -1},
         job' = [job EXCEPT !.at = "respond", !.executed = 1, !.good = good, !.ret = ret]
  PROVE  /\ Shape'
         /\ job'.good = good /\ job'.ret = ret /\ job'.at = "respond"
         /\ job'.executed = 1 /\ job'.req = job.req /\ job'.result = job.result
         /\ job'.refused = job.refused /\ job'.arrived = job.arrived
         /\ job'.read = job.read /\ job'.values = job.values
BY DEF Shape

\* What reading a reply changes of a request.
LEMMA ReadJob ==
  ASSUME ReadReply, Shape
  PROVE  /\ job'.read = job.read + 1 /\ Shape'
         /\ job'.at = IF job.read + 1 = Commands THEN "close" ELSE "exchange"
         /\ job'.ret = IF job.read + 1 = Commands THEN Result ELSE job.ret
         /\ job'.req = job.req /\ job'.result = job.result /\ job'.refused = job.refused
         /\ job'.executed = job.executed /\ job'.arrived = job.arrived
         /\ job'.good = job.good /\ job'.values = job.values
<1>1. Result \in {0, -1} /\ job.read + 1 \in Nat
  BY DEF Result, Shape
<1> QED BY <1>1 DEF ReadReply, Shape, At

\* No step of the data server breaks the invariant.
LEMMA JobInvNext ==
  ASSUME ErrorReplies = FALSE, JobInv, [DataNext]_dataVars
  PROVE  JobInv'
<1> USE DEF At
<1>1. CASE Issue
  <2>1. PICK q \in Asked : job' = [NoJob EXCEPT !.at = "sent", !.req = q]
    BY <1>1 DEF Issue
  <2>2. job'.req \in Requests
    BY <2>1, AskedType DEF NoJob
  <2>3. Commands' \in Nat /\ Commands' > 0
    BY <2>2, CommandsCounted DEF Commands, Pipelined, CommandsIn
  <2>4. /\ job'.at = "sent" /\ job'.result = "none" /\ job'.refused = FALSE
        /\ job'.executed = 0 /\ job'.arrived = 0 /\ job'.read = 0
        /\ ~job'.good /\ job'.good \in BOOLEAN /\ job'.values = <<>>
    BY <2>1 DEF NoJob
  <2>5. Shape'
    BY <2>1, <2>2 DEF NoJob, Shape
  <2>6. Progress'
    BY <2>2, <2>3, <2>4 DEF Progress
  <2> QED BY <2>4, <2>5, <2>6 DEF JobInv
<1>2. CASE UNCHANGED job
  BY <1>2 DEF JobInv, Shape, Progress, Commands, Pipelined
<1>3. CASE job' = Fails
  BY <1>3 DEF Fails, JobInv, Shape
<1>4. ASSUME ~At("answered"), Progress
      PROVE  Commands \in Nat /\ Commands > 0
  BY <1>4, CommandsCounted DEF Progress, Commands, Pipelined, CommandsIn
<1>5. CASE Receive
  <2>1. Shape /\ Progress /\ job.executed = 0
    BY <1>5 DEF Receive, ReceiveCache, ReceivePersistent, JobInv
  <2>2. PICK label \in {"connect", "query"} :
          /\ job' = [job EXCEPT !.at = label]
          /\ label = "query" => job.req.cmd \in {"insertUser", "insertOrder", "query"}
    BY <1>5 DEF Receive, ReceiveCache, ReceivePersistent, Persistent
  <2>3. Shape' /\ SameProgress /\ job'.at = label
    BY <2>1, <2>2, Moved
  <2>4. Progress' /\ job'.executed = 0 /\ Pipelined' = Pipelined
    BY <2>1, <2>3, ProgressKept DEF SameProgress, SameCall, Pipelined
  <2> QED BY <2>2, <2>3, <2>4 DEF JobInv
<1>6. CASE Connect
  <2>1. Shape /\ Progress
    BY <1>6 DEF Connect, JobInv
  <2>2. CASE job' = [job EXCEPT !.at = "exchange"]
    <3>1. Shape' /\ SameProgress /\ job'.at = "exchange"
      BY <2>1, <2>2, Moved
    <3> QED BY <2>1, <3>1, ProgressKept DEF JobInv
  <2>3. CASE job' = [job EXCEPT !.at = "close", !.ret = -1]
    <3>1. Shape' /\ Progress' /\ job'.at = "close" /\ job'.ret = -1
      BY <2>1, <2>3, GivenUp
    <3> QED BY <3>1 DEF JobInv
  <2> QED BY <1>6, <2>2, <2>3 DEF Connect
<1>7. CASE Execute
  <2>1. PICK n \in 1..Commands, m \in 0..Commands :
          /\ m <= n
          /\ job' = [job EXCEPT !.executed = n, !.arrived = m,
                                !.good = n = Commands /\ Succeeds(job.req),
                                !.values = Answer(job.req)]
    BY <1>7, ZenonT(30) DEF Execute
  <2>2. Progress /\ Shape /\ At("exchange") /\ job.executed = 0
    BY <1>7 DEF Execute, JobInv
  <2> DEFINE good == n = Commands /\ Succeeds(job.req)
  <2>a. job' = [job EXCEPT !.executed = n, !.arrived = m, !.good = good,
                           !.values = Answer(job.req)] /\ good \in BOOLEAN
    BY <2>1
  <2>3. job'.good = good /\ job'.executed = n
        /\ job'.arrived = m /\ job'.req = job.req /\ job'.read = 0 /\ Shape'
        /\ job'.at = "exchange" /\ job'.result = "none" /\ job'.refused = FALSE
    <3>1. Commands \in Nat /\ n \in Nat /\ m \in Nat
      BY <1>4, <2>2
    <3>2. job.read = 0
      BY <2>2, <3>1 DEF Progress
    <3> HIDE DEF good
    <3> QED BY <2>a, <2>2, <3>1, <3>2, ExecutedJob DEF Progress
  <2>4. Commands' = Commands
    BY <2>3 DEF Commands, Pipelined
  <2>5. job'.good \in BOOLEAN
    BY <2>3
  <2>6. job.req.cmd \in Sure => Succeeds(job.req)
    BY DEF Sure, Succeeds
  <2>7. n = Commands /\ job.req.cmd \in Sure => job'.good
    BY <2>3, <2>6
  <2>8. n # Commands => ~job'.good
    BY <2>3
  <2>9. Progress'
    BY <1>4, <2>1, <2>2, <2>3, <2>4, <2>5, <2>7, <2>8 DEF Progress
  <2> QED BY <2>3, <2>9 DEF JobInv
<1>8. CASE ReadReply
  <2>1. Progress /\ Shape /\ At("exchange") /\ Commands \in Nat
    BY <1>4, <1>8 DEF ReadReply, JobInv
  <2>2. /\ job'.read = job.read + 1 /\ Shape'
        /\ job'.at = IF job.read + 1 = Commands THEN "close" ELSE "exchange"
        /\ job'.ret = IF job.read + 1 = Commands THEN Result ELSE job.ret
        /\ job'.req = job.req /\ job'.result = job.result /\ job'.refused = job.refused
        /\ job'.executed = job.executed /\ job'.arrived = job.arrived
        /\ job'.good = job.good /\ job'.values = job.values
    BY <1>8, <2>1, ReadJob
  <2>3. Progress'
    BY <1>8, <2>1, <2>2 DEF ReadReply, Progress, Commands, Pipelined
  <2>4. job.read + 1 = Commands => job.executed = Commands /\ job.executed # 0
    BY <1>8, <2>1 DEF ReadReply, Progress
  <2>5. job.read + 1 = Commands /\ Result = 0 => job.good
    BY <2>1, <2>4 DEF Result, Progress, Sure
  <2> QED BY <2>2, <2>3, <2>5 DEF JobInv
<1>9. CASE MissReply
  <2>1. \/ job' = [job EXCEPT !.at = "close", !.ret = -1]
        \/ job' = Fails
    BY <1>9 DEF MissReply, Dies
  <2>2. CASE job' = [job EXCEPT !.at = "close", !.ret = -1]
    <3>1. Shape /\ Progress
      BY <1>9 DEF MissReply, JobInv
    <3>2. Shape' /\ Progress' /\ job'.at = "close" /\ job'.ret = -1
      BY <2>2, <3>1, GivenUp
    <3> QED BY <3>2 DEF JobInv
  <2> QED BY <1>3, <2>1, <2>2
<1>10. CASE Query
  <2>1. Progress /\ Shape /\ At("query") /\ Commands = 1 /\ ~Pipelined /\ job.executed = 0
    BY <1>10 DEF NoConnection, Query, JobInv, Commands, Pipelined
  <2>2. CASE job' = [job EXCEPT !.at = "respond", !.ret = -1]
    <3>1. Shape' /\ Progress' /\ job'.at = "respond" /\ job'.ret = -1
      BY <2>1, <2>2, GivenUp
    <3> QED BY <3>1 DEF JobInv
  <2> DEFINE succeeds == Succeeds(job.req)
  <2>3. ASSUME NEW r \in {"done", "cut"},
               job' = [job EXCEPT !.at = "respond", !.executed = 1,
                                  !.good = Succeeds(job.req),
                                  !.ret = IF r = "done" /\ Succeeds(job.req) THEN 0 ELSE -1]
        PROVE  JobInv'
    <3>1. Succeeds(job.req) \in BOOLEAN
      BY DEF Succeeds, Exists, UserMatches
    <3>2. job'.good = succeeds /\ (job'.ret = 0 => succeeds)
          /\ Shape' /\ job'.at = "respond" /\ job'.req = job.req /\ job'.executed = 1
          /\ job'.result = job.result /\ job'.refused = job.refused
          /\ job'.arrived = job.arrived /\ job'.read = job.read
      <4>1. job' = [job EXCEPT !.at = "respond", !.executed = 1, !.good = succeeds,
                               !.ret = IF r = "done" /\ succeeds THEN 0 ELSE -1]
        BY <2>3
      <4>2. succeeds \in BOOLEAN
        BY <3>1
      <4> DEFINE ret == IF r = "done" /\ succeeds THEN 0 ELSE -1
      <4>3. ret \in {0, -1} /\ (ret = 0 => succeeds)
        OBVIOUS
      <4> HIDE DEF succeeds, ret
      <4> QED BY <2>1, <4>1, <4>2, <4>3, QueriedJob DEF ret
    <3>3. job.req.cmd \in Sure => Succeeds(job.req)
      BY DEF Sure, Succeeds
    <3>4. Commands' = 1 /\ ~Pipelined'
      BY <2>1, <3>2 DEF Commands, Pipelined
    <3>5. job'.good \in BOOLEAN /\ (job.req.cmd \in Sure => job'.good)
          /\ (job'.ret = 0 => job'.good)
      BY <3>1, <3>2, <3>3
    <3>6. Progress'
      BY <2>1, <3>2, <3>4, <3>5 DEF Progress
    <3> QED BY <3>2, <3>5, <3>6 DEF JobInv
  <2> QED BY <1>10, <2>2, <2>3 DEF NoConnection, Query
<1>11. CASE Respond
  <2>1. CASE job' = [job EXCEPT !.at = "answered", !.result = "ok"]
    BY <2>1 DEF JobInv, Shape
  <2> QED BY <1>3, <1>11, <2>1 DEF Respond
<1>12. CASE Kill
  BY <1>2, <1>3, <1>12 DEF Kill, Dies
<1>13. CASE Disconnect
  <2>1. Shape /\ Progress /\ (job.ret = 0 => job.good)
    BY <1>13 DEF Disconnect, JobInv
  <2>2. Shape' /\ SameProgress /\ job'.at = "respond" /\ job'.ret = job.ret
    BY <1>13, <2>1, Moved DEF Disconnect, Shape
  <2> QED BY <2>1, <2>2, ProgressKept DEF JobInv, SameProgress, SameCall
<1> QED
  BY <1>1, <1>2, <1>3, <1>5, <1>6, <1>7, <1>8, <1>9, <1>10, <1>11, <1>12, <1>13
  DEF DataNext, Serve, Refuse, AnswerErrors, Break, Restart, KeyExpires, dataVars

-----------------------------------------------------------------------------
(* Every step is one of OboCommands, or none.                              *)

Stutters == UNCHANGED Abstract!commandVars

\* Receiving, connecting and reading replies cannot be told from outside.
LEMMA SameView ==
  ASSUME job.at # "answered", job'.at # "answered", SameCall, Unchanged
  PROVE  Stutters
<1>1. Commands' = Commands
  BY DEF SameCall, Commands, Pipelined
<1>2. CallView' = CallView
  BY <1>1 DEF SameCall, CallView, At
<1> QED BY <1>2 DEF Stutters, Abstract!commandVars, Unchanged

\* The one record with these fields.
Calls(state, req, good, result, values) ==
  [state : {state}, req : {req}, good : {good}, result : {result}, values : {values}]

\* What a caller sees of a request that is under way, and of one that failed.
ViewOf(state, req, good, result, values) ==
  CallView \in Calls(state, req, good, result, values)

\* A request that is not answered yet has no result.
LEMMA UnderWay ==
  ASSUME JobInv, ~At("answered")
  PROVE  ViewOf(IF job.executed = 0 THEN "issued" ELSE "executed", job.req, job.good,
                "none", IF job.executed = Commands THEN job.values ELSE <<>>)
BY DEF JobInv, Progress, At, CallView, ViewOf, Calls

\* A failed call is a failure of the abstract one, at whatever point it comes.
LEMMA FailureReturns ==
  ASSUME JobInv, ~At("answered"), job' = Fails, Unchanged
  PROVE  Abstract!Return
<1> DEFINE state == IF job.executed = 0 THEN "issued" ELSE "executed"
           values == IF job.executed = Commands THEN job.values ELSE <<>>
<1>1. ViewOf(state, job.req, job.good, "none", values) /\ state # "answered"
  BY UnderWay
<1> HIDE DEF state, values
<1>2. /\ job'.at = "answered" /\ job'.req = job.req
      /\ job'.result = "error" /\ job'.values = <<>>
  BY DEF JobInv, Shape, Fails
<1>3. ViewOf("answered", job.req, FALSE, "error", <<>>)'
  <2>1. (job'.result = "ok") = FALSE
    BY <1>2
  <2> QED BY <1>2, <2>1 DEF CallView, ViewOf, Calls, At
<1>4. CallView' = [CallView EXCEPT !.state = "answered", !.good = FALSE,
                                   !.result = "error", !.values = <<>>]
  <2>1. /\ CallView \in Calls(state, job.req, job.good, "none", values)
        /\ CallView' \in Calls("answered", job.req, FALSE, "error", <<>>)
    BY <1>1, <1>2, <1>3 DEF ViewOf
  <2> QED BY <2>1 DEF Calls
<1>5. CallView.state # "answered"
  BY <1>1 DEF ViewOf, Calls
<1> QED BY <1>4, <1>5 DEF Abstract!Return, Abstract!Unchanged, Unchanged

\* The commands of the two levels are the same.
LEMMA SameCommands ==
  ASSUME NEW q, NEW r, Command(q, r)
  PROVE  Abstract!Command(q, r)
BY DEF Command, Abstract!Command, SetHash, Abstract!SetHash, Written, Abstract!Written,
       Place, Abstract!Place, Fields, Abstract!Fields,
       SetLifecycle, Abstract!SetLifecycle, DeleteKey, Abstract!DeleteKey,
       AddGeo, Abstract!AddGeo, RemZset, Abstract!RemZset,
       InsertUser, Abstract!InsertUser, InsertOrder, Abstract!InsertOrder,
       Unchanged, Abstract!Unchanged, Executed, Abstract!Executed,
       Exists, Abstract!Exists, EmptyHash, Abstract!EmptyHash,
       NoRide, Abstract!NoRide, Nil, Abstract!Nil

\* The two levels agree on what a request returns and on whether it succeeds.
LEMMA SameAnswers ==
  ASSUME NEW q
  PROVE  Abstract!Answer(q) = Answer(q) /\ Abstract!Succeeds(q) = Succeeds(q)
<1>1. Abstract!Answer(q) = Answer(q)
  BY DEF Answer, Abstract!Answer
<1>2. Abstract!Exists(q.key) = Exists(q.key)
  BY DEF Exists, Abstract!Exists, EmptyHash, Abstract!EmptyHash, Fields, Abstract!Fields,
         Nil, Abstract!Nil
<1>3. Abstract!UserMatches(q.key, q.write.role) = UserMatches(q.key, q.write.role)
  BY DEF UserMatches, Abstract!UserMatches
<1>4. Abstract!Nil = Nil /\ Abstract!NoRide = NoRide
  BY DEF Nil, Abstract!Nil, NoRide, Abstract!NoRide
<1> QED BY <1>1, <1>2, <1>3, <1>4 DEF Succeeds, Abstract!Succeeds

\* A step that executes a request, in part or to the end, is Perform.
LEMMA Performs ==
  ASSUME JobInv, ~At("answered"), job.executed = 0,
         NEW r \in {"done", "cut"}, Command(job.req, r),
         NEW good \in BOOLEAN, good <=> r = "done" /\ Succeeds(job.req),
         CallView' \in Calls("executed", job.req, good, "none",
                             IF r = "done" THEN Answer(job.req) ELSE <<>>)
  PROVE  Abstract!Perform
<1>1. PICK values : ViewOf("issued", job.req, job.good, "none", values)
  BY UnderWay
<1>2. CallView.state = "issued" /\ CallView.req = job.req
  BY <1>1 DEF ViewOf, Calls
<1> DEFINE read == IF r = "done" THEN Answer(job.req) ELSE <<>>
<1>3. CallView' = [CallView EXCEPT !.state = "executed", !.good = good, !.values = read]
  <2>1. CallView' \in Calls("executed", job.req, good, "none", read)
    OBVIOUS
  <2>2. CallView \in Calls("issued", job.req, job.good, "none", values)
    BY <1>1 DEF ViewOf
  <2> HIDE DEF read
  <2> QED BY <2>1, <2>2 DEF Calls
<1>4. good = (r = "done" /\ Abstract!Succeeds(CallView.req))
  BY <1>2, SameAnswers
<1>5. read = IF r = "done" THEN Abstract!Answer(CallView.req) ELSE <<>>
  BY <1>2, SameAnswers
<1>6. CallView' = [CallView EXCEPT
                     !.state = "executed",
                     !.good = r = "done" /\ Abstract!Succeeds(CallView.req),
                     !.values = IF r = "done" THEN Abstract!Answer(CallView.req) ELSE <<>>]
  BY <1>3, <1>4, <1>5, Zenon
<1>7. Abstract!Command(CallView.req, r)
  BY <1>2, SameCommands
<1> QED BY <1>2, <1>6, <1>7, Zenon DEF Abstract!Perform

\* The pipeline of an HSET request, up to its n-th command, is a SetHash.
LEMMA PipelineIsSetHash ==
  ASSUME NEW n \in 1..Commands, job.req \in Requests, job.req.cmd = "setHash", HSets(n),
         UNCHANGED <<ttl, pool, users, rides>>
  PROVE  Command(job.req, IF n = Commands THEN "done" ELSE "cut")
<1> DEFINE q == job.req
           m == IF n = Len(q.fields) THEN 3 ELSE n
<1>1. q \in SetHashRequests /\ Commands = Len(q.fields)
  BY SetHashIsSetHash DEF Commands, Pipelined
<1>2. Len(q.fields) \in 1..3
  BY <1>1 DEF SetHashRequests, Request
<1>3. hash' = [hash EXCEPT ![q.key] =
                 [f \in Fields |-> IF \E i \in 1..n : q.fields[i] = f
                                   THEN q.write[f] ELSE hash[q.key][f]]]
  BY DEF HSets
<1>4. [f \in Fields |-> IF \E i \in 1..n : q.fields[i] = f
                        THEN q.write[f] ELSE hash[q.key][f]]
        = Written(hash[q.key], q.write, m)
  BY <1>1, PipelineWrites
<1>5. hash' = [hash EXCEPT ![q.key] = Written(hash[q.key], q.write, m)]
  BY <1>3, <1>4
<1>6. /\ m \in 0..3 /\ m > 0
      /\ n = Commands => m = 3
  <2>1. PICK l \in 1..3 : l = Len(q.fields) /\ Commands = l
    BY <1>1, <1>2
  <2>2. l \in 1..3
    OBVIOUS
  <2>4. n \in 1..l
    BY <2>1
  <2>3. m = (IF n = l THEN 3 ELSE n) /\ Commands = l
    BY <2>1
  <2> HIDE DEF m
  <2> QED BY <2>2, <2>3, <2>4
<1> HIDE DEF m
<1>7. SetHash(q.key, q.write, IF n = Commands THEN "done" ELSE "cut")
  <2>1. CASE n = Commands
    BY <1>5, <1>6, <2>1 DEF SetHash
  <2>2. CASE n # Commands
    BY <1>5, <1>6, <2>2 DEF SetHash
  <2> QED BY <2>1, <2>2
<1> QED BY <1>7 DEF Command

\* The two levels know the same requests.
LEMMA SameRequests == Abstract!Requests = Requests
BY DEF Requests, Abstract!Requests, CacheRequests, Abstract!CacheRequests,
       SetHashRequests, Abstract!SetHashRequests, GetHashRequests, Abstract!GetHashRequests,
       OtherCacheRequests, Abstract!OtherCacheRequests,
       PersistentRequests, Abstract!PersistentRequests, Request, Abstract!Request,
       Roles, Abstract!Roles, UserNames, Abstract!UserNames,
       NONE, Abstract!NONE, Nil, Abstract!Nil

\* Every step of the data server is one of OboCommands, or cannot be told from outside.
LEMMA StepImplements ==
  ASSUME ErrorReplies = FALSE, JobInv, JobInv', [DataNext]_dataVars
  PROVE  [Abstract!CommandsNext]_(Abstract!commandVars)
<1> SUFFICES Abstract!CommandsNext \/ Stutters
  BY DEF Stutters
<1> USE DEF At
<1>1. CASE Issue
  <2>1. PICK q \in Asked : job' = [NoJob EXCEPT !.at = "sent", !.req = q]
    BY <1>1 DEF Issue
  <2>2. q \in Abstract!Requests
    BY AskedType, SameRequests
  <2>3. CallView' = [Abstract!NoCall EXCEPT !.state = "issued", !.req = q]
    <3>1. /\ job'.at = "sent" /\ job'.req = q /\ job'.result = "none"
          /\ job'.executed = 0 /\ ~job'.good /\ job'.good \in BOOLEAN /\ job'.values = <<>>
      BY <2>1 DEF NoJob
    <3>2. CallView' \in Calls("issued", q, FALSE, "none", <<>>)
      BY <3>1 DEF CallView, Calls
    <3>3. Abstract!NoCall \in Calls("answered", Abstract!Request("none", Abstract!Nil, <<>>, <<>>),
                                   FALSE, "none", <<>>)
      BY DEF Abstract!NoCall, Calls
    <3> QED BY <3>2, <3>3 DEF Calls
  <2>4. CallView.state = "answered"
    BY <1>1 DEF Issue, CallView
  <2>5. Abstract!Unchanged
    BY <1>1 DEF Issue, Unchanged, Abstract!Unchanged
  <2> QED BY <2>2, <2>3, <2>4, <2>5 DEF Abstract!Issue, Abstract!CommandsNext
<1>2. CASE Unchanged /\ UNCHANGED job
  BY <1>2 DEF Stutters, Unchanged, CallView, Commands, Pipelined, Abstract!commandVars
<1>3. CASE ~At("answered") /\ job' = Fails /\ Unchanged
  BY <1>3, FailureReturns DEF Abstract!CommandsNext
<1>4. CASE Receive
  <2>1. PICK label \in {"connect", "query"} : job' = [job EXCEPT !.at = label]
    BY <1>4 DEF Receive, ReceiveCache, ReceivePersistent
  <2>2. ~At("answered") /\ Unchanged /\ Shape
    BY <1>4 DEF Receive, ReceiveCache, ReceivePersistent, JobInv
  <2>3. SameProgress /\ job'.at = label
    BY <2>1, <2>2, Moved
  <2> QED BY <2>2, <2>3, SameView DEF SameProgress
<1>5. ASSUME ~At("answered"), Unchanged, NEW label \in {"close", "respond"},
             job' = [job EXCEPT !.at = label, !.ret = -1] \/ job' = [job EXCEPT !.at = label]
      PROVE  Stutters
  <2>1. SameProgress /\ job'.at = label
    BY <1>5, Moved DEF JobInv
  <2> QED BY <1>5, <2>1, SameView DEF SameProgress
<1>6. CASE Connect
  <2>1. ~At("answered") /\ Unchanged /\ Shape
    BY <1>6 DEF Connect, JobInv
  <2>2. CASE job' = [job EXCEPT !.at = "exchange"]
    <3>1. SameProgress /\ job'.at = "exchange"
      BY <2>1, <2>2, Moved
    <3> QED BY <2>1, <3>1, SameView DEF SameProgress
  <2> QED BY <1>5, <1>6, <2>1, <2>2 DEF Connect
<1>7. CASE Execute
  <2>1. PICK n \in 1..Commands, m \in 0..Commands :
          /\ IF job.req.cmd = "setHash"
             THEN HSets(n) /\ UNCHANGED <<ttl, pool, users, rides>>
             ELSE Command(job.req, "done")
          /\ job' = [job EXCEPT !.executed = n, !.arrived = m,
                                !.good = n = Commands /\ Succeeds(job.req),
                                !.values = Answer(job.req)]
    BY <1>7, ZenonT(30) DEF Execute
  <2> DEFINE good == n = Commands /\ Succeeds(job.req)
             r == IF n = Commands THEN "done" ELSE "cut"
             read == IF n = Commands THEN Answer(job.req) ELSE <<>>
  <2>2. /\ job.req \in Requests /\ Shape /\ Progress
        /\ ~At("answered") /\ job.at = "exchange" /\ job.executed = 0
    BY <1>7 DEF Execute, JobInv, Progress
  <2>3. good \in BOOLEAN /\ Commands \in Nat /\ Commands > 0
    BY <2>2, CommandsCounted DEF Commands, Pipelined, CommandsIn
  <2>4. /\ job'.good = good /\ job'.executed = n /\ job'.values = Answer(job.req)
        /\ job'.req = job.req /\ job'.at = "exchange" /\ job'.result = "none"
    <3>1. job' = [job EXCEPT !.executed = n, !.arrived = m, !.good = good,
                             !.values = Answer(job.req)]
      BY <2>1
    <3>2. /\ job'.good = good /\ job'.executed = n /\ job'.values = Answer(job.req)
          /\ job'.req = job.req /\ job'.at = job.at /\ job'.result = job.result
      <4> HIDE DEF good
      <4>1. Shape /\ good \in BOOLEAN
        BY <2>2, <2>3
      <4> QED BY <3>1, <4>1 DEF Shape
    <3>3. job.result = "none"
      BY <2>2 DEF Progress
    <3> QED BY <2>2, <3>2, <3>3
  <2>5. Commands' = Commands /\ n # 0
    BY <2>3, <2>4 DEF Commands, Pipelined
  <2>6. CallView' \in Calls("executed", job.req, good, "none", read)
    <3> HIDE DEF good
    <3> QED BY <2>4, <2>5 DEF CallView, Calls
  <2>7. Command(job.req, r)
    <3>1. CASE job.req.cmd = "setHash"
      BY <2>1, <2>2, <3>1, PipelineIsSetHash
    <3>2. CASE job.req.cmd = "getHash"
      BY <2>1, <3>2 DEF Command
    <3>3. CASE job.req.cmd \notin {"setHash", "getHash"}
      <4>1. n = Commands
        BY <3>3 DEF Commands, Pipelined
      <4> QED BY <2>1, <3>3, <4>1
    <3> QED BY <3>1, <3>2, <3>3
  <2>8. r \in {"done", "cut"} /\ (good <=> r = "done" /\ Succeeds(job.req))
        /\ read = IF r = "done" THEN Answer(job.req) ELSE <<>>
    OBVIOUS
  <2> HIDE DEF good, r, read
  <2>9. Abstract!Perform
    BY <2>2, <2>3, <2>6, <2>7, <2>8, Performs
  <2> QED BY <2>9 DEF Abstract!CommandsNext
<1>8. CASE ReadReply
  <2>1. Shape /\ Progress /\ job.at = "exchange" /\ Unchanged
    BY <1>8 DEF ReadReply, JobInv
  <2>2. SameCall
    BY <1>8, <2>1, ReadJob DEF SameCall
  <2>3. job'.at # "answered"
    BY <1>8, <2>1, ReadJob
  <2> QED BY <2>1, <2>2, <2>3, SameView
<1>9. CASE MissReply
  <2>1. ~At("answered") /\ ~At("sent") /\ Unchanged
    BY <1>9 DEF MissReply
  <2>2. \/ job' = [job EXCEPT !.at = "close", !.ret = -1]
        \/ job' = Fails
    BY <1>9, <2>1 DEF MissReply, Dies
  <2> QED BY <1>3, <1>5, <2>1, <2>2
<1>10. CASE Query
  <2>1. ~At("answered") /\ Shape /\ job.executed = 0 /\ job.result = "none" /\ Commands = 1
        /\ job.values = <<>>
    BY <1>10 DEF NoConnection, Query, JobInv, Progress, Commands, Pipelined
  <2>2. CASE job' = [job EXCEPT !.at = "respond", !.ret = -1] /\ Unchanged
    BY <1>5, <2>1, <2>2
  <2>3. ASSUME NEW r \in {"done", "cut"}, Command(job.req, r),
               job' = [job EXCEPT !.at = "respond", !.executed = 1,
                                  !.good = Succeeds(job.req),
                                  !.ret = IF r = "done" /\ Succeeds(job.req) THEN 0 ELSE -1]
        PROVE  Abstract!Perform
    <3> DEFINE good == Succeeds(job.req)
               ret == IF r = "done" /\ good THEN 0 ELSE -1
    <3>1. good \in BOOLEAN /\ ret \in {0, -1}
      BY DEF Succeeds, Exists, UserMatches
    <3>2. job' = [job EXCEPT !.at = "respond", !.executed = 1, !.good = good, !.ret = ret]
      BY <2>3
    <3>3. /\ job'.good = good /\ job'.at = "respond" /\ job'.executed = 1
          /\ job'.req = job.req /\ job'.result = job.result /\ job'.values = job.values
      <4> HIDE DEF good, ret
      <4> QED BY <2>1, <3>1, <3>2, QueriedJob
    <3>4. Commands' = 1
      BY <2>1, <3>3 DEF Commands, Pipelined
    <3>5. CallView' \in Calls("executed", job.req, good, "none", <<>>)
      <4> HIDE DEF good
      <4> QED BY <2>1, <3>3, <3>4 DEF CallView, Calls
    <3>6. job.req.cmd \in {"insertUser", "insertOrder", "query"}
      BY <1>10 DEF NoConnection, Query, JobInv
    <3>7. Command(job.req, "done") /\ Answer(job.req) = <<>>
      BY <2>3, <3>6 DEF Command, InsertUser, InsertOrder, Executed, Answer
    <3> QED BY <1>10, <2>1, <3>1, <3>5, <3>7, Performs DEF NoConnection, Query
  <2> QED BY <1>10, <2>2, <2>3 DEF NoConnection, Query, Abstract!CommandsNext
<1>11. CASE Respond
  <2>1. ~At("answered") /\ ~At("sent") /\ Unchanged /\ Shape
    BY <1>11 DEF Respond, JobInv
  <2>2. CASE job.ret = 0 /\ job' = [job EXCEPT !.at = "answered", !.result = "ok"]
    <3>1. job.good = TRUE /\ job.executed = Commands /\ job.executed # 0
      BY <1>11, <2>2, CommandsCounted
      DEF Respond, JobInv, Progress, Commands, Pipelined, CommandsIn
    <3>2. CallView \in Calls("executed", job.req, TRUE, "none", job.values)
      BY <2>1, <3>1, UnderWay DEF ViewOf
    <3>3. job'.at = "answered" /\ job'.result = "ok" /\ job'.req = job.req
          /\ job'.values = job.values
      BY <2>1, <2>2 DEF Shape
    <3>4. CallView' \in Calls("answered", job.req, TRUE, "ok", job.values)
      BY <3>3 DEF CallView, Calls
    <3>5. CallView' = [CallView EXCEPT !.state = "answered", !.result = "ok"]
      BY <3>2, <3>4 DEF Calls
    <3>6. CallView.state # "answered" /\ CallView.good
      BY <3>2 DEF Calls
    <3> QED BY <2>1, <3>5, <3>6
        DEF Abstract!Return, Abstract!CommandsNext, Abstract!Unchanged, Unchanged
  <2> QED BY <1>3, <1>11, <2>1, <2>2 DEF Respond
<1>12. CASE Kill
  BY <1>2, <1>3, <1>12 DEF Kill, Dies
<1>13. CASE KeyExpires
  <2>1. PICK k \in Keys : Expire(k) /\ UNCHANGED job
    BY <1>13 DEF KeyExpires
  <2>2. k \in Abstract!Keys /\ Abstract!Expire(k)
    BY <2>1 DEF Keys, Abstract!Keys, NONE, Abstract!NONE, Nil, Abstract!Nil, Expire,
                Abstract!Expire, EmptyHash, Abstract!EmptyHash, Fields, Abstract!Fields
  <2>3. CallView' = CallView
    BY <2>1 DEF CallView, Commands, Pipelined
  <2> QED BY <2>2, <2>3 DEF Abstract!Expires, Abstract!CommandsNext
<1>14. CASE Disconnect
  BY <1>5, <1>14 DEF Disconnect
<1> QED
  BY <1>1, <1>2, <1>3, <1>4, <1>5, <1>6, <1>7, <1>8, <1>9, <1>10, <1>11, <1>12, <1>13, <1>14
  DEF DataNext, Serve, Refuse, AnswerErrors, Break, Restart, dataVars, Stutters, Unchanged

\* The data server starts as OboCommands does.
LEMMA InitImplements == DataInit => Abstract!CommandsInit
<1> SUFFICES ASSUME DataInit PROVE Abstract!CommandsInit
  OBVIOUS
<1>1. CallView = Abstract!NoCall
  BY DEF DataInit, NoJob, CallView, At, Abstract!NoCall, Request, Abstract!Request,
         Nil, Abstract!Nil
<1>2. Abstract!StoreInit(Registered)
  BY DEF DataInit, StoreInit, Abstract!StoreInit, Keys, Abstract!Keys, Fields,
         Abstract!Fields, EmptyHash, Abstract!EmptyHash, OrderNames, Abstract!OrderNames,
         NoRide, Abstract!NoRide, NONE, Abstract!NONE, Nil, Abstract!Nil
<1> QED BY <1>1, <1>2 DEF Abstract!CommandsInit

-----------------------------------------------------------------------------
(* The results.                                                            *)

\* As long as Redis answers without errors, what deal_cache.c, deal_persistent.c and
\* redis_op.c do over connections that may break and a process that may die is what
\* remote_store.c may count on: each command happens at most once and at once, in part
\* only if its caller is told of a failure.
THEOREM CommandsImplemented ==
  ASSUME ErrorReplies = FALSE
  PROVE  DataSpec => ImplementsCommands
<1>1. DataInit => JobInv
  BY JobInvInit
<1>2. JobInv /\ [DataNext]_dataVars => JobInv'
  BY JobInvNext
<1>3. JobInv /\ JobInv' /\ [DataNext]_dataVars
        => [Abstract!CommandsNext]_(Abstract!commandVars)
  BY StepImplements
<1>4. DataInit => Abstract!CommandsInit
  BY InitImplements
<1> QED BY <1>1, <1>2, <1>3, <1>4, PTL DEF DataSpec, ImplementsCommands, Abstract!CommandsSpec

-----------------------------------------------------------------------------
(* Type correctness, with error replies and without.                       *)

\* What a request writes is of the kind of the key and of the fields it is written to.
LEMMA RequestsTyped ==
  ASSUME NEW q \in Requests
  PROVE  /\ q.cmd = "setHash" => q.key \in Keys /\ TypedWrite(q.write)
         /\ q.cmd \in {"setLifecycle", "addGeo", "remZset"} => q.key \in Sessions
         /\ q.cmd = "deleteKey" => q.key \in Orders
         /\ q.cmd = "insertUser" => q.key \in Users /\ q.write.role \in Roles
         /\ q.cmd = "insertOrder" => /\ q.key \in Orders /\ q.write.passenger \in UserNames
                                    /\ q.write.driver \in UserNames
<1>1. CASE q.cmd = "setHash"
  <2>1. q \in SetHashRequests
    BY <1>1, SetHashIsSetHash
  <2>2. q.key \in Keys
    BY <2>1 DEF SetHashRequests, Request, Keys
  <2>3. \/ \E u \in Users : q.write = [username |-> u, orderid |-> NONE]
        \/ \E a \in Sessions, b \in Sessions :
             q.write = [order_status |-> "INIT", passenger_sessionid |-> a,
                        driver_sessionid |-> b]
        \/ \E o \in Orders \cup {NONE} : q.write = [orderid |-> o]
        \/ q.write \in {[order_status |-> "ACTIVE"], [ptemp |-> "loc"], [dtemp |-> "loc"]}
    BY <2>1 DEF SetHashRequests, Request
  <2> USE DEF TypedWrite, Fields, Values, UserNames, OrderNames, SessionNames
  <2>4. ASSUME NEW u \in Users, q.write = [username |-> u, orderid |-> NONE]
        PROVE  TypedWrite(q.write)
    BY <2>4
  <2>5. ASSUME NEW a \in Sessions, NEW b \in Sessions,
               q.write = [order_status |-> "INIT", passenger_sessionid |-> a,
                          driver_sessionid |-> b]
        PROVE  TypedWrite(q.write)
    BY <2>5
  <2>6. ASSUME NEW o \in Orders \cup {NONE}, q.write = [orderid |-> o]
        PROVE  TypedWrite(q.write)
    BY <2>6
  <2>7. /\ TypedWrite([order_status |-> "ACTIVE"])
        /\ TypedWrite([ptemp |-> "loc"]) /\ TypedWrite([dtemp |-> "loc"])
    OBVIOUS
  <2> HIDE DEF TypedWrite, Fields, Values, UserNames, OrderNames, SessionNames
  <2> QED BY <1>1, <2>2, <2>3, <2>4, <2>5, <2>6, <2>7
<1>2. CASE q \in OtherCacheRequests
  BY <1>2 DEF OtherCacheRequests, Request
<1>3. CASE q \in PersistentRequests
  BY <1>3 DEF PersistentRequests, Request
<1>4. CASE q \in GetHashRequests
  BY <1>4 DEF GetHashRequests, Request
<1>5. CASE q \in SetHashRequests
  BY <1>1, <1>5 DEF SetHashRequests, Request
<1> QED BY <1>2, <1>3, <1>4, <1>5 DEF Requests, CacheRequests

\* The execution of a request leaves the databases typed.
LEMMA CommandTyped ==
  ASSUME StoreTypeOK, NEW q \in Requests, NEW r \in Outcomes, Command(q, r)
  PROVE  StoreTypeOK'
<1>1. CASE q.cmd = "setHash"
  BY <1>1, RequestsTyped, SetHashTyped DEF Command
<1>2. CASE q.cmd \in {"setLifecycle", "deleteKey"}
  <2>1. q.key \in Keys /\ (SetLifecycle(q.key, r) \/ DeleteKey(q.key, r))
    BY <1>2, RequestsTyped DEF Command, Keys
  <2> QED BY <2>1, KeyCommandsTyped
<1>3. CASE q.cmd \in {"addGeo", "remZset"}
  <2>1. q.key \in Sessions /\ (AddGeo(q.key, r) \/ RemZset(q.key, r))
    BY <1>3, RequestsTyped DEF Command
  <2> QED BY <2>1, PoolCommandsTyped
<1>4. CASE q.cmd \in {"insertUser", "insertOrder"}
  <2>1. \/ q.key \in Users /\ q.write.role \in Roles /\ InsertUser(q.key, q.write.role, r)
        \/ /\ q.key \in OrderNames /\ q.write.passenger \in UserNames
           /\ q.write.driver \in UserNames
           /\ InsertOrder(q.key, q.write.passenger, q.write.driver, r)
    BY <1>4, RequestsTyped DEF Command, OrderNames
  <2> QED BY <2>1, RowsTyped
<1>5. CASE q.cmd \in {"getHash", "existKey", "radiusGeo", "query"}
  BY <1>5 DEF Command, Unchanged, StoreTypeOK, WellTyped
<1> QED BY <1>1, <1>2, <1>3, <1>4, <1>5 DEF Command

\* A request has a number of commands; replies arrive to what was executed or refused, no
\* more than there are commands, and no more are read than arrived.
Counted ==
  /\ Shape
  /\ ~At("answered") => job.req \in Requests
  /\ Commands \in Nat
  /\ job.read <= job.arrived /\ job.arrived <= Commands
  /\ job.executed = 0 /\ ~job.refused => job.arrived = 0

DataTypes ==
  /\ StoreTypeOK /\ Counted
  /\ process \in {"up", "killed", "crashed"}
  /\ link \in {"none", "open", "broken"}

\* The counts stay when a step leaves the request and its replies alone.
LEMMA CountsKept ==
  ASSUME Counted, Shape', ~At("answered")' => ~At("answered"), job'.req = job.req,
         job'.arrived = job.arrived, job'.read = job.read, job'.refused = job.refused,
         job'.executed # 0 \/ job'.executed = job.executed
  PROVE  Counted'
<1>1. Commands' = Commands
  BY DEF Commands, Pipelined
<1>2. job.executed \in Nat
  BY DEF Counted, Shape
<1> QED BY <1>1, <1>2 DEF Counted

\* No step of the data server breaks the counts.
LEMMA CountedNext ==
  ASSUME Counted, [DataNext]_dataVars
  PROVE  Counted'
<1> USE DEF At
<1>0. Shape
  BY DEF Counted
<1>1. CASE Issue
  <2>1. PICK q \in Asked : job' = [NoJob EXCEPT !.at = "sent", !.req = q]
    BY <1>1 DEF Issue
  <2>2. job'.req \in Requests /\ Shape' /\ job'.arrived = 0 /\ job'.read = 0
    BY <2>1, AskedType DEF NoJob, Shape
  <2>3. Commands' \in Nat /\ Commands' > 0
    BY <2>2, CommandsCounted DEF Commands, Pipelined, CommandsIn
  <2> QED BY <2>2, <2>3 DEF Counted
<1>2. CASE UNCHANGED job
  BY <1>2 DEF Counted, Shape, Commands, Pipelined
<1>3. CASE job' = Fails
  <2>1. /\ Shape' /\ job'.at = "answered" /\ job'.req = job.req /\ job'.arrived = job.arrived
        /\ job'.read = job.read /\ job'.refused = job.refused
        /\ job'.executed = job.executed
    BY <1>0, <1>3 DEF Fails, Shape
  <2> QED BY <2>1, CountsKept
<1>4. ASSUME NEW label \in {"connect", "exchange", "query", "close", "respond"}, ~At("answered"),
             \/ job' = [job EXCEPT !.at = label]
             \/ job' = [job EXCEPT !.at = label, !.ret = -1]
      PROVE  Counted'
  BY <1>0, <1>4, Moved, CountsKept DEF SameProgress, SameCall
<1>5. CASE Receive
  BY <1>4, <1>5 DEF Receive, ReceiveCache, ReceivePersistent
<1>6. CASE Connect
  BY <1>4, <1>6 DEF Connect
<1>7. CASE Execute
  <2>1. PICK n \in 1..Commands, m \in 0..Commands :
          /\ m <= n
          /\ job' = [job EXCEPT !.executed = n, !.arrived = m,
                                !.good = n = Commands /\ Succeeds(job.req),
                                !.values = Answer(job.req)]
    BY <1>7, ZenonT(30) DEF Execute
  <2> DEFINE good == n = Commands /\ Succeeds(job.req)
  <2>2. job' = [job EXCEPT !.executed = n, !.arrived = m, !.good = good,
                           !.values = Answer(job.req)] /\ good \in BOOLEAN
    BY <2>1
  <2>3. /\ job.at = "exchange" /\ job.executed = 0 /\ ~job.refused
        /\ Commands \in Nat /\ n \in Nat /\ m \in Nat /\ n # 0
    BY <1>7, <2>1 DEF Execute, Counted
  <2>4. job.read = 0
    BY <1>0, <2>3 DEF Counted, Shape
  <2> HIDE DEF good
  <2>5. /\ Shape' /\ job'.executed = n /\ job'.arrived = m /\ job'.req = job.req
        /\ job'.read = job.read /\ job'.at = job.at /\ job'.refused = job.refused
    BY <1>0, <2>2, <2>3, ExecutedJob
  <2>6. Commands' = Commands
    BY <2>5 DEF Commands, Pipelined
  <2> QED BY <2>1, <2>3, <2>4, <2>5, <2>6 DEF Counted
<1>8. CASE AnswerErrors
  <2>1. PICK m \in 0..Commands :
          job' = [job EXCEPT !.refused = TRUE, !.arrived = m,
                             !.values = [i \in 1..Len(job.req.fields) |-> ErrorText]]
    BY <1>8 DEF AnswerErrors
  <2>2. job.at = "exchange" /\ job.executed = 0 /\ ~job.refused /\ m \in Nat
    BY <1>8, <2>1 DEF AnswerErrors, Counted
  <2>3. job.read = 0
    BY <1>0, <2>2 DEF Counted, Shape
  <2>4. /\ Shape' /\ job'.refused /\ job'.arrived = m /\ job'.req = job.req
        /\ job'.read = job.read /\ job'.at = job.at
    BY <1>0, <2>1, <2>2 DEF Shape
  <2>5. Commands' = Commands
    BY <2>4 DEF Commands, Pipelined
  <2> QED BY <2>1, <2>2, <2>3, <2>4, <2>5 DEF Counted
<1>9. CASE ReadReply
  <2>1. /\ Shape' /\ job'.read = job.read + 1 /\ job'.req = job.req
        /\ job'.arrived = job.arrived /\ job'.refused = job.refused
        /\ job'.executed = job.executed /\ job.at = "exchange" /\ job.read < job.arrived
    BY <1>0, <1>9, ReadJob DEF ReadReply
  <2>2. Commands' = Commands
    BY <2>1 DEF Commands, Pipelined
  <2>3. job.read \in Nat /\ job.arrived \in Nat
    BY <1>0 DEF Shape
  <2> QED BY <2>1, <2>2, <2>3 DEF Counted
<1>10. CASE MissReply
  <2>1. job' = [job EXCEPT !.at = "close", !.ret = -1] \/ job' = Fails
    BY <1>10 DEF MissReply, Dies
  <2> QED BY <1>3, <1>4, <1>10, <2>1 DEF MissReply
<1>11. CASE Query
  <2>1. CASE job' = [job EXCEPT !.at = "respond", !.ret = -1]
    BY <1>4, <1>11, <2>1 DEF Query
  <2>2. ASSUME NEW r \in {"done", "cut"},
               job' = [job EXCEPT !.at = "respond", !.executed = 1,
                                  !.good = Succeeds(job.req),
                                  !.ret = IF r = "done" /\ Succeeds(job.req) THEN 0 ELSE -1]
        PROVE  Counted'
    <3> DEFINE good == Succeeds(job.req)
               ret == IF r = "done" /\ good THEN 0 ELSE -1
    <3>1. good \in BOOLEAN /\ ret \in {0, -1}
      BY DEF Succeeds, Exists, UserMatches
    <3>2. job' = [job EXCEPT !.at = "respond", !.executed = 1, !.good = good, !.ret = ret]
      BY <2>2
    <3> HIDE DEF good, ret
    <3>3. /\ Shape' /\ job'.executed = 1 /\ job'.req = job.req /\ job'.refused = job.refused
          /\ job'.arrived = job.arrived /\ job'.read = job.read
      BY <1>0, <3>1, <3>2, QueriedJob
    <3>4. ~At("answered")
      BY <1>11 DEF Query
    <3> QED BY <3>3, <3>4, CountsKept
  <2> QED BY <1>11, <2>1, <2>2 DEF Query, NoConnection
<1>12. CASE Respond
  <2>1. CASE job' = [job EXCEPT !.at = "answered", !.result = "ok"]
    <3>1. /\ Shape' /\ job'.at = "answered" /\ job'.req = job.req
          /\ job'.arrived = job.arrived /\ job'.read = job.read
          /\ job'.refused = job.refused /\ job'.executed = job.executed
      BY <1>0, <2>1 DEF Shape
    <3> QED BY <3>1, CountsKept
  <2> QED BY <1>3, <1>12, <2>1 DEF Respond
<1>13. CASE Kill
  BY <1>2, <1>3, <1>13 DEF Kill, Dies
<1>14. CASE Disconnect
  BY <1>4, <1>14 DEF Disconnect
<1> QED
  BY <1>1, <1>2, <1>3, <1>5, <1>6, <1>7, <1>8, <1>9, <1>10, <1>11, <1>12, <1>13, <1>14
  DEF DataNext, Serve, Refuse, Break, Restart, KeyExpires, dataVars

\* No step of the data server leaves a value of the wrong kind in the databases.
LEMMA StoreTypedNext ==
  ASSUME DataTypes, [DataNext]_dataVars
  PROVE  StoreTypeOK'
<1>0. StoreTypeOK /\ Counted
  BY DEF DataTypes
<1>1. CASE Unchanged
  BY <1>0, <1>1 DEF Unchanged, StoreTypeOK, WellTyped
<1>2. CASE Execute
  <2>1. PICK n \in 1..Commands :
          IF job.req.cmd = "setHash"
          THEN HSets(n) /\ UNCHANGED <<ttl, pool, users, rides>>
          ELSE Command(job.req, "done")
    BY <1>2, ZenonT(30) DEF Execute
  <2>2. job.req \in Requests
    BY <1>0, <1>2 DEF Execute, Counted, At
  <2>3. PICK r \in {"done", "cut"} : Command(job.req, r)
    BY <2>1, <2>2, PipelineIsSetHash
  <2> QED BY <1>0, <2>2, <2>3, CommandTyped DEF Outcomes
<1>3. CASE Query
  <2>1. Unchanged \/ \E r \in {"done", "cut"} : Command(job.req, r)
    BY <1>3 DEF Query, NoConnection
  <2>2. job.req \in Requests
    BY <1>0, <1>3 DEF Query, Counted, At
  <2> QED BY <1>0, <1>1, <2>1, <2>2, CommandTyped DEF Outcomes
<1>4. CASE KeyExpires
  BY <1>0, <1>4, KeyCommandsTyped DEF KeyExpires
<1> QED
  BY <1>1, <1>2, <1>3, <1>4
  DEF DataNext, Serve, Issue, Receive, ReceiveCache, ReceivePersistent, Refuse, Connect,
      AnswerErrors, Break, ReadReply, MissReply, Disconnect, Respond, Kill, Restart, dataVars, Unchanged

\* The connection and the process are in one of their states.
LEMMA LinkNext ==
  ASSUME DataTypes, [DataNext]_dataVars
  PROVE  process' \in {"up", "killed", "crashed"} /\ link' \in {"none", "open", "broken"}
<1> USE DEF DataTypes
<1>1. CASE Execute \/ AnswerErrors
  BY <1>1 DEF Execute, AnswerErrors, Replies
<1>2. CASE MissReply \/ Kill
  BY <1>2 DEF MissReply, Kill, Dies
<1>3. CASE \/ UNCHANGED dataVars \/ Issue \/ Receive \/ Refuse \/ Connect \/ Break
           \/ ReadReply \/ Disconnect \/ Query \/ Respond \/ Restart \/ KeyExpires
  BY <1>3 DEF dataVars, Issue, Receive, ReceiveCache, ReceivePersistent, Refuse, Connect,
       Break, ReadReply, Disconnect, Query, Respond, Restart, KeyExpires
<1> QED BY <1>1, <1>2, <1>3 DEF DataNext, Serve

\* Whatever fails, and whatever Redis answers, every entry of the databases is of its kind
\* and no function of redis_op.c reads more replies than arrived or than it asked for.
THEOREM DataTypeCorrect == DataSpec => []DataTypeOK
<1>1. DataInit => DataTypes
  <2> SUFFICES ASSUME DataInit PROVE DataTypes
    OBVIOUS
  <2>1. StoreTypeOK
    BY StoreInitTyped, RegisteredType DEF DataInit
  <2>2. Counted
    BY DEF DataInit, NoJob, Request, Counted, Shape, Commands, Pipelined, At
  <2> QED BY <2>1, <2>2 DEF DataTypes, DataInit
<1>2. DataTypes /\ [DataNext]_dataVars => DataTypes'
  BY CountedNext, StoreTypedNext, LinkNext DEF DataTypes
<1>3. DataTypes => DataTypeOK
  BY DEF DataTypes, Counted, Shape, DataTypeOK
<1> QED BY <1>1, <1>2, <1>3, PTL DEF DataSpec
-----------------------------------------------------------------------------
(* What "ok" means, with error replies and without.                        *)

Okay == job.good \/ (job.refused /\ HidesErrors)
Leaving == job.at \in {"close", "respond"}

\* Replies that arrive are those of executed commands, or of refused ones, and no more are
\* executed than there are; an exchange that was executed to its end succeeded if it cannot fail; what leaves with 0 is Okay.
OkInv ==
  /\ Counted
  /\ job.at # "answered" => job.result = "none"
  /\ job.at \in {"sent", "connect", "query"} => job.executed = 0 /\ ~job.refused
  /\ ~job.refused => job.arrived <= job.executed
  /\ job.executed <= Commands
  /\ /\ job.at # "answered" /\ job.executed # 0 /\ job.executed = Commands
     /\ job.req.cmd \in Sure
     => job.good
  /\ Leaving /\ job.ret = 0 => Okay
  /\ job.result = "ok" => Okay

\* A step that only moves a request on keeps it.
LEMMA OkKept ==
  ASSUME OkInv, Counted', job.at # "answered", job'.at # "answered", SameProgress,
         job'.at \in {"sent", "connect", "query"} => job.executed = 0 /\ ~job.refused,
         job'.at \in {"close", "respond"} => job'.ret = -1 \/ (job'.ret = job.ret /\ Leaving)
  PROVE  OkInv'
<1>1. Commands' = Commands /\ HidesErrors' = HidesErrors
  BY DEF SameProgress, SameCall, Commands, Pipelined, HidesErrors
<1>2. Okay' = Okay
  BY <1>1 DEF Okay, SameProgress, SameCall
<1> QED BY <1>1, <1>2 DEF OkInv, SameProgress, SameCall, Leaving

\* No step of the data server breaks it.
LEMMA OkNext ==
  ASSUME OkInv, [DataNext]_dataVars
  PROVE  OkInv'
<1>0. Counted' /\ Counted /\ Shape
  BY CountedNext DEF OkInv, Counted
<1>1. CASE Issue
  <2>1. PICK q \in Asked : job' = [NoJob EXCEPT !.at = "sent", !.req = q]
    BY <1>1 DEF Issue
  <2>2. /\ job'.at = "sent" /\ job'.result = "none" /\ job'.executed = 0 /\ ~job'.refused
        /\ job'.arrived = 0
    BY <2>1 DEF NoJob
  <2>3. Commands' \in Nat /\ Commands' >= 0
    BY <1>0 DEF Counted
  <2> QED BY <1>0, <2>2, <2>3 DEF OkInv, Leaving
<1>2. CASE UNCHANGED job
  BY <1>0, <1>2 DEF OkInv, Leaving, Okay, HidesErrors, Commands, Pipelined
<1>3. CASE job' = Fails
  <2>1. /\ job'.at = "answered" /\ job'.result = "error" /\ job'.refused = job.refused
        /\ job'.arrived = job.arrived /\ job'.executed = job.executed
    BY <1>0, <1>3 DEF Fails, Shape
  <2>2. Commands' = Commands
    BY <1>0, <1>3 DEF Fails, Shape, Commands, Pipelined
  <2> QED BY <1>0, <2>1, <2>2 DEF OkInv, Leaving
<1>4. ASSUME job.at # "answered",
             NEW label \in {"connect", "exchange", "query", "close", "respond"},
             label \in {"connect", "query"} => job.executed = 0 /\ ~job.refused,
             \/ /\ job' = [job EXCEPT !.at = label]
                /\ label \in {"close", "respond"} => Leaving
             \/ job' = [job EXCEPT !.at = label, !.ret = -1]
      PROVE  OkInv'
  <2>1. SameProgress /\ job'.at = label
    BY <1>0, <1>4, Moved
  <2>2. label \in {"close", "respond"} => job'.ret = -1 \/ (job'.ret = job.ret /\ Leaving)
    BY <1>0, <1>4 DEF Shape
  <2> QED BY <1>0, <1>4, <2>1, <2>2, OkKept
<1>5. CASE Receive
  BY <1>4, <1>5 DEF Receive, ReceiveCache, ReceivePersistent, OkInv, At
<1>6. CASE Connect
  BY <1>4, <1>6 DEF Connect, At
<1>7. CASE Execute
  <2>1. PICK n \in 1..Commands, m \in 0..Commands :
          /\ m <= n
          /\ job' = [job EXCEPT !.executed = n, !.arrived = m,
                                !.good = n = Commands /\ Succeeds(job.req),
                                !.values = Answer(job.req)]
    BY <1>7, ZenonT(30) DEF Execute
  <2> DEFINE good == n = Commands /\ Succeeds(job.req)
  <2>2. job' = [job EXCEPT !.executed = n, !.arrived = m, !.good = good,
                           !.values = Answer(job.req)] /\ good \in BOOLEAN
    BY <2>1
  <2>3. /\ job.at = "exchange" /\ ~job.refused
        /\ Commands \in Nat /\ n \in Nat /\ m \in Nat
    BY <1>0, <1>7, <2>1 DEF Execute, Counted, At
  <2>4. n = Commands /\ job.req.cmd \in Sure => good
    BY DEF Sure, Succeeds
  <2> HIDE DEF good
  <2>5. /\ job'.executed = n /\ job'.arrived = m /\ job'.req = job.req /\ job'.good = good
        /\ job'.at = "exchange" /\ job'.refused = job.refused /\ job'.result = job.result
    BY <1>0, <2>2, <2>3, ExecutedJob
  <2>6. Commands' = Commands
    BY <2>5 DEF Commands, Pipelined
  <2> QED BY <1>0, <2>1, <2>3, <2>4, <2>5, <2>6 DEF OkInv, Leaving
<1>8. CASE AnswerErrors
  <2>1. PICK m \in 0..Commands :
          job' = [job EXCEPT !.refused = TRUE, !.arrived = m,
                             !.values = [i \in 1..Len(job.req.fields) |-> ErrorText]]
    BY <1>8 DEF AnswerErrors
  <2>2. job.at = "exchange" /\ job.executed = 0
    BY <1>8 DEF AnswerErrors, At
  <2>3. /\ job'.refused /\ job'.at = "exchange" /\ job'.executed = 0
        /\ job'.result = job.result
    BY <1>0, <2>1, <2>2 DEF Shape
  <2>4. Commands' = Commands
    BY <1>0, <2>1 DEF Shape, Commands, Pipelined
  <2> QED BY <1>0, <2>2, <2>3, <2>4 DEF OkInv, Leaving
<1>9. CASE ReadReply
  <2>1. /\ job'.at = IF job.read + 1 = Commands THEN "close" ELSE "exchange"
        /\ job'.ret = IF job.read + 1 = Commands THEN Result ELSE job.ret
        /\ job'.req = job.req /\ job'.result = job.result /\ job'.refused = job.refused
        /\ job'.executed = job.executed /\ job'.arrived = job.arrived
        /\ job'.good = job.good /\ job.at = "exchange" /\ job.read < job.arrived
    BY <1>0, <1>9, ReadJob DEF ReadReply, At
  <2>2. /\ Commands' = Commands /\ HidesErrors' = HidesErrors
        /\ Okay' = (job.good \/ (job.refused /\ HidesErrors))
    BY <2>1 DEF Commands, Pipelined, HidesErrors, Okay
  <2>3. /\ job.read \in Nat /\ job.arrived \in Nat /\ job.executed \in Nat
        /\ Commands \in Nat /\ job.arrived <= Commands
    BY <1>0 DEF Shape, Counted
  <2>4. job.read + 1 = Commands => job.arrived = Commands
    BY <2>1, <2>3
  <2>5. ASSUME job.read + 1 = Commands, Result = 0
        PROVE  Okay
    <3>1. CASE job.refused
      BY <2>5, <3>1 DEF Result, Okay, HidesErrors
    <3>2. CASE ~job.refused
      <4>1. job.executed # 0 /\ (job.executed <= Commands => job.executed = Commands)
        BY <2>1, <2>3, <2>4, <2>5, <3>2 DEF OkInv
      <4>2. job.executed <= Commands
        BY DEF OkInv
      <4> QED BY <2>1, <2>5, <4>1, <4>2 DEF OkInv, Result, Sure, Okay
    <3> QED BY <3>1, <3>2
  <2> QED BY <1>0, <2>1, <2>2, <2>5 DEF OkInv, Leaving, Okay
<1>10. CASE MissReply
  <2>1. job' = [job EXCEPT !.at = "close", !.ret = -1] \/ job' = Fails
    BY <1>10 DEF MissReply, Dies, At
  <2> QED BY <1>3, <1>4, <1>10, <2>1 DEF MissReply, At
<1>11. CASE Query
  <2>1. CASE job' = [job EXCEPT !.at = "respond", !.ret = -1]
    BY <1>4, <1>11, <2>1 DEF Query, At
  <2>2. ASSUME NEW r \in {"done", "cut"},
               job' = [job EXCEPT !.at = "respond", !.executed = 1,
                                  !.good = Succeeds(job.req),
                                  !.ret = IF r = "done" /\ Succeeds(job.req) THEN 0 ELSE -1]
        PROVE  OkInv'
    <3> DEFINE good == Succeeds(job.req)
               ret == IF r = "done" /\ good THEN 0 ELSE -1
    <3>0. good \in BOOLEAN
      BY DEF Succeeds, Exists, UserMatches
    <3>1. ret \in {0, -1} /\ (ret = 0 => good)
      <4> HIDE DEF good
      <4> QED OBVIOUS
    <3>2. job' = [job EXCEPT !.at = "respond", !.executed = 1, !.good = good, !.ret = ret]
      BY <2>2
    <3>3. job.req.cmd \in Sure => good
      BY DEF Sure, Succeeds
    <3> HIDE DEF good, ret
    <3>4. /\ job'.executed = 1 /\ job'.req = job.req /\ job'.refused = job.refused
          /\ job'.arrived = job.arrived /\ job'.at = "respond" /\ job'.good = good
          /\ job'.ret = ret /\ job'.result = job.result
      BY <1>0, <3>0, <3>1, <3>2, QueriedJob
    <3>5. job.at = "query" /\ job.executed = 0 /\ ~job.refused /\ job.arrived = 0
          /\ job.result = "none"
      BY <1>11 DEF Query, At, OkInv, Counted
    <3>6. Commands' \in Nat /\ Commands' > 0
      BY <1>0, <3>4, CommandsCounted DEF Counted, Commands, Pipelined, CommandsIn, At
    <3>7. 1 <= Commands' /\ job'.arrived <= 1
      BY <3>4, <3>5, <3>6
    <3>8. job'.ret = 0 => job'.good
      BY <3>1, <3>4
    <3>9. job'.req.cmd \in Sure => job'.good
      BY <3>3, <3>4
    <3> QED BY <1>0, <3>4, <3>5, <3>7, <3>8, <3>9 DEF OkInv, Leaving, Okay
  <2> QED BY <1>11, <2>1, <2>2 DEF Query, NoConnection
<1>12. CASE Respond
  <2>1. CASE job.ret = 0 /\ job' = [job EXCEPT !.at = "answered", !.result = "ok"]
    <3>1. /\ job'.at = "answered" /\ job'.req = job.req /\ job'.good = job.good
          /\ job'.arrived = job.arrived /\ job'.refused = job.refused
          /\ job'.executed = job.executed
      BY <1>0, <2>1 DEF Shape
    <3>3. Commands' = Commands
      BY <3>1 DEF Commands, Pipelined
    <3>2. Okay /\ Okay' = Okay
      BY <1>12, <2>1, <3>1 DEF Respond, At, OkInv, Leaving, Okay, HidesErrors
    <3> QED BY <1>0, <3>1, <3>2, <3>3 DEF OkInv, Leaving
  <2> QED BY <1>3, <1>12, <2>1 DEF Respond
<1>13. CASE Kill
  BY <1>2, <1>3, <1>13 DEF Kill, Dies
<1>14. CASE Disconnect
  BY <1>4, <1>14 DEF Disconnect, Leaving, At
<1> QED
  BY <1>1, <1>2, <1>3, <1>5, <1>6, <1>7, <1>8, <1>9, <1>10, <1>11, <1>12, <1>13, <1>14
  DEF DataNext, Serve, Refuse, Break, Restart, KeyExpires, dataVars

\* Whatever breaks, and whatever Redis answers, "ok" means that the request was executed to
\* its end, unless Redis refused it and the function does not look: deal_cache_setHash,
\* deal_cache_getHash and deal_cache_remZset are the only ones that do not.
THEOREM OkIsDone == DataSpec => []OkIsDoneOrHidden
<1>1. DataInit => OkInv
  <2> SUFFICES ASSUME DataInit PROVE OkInv
    OBVIOUS
  <2>1. Counted
    BY DEF DataInit, NoJob, Request, Counted, Shape, Commands, Pipelined, At
  <2>2. Commands \in Nat /\ Commands >= 0
    BY <2>1 DEF Counted
  <2> QED BY <2>1, <2>2 DEF DataInit, NoJob, Request, OkInv, Leaving, Sure
<1>2. OkInv /\ [DataNext]_dataVars => OkInv'
  BY OkNext
<1>3. OkInv => OkIsDoneOrHidden
  BY DEF OkInv, Okay, OkIsDoneOrHidden
<1> QED BY <1>1, <1>2, <1>3, PTL DEF DataSpec
=============================================================================

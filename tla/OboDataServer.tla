---------------------------- MODULE OboDataServer ----------------------------
(***************************************************************************)
(* The data server (OBO_server_data): one single-threaded evhttp loop that   *)
(* serves one request of the web server at a time.  A /cache request opens   *)
(* its own connection to Redis, sends one command or a pipeline of them,     *)
(* reads the replies one by one, closes the connection and answers; a        *)
(* /persistent request makes one MySQL query.  Redis, the connection to it   *)
(* and the process may die at any moment.                                    *)
(***************************************************************************)
EXTENDS OboRequests, Integers

CONSTANTS
  Registered,   \* accounts that exist at the start
  Asked,        \* bound: the requests that the web server sends
  ErrorReplies  \* whether Redis may answer a command with an error (LOADING, MISCONF, OOM)

ASSUME RegisteredType == Registered \in [Users -> Roles \cup {Nil}]
ASSUME AskedType == Asked \subseteq Requests
ASSUME ErrorRepliesType == ErrorReplies \in BOOLEAN

VARIABLES
  process,      \* "up", "killed" or "crashed"
  link,         \* the connection to Redis: "none", "open" or "broken"
  job           \* the web server's latest request, and how far it got

dataVars == <<hash, ttl, pool, users, rides, process, link, job>>

\* The text of an error reply.
ErrorText == "error text"

NoJob == [at |-> "answered", req |-> Request("none", Nil, <<>>, <<>>),
          executed |-> 0, refused |-> FALSE, arrived |-> 0, read |-> 0,
          good |-> FALSE, values |-> <<>>, ret |-> 0, result |-> "none"]

DataInit ==
  /\ StoreInit(Registered)
  /\ process = "up"
  /\ link = "none"
  /\ job = NoJob

-----------------------------------------------------------------------------
At(label) == job.at = label

\* The web server sends its next request.
Issue ==
  /\ At("answered")
  /\ \E q \in Asked : job' = [NoJob EXCEPT !.at = "sent", !.req = q]
  /\ Unchanged
  /\ UNCHANGED <<process, link>>

Persistent == job.req.cmd \in {"insertUser", "insertOrder", "query"}

\* cache_store_cb, deal_cache
ReceiveCache ==
  /\ At("sent") /\ process = "up" /\ ~Persistent
  /\ job' = [job EXCEPT !.at = "connect"]
  /\ Unchanged
  /\ UNCHANGED <<process, link>>

\* persistent_store_cb, deal_persistent
ReceivePersistent ==
  /\ At("sent") /\ process = "up" /\ Persistent
  /\ job' = [job EXCEPT !.at = "query"]
  /\ Unchanged
  /\ UNCHANGED <<process, link>>

Receive == ReceiveCache \/ ReceivePersistent

\* The caller sees a failed curl call.
Fails == [job EXCEPT !.at = "answered", !.result = "error", !.values = <<>>]

\* Nobody listens.
Refuse ==
  /\ At("sent") /\ process # "up"
  /\ job' = Fails
  /\ Unchanged
  /\ UNCHANGED <<process, link>>

-----------------------------------------------------------------------------
(* /cache: the exchange with Redis.                                        *)

\* rop_connectdb_nopwd
Connect ==
  /\ At("connect")
  /\ \/ link' = "open" /\ job' = [job EXCEPT !.at = "exchange"]
     \/ link' = link /\ job' = [job EXCEPT !.at = "close", !.ret = -1]
  /\ Unchanged
  /\ UNCHANGED process

Pipelined == job.req.cmd \in {"setHash", "getHash"}
Commands == IF Pipelined THEN Len(job.req.fields) ELSE 1

\* The connection breaks where the last of m replies was read.
Replies(m) ==
  /\ m <= Commands
  /\ link' = IF m = Commands THEN "open" ELSE "broken"

\* The commands that reach Redis are executed, the first n of a pipeline, and the first
\* m replies arrive.
HSets(n) ==
  LET q == job.req IN
    hash' = [hash EXCEPT ![q.key] =
               [f \in Fields |-> IF \E i \in 1..n : q.fields[i] = f THEN q.write[f] ELSE @[f]]]

Execute ==
  /\ At("exchange") /\ link = "open" /\ job.executed = 0 /\ ~job.refused
  /\ \E n \in 1..Commands, m \in 0..Commands :
       /\ m <= n /\ Replies(m)
       /\ IF job.req.cmd = "setHash"
          THEN HSets(n) /\ UNCHANGED <<ttl, pool, users, rides>>
          ELSE Command(job.req, "done")
       /\ job' = [job EXCEPT !.executed = n, !.arrived = m,
                             !.good = n = Commands /\ Succeeds(job.req),
                             !.values = Answer(job.req)]
  /\ UNCHANGED process

\* Redis answers every command with an error, and executes none.
AnswerErrors ==
  /\ ErrorReplies
  /\ At("exchange") /\ link = "open" /\ job.executed = 0 /\ ~job.refused
  /\ \E m \in 0..Commands :
       /\ Replies(m)
       /\ job' = [job EXCEPT !.refused = TRUE, !.arrived = m,
                             !.values = [i \in 1..Len(job.req.fields) |-> ErrorText]]
  /\ Unchanged
  /\ UNCHANGED process

\* Redis dies, or closes the connection, before it has read anything.
Break ==
  /\ At("exchange") /\ link = "open" /\ job.executed = 0 /\ ~job.refused
  /\ link' = "broken"
  /\ Unchanged
  /\ UNCHANGED <<process, job>>

\* Slip: the reply of DEL is not looked at.
Result_Del ==
  CASE job.req.cmd \in {"setHash", "getHash", "remZset", "deleteKey"} -> 0
    [] job.req.cmd \in {"addGeo", "radiusGeo"}           -> IF job.refused THEN -1 ELSE 0
    [] OTHER                                             -> IF job.good THEN 0 ELSE -1

\* What the rop_ functions make of the replies.  The two that pipeline look at the
\* transport only, deal_cache_remZset at nothing.
Result ==
  CASE job.req.cmd \in {"setHash", "getHash", "remZset"} -> 0
    [] job.req.cmd \in {"addGeo", "radiusGeo"}           -> IF job.refused THEN -1 ELSE 0
    [] OTHER                                             -> IF job.good THEN 0 ELSE -1

\* Slip: one reply more is awaited than there are commands.
ReadReply_More ==
  /\ At("exchange") /\ job.read < job.arrived
  /\ job' = [job EXCEPT !.read = @ + 1,
                        !.ret = IF job.read + 1 > Commands THEN Result ELSE @,
                        !.at = IF job.read + 1 > Commands THEN "close" ELSE @]
  /\ Unchanged
  /\ UNCHANGED <<process, link>>

\* Slip: the result of redisGetReply is not looked at.
ReadReply_Blind ==
  /\ At("exchange") /\ job.executed > 0
  /\ job' = [job EXCEPT !.read = @ + 1,
                        !.ret = IF job.read + 1 = Commands THEN Result ELSE @,
                        !.at = IF job.read + 1 = Commands THEN "close" ELSE @]
  /\ Unchanged
  /\ UNCHANGED <<process, link>>

\* redisGetReply, freeReplyObject
ReadReply ==
  /\ At("exchange") /\ job.read < job.arrived
  /\ job' = [job EXCEPT !.read = @ + 1,
                        !.ret = IF job.read + 1 = Commands THEN Result ELSE @,
                        !.at = IF job.read + 1 = Commands THEN "close" ELSE @]
  /\ Unchanged
  /\ UNCHANGED <<process, link>>

\* The process is gone, and with it the connection; the caller's curl call fails.
Dies(how) ==
  /\ process' = how
  /\ link' = "none"
  /\ job' = IF At("answered") \/ At("sent") THEN job ELSE Fails

\* Slip: a reply that is missing is logged, and nothing else.
MissReply_Silent ==
  /\ At("exchange") /\ link = "broken" /\ job.read = job.arrived
  /\ job' = [job EXCEPT !.at = "close"]
  /\ UNCHANGED <<process, link>>
  /\ Unchanged

\* No reply comes any more.  rop_add_geo and rop_geo_radius check for it; the two that
\* pipeline free the reply before the missing one again, if there was one, which may
\* end the process or not; the others read the type of a reply that is NULL.
MissReply ==
  /\ At("exchange") /\ link = "broken" /\ job.read = job.arrived
  /\ LET checked == Pipelined \/ job.req.cmd \in {"addGeo", "radiusGeo"}
         freedTwice == Pipelined /\ job.read > 0 IN
       \/ /\ checked
          /\ job' = [job EXCEPT !.at = "close", !.ret = -1]
          /\ UNCHANGED <<process, link>>
       \/ (~checked \/ freedTwice) /\ Dies("crashed")
  /\ Unchanged

-----------------------------------------------------------------------------
\* MySQL is not there, or refuses the connection.
NoConnection == job' = [job EXCEPT !.at = "respond", !.ret = -1] /\ Unchanged

\* /persistent: msql_conn, mysql_query and, for a query, process_result.
Query ==
  /\ At("query")
  /\ \/ NoConnection
     \/ \E r \in {"done", "cut"} :
          /\ Command(job.req, r)
          /\ job' = [job EXCEPT !.at = "respond", !.executed = 1,
                                !.good = Succeeds(job.req),
                                !.ret = IF r = "done" /\ Succeeds(job.req) THEN 0 ELSE -1]
  /\ UNCHANGED <<process, link>>

\* rop_disconnect at the label END of each deal_cache_ function (deal_cache.c:40), which
\* all their exits lead to, with and without a connection.
Disconnect ==
  /\ At("close")
  /\ link' = "none"
  /\ job' = [job EXCEPT !.at = "respond"]
  /\ Unchanged
  /\ UNCHANGED process

\* make_response_..._json and evhttp_send_reply; the answer may be lost.
Respond ==
  /\ At("respond")
  /\ \/ job' = Fails
     \/ job.ret = 0 /\ job' = [job EXCEPT !.at = "answered", !.result = "ok"]
  /\ Unchanged
  /\ UNCHANGED <<process, link>>

-----------------------------------------------------------------------------
\* start-up.sh kills the server; it is started again later.
Kill == process = "up" /\ Dies("killed") /\ Unchanged

Restart ==
  /\ process # "up"
  /\ process' = "up"
  /\ Unchanged
  /\ UNCHANGED <<link, job>>

KeyExpires == (\E k \in Keys : Expire(k)) /\ UNCHANGED <<process, link, job>>

Serve ==
  \/ Receive \/ Refuse \/ Connect \/ Execute \/ AnswerErrors \/ Break
  \/ ReadReply \/ MissReply \/ Disconnect \/ Query \/ Respond

DataNext == Issue \/ Serve \/ Kill \/ Restart \/ KeyExpires

DataSpec == DataInit /\ [][DataNext]_dataVars

\* The loop goes on while there is something to do.  Redis and MySQL are assumed to
\* answer or to break the connection: no call has a timeout (redis_op.c:395).
FairDataSpec == DataSpec /\ WF_dataVars(Serve)
-----------------------------------------------------------------------------
(* Properties.                                                             *)

DataTypeOK ==
  /\ StoreTypeOK
  /\ process \in {"up", "killed", "crashed"}
  /\ link \in {"none", "open", "broken"}
  /\ job.at \in {"answered", "sent", "connect", "exchange", "query", "close", "respond"}
  /\ job.req \in Requests \cup {NoJob.req}
  /\ 0 <= job.read /\ job.read <= job.arrived /\ job.arrived <= Commands
  /\ job.ret \in {0, -1} /\ job.result \in {"none", "ok", "error"}

\* How far a request is, as its caller may know it.
CallView ==
  LET answered == At("answered")
      done == job.executed = Commands
  IN [state  |-> IF answered THEN "answered"
                 ELSE IF job.executed = 0 THEN "issued" ELSE "executed",
      req    |-> job.req,
      good   |-> IF answered THEN job.result = "ok" ELSE job.good,
      result |-> job.result,
      values |-> IF answered \/ done THEN job.values ELSE <<>>]

\* As long as Redis answers without errors, every request is executed at most once, in
\* part only if its caller is told of a failure, and "ok" carries the values that Redis
\* held: partial pipelines, crashes, kills and lost answers included.
Abstract == INSTANCE OboCommands WITH call <- CallView
ImplementsCommands == Abstract!CommandsSpec

\* The functions whose result says nothing of an error that Redis answers.
HidesErrors == job.req.cmd \in {"setHash", "getHash", "remZset"}

\* Whatever breaks and however often Redis answers with an error, "ok" means that the
\* request was executed to its end, unless Redis refused it and the function does not
\* look: a pipeline that was cut short, or whose replies did not all come, is never "ok",
\* and the other five cache commands pass on what Redis refused.
OkIsDoneOrHidden ==
  job.result = "ok" => job.good \/ (job.refused /\ HidesErrors)

\* Every request is answered, or its caller sees that it failed.
RequestsEnd == ~At("answered") ~> At("answered")

\* redis_op.c:650-652 says that rop_hash_set_append returns 0 on success and -1 on
\* failure, and redis_op.c:701-703 the same of rop_hash_get_append: so a setHash or a
\* getHash that was answered "ok" was done.
OkMeansDone == Pipelined /\ job.result = "ok" => job.good
=============================================================================

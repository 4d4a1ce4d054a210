----------------------------- MODULE OboCommands -----------------------------
(***************************************************************************)
(* What the data server promises to the web server, its only client: one    *)
(* command at a time is executed at most once and at once, by an action of  *)
(* OboStore, and "ok" is answered only if it was executed to the end and     *)
(* had its effect.  A failure tells nothing: the command may have been       *)
(* executed or not.  This is what the steps of OboServer rely on.            *)
(***************************************************************************)
EXTENDS OboRequests

CONSTANTS
  Registered    \* accounts that exist at the start

VARIABLES
  call          \* the web server's latest request, and how far it got

commandVars == <<hash, ttl, pool, users, rides, call>>

-----------------------------------------------------------------------------
\* No request is under way.
NoCall == [state |-> "answered", req |-> Request("none", Nil, <<>>, <<>>), good |-> FALSE,
           result |-> "none", values |-> <<>>]

CommandsInit == StoreInit(Registered) /\ call = NoCall

\* remote_store.c sends a request and blocks until it is answered.
Issue ==
  /\ call.state = "answered"
  /\ \E q \in Requests :
       call' = [NoCall EXCEPT !.state = "issued", !.req = q]
  /\ Unchanged

\* The command is executed, in part ("cut") or to the end.
Perform ==
  /\ call.state = "issued"
  /\ \E r \in {"done", "cut"} :
       /\ Command(call.req, r)
       /\ call' = [call EXCEPT !.state = "executed",
                               !.good = r = "done" /\ Succeeds(call.req),
                               !.values = IF r = "done" THEN Answer(call.req) ELSE <<>>]

\* "ok" is answered for what was done; a failure may be answered at any time.
Return ==
  /\ call.state # "answered"
  /\ \/ call' = [call EXCEPT !.state = "answered", !.good = FALSE, !.result = "error",
                             !.values = <<>>]
     \/ call.good /\ call' = [call EXCEPT !.state = "answered", !.result = "ok"]
  /\ Unchanged

Expires == (\E k \in Keys : Expire(k)) /\ UNCHANGED call

CommandsNext == Issue \/ Perform \/ Return \/ Expires

CommandsSpec == CommandsInit /\ [][CommandsNext]_commandVars
=============================================================================

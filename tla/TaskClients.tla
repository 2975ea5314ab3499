----------------------------- MODULE TaskClients -----------------------------
(***************************************************************************)
(* The clients of the scheduler that make one task per call: a session     *)
(* (ev::redis::Session::Fetch, EXISTS and then HGETALL), the JSON API      *)
(* (ev::postgresql::JSONAPI, one query) and the HTTP client                *)
(* (ev::curl::HTTP, one request), with what Task::Step makes of the        *)
(* exceptions of their callbacks and of the application's.                 *)
(*                                                                         *)
(* Scheduler, hub and devices, which have modules of their own, are here   *)
(* an answer to each command, at any time.  All callbacks run on the main  *)
(* thread.  An application calls the clients from anywhere on that thread, *)
(* callbacks of other calls included, and sets the token of the session    *)
(* when it likes.                                                          *)
(***************************************************************************)
EXTENDS Naturals, Sequences, FiniteSets

CONSTANTS
  Fetches, Queries, Downloads,  \* calls of the three clients, each made once
  Tokens,                       \* what a token may be
  MaxCalls,                     \* bound: calls that are made
  Nothing                       \* no answer yet, no token

Calls == Fetches \cup Queries \cup Downloads

ASSUME CallKinds ==
  /\ Fetches \cap Queries = {}
  /\ Fetches \cap Downloads = {}
  /\ Queries \cap Downloads = {}
ASSUME NothingAssumption == Nothing \notin Tokens
ASSUME MaxCallsAssumption == MaxCalls \in Nat

VARIABLES
  keys,     \* Redis: the tokens that have a session
  data,     \* Session::data_
  alive,    \* the clients that exist
  stage,    \* how far each call is
  asked,    \* the token in the last command of each Fetch
  reply,    \* the answer that is under way to each call
  telling,  \* the callbacks that run and what they are told, innermost first
  mixed     \* a token was set while an HGETALL was under way

vars == <<keys, data, alive, stage, asked, reply, telling, mixed>>

Clients == {"session", "json", "http"}
Client(c) ==
  CASE c \in Fetches -> "session" [] c \in Queries -> "json" [] OTHER -> "http"

\* "first", "second": a command is executed; "finally", "catch": the
\* application's callback runs, called by that part of the task.
Stages == {"none", "pushed", "first", "second", "finally", "catch", "settled",
           "lost"}
UnderWay(c) == stage[c] \in {"first", "second"}
Verdicts == {"success", "invalid", "failure"}

\* data_ of a token nothing is known of.  verified_ and exists_ are written
\* and never read; the payload is the set of tokens it has values of.
Blank(t) == [token |-> t, valid |-> FALSE, payload |-> {}]

Init ==
  /\ keys \in SUBSET Tokens
  /\ data \in {Blank(t) : t \in Tokens}
  /\ alive = Clients
  /\ stage = [c \in Calls |-> "none"]
  /\ asked = [f \in Fetches |-> Nothing]
  /\ reply = [c \in Calls |-> Nothing]
  /\ telling = <<>>
  /\ mixed = FALSE

-----------------------------------------------------------------------------
(* Task.                                                                   *)

\* A callback of the application is called by Finally.
Tell(c, what) ==
  /\ stage' = [stage EXCEPT ![c] = "finally"]
  /\ telling' = <<<<c, what>>>> \o telling

\* What Catch makes of an exception.  Fetch decides by session_exists, a
\* variable of a frame that returned long ago.
CatchVerdicts(c) == IF c \in Fetches THEN {"invalid", "failure"} ELSE {"failure"}

\* report_exception: a step of the task threw, Catch is called.
Raise(c) ==
  /\ stage' = [stage EXCEPT ![c] = "catch"]
  /\ \E what \in CatchVerdicts(c) : telling' = <<<<c, what>>>> \o telling

\* NewTask ... Catch: the scheduler takes the task, or Push throws and Catch
\* is called before the client's method returns.
Call(c, refused) ==
  /\ stage[c] = "none" /\ Client(c) \in alive
  /\ Cardinality({other \in Calls : stage[other] # "none"}) < MaxCalls
  /\ \/ /\ stage' = [stage EXCEPT ![c] = "pushed"]
        /\ UNCHANGED telling
     \/ /\ stage' = [stage EXCEPT ![c] = "catch"]
        /\ telling' = <<<<c, refused>>>> \o telling
  /\ UNCHANGED <<keys, data, alive, asked, reply, mixed>>

\* Session::Fetch; while it runs, session_exists is alive and false.
Fetch(f) == Call(f, "invalid")

\* Get, Post, Patch, Delete of the JSON API, one query each.
Query(q) == Call(q, "failure")

\* GET, PUT, POST, DELETE of the HTTP client.
Download(d) == Call(d, "failure")

\* first_(): the command of a Fetch has the token of this moment.
Begin(c) ==
  /\ telling = <<>> /\ stage[c] = "pushed"
  /\ stage' = [stage EXCEPT ![c] = "first"]
  /\ asked' = [f \in Fetches |-> IF f = c THEN data.token ELSE asked[f]]
  /\ UNCHANGED <<keys, data, alive, reply, telling, mixed>>

\* "bad": no result, an error, or a value of a wrong type.
Answers == {"bad", "rows", "none", "page", "one", "zero", "error", "fields", "empty"}

\* A table, with rows or without.
QueryReplies == {"bad", "rows", "none"}

DownloadReplies == {"bad", "page"}

\* EXISTS has an integer, HGETALL an array or an error that was not thrown.
FetchReplies(f) ==
  {"bad"} \cup
  IF stage[f] = "first"
  THEN {IF asked[f] \in keys THEN "one" ELSE "zero"}
  ELSE {"error", IF asked[f] \in keys THEN "fields" ELSE "empty"}

Replies(c) ==
  CASE c \in Queries -> QueryReplies
    [] c \in Downloads -> DownloadReplies
    [] OTHER -> FetchReplies(c)

\* The server's answer, or that of a hub that did not reach it.
Execute(c) ==
  /\ UnderWay(c) /\ reply[c] = Nothing
  /\ \E r \in Replies(c) : reply' = [reply EXCEPT ![c] = r]
  /\ UNCHANGED <<keys, data, alive, stage, asked, telling, mixed>>

\* Task::Step for the answer r, while no callback runs.
Step(c, r) ==
  /\ telling = <<>> /\ UnderWay(c) /\ reply[c] = r
  /\ reply' = [reply EXCEPT ![c] = Nothing]
  /\ UNCHANGED <<keys, alive, mixed>>

\* Slip: HGETALL is sent for the token that EXISTS was sent for.
SessionExistsKeeps(f) ==
  /\ Step(f, "one") /\ stage[f] = "first"
  /\ stage' = [stage EXCEPT ![f] = "second"]
  /\ UNCHANGED <<data, asked, telling>>

\* Fetch, the callback of EXISTS: the key exists.
SessionExists(f) ==
  /\ Step(f, "one") /\ stage[f] = "first"
  /\ stage' = [stage EXCEPT ![f] = "second"]
  /\ asked' = [asked EXCEPT ![f] = data.token]
  /\ UNCHANGED <<data, telling>>

\* The callback of EXISTS throws.
SessionMissing(f) ==
  /\ \E r \in {"zero", "bad"} : Step(f, r)
  /\ stage[f] = "first"
  /\ Raise(f)
  /\ UNCHANGED <<data, asked>>

\* Fetch, the callback of HGETALL.  It adds values to those that are there,
\* and an error reply leaves everything as an earlier Fetch left it.
SessionRead(f) ==
  /\ stage[f] = "second"
  /\ \/ /\ Step(f, "fields")
        /\ data' = [data EXCEPT !.valid = TRUE, !.payload = @ \cup {asked[f]}]
        /\ Tell(f, "success")
     \/ /\ Step(f, "empty")
        /\ data' = [data EXCEPT !.valid = FALSE]
        /\ Tell(f, "invalid")
     \/ /\ Step(f, "error")
        /\ Tell(f, IF data.valid THEN "success" ELSE "invalid")
        /\ UNCHANGED data
     \/ /\ Step(f, "bad")
        /\ Raise(f)
        /\ UNCHANGED data
  /\ UNCHANGED asked

\* AsyncQuery: more rows than one pass the check of the table's size, whose
\* columns are always two; of a table without rows raw_value throws.
QueryAnswered(q) ==
  /\ \/ Step(q, "rows") /\ Tell(q, "success")
     \/ Step(q, "none") /\ Raise(q)
     \/ Step(q, "bad") /\ Raise(q)
  /\ UNCHANGED <<data, asked>>

\* Async of the HTTP client.
DownloadAnswered(d) ==
  /\ \/ Step(d, "page") /\ Tell(d, "success")
     \/ Step(d, "bad") /\ Raise(d)
  /\ UNCHANGED <<data, asked>>

-----------------------------------------------------------------------------
(* The application.                                                        *)

\* Slip: a task that reported an exception goes on with its next step.
ReturnGoesOn ==
  /\ telling # <<>>
  /\ LET c == Head(telling)[1] IN
       stage' = [stage EXCEPT ![c] =
                   IF stage[c] = "catch" /\ c \in Fetches THEN "second" ELSE "settled"]
  /\ telling' = Tail(telling)
  /\ UNCHANGED <<keys, data, alive, asked, reply, mixed>>

\* The innermost callback returns, the task is released.
Return ==
  /\ telling # <<>>
  /\ stage' = [stage EXCEPT ![Head(telling)[1]] = "settled"]
  /\ telling' = Tail(telling)
  /\ UNCHANGED <<keys, data, alive, asked, reply, mixed>>

\* It throws.  Step hands what Finally let through to Catch, which may refer
\* to a session that was deleted meanwhile; what Catch lets through goes to
\* whoever called Step or the client.
Throw ==
  /\ telling # <<>>
  /\ LET c == Head(telling)[1] IN
       \/ /\ stage[c] = "finally"
          /\ stage' = [stage EXCEPT ![c] = "catch"]
          /\ \E what \in CatchVerdicts(c) :
               telling' = <<<<c, what>>>> \o Tail(telling)
       \/ /\ stage[c] = "catch"
          /\ stage' = [stage EXCEPT ![c] = "settled"]
          /\ telling' = Tail(telling)
  /\ UNCHANGED <<keys, data, alive, asked, reply, mixed>>

ReadsFields == \E f \in Fetches : stage[f] = "second"

\* Session::SetToken.
SetToken(t) ==
  /\ "session" \in alive
  /\ data' = Blank(t)
  /\ mixed' = (mixed \/ ReadsFields)
  /\ UNCHANGED <<keys, alive, stage, asked, reply, telling>>

\* A client is deleted, from a callback of its own too: Unregister detaches
\* its tasks, which are not stepped any more.
Destroy(client) ==
  /\ client \in alive
  /\ alive' = alive \ {client}
  /\ stage' = [c \in Calls |->
                 IF Client(c) = client /\ stage[c] \in {"pushed", "first", "second"}
                 THEN "lost" ELSE stage[c]]
  /\ reply' = [c \in Calls |-> IF Client(c) = client THEN Nothing ELSE reply[c]]
  /\ UNCHANGED <<keys, data, asked, telling, mixed>>

\* Sessions are made and expire in Redis, by other processes.
Expire(t) ==
  /\ keys' = IF t \in keys THEN keys \ {t} ELSE keys \cup {t}
  /\ UNCHANGED <<data, alive, stage, asked, reply, telling, mixed>>

-----------------------------------------------------------------------------
FetchSteps(f) == SessionExists(f) \/ SessionMissing(f) \/ SessionRead(f)

Application ==
  \/ \E f \in Fetches : Fetch(f)
  \/ \E q \in Queries : Query(q)
  \/ \E d \in Downloads : Download(d)
  \/ Return \/ Throw
  \/ \E t \in Tokens : SetToken(t)
  \/ \E client \in Clients : Destroy(client)

Next ==
  \/ Application
  \/ \E c \in Calls : Begin(c) \/ Execute(c)
  \/ \E f \in Fetches : FetchSteps(f)
  \/ \E q \in Queries : QueryAnswered(q)
  \/ \E d \in Downloads : DownloadAnswered(d)
  \/ \E t \in Tokens : Expire(t)

Spec == Init /\ [][Next]_vars

\* Scheduler and hub answer every task and the main loop handles every
\* answer; the application's callbacks come to an end.
Fairness ==
  /\ \A c \in Calls : WF_vars(Begin(c)) /\ WF_vars(Execute(c))
  /\ \A f \in Fetches : WF_vars(FetchSteps(f))
  /\ \A q \in Queries : WF_vars(QueryAnswered(q))
  /\ \A d \in Downloads : WF_vars(DownloadAnswered(d))
  /\ WF_vars(Return \/ Throw)

FairSpec == Spec /\ Fairness

-----------------------------------------------------------------------------
TypeOK ==
  /\ keys \subseteq Tokens
  /\ data \in [token : Tokens, valid : BOOLEAN, payload : SUBSET Tokens]
  /\ alive \subseteq Clients
  /\ stage \in [Calls -> Stages]
  /\ asked \in [Fetches -> Tokens \cup {Nothing}]
  /\ reply \in [Calls -> Answers \cup {Nothing}]
  /\ telling \in Seq(Calls \X Verdicts)
  /\ mixed \in BOOLEAN

\* A session has values of its own token only, and has them when it says that
\* the token is valid, through expirations, errors and Fetches that overlap:
\* SetToken shall "invalidate all previously collected data"
\* (redis/session.h:172).  The one exception is a token that is set while an
\* HGETALL is under way, whose answer is taken for the new token.
OwnPayload ==
  \/ mixed
  \/ /\ data.payload \subseteq {data.token}
     /\ data.valid => data.payload = {data.token}

CallStage ==
  [c \in Calls |->
     CASE UnderWay(c) \/ stage[c] = "pushed" -> "due"
       [] stage[c] = "finally" -> "telling"
       [] stage[c] = "catch" -> "failing"
       [] OTHER -> stage[c]]

Promise == INSTANCE CallPromise WITH stage <- CallStage

\* Whatever the servers answer, whichever callbacks throw, call the clients
\* again or delete them: every call is told its outcome, once, or is dropped
\* with its client.
KeepsPromise == Promise!FairSpec

=============================================================================

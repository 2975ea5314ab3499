--------------------------- MODULE Subscriptions ---------------------------
(***************************************************************************)
(* ev::redis::subscriptions on the main thread: Request (redis/            *)
(* subscriptions/request.cc), which sends one command at a time and knows  *)
(* the status of each channel and pattern, and Manager (manager.cc), which *)
(* knows the clients of each and connects again after a loss.  Composed    *)
(* with KeepAliveHandler, the hub's end of it.                             *)
(*                                                                         *)
(* "request" and "manager" are the two objects; the operators with a first *)
(* argument q or m return them as the function of the code leaves them.    *)
(* All vectors of contexts of a name hold commands in the order of         *)
(* pending_, so their lengths are enough.                                  *)
(*                                                                         *)
(* A definition under the word "Slip" belongs to no behaviour of the code: *)
(* it is a mistake that could be made in the definition below, kept to see *)
(* that the properties notice it.                                          *)
(***************************************************************************)
EXTENDS KeepAliveHandler, FiniteSetsExt, SequencesExt

CONSTANTS
  Clients,     \* Manager::Client objects
  Nobody,      \* nullptr: the client of what Startup subscribes
  Defaults,    \* channels and patterns that Startup subscribes
  Calls,       \* which calls clients make
  MinTimeout,  \* k_min_reconnect_timeout_
  MaxTimeout,  \* k_max_reconnect_timeout_
  MaxCalls     \* bounds the calls of clients

ASSUME SubscriptionsAssumption ==
  /\ Nobody \notin Clients
  /\ Defaults \subseteq Topics
  /\ Calls \subseteq {"subscribe", "unsubscribe", "foreign", "leave", "defaults"}
  /\ MinTimeout \in Nat \ {0} /\ MaxTimeout \in Nat
  /\ MaxCalls \in Nat

VARIABLES
  request,  \* pending_, pending_context_ptr_ (current), ping_context_ (ping),
            \* vectors of contexts, status maps, timeout of the request (armed)
  manager,  \* vector of clients of each name (links), names with an entry
            \* (tracked), recovery_mode_, reconnect_timeout_
  timers,   \* reconnection timers of the bridge that run
  gaveUp,   \* the manager has once told its clients that the connection is lost
  dead,     \* why the process ended: "no", "exception", "client" or "entry"
  calls     \* calls that clients made

mainVars == <<request, manager, timers, gaveUp, dead, calls>>
vars == <<hubVars, mainVars>>

Statuses == {"NotSet", "Subscribing", "Subscribed", "Unsubscribing", "Unsubscribed"}
NoCommand == [op |-> "none", topic |-> NoTopic]

TypeOK ==
  /\ HubTypeOK
  /\ request \in [pending : Seq(Commands), current : Commands \cup {NoCommand},
                  ping : BOOLEAN, contexts : [Topics -> Nat],
                  status : [Topics -> Statuses], armed : BOOLEAN]
  /\ manager \in [links : [Topics -> Seq(Clients \cup {Nobody})],
                  tracked : SUBSET Topics, recovery : BOOLEAN, timeout : Nat]
  /\ timers \in Nat /\ gaveUp \in BOOLEAN
  /\ dead \in {"no", "exception", "client", "entry"}
  /\ calls \in 0 .. MaxCalls

-----------------------------------------------------------------------------
(* Request *)

IsSubscribedOrPending(q, t) == q.status[t] \in {"Subscribed", "Subscribing"}

\* BuildAndTrackCommand, without the commit: a command for each name, and a new
\* status whatever it was.
Build(q, op, names) ==
  LET commands == SetToSeq({[op |-> op, topic |-> t] : t \in names})
      status == IF op = "SUBSCRIBE" THEN "Subscribing" ELSE "Unsubscribing"
  IN  [q EXCEPT !.pending = @ \o commands,
                !.contexts = [t \in Topics |-> IF t \in names THEN @[t] + 1 ELSE @[t]],
                !.status = [t \in Topics |-> IF t \in names THEN status ELSE @[t]]]

\* CleanUpUnsubscribed.
CleanUp(q) ==
  IF q.pending # <<>> THEN q
  ELSE [q EXCEPT !.status = [t \in Topics |-> IF @[t] = "Unsubscribed" THEN "NotSet" ELSE @[t]]]

\* Slip: any reply about a name is taken for an answer.
IsAboutName(q, command) == command.op # "PING"

\* UnmapContext: the reply is taken for an answer to the current command if it
\* is about the same name.
IsExpected(q, command) ==
  /\ command.op # "PING" /\ q.current.topic = command.topic /\ q.contexts[command.topic] > 0

\* Slip: a name that was unsubscribed keeps its status.
AnswerLeavesStatus(q, command) ==
  [q EXCEPT !.contexts[command.topic] = @ - 1,
            !.status[command.topic] = IF command.op = "SUBSCRIBE" THEN "Subscribed" ELSE @,
            !.current = NoCommand,
            !.armed = FALSE]

\* Slip: the timeout is left running.
AnswerLeavesTimeout(q, command) ==
  LET status == IF command.op = "SUBSCRIBE" THEN "Subscribed" ELSE "Unsubscribed"
      next == [q EXCEPT !.contexts[command.topic] = @ - 1,
                        !.status[command.topic] = status,
                        !.current = NoCommand]
  IN  IF status = "Unsubscribed" THEN CleanUp(next) ELSE next

\* Publish of an expected reply: the status becomes that of the reply, also if
\* later commands about the name wait.
Answer(q, command) ==
  LET status == IF command.op = "SUBSCRIBE" THEN "Subscribed" ELSE "Unsubscribed"
      next == [q EXCEPT !.contexts[command.topic] = @ - 1,
                        !.status[command.topic] = status,
                        !.current = NoCommand,
                        !.armed = FALSE]
  IN  IF status = "Unsubscribed" THEN CleanUp(next) ELSE next

\* Publish of a status: pending_context_ptr_ == ping_context_, where two null
\* pointers are equal.
IsPong(q) == q.current = IF q.ping THEN Ping ELSE NoCommand

\* Slip: a disconnection forgets what waits and not the current command.
ForgetPending(q) ==
  [q EXCEPT !.pending = <<>>, !.ping = FALSE, !.contexts = [t \in Topics |-> 0]]

\* Disconnected, without the callback: the status maps and the timeout stay.
Forget(q) ==
  [q EXCEPT !.pending = <<>>, !.current = NoCommand, !.ping = FALSE,
            !.contexts = [t \in Topics |-> 0]]

\* commit_callback_: Scheduler::Push sends the id of the request to the hub.
Commit(n) == inbox' = inbox \o [i \in 1 .. n |-> "echo"]

-----------------------------------------------------------------------------
(* Manager *)

Linked(m, client, topic) == client \in Range(m.links[topic])

Link(m, client, names) ==
  [m EXCEPT !.links = [t \in Topics |-> IF t \in names /\ ~Linked(m, client, t)
                                       THEN Append(@[t], client) ELSE @[t]],
            !.tracked = @ \cup names]

Unlink(m, client, topic) == [m EXCEPT !.links[topic] = RemoveFirst(@, client)]

\* Slip: the clients are told and stay.
NotifyUnlinksNobody(m, topic) == m

\* What Notify misses of a vector from which it erases each client it meets:
\* those behind move up, so the next one is passed over.  Past the new end it
\* finds what was left there, which is the last client.
Missed(clients) == [i \in 1 .. (Len(clients) - 1) \div 2 |-> clients[2 * i]]

\* Notify of Unsubscribed: the clients it meets are told and unlinked.
NotifyUnsubscribed(m, topic) == [m EXCEPT !.links[topic] = Missed(@)]

\* Startup: what is subscribed there belongs to no client.
Init ==
  /\ HubInit
  /\ request = LET fresh == [pending |-> <<>>, current |-> NoCommand, ping |-> FALSE,
                             contexts |-> [t \in Topics |-> 0],
                             status |-> [t \in Topics |-> "NotSet"], armed |-> FALSE]
               IN  Build(Build(fresh, "SUBSCRIBE", Defaults \cap Channels),
                         "SUBSCRIBE", Defaults \cap Patterns)
  /\ inbox = [i \in 1 .. Cardinality({k \in {Channels, Patterns} : k \cap Defaults # {}})
                |-> "echo"]
  /\ manager = [links |-> [t \in Topics |-> IF t \in Defaults THEN <<Nobody>> ELSE <<>>],
                tracked |-> Defaults, recovery |-> FALSE, timeout |-> MinTimeout]
  /\ timers = 0 /\ gaveUp = FALSE /\ dead = "no" /\ calls = 0

-----------------------------------------------------------------------------
(* Calls of clients.  A call with several names does the same for each. *)

Call(name) ==
  /\ dead = "no" /\ name \in Calls /\ calls < MaxCalls
  /\ calls' = calls + 1
  /\ UNCHANGED <<uplink, payload, running, connection, wire, server, losses, messages, timers, gaveUp>>

\* SubscribeChannels and SubscribePatterns.
Subscribe(client, topic) ==
  /\ Call("subscribe")
  /\ manager' = Link(manager, client, {topic})
  /\ IF IsSubscribedOrPending(request, topic)
     THEN UNCHANGED <<request, inbox>>
     ELSE request' = Build(request, "SUBSCRIBE", {topic}) /\ Commit(1)
  /\ UNCHANGED dead

\* Subscribe with a client only: it gets what Startup subscribed.
SubscribeDefaults(client) ==
  /\ Call("defaults")
  /\ manager' = Link(manager, client, Defaults)
  /\ UNCHANGED <<request, inbox, dead>>

\* UnsubscribeChannels and UnsubscribePatterns.  The last client stays linked
\* until the reply; which client that is makes no difference.
Unsubscribe(client, topic) ==
  /\ Call("unsubscribe")
  /\ Linked(manager, client, topic) \/ "foreign" \in Calls
  /\ \/ /\ ~IsSubscribedOrPending(request, topic)
        /\ manager' = Unlink(manager, client, topic)
        /\ UNCHANGED <<request, inbox, dead>>
     \/ /\ IsSubscribedOrPending(request, topic)
        /\ topic \notin manager.tracked
        /\ dead' = "entry"                         \* a_map.find(name)->second
        /\ UNCHANGED <<request, inbox, manager>>
     \/ /\ IsSubscribedOrPending(request, topic) /\ topic \in manager.tracked
        /\ Len(manager.links[topic]) <= 1
        /\ request' = Build(request, "UNSUBSCRIBE", {topic}) /\ Commit(1)
        /\ UNCHANGED <<manager, dead>>
     \/ /\ IsSubscribedOrPending(request, topic) /\ topic \in manager.tracked
        /\ Len(manager.links[topic]) > 1
        /\ manager' = Unlink(manager, client, topic)
        /\ UNCHANGED <<request, inbox, dead>>

\* Unubscribe: the client goes away, and so do names that nobody wants.
Leave(client) ==
  LET links == [t \in Topics |-> RemoveFirst(manager.links[t], client)]
      unused == {t \in manager.tracked : links[t] = <<>>}
      ended == {t \in unused : IsSubscribedOrPending(request, t)}
  IN  /\ Call("leave")
      /\ manager' = [manager EXCEPT !.links = links, !.tracked = @ \ unused]
      /\ request' = Build(Build(request, "UNSUBSCRIBE", ended \cap Channels),
                          "UNSUBSCRIBE", ended \cap Patterns)
      /\ Commit(Cardinality(ended))
      /\ UNCHANGED dead

-----------------------------------------------------------------------------
(* Messages from the hub *)

Received(message) ==
  /\ dead = "no" /\ uplink # <<>> /\ Head(uplink) = message
  /\ uplink' = Tail(uplink)
  /\ UNCHANGED <<running, connection, wire, server, losses, messages, gaveUp, calls>>

\* Slip: the command that waits for its reply is not looked at.
HasCommand(q) == q.pending # <<>>

\* The condition of Step and of the end of Publish.
IsReady(q) == q.pending # <<>> /\ q.current = NoCommand

\* Step of a request that is ready.
Taken(q) ==
  [q EXCEPT !.current = Head(q.pending), !.pending = Tail(@),
            !.armed = Head(q.pending).op = "SUBSCRIBE" /\ Head(q.pending).topic \in Channels]

\* Step: the next command, unless one waits for its reply.
Step ==
  /\ Received(EchoMessage)
  /\ IF IsReady(request)
     THEN /\ request' = Taken(request)
          /\ payload' = Head(request.pending)
          /\ inbox' = Append(inbox, "request")
     ELSE UNCHANGED <<request, payload, inbox>>
  /\ UNCHANGED <<manager, timers, dead>>

\* Slip: the next command waits for somebody to ask for one.
PublishStops(q, commits) ==
  /\ request' = q
  /\ Commit(commits)
  /\ UNCHANGED <<payload, timers, dead>>

\* The end of Publish: ask for the next command.
PublishEnds(q, commits) ==
  /\ request' = q
  /\ Commit(commits + (IF IsReady(q) THEN 1 ELSE 0))
  /\ UNCHANGED <<payload, timers, dead>>

\* Publish of the reply to a (P)SUBSCRIBE or (P)UNSUBSCRIBE, with
\* OnREDISReplyReceived if it was expected.
PublishReply(command) ==
  /\ command.op # "PING" /\ Received(ReplyMessage(command))
  /\ IF IsExpected(request, command)
     THEN /\ PublishEnds(Answer(request, command), 0)
          /\ manager' = IF command.op = "UNSUBSCRIBE" /\ command.topic \in manager.tracked
                        THEN NotifyUnsubscribed(manager, command.topic) ELSE manager
     ELSE PublishEnds(request, 0) /\ UNCHANGED manager

\* Publish of a message: the callbacks of clients get it.
PublishMessage(topic) ==
  /\ Received(PublishedMessage(topic))
  /\ PublishEnds(request, 0) /\ UNCHANGED manager

\* Slip: the channels are subscribed again only where the status says that
\* they are not.
MissingNames(q, m) == {t \in m.tracked \cap Channels : ~IsSubscribedOrPending(q, t)}

\* What a recovery subscribes: all channels that have an entry, and no pattern.
NamesToRecover(q, m) == m.tracked \cap Channels

\* Publish of a status; PONG ends a recovery.
PublishPong ==
  /\ Received(ReplyMessage(Ping))
  /\ LET q == [request EXCEPT !.ping = FALSE, !.current = NoCommand]
         names == NamesToRecover(q, manager)
     IN  IF ~IsPong(request)
         THEN PublishEnds(request, 0) /\ UNCHANGED manager
         ELSE IF ~manager.recovery
         THEN PublishEnds(q, 0) /\ UNCHANGED manager
         ELSE /\ manager' = [manager EXCEPT !.recovery = FALSE, !.timeout = MinTimeout]
              /\ IF names = {} THEN PublishEnds(q, 0)
                 ELSE PublishEnds(Build(q, "SUBSCRIBE", names), 1)

\* Disconnected with OnREDISDisconnected: a timer is started.
Disconnected ==
  /\ Received(DisconnectedMessage)
  /\ request' = Forget(request)
  /\ manager' = [manager EXCEPT !.recovery = TRUE]
  /\ timers' = timers + 1
  /\ UNCHANGED <<inbox, payload, dead>>

-----------------------------------------------------------------------------
(* The timer *)

TimerFires ==
  /\ dead = "no" /\ timers > 0
  /\ timers' = timers - 1
  /\ UNCHANGED <<uplink, payload, running, connection, wire, server, losses, messages, calls>>

\* The clients are told that the connection is lost.  Nothing is sent, and
\* recovery_mode_ and the status maps stay.
GiveUp ==
  /\ TimerFires /\ manager.timeout >= MaxTimeout
  /\ manager' = [manager EXCEPT !.links = [t \in Topics |-> <<>>], !.timeout = MinTimeout]
  /\ gaveUp' = TRUE
  /\ dead' = IF \E t \in Topics : Linked(manager, Nobody, t) THEN "client" ELSE dead
  /\ UNCHANGED <<request, inbox>>

\* Ping, which makes the hub connect again.
SendPing ==
  /\ TimerFires /\ manager.timeout < MaxTimeout /\ ~request.ping
  /\ request' = [request EXCEPT !.ping = TRUE, !.pending = Append(@, Ping)]
  /\ Commit(1)
  /\ manager' = [manager EXCEPT !.timeout = 2 * @]
  /\ UNCHANGED <<gaveUp, dead>>

\* Ping refuses because one is under way: ThrowFatalException.
PingRefused ==
  /\ TimerFires /\ manager.timeout < MaxTimeout /\ request.ping
  /\ manager' = [manager EXCEPT !.timeout = 2 * @]
  /\ dead' = "exception"
  /\ UNCHANGED <<request, inbox, gaveUp>>

-----------------------------------------------------------------------------

ClientNext ==
  \E client \in Clients :
    \/ \E topic \in Topics : Subscribe(client, topic) \/ Unsubscribe(client, topic)
    \/ SubscribeDefaults(client)
    \/ Leave(client)

MessageNext ==
  \/ Step \/ PublishPong \/ Disconnected
  \/ \E command \in Commands : PublishReply(command)
  \/ \E topic \in Topics : PublishMessage(topic)

TimerNext == GiveUp \/ SendPing \/ PingRefused

\* The hub goes on until the process ends.
HubStep(next) == dead = "no" /\ next /\ UNCHANGED mainVars

Next == ClientNext \/ MessageNext \/ TimerNext \/ HubStep(HubNext)

Spec == Init /\ [][Next]_vars

\* Both event loops run, timers fire, and the server answers.
FairSpec ==
  /\ Spec
  /\ WF_vars(HubStep(HubProgress)) /\ WF_vars(MessageNext) /\ WF_vars(TimerNext)

-----------------------------------------------------------------------------
(* Properties *)

\* Nothing is under way between the clients and the server.
Quiet ==
  /\ inbox = <<>> /\ uplink = <<>> /\ wire = <<>> /\ connection # "connecting"
  /\ request.pending = <<>> /\ request.current = NoCommand /\ timers = 0

(* The vectors of contexts of request.cc hold, for each name, the commands that
   wait and the one whose reply is awaited, through replies, pings and
   disconnections.  UnmapContext takes a reply for an answer only if it finds
   the current command there, and Disconnected deletes what it finds there. *)
PendingTracked ==
  \A t \in Topics :
    request.contexts[t] =
      Cardinality({i \in DOMAIN request.pending : request.pending[i].topic = t})
        + (IF request.current.topic = t THEN 1 ELSE 0)

(* The status maps that IsSubscribedOrPending answers from are right about the
   server when all commands are answered, however the calls of clients and the
   replies were interleaved: Publish gives a name the status of each reply, also
   while later commands about it wait. *)
StatusAgrees ==
  Quiet => \A t \in Topics :
             /\ request.status[t] \notin {"Subscribing", "Unsubscribing"}
             /\ (request.status[t] = "Subscribed") <=> t \in server

(* A client that the manager has linked to a name gets its messages: the server
   has the name subscribed when all commands are answered.  It fails if three
   clients of a name are linked to it when the reply to UNSUBSCRIBE comes, of
   which Notify misses one (EveryClientTold). *)
LinkedIsServed ==
  Quiet => \A t \in Topics : manager.links[t] # <<>> => t \in server

(* "Notify all clients that are linked to a specific channel or pattern status
   changes" (manager.cc:517): when all commands are answered, a name that is
   known to be unsubscribed has no client left, for Notify unlinks those that
   it tells. *)
EveryClientTold ==
  Quiet => \A t \in Topics :
             request.status[t] \in {"NotSet", "Unsubscribed"} => manager.links[t] = <<>>

\* The current command, on its way to the server and back.
UnderWay ==
  Cardinality({i \in DOMAIN inbox : inbox[i] = "request"})
    + (IF connection = "connecting" THEN 1 ELSE 0) + Len(wire)
    + Cardinality({i \in DOMAIN uplink : uplink[i].kind = "reply"})

(* One command at a time: while a command waits for its reply it is in exactly
   one place between Step and Publish, and otherwise there is none.  The hub
   reads the payload of the one redis::Request when it executes it, so a second
   command would overwrite the first, or be executed twice. *)
OneUnderWay == UnderWay = IF request.current = NoCommand THEN 0 ELSE 1

(* The timeout of 20 seconds, whose callback may abort the process, is set
   exactly while the reply to a SUBSCRIBE is awaited. *)
ArmedWhileWaiting ==
  request.armed <=> request.current.op = "SUBSCRIBE" /\ request.current.topic \in Channels

(* A command that a call of the manager has put into pending_ is sent and
   answered some day, and so are those behind it: Step, Publish and the commits
   between them lose no turn. *)
CommandsFinish == request.pending # <<>> ~> (Quiet \/ dead # "no")

AllServed(topics) == \A t \in topics : manager.links[t] # <<>> => t \in server

(* Once the connection stays up, the channels of all clients are subscribed
   again, unless the manager has told the clients that the connection is lost
   (OnREDISDisconnected doubles the timeout up to k_max_reconnect_timeout_) or
   the process has ended. *)
Recovered == <>[](gaveUp \/ dead # "no" \/ AllServed(Channels))

(* The same of patterns, as the comment of request.cc in Disconnected says:
   "all channels or patterns must be subscribed again". *)
PatternsRecovered == <>[](gaveUp \/ dead # "no" \/ AllServed(Patterns))

=============================================================================

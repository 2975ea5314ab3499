# A verification of casper-connectors

casper-connectors lets a single-threaded server (an nginx worker or a libevent
loop) talk to Redis, PostgreSQL and HTTP services without blocking. This
directory holds TLA+ models of its core, the TLC runs that check them, and
theorems that TLAPS proves. Paths below are those of the repository, under
`src/src/`.

## 1. The system

Two threads share a process:

    main thread                                hub thread
    -----------                                ----------
    clients (Session, JSON API, HTTP, ...)     Hub: event loop, receive loop, 15 s tick
      tasks and subscriptions                    OneShotHandler: requests with one answer
    Scheduler: ids, next step                    KeepAliveHandler: Redis subscriptions
         |                                         Device: Redis, PostgreSQL, CURL
         |--- datagram "id:mode:target:tag:%p" -->    |
         |<-- Bridge: "callback:%p" ------------------|

A client makes a `Task`, a chain of callbacks, and pushes it to the
`Scheduler`, which sends the task's id to the hub. The hub echoes it and the
scheduler calls `Step`, which runs callbacks until one returns a request. The
request goes to the hub in another datagram; a handler of the hub finds or makes
a connection (a `Device`), runs the request on it and posts the answer through
the `Bridge`; the scheduler finds the task by its id and calls `Step` again.
A `Subscription` is an object that does not end: its request stays in the hub,
which publishes every message of the connection under its id.

| component | state | operations | what makes it correct |
|---|---|---|---|
| `ev/hub/one_shot_handler.cc` | pending, completed and rejected requests; cached and in-use devices of each target; two maps between requests and devices; zombies | Push, Idle, Publish, Link, Unlink, KillZombies, PurgeDevices, InvalidateDevices, SanityCheck, OnConnectionStatusChanged, the connected and the execute callback | every request answered once; limits; no dead, busy, spent or invalidated connection reused; no use after delete |
| `ev/device.h` and the three `device.cc` | connection, callbacks, uses, invalid, tracked | Connect, Execute, callbacks of hiredis, libpq and CURL | each request's callback called once; the device not used after a callback deleted it |
| `ev/hub/hub.cc` | socket, event base, handlers | receive loop, tick, Start, Stop, watchdog | messages to the right handler; exceptions reported; stops |
| `ev/hub/keep_alive_handler.cc` | running and disconnected requests, two maps | Push, publish, disconnection, timeout check | one device per subscription, disconnections told once |
| `ev/scheduler/*` | clients' objects, ids, detached objects, zombies, free ids | Push, Register, Unregister, NextStep, Publish and Disconnected steps, ReleaseObject, Task::Step, Rent, Return | answers find the object that asked; objects neither lost nor deleted twice nor under their own Step |
| `ev/redis/subscriptions/*` | status of channels and patterns, pending commands, clients of each name, recovery | (P)Subscribe, (P)Unsubscribe, Ping, Step, Publish, Disconnected | after any loss every name that has clients is subscribed again |
| `ev/loop/bridge.cc`, `ev/ngx/bridge.cc` | socket, count of pending callbacks, timers | CallOnMainThread, retry after EAGAIN, ThrowFatalException, Stop | each callback runs once, on the main thread; Stop waits for all |
| `ev/redis/session.cc`, `ev/casper/session.cc`, `ev/postgresql/json_api.cc`, `ev/curl/http.cc`, `ev/signals.cc` | the token and the values of a session | make one task per call | each call told its outcome once; a session has values of its own token |
| requests, replies, values, `ev/ngx/shared_glue.cc`, loggers, `ev/beanstalk`, `cc/*` | data | conversions, output, configuration | out of the scope of these models |

Hard here, because no test reaches it (the repository has none): the
handler's callbacks run inside member functions of the device they may delete,
sometimes inside the handler's own `Push`; connections break at any point; an
invalidation or an expired connection races with running requests; answers are
handled, and requests deleted, by another thread while the handler goes on;
tasks outlive their clients, and ids outlive their objects. `hazards` in
`PROJECT.json` lists these at their lines.

## 2. Modules

| module | models |
|---|---|
| `RequestPool` | what the hub promises about one-shot requests: queued, perhaps run, finished, answered, forward only, within the limits, each once |
| `OneShotHandler` | the one-shot path of the hub with its devices, the receive loop and the main thread's end of it; implements `RequestPool` |
| `SequenceCounts` | lemmas about vectors: how often a value is in one, and what an append, a removal or a concatenation does to that |
| `OneShotHandlerProofs` | types and limits of `OneShotHandler` |
| `OneShotLinksProofs` | its bookkeeping: the place of each request, vectors against maps, callbacks; the refinement of `RequestPool` |
| `OneShotDevicesProofs` | its devices: reuse, invalidation, deletion |
| `Scheduler` | the main thread: clients, tasks, subscriptions, ids, and the messages to and from the hub |
| `SchedulerProofs` | theorems about `Scheduler` |
| `KeepAliveHandler` | the keep-alive path of the hub, its Redis device and the server, for the one request of the subscriptions |
| `Subscriptions` | extends `KeepAliveHandler` with the main thread's end: commands, statuses, the manager's clients, recovery |
| `SubscriptionsProofs` | theorems about both |
| `CallbackPromise` | what a bridge promises: each callback runs once, alone, or is lost |
| `Bridge` | both bridges to the main thread; implements `CallbackPromise` |
| `HubThread` | extends `Bridge` with the life of the hub thread: start, event loop, stop |
| `BridgeProofs` | theorems about `Bridge` and `HubThread` |
| `CallPromise` | what a task promises: each call is told its outcome once, or is dropped with its client |
| `TaskClients` | session, JSON API and HTTP client as chains of callbacks; implements `CallPromise` |
| `TaskClientsProofs` | theorems about `TaskClients` |
| `MCOneShotHandler`, `MCScheduler`, `MCSubscriptions`, `MCHubThread`, `MCTaskClients` | values of the constants for TLC |

The modules meet at the datagrams and at the bridge. `OneShotHandler` and
`Scheduler` each take the other side as an environment that sends what it may
send; the answer of `RequestPool` is the message that `Scheduler` gets.
`Subscriptions` composes both sides of the keep-alive path, `HubThread` both
threads and the bridge between them. `TaskClients` takes scheduler and hub as
one answer to each command. A definition whose comment starts with "Slip" is
used by no specification: it is a mistake that could be made in the definition
below it, kept to see that the properties notice it.

### OneShotHandler

State. `pending`, `inUse`, `cached`, `requestDevice`, `deviceRequest`,
`zombies` are the members of the class with these names
(`one_shot_handler.h:50-58`); `finished[r]` counts r in `completed_requests_`
and `rejected_requests_`, which are only ever published together; `device[d]`
holds the fields of a `Device` the handler depends on, its connection's
`phase`, and the request its pending callback captured (`owner`). `cached[d]`
counts entries of d in `cached_devices_` instead of keeping their order: which
cached device is taken makes no difference here. `unsent`, `inbox`, `posted`
and `answered` follow a request on its way from and to the main thread.

Steps. The hub thread runs callbacks to completion, but a callback cannot be
one action: other threads see its middle (`Publish` in the loop of `Push` hands
requests to the main thread at once), and so does code further up the stack
(the handler's callback runs inside the device's function, which goes on with
a device that may have been deleted). `pc` is the position of the hub thread at
these places. `BeginPush` is KillZombies and PurgeDevices; each turn of the
loop of `Push` is one of `PushInvalidate`, `PushConnecting` (Connect returned
Async), `PushExecuting` (Connect ran its callback, Execute returned Async),
`PushExecuteError` then `PushTrack` (Connect ran its callback, Execute failed,
Connect returned Nop), `PushConnectError`; `PushDone` is the end of the loop and,
below Idle, Publish. Between callbacks a device settles: `Connected`,
`ConnectedExecuteError`, `ConnectFailed`, `Reply`, `LostExecuting`, `LostIdle`;
`Settle` is what the two callbacks share. `Return` and `Notify` are the rest
of the device's function behind the callback, the latter with the listener's
OnConnectionStatusChanged. `NotifyDeleted` and `PushTrackDeleted` are reads of
freed memory: both outcomes the build can produce are allowed.

An exception that leaves `Push(request)` is caught by the hub and reported on
the main thread (`fatal`); one that leaves `Idle` ends the process (`stopped`).

Left out: the text of errors; results; the order of cached devices; what a
target-less request does (`default:` of the switch, never built); the
`nullptr` device of the factory (it throws instead); authentication, database
selection and post-connect queries of the devices.

### Scheduler

State. `registered` and `objects` are `clients_to_objects_map_`; `clientOf`,
`byId`, `detached`, `zombies` the members with these names; `idOf`, `freeIds`
and `nextId` the ids and their generator; `step` is `step_` of each task.
`flight` is the bag of messages between the threads: the echo of a push, the
answer to a request, a published message, a disconnection. A message names its
object by id; the model also remembers the object it is about, which the code
cannot. Messages arrive in any order, because the bridge sends what met
EAGAIN again a second later.

Steps. `Register`, `Unregister`, `Push` (and `PushAgain` for an object that is
already there) are the calls. NextStep is cut in two: `NextStep` looks the
object up and calls `Step`, `StepAsks` and `StepEnds` are its outcomes, and in
between the callbacks of the task may make any of the calls: a session that
deletes itself in its own callback is the case `detached_` and `zombies_` exist
for. How far the callbacks get before one returns a request, returns nonsense
or throws is free. `NextStepDetached`, `Dropped`, `Publish` and `Disconnected`
are the other paths; `HubPublishes` and `HubDisconnected` stand for the
keep-alive handler, which knows a subscription by its invoke id only.

Left out: failing sends, the reuse of an address by a new object, ids beyond
2^31. `Stop` is in `HubThread`, the timer of `SetClientTimeout` in `Bridge`.

### KeepAliveHandler and Subscriptions

State. There is one keep-alive request in a process, the one of
`redis/subscriptions/manager.cc`, so `running_requests_` is a boolean, and the
maps between request and device are known. `payload` is the text of the
request's command, which the main thread writes and the hub reads when it
executes it. `wire` and `server` are the other end: commands without an answer,
and the names that the server has subscribed on this connection. `request` is
`subscriptions::Request`: `pending_`, `pending_context_ptr_` (`current`),
`ping_context_`, the status of each name, the number of contexts in the vector
of each name, and whether the timeout is set. `manager` has the clients of each
name, in the order of its vector, the names with an entry in a map,
`recovery_mode_` and `reconnect_timeout_`.

Steps. `Subscribe`, `SubscribeDefaults`, `Unsubscribe` and `Leave` are the
calls of clients; `Step`, `PublishReply`, `PublishMessage`, `PublishPong` and
`Disconnected` what the scheduler calls; `GiveUp`, `SendPing` and `PingRefused`
the reconnection timer. `Echo`, `Push`, `Connected`, `Answered`, `Published`
and `Lost` are the hub. Three ways for the process to end are kept in `dead`:
a second ping while one waits, the null client of what `Startup` subscribed,
and a name that is not in the map. Any number of clients may be linked to a
name. `Notify` of Unsubscribed goes through the vector from which it erases each
client it has told (`manager.cc:537-549`), so that the next one moves up and is
passed over; beyond the new end it still finds the last client, in memory that
the vector keeps. `Missed` is what is left: nothing of one or two clients, the
second of three.

Left out: the selection of a database (`database_index_` is -1), an attempt to
connect that fails synchronously, the text of messages, clients that call the
manager from their own callback, replies of an unexpected shape, and the
check of timeouts on the hub thread (`keep_alive_handler.cc:74`), a data race
with the main thread. The server answers PING by a status, also on a
connection that has subscriptions. Messages to the main thread keep their
order here; only those that met EAGAIN in the bridge would lose it.

### Bridge and HubThread

State. `place` says where the object of each callback is, `socket` the
addresses in the datagram socket, `making` the callback that the hub thread,
the main thread and a signal handler are handing over, `running` the one that
is called. `kind` chooses the bridge: libevent (a one-shot, level-triggered
event, timers that send) or nginx (edge-triggered, timers that call). `hub`,
`runs`, `aborted`, `active` and `stop` are the hub thread's position,
`running_`, `aborted_`, the watchdog event and the position of the main thread
in `Scheduler::Stop`.

Steps. `Make`, `MakeTimer` and `Signal` enter `CallOnMainThread`; `Send` and
`Defer` are what follows, an EAGAIN between them; `Readable`, `Receive` and
`Drained` are the receive loop of the main thread, `Return` and `Throw` the
end of a callback, `TimerFires` a timer, `StopBridge` Stop or Shutdown.
`Initialize`, `Run`, `Check`, `Watchdog`, `CleanUp`, `Wake` and `End` are the
hub thread, `Abort`, `StopWaits`, `StopAtOnce` and `StopReturnsWoken` Stop.
A signal that interrupts a function whose mutex the main thread holds ends in
the state "stuck".

Behind the Stop of the event loop's bridge nothing is sent any more: `Send` and
`Defer` then call `ThrowFatalException`, whose callback is null, and the process
ends (the state "dead"). `StopWaits` reads `running_`, checks the base and
activates the watchdog event in one step, though the hub thread may free the base
between the check and the call: a data race, like the others in section 6.
`Readable` leaves out the early return of the nginx handler for an event that is
neither available nor ready (`ngx/bridge.cc:324`), since nginx calls it for
events that are.

`CallOnMainThread` of the event loop's bridge asserts in debug builds that the
caller is on the loop's thread (`loop/bridge.cc:264` and 280), while the hub
thread calls it for every answer (`hub.cc:96-106`). The models are of builds
without these assertions.

Left out: the count of pending callbacks (it is traced only), a second
`Scheduler::Stop`, the set-up of sockets and events, signals on other threads
than the main one, and what a callback finds that runs after the objects it
refers to were deleted. An exception in a callback goes to the application's
handler, which is taken to return. `osal::ConditionVariable`, which is not part
of the repository, is taken to stay signalled until somebody waits.

### TaskClients

State. `data` is `data_` of a session, its payload reduced to the tokens it has
values of; `stage` how far each call is; `asked` the token that the last
command of a Fetch was sent for; `telling` the stack of the application's
callbacks that run, with what they are told. `keys` is Redis.

Steps. `Fetch`, `Query` and `Download` make a task; `Begin` is its first
callback, `Execute` the answer to a command, `SessionExists`, `SessionMissing`,
`SessionRead`, `QueryAnswered` and `DownloadAnswered` the callbacks behind the
answers. `Return` and `Throw` end a callback of the application, which may
before that call a client, set the token (`SetToken`) or delete a client
(`Destroy`), its own included. `Expire` is the rest of the world in Redis.
`Raise` is `report_exception`; `session_exists`, by which the session's Catch
decides what to tell, is a dangling reference by then, so it decides either
way.

Left out: what the scheduler and the hub do with a command, `verified_` and
`exists_` (never read), the text of queries, how many rows a table has beyond
none or some, `Set` and `Unset` (they throw at once), copies of a session, an
exception in the callback of Catch itself while Push failed.

## 3. Runs

Bounds. Requests, devices, tasks and clients are finite sets; nothing else
grows but `flight`, which `MaxEchoes` and `MaxEvents` bound for subscriptions.
Every request may fail or lose its connection at each point, which costs a
device: a run has as many devices as requests, so that a device is always there when
`Push` wants a new one. Four requests are two for one target and one for each other, or three
for one target with limit 2 and an invalidation: enough for one to run, one to
wait behind it and one to find what they left. Addresses and tasks are
symmetric; runs with liveness use no symmetry. `scheduler_messages` has two
clients beside the manager, one of which may leave and come back, two tasks and a
subscription of one echo and one event: enough for the second task to get the
id that the first returned, while messages of both and of the subscription are
under way.

| run | question |
|---|---|
| `one_shot_connections` | two Redis, one PostgreSQL, one HTTP request, limit 1: all failures of connections, Execute failing inside Connect; the handler implements `RequestPool` |
| `one_shot_invalidation` | three PostgreSQL queries, one invalidation, limit 2, one or two uses: are spent or invalidated connections ever reused, and does each device hold the callback of its request, also when its connection breaks during its last query |
| `one_shot_live` | is every request answered, and every lost device deleted |
| `scheduler_messages` | two tasks of two clients, one of which comes and goes, beside a subscription whose manager stays: do ids, maps and messages fit, and does every task end |
| `subs_calls` | two clients of a channel and a pattern, four calls, replies under way, a connection that holds: do statuses and links agree with the server in the end |
| `subs_recovery` | two channels, one of them subscribed by Startup, three losses: are the channels subscribed again |
| `hub_bridge` | both bridges, a socket of two datagrams, three callbacks of the hub, a timer and a signal handler, callbacks that throw, a Stop at any moment: does each callback run once, does Stop return, and is the hub thread done when a Stop that waits frees what it used |
| `task_calls` | any two of two Fetches, a query and a download, two tokens: is every call told its outcome once, and does a session have values of its own token only |

Conditions. `NoFatal` and `LostDeviceDeleted` hold while connections have no
limit of uses, `FrameAlive` likewise (theorem `FrameStaysAlive`, no passing run),
`MessageFindsSender` and `NoLogicError` while the manager of a subscription
stays, and `LinkedIsServed` while no name has more than two clients at a time.
The runs above keep to these conditions; the runs below add what breaks them,
and each ends in a violation:

| run | shows |
|---|---|
| `one_shot_spent_frame` | `one_shot_handler.cc:509` deletes a device inside a callback of the device: Execute fails on its last use, or the attempt to connect fails after an invalidation |
| `scheduler_shutdown` | a manager that unregisters while messages about its subscription are under way lets a new task get the subscription's id and step on a message that is not its own; a message that the hub, which keeps the request, goes on publishing may reach the task too, and "Logic error" is thrown |
| `subs_patterns` | a recovery subscribes the names of `channel_to_clients_map_` only (`manager.cc:650`): after a disconnection the clients of a pattern get nothing |
| `subs_notify` | three clients of a channel, the reply to an UNSUBSCRIBE: `Notify` passes over the second (`manager.cc:537`), which is not told and stays linked to a channel that is not subscribed |

`scheduler_shutdown` needs a client that calls `Manager::Shutdown` while other clients
go on; nothing in the scheduler forbids it.

In the models, but stated by no property, since they do happen: a PostgreSQL
connection that breaks during its last query (a case of `one_shot_invalidation`;
`one_shot_connections` has no limit of uses) leaves its device behind
(`one_shot_handler.cc:458`); line 525 reads a request that the main thread may
have deleted; two reconnection timers make a second ping a fatal exception
(`manager.cc:723`); a name that is unsubscribed twice is looked up in a map
without it (428); a token set during an HGETALL gets the old token's values
(`mixed` in `TaskClients`); a Stop that does not wait, because `running_` is not
yet set or a signal number was given, frees the base, the handlers and the
stepper under the hub thread (`StopAtOnce`), and `WaitedStopIsQuiet` is only
about the Stop that waits.

More bounds. In `subs_calls` four calls are two for each of two clients: enough
for an unsubscription to race with another client's subscription, while one
reply is under way and one command waits. In `subs_recovery` the connection may
break three times: before it is made, while a recovery is under way and after
it; `MaxTimeout` lets the manager try twice before it gives up. In `hub_bridge`
the socket holds fewer datagrams than there are callbacks, so that every one of
them may meet EAGAIN. In `task_calls` two calls are enough for one Fetch to
write the payload while another is between its commands, and for a call made
inside the callback of the other; three give 1.2 million states and the same
answer, in more time than a run should take.

Fairness. Liveness of `OneShotHandler` assumes that the hub thread runs (its
socket event fires every 15 s at the latest, `hub.cc:454-459`, which is also
what makes `Push` look at requests it skipped), that a device whose event is
due is served in the end (strong fairness: it is served only while the thread
waits), that an attempt to connect, a query or a transfer settles, and that
the main thread reads its socket. Without the tick the property fails: after a
reply nobody calls `Push`. Liveness of `Scheduler` assumes that callbacks
return and that each message arrives in the end, for which
`EveryRequestAnswered` and the bridge's retry stand.

Liveness of `Subscriptions` assumes that both event loops run, that timers
fire, that the server answers (`HubProgress`), and nothing of clients and
losses. Liveness of `HubThread` assumes that both threads run and that the
event loop of the main thread serves its socket besides its timers (strong
fairness of `MainReads`: it is able to only between callbacks); nobody has to
start or stop anything or to throw. Liveness of `TaskClients` assumes an answer
to each command, that `Step` is called with it, and that callbacks of the
application end, by a return or an exception.

## 4. Proofs

Every safety property that a passing run checks is also a theorem, for every value of
the constants that the assumptions of the modules allow. A theorem with a
hypothesis of its own names it below, with what justifies it; where the
hypothesis is dropped the property fails, and TLC shows how.

`OneShotHandlerProofs`, for all sets of requests and devices and all values of
the other constants that `HandlerAssumption` allows:

- `TypeCorrect`: `Spec => []TypeOK`. Not by shape alone: `cached` counts
  entries, and stays a number only because nothing takes a device out that is
  not in. The invariant `TypeInv` adds that the hub thread's position and the
  device it is in (`frame`) fit together.
- `LimitKept`: `Spec => []WithinLimit`. `WithinLimit` is not inductive: between
  the check of the limit and the device being tracked there may be a callback and
  another position (`track`). `LimitInv` adds that in that position a slot is
  still free for the frame's target, from the lemmas on what an append and a
  removal do to the length of a vector.

`OneShotLinksProofs`, with no further hypothesis unless named:

- `RequestInOnePlace`: `Spec => []OnePlace`; `CachedAreIdle`:
  `Spec => []CachedIsIdle`; `CallbacksMatch`: `Spec => []CallbackMatchesLink`;
  `NeverInsane`: `Spec => []SanityCheck`, the assertion of the handler that throws
  for a device with two references.
- `SlotsMatch`: `Spec => []SlotsMatchLinks` if `ExecuteErrors` has PostgreSQL at
  most, whose Execute is called when the connection has been made. An Execute
  that fails inside Connect (CURL, when the easy handle cannot be added) lets
  the handler go on with a device its callback has already put away.
- `KeepsPool`: `Spec => ImplementsPool`, the refinement of `RequestPool`.

The three first need each other, and more: the two maps are inverse to each other
(`LinksInverse`); each device, by its phase and by where the hub thread is, has
the entries in the cache and in the slots that it may have, and the callback of
the request it is linked to (`DeviceOK`); and behind a Connect or a callback the
position of the hub thread fits the device it returns into (`TrackOK`,
`ResumeOK`). `LinksInv` is the conjunction. The steps of `Push` are treated
together: whichever of them it is, it picks a device that nothing else refers
to (`PickFacts`). The refinement then follows from `OnePlace` and `WithinLimit`:
each step moves one request of the pool, publishes all finished ones, or is a
stutter.

`OneShotDevicesProofs`:

- `OnlyReusable`: `Spec => OnlyReusableGiven` and `InvalidationComplete`:
  `Spec => InvalidationReachesAll`, both about steps. They rest on `SpentInv`:
  a device that is tracked and not deleted is in one of the vectors that
  InvalidateDevices goes through, and behind PurgeDevices the cache has nothing
  but reusable devices.
- `NothingDangles`: `Spec => []NoDangling` if Redis does not refuse a command:
  hiredis does so only on a connection that is being closed
  (`redis/device.cc:173`), which no cached device has.
- `FrameStaysAlive`: `Spec => []FrameAlive` and `NothingFatal`:
  `Spec => []NoFatal`, under `NoLimits`: connections have no limit of uses, which is
  how the connectors are configured by default (`ngx/shared_glue.cc:181-228`), and
  nobody sends the signal for an invalidation (`ev/signals.cc`); `NothingFatal`
  also needs the hypothesis of `SlotsMatch`. `FrameInv` adds that every device stays reusable then, so that
  the callback never deletes the device it is called by. With limits the
  property is false: `one_shot_spent_frame`.

`SchedulerProofs`, for any finite sets of tasks and subscriptions, any clients
and whichever of them leave:

- `SchedulerTypes`: `Spec => []TypeOK`; `IdsNeverShared`: `Spec => []IdsUnique`;
  `MapsAlwaysAgree`: `Spec => []MapsAgree`; `StepNeverDeleted`:
  `Spec => []SteppingAlive`.

None of these is inductive. `IInv` is their conjunction with three more facts:
the generator has counted no further than there are objects with an id
(`IdsBounded`, by the cardinality lemmas of the library), a zombie is kept once
and is not deleted (`ZombiesOnce`), and what a client or the hub holds has an id
(`Pushed`). The argument turns on three
lemmas: a rented id is nobody's (`RentFresh`); objects that are deleted return
their ids, which then nobody has (`DeleteReturns`); and `ReleaseObject` is only
called for an object that the map of ids still finds, so never for a zombie,
and ends that object only (`ReleaseEnds`). That last fact is worth having: the
code would use a zombie after deleting it, and nothing checks for it.

- `ObjectInOnePlace`: `Spec => []OnePlace`. `PlaceInv` says that an object with an
  id which has not ended is detached, or is in the vector of exactly one client
  that is registered.
- `TaskHasOneMessage`: `Spec => []OneMessagePerTask`; `MessageNeverStrays`:
  `Spec => []MessageFindsSender`; `PublishFindsSubscription`:
  `Spec => []NoLogicError`; `StepHasCause`: `Spec => StartedByEcho`.

The last four hold while the manager of the subscriptions stays (`Manager \notin
Leaving`): in the code it unregisters in `Manager::Shutdown` only
(`redis/subscriptions/manager.cc`), at the end of the process; any other client
may leave at any time. Without it `scheduler_shutdown` shows them false. Their
invariant is `FlightInv`: every message has the id of the object it is about
(`Signed`), the subscriptions belong to the manager (`ManagerHolds`), a task
that was not pushed has taken no step (`Unstarted`), and the messages
that go on with a task are one in all with its Step (`OneMessage`). They hold
together only: that the map of ids finds the right object for a message needs
that no message of an ended object is left, and this needs that each step used
its message up.

`BridgeProofs`, for any callbacks, any size of the socket and either bridge:

- `BridgeTypes`: `SystemSpec => []TypeOK`; `PointerOnce`:
  `SystemSpec => []OnePointer`; `QuietStop`: `SystemSpec => []WaitedStopIsQuiet`;
  `KeepsPromise`: `SystemSpec => ImplementsPromise`.

`OnePointer` says of each address that somebody has where its callback is; the
refinement needs the converse for the callback that runs (`OneRuns`), since the
promise lets one run at a time. The refinement is proved step by step:
`StageMoves` turns one move of a callback into one move of the promise or none.
`QuietStop` rests on the hub thread having a callback in hand only inside its
event loop, or in one that was deleted under it (`QuietInv`).

`TaskClientsProofs`, for any calls, tokens and bound:

- `ClientTypes`: `Spec => []TypeOK`, with the fact that each command of a Fetch
  that is under way has a token (`Typed`).
- `SessionKeepsOwn`: `Spec => []OwnPayload`. Inductive with one more conjunct:
  unless a token was set during an HGETALL, every HGETALL under way asks for the
  token that the session has (`Own`).
- `ToldOnce`: `Spec => Promise!Spec`. It needs that the callbacks on the stack
  are of different calls, each of which is being told (`Frames`): otherwise an
  exception of an outer callback could end a call that was settled.

`SubscriptionsProofs`, for any channels, patterns and calls, and as many losses
as there may be:

- `SubscriptionsTypes`: `Spec => []TypeOK`; `ContextsTracked`:
  `Spec => []PendingTracked`; `HandlerFollowsDevice`: `Spec => []RunningMatches`.
  `BaseInv` is inductive: that a vector of contexts never loses an entry too many
  (`contexts` stays a number) is what `PendingTracked` says, so neither can be
  proved alone.
- `OneCommandUnderWay`, `TimeoutMatches`, `StatusIsRight`:
  `Spec => [](losses = 0 => P)`, where P is `OneUnderWay`, `ArmedWhileWaiting` or
  `StatusAgrees`.
- `LinksAreServed`: `Spec /\ []FewClients => [](losses = 0 => LinkedIsServed)`.

The last four speak of a time in which no connection was lost. Afterwards they
are false: a disconnection leaves the status maps and the timeout as they were.
`Steady` strengthens them: whatever is under way is about the current command,
a reply says what the server has done (`OnlyCurrent`), and a name about which no
command waits has the status the server knows (`StatusKnown`): the status of
other names may be anything for a while, and only the count of their contexts
tells which. `LinksAreServed` needs in addition that a name with clients is
subscribed or waits for a command (`Served`). There may be any number of clients,
but `FewClients` says that at no time a name has more than two, the `nullptr` of
`Startup` counted: `Notify` erases from the vector it iterates over and meets each
client of two, but not of three, and then a client stays linked to a name that is
not subscribed. Nothing in the code keeps a third client away, so this is a
condition on its use; without it the property is false, as `subs_notify`
shows. The other hypothesis, `DefaultsAreSafe`, is
about clients that subscribe without naming anything and get the names of
`Startup`: nobody makes sure that these are still subscribed. They are as long
as clients unsubscribe only names that they are linked to, since `Startup`'s own
entry is never the last one to go then (`DefaultsKept`); a client that
unsubscribes what it never asked for ends them for all.

Only model-checked: liveness (`EveryRequestAnswered`, `LostDeviceDeleted`,
`EveryTaskEnds`, `CommandsFinish`, `Recovered`, `StopReturns`,
`EveryCallbackPerformed`, and the fairness of `CallPromise` in `KeepsPromise`),
since TLAPS has no support for ENABLED and fairness; and the four violations.

## 5. Plan

Done: `RequestPool`, `OneShotHandler`, `Scheduler`; `KeepAliveHandler` and
`Subscriptions`; `Bridge` and `HubThread`; `TaskClients`; theorems for every
safety property of the runs.

Open, in this order:

1. Proofs: what still holds of `Subscriptions` after a loss, and under what
   weaker conditions on limits of uses `FrameAlive` and `NoFatal` hold.
2. The connection set-up of the devices: authentication and database selection
   of Redis, statement_timeout and post-connect queries of PostgreSQL, to find
   the outcomes that `OneShotHandler` leaves out.
3. A composition of `Scheduler`, `RequestPool` and `Bridge`.

## 6. Not modelled

- `ev/ngx/shared_glue.cc` reads limits and ranges from the configuration; they
  are constants here.
- `ev/beanstalk`, the loggers and `cc/*` (JWT, RSA, HMAC, trackers, files,
  time) are wrappers of libraries, output, or functions without state that
  actors share.
- `casper::Session::Patch`, the conversions of `redis::Value` and the parsing of
  headers are functions of data.
- Data races proper (fields that the hub thread reads while the main thread
  writes them, the timers that the hub thread adds to the main thread's event
  loop, `running_` and `aborted_`) are modelled as atomic accesses or not at all.

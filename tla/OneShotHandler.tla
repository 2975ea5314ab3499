--------------------------- MODULE OneShotHandler ---------------------------
(***************************************************************************)
(* ev::hub::OneShotHandler (hub/one_shot_handler.cc) with the devices it   *)
(* drives (device.h, redis/device.cc, postgresql/device.cc, curl/          *)
(* device.cc) and the loop that feeds it (hub/hub.cc).                     *)
(*                                                                         *)
(* The hub thread runs callbacks to completion; the main thread and the    *)
(* servers run beside it.  A callback is cut where another thread, or code *)
(* further up the C++ stack, can see the difference: at each turn of the   *)
(* loop of Push, and where a callback of the handler returns into a member *)
(* function of the device that made it.  "pc" says where the hub thread    *)
(* is:                                                                     *)
(*   wait    in event_base_loop                                            *)
(*   read    in the receive loop of DatagramEventHandlerCallback           *)
(*   push    at the head of the loop of OneShotHandler::Push               *)
(*   track   in Push, behind a Connect that returned Nop                   *)
(*   return  in a member function of device "frame", behind its callback   *)
(*   notify  the same, and the listener is still to be told of a loss      *)
(*   stopped the exception left event_base_loop: the process is gone       *)
(* A definition under the word "Slip" belongs to no behaviour of the code: *)
(* it is a mistake that could be made in the definition below, kept to     *)
(* see that the properties notice it.                                      *)
(***************************************************************************)
EXTENDS Integers, Sequences, FiniteSets, SequencesExt

CONSTANTS
  Requests,       \* one-shot requests the main thread may push
  Devices,        \* addresses for devices: bounds the number of allocations
  Target,         \* Target[r]: a->target_ of request r
  Limit,          \* Limit[t]: devices_limits_, max_conn_per_worker_
  MaxReuse,       \* MaxReuse[t]: what rnd_queries_per_conn_ may draw
  Invalidates,    \* the requests with Control::Invalidate
  ConnectErrors,  \* targets for which Connect may return Error
  ExecuteErrors,  \* targets for which Execute may return Error
  NoRequest,      \* nullptr
  NoDevice        \* nullptr

Targets == {"Redis", "PostgreSQL", "CURL"}

\* The only Invalidate request of the code is built for PostgreSQL
\* (signals.cc:154).
ASSUME HandlerAssumption ==
  /\ Target \in [Requests -> Targets]
  /\ Limit \in [Targets -> Nat \ {0}]
  /\ MaxReuse \in [Targets -> SUBSET (Nat \cup {-1})]
  /\ MaxReuse["Redis"] \subseteq {-1}
  /\ MaxReuse["CURL"] \subseteq {-1}
  /\ Invalidates \subseteq {r \in Requests : Target[r] = "PostgreSQL"}
  /\ ConnectErrors \subseteq Targets
  /\ ExecuteErrors \subseteq Targets
  /\ NoRequest \notin Requests
  /\ NoDevice \notin Devices

VARIABLES
  \* main thread and sockets
  unsent,         \* requests the main thread still has
  inbox,          \* datagrams on their way to the hub
  posted,         \* posted[r]: answers to r on their way to the main thread
  answered,       \* answered[r]: answers to r the main thread has handled
  \* OneShotHandler
  pending,        \* pending_requests_
  finished,       \* completed_requests_ and rejected_requests_
  inUse,          \* in_use_devices_
  cached,         \* cached_devices_, as the number of entries of a device
  requestDevice,  \* request_device_map_
  deviceRequest,  \* device_request_map_
  zombies,        \* zombies_
  \* devices
  device,         \* the fields of each ev::Device
  freed,          \* devices that were deleted
  \* control of the hub thread
  pc, caller, idx, frame, current,
  fatal           \* ThrowFatalException was called

mainVars    == <<unsent, answered>>
queueVars   == <<pending, inbox>>
linkVars    == <<requestDevice, deviceRequest>>
controlVars == <<caller, idx, frame, current>>
vars == <<unsent, inbox, posted, answered, pending, finished, inUse, cached,
          requestDevice, deviceRequest, zombies, device, freed,
          pc, caller, idx, frame, current, fatal>>

\* phase: none (not allocated), connecting (connected_callback_ set and the
\* connection not settled), open (nothing outstanding), executing
\* (execute_callback_ set), lost (no context).  owner: the request captured
\* by the callback the device holds.
Phases == {"none", "connecting", "open", "executing", "lost"}
DeviceRecord ==
  [phase : Phases, target : Targets, uses : Nat, max : Nat \cup {-1},
   invalid : BOOLEAN, tracked : BOOLEAN, owner : Requests \cup {NoRequest}]

Unallocated ==
  [phase |-> "none", target |-> "Redis", uses |-> 0, max |-> -1,
   invalid |-> FALSE, tracked |-> TRUE, owner |-> NoRequest]

\* Slip: -1 is not treated as "no limit".
ReusableNeedsLimit(dev) == ~dev.invalid /\ dev.uses < dev.max

\* ev::Device::Reusable.
Reusable(dev) == ~dev.invalid /\ (dev.max = -1 \/ dev.uses < dev.max)

Count(s, d) == Cardinality({i \in DOMAIN s : s[i] = d})

References(d) == cached[d] + Count(inUse[device[d].target], d)

\* OneShotHandler::SanityCheck: the counter of a device starts at 0, so it
\* throws at the third reference.
SanityCheck == \A d \in Devices : References(d) - 1 =< 1

Init ==
  /\ unsent = Requests
  /\ inbox = <<>> /\ pending = <<>>
  /\ posted = [r \in Requests |-> 0]
  /\ answered = [r \in Requests |-> 0]
  /\ finished = [r \in Requests |-> 0]
  /\ inUse = [t \in Targets |-> <<>>]
  /\ cached = [d \in Devices |-> 0]
  /\ requestDevice = [r \in Requests |-> NoDevice]
  /\ deviceRequest = [d \in Devices |-> NoRequest]
  /\ zombies = {} /\ freed = {}
  /\ device = [d \in Devices |-> Unallocated]
  /\ pc = "wait" /\ caller = "Idle" /\ idx = 0
  /\ frame = NoDevice /\ current = NoRequest
  /\ fatal = FALSE

-----------------------------------------------------------------------------
(* Parts of the handlers.                                                  *)

\* Slip: only one of the two maps is written.
LinkOneWay(r, d) ==
  /\ requestDevice' = [requestDevice EXCEPT ![r] = d]
  /\ UNCHANGED deviceRequest

Link(r, d) ==
  /\ requestDevice' = [requestDevice EXCEPT ![r] = d]
  /\ deviceRequest' = [deviceRequest EXCEPT ![d] = r]

Unlink(r) ==
  /\ requestDevice' = [requestDevice EXCEPT ![r] = NoDevice]
  /\ deviceRequest' = [d \in Devices |->
                         IF d = requestDevice[r] THEN NoRequest
                                                 ELSE deviceRequest[d]]

\* Slip: the search for the device stops short of it.
EraseInUseMisses(d) == UNCHANGED inUse

\* Remove a device from the vector of its target (the first entry only).
EraseInUse(d) ==
  inUse' = [inUse EXCEPT ![device[d].target] = RemoveFirst(@, d)]

\* Slip: what was posted stays in the queues.
FinishAndPublishKeeps(r, deleted) ==
  /\ finished' = [finished EXCEPT ![r] = @ + 1]
  /\ posted' = [q \in Requests |-> posted[q] + finished'[q]]
  /\ freed' = freed \cup deleted \cup zombies
  /\ zombies' = {}
  /\ UNCHANGED fatal

\* push_back on completed_requests_ or rejected_requests_, SanityCheck, and
\* Publish: everything finished is posted and the zombies are deleted.
\* "deleted" is what the handler deleted on its own before that.
FinishAndPublish(r, deleted) ==
  LET done == [finished EXCEPT ![r] = @ + 1]
  IN  IF SanityCheck'
      THEN /\ posted' = [q \in Requests |-> posted[q] + done[q]]
           /\ finished' = [q \in Requests |-> 0]
           /\ freed' = freed \cup deleted \cup zombies
           /\ zombies' = {}
           /\ UNCHANGED fatal
      ELSE /\ finished' = done
           /\ freed' = freed \cup deleted
           /\ fatal' = TRUE
           /\ UNCHANGED <<posted, zombies>>

\* Where an exception thrown in Push ends up: Hub catches it around the Push
\* of a received request (hub.cc:812-829), nobody catches it above Idle.
PcAfterThrow == IF caller = "Receive" THEN "read" ELSE "stopped"

-----------------------------------------------------------------------------
(* The main thread.                                                        *)

\* A request goes into the datagram socket of the hub.
Send(r) ==
  /\ pc # "stopped" /\ r \in unsent
  /\ unsent' = unsent \ {r}
  /\ inbox' = Append(inbox, r)
  /\ UNCHANGED <<posted, answered, pending, finished, inUse, cached, linkVars,
                 zombies, device, freed, pc, controlVars, fatal>>

\* An answer is read from the bridge's socket, handled by NextStep, and its
\* request deleted.  The bridge may reorder answers (it retries after
\* EAGAIN), so any answer on its way may be the next.
Deliver(r) ==
  /\ pc # "stopped" /\ posted[r] > 0
  /\ posted' = [posted EXCEPT ![r] = @ - 1]
  /\ answered' = [answered EXCEPT ![r] = @ + 1]
  /\ UNCHANGED <<unsent, inbox, pending, finished, inUse, cached, linkVars,
                 zombies, device, freed, pc, controlVars, fatal>>

-----------------------------------------------------------------------------
(* Push: the start of a pass, by a received request or by Idle.            *)

\* Slip: PurgeDevices is not called.
SpentIgnored(devs) == {}

\* What PurgeDevices deletes and erases, devices being as in "devs".
Spent(devs) == {d \in Devices : cached[d] > 0 /\ ~Reusable(devs[d])}

\* KillZombies, then PurgeDevices, then the loop.
BeginPush(who) ==
  LET purged == Spent(device)
  IN  /\ freed' = freed \cup zombies \cup purged
      /\ zombies' = {}
      /\ cached' = [d \in Devices |-> IF d \in purged THEN 0 ELSE cached[d]]
      /\ idx' = 0 /\ pc' = "push" /\ caller' = who

\* The socket is readable, or its 15 s timeout fired.
StartRead ==
  /\ pc = "wait"
  /\ pc' = "read"
  /\ UNCHANGED <<mainVars, inbox, posted, pending, finished, inUse, cached,
                 linkVars, zombies, device, freed, controlVars, fatal>>

\* One datagram: OneShotHandler::Push(Request*).
Receive ==
  /\ pc = "read" /\ inbox # <<>>
  /\ inbox' = Tail(inbox)
  /\ pending' = Append(pending, Head(inbox))
  /\ BeginPush("Receive")
  /\ UNCHANGED <<mainVars, posted, finished, inUse, linkVars, device, frame,
                 current, fatal>>

\* EAGAIN: OneShotHandler::Idle.
EndRead ==
  /\ pc = "read" /\ inbox = <<>>
  /\ BeginPush("Idle")
  /\ UNCHANGED <<mainVars, queueVars, posted, finished, inUse, linkVars,
                 device, frame, current, fatal>>

-----------------------------------------------------------------------------
(* Push: the loop.                                                         *)

Candidate == pending[idx + 1]

\* Slip: the limit is compared with > instead of >=.
FullPastLimit(t) == Len(inUse[t]) > Limit[t]

Full(t) == Len(inUse[t]) >= Limit[t]

MayTake == pc = "push" /\ idx < Len(pending) /\ ~Full(Target[Candidate])

\* erase(begin() + idx), then ++idx: the request that moves into the hole is
\* not looked at again in this pass.
Take ==
  /\ pending' = RemoveAt(pending, idx + 1)
  /\ idx' = idx + 1

\* The loop ends: nothing left, or the limit of the candidate's target is
\* reached, whatever stands behind it.  Idle publishes afterwards.
PushDone ==
  /\ pc = "push"
  /\ idx < Len(pending) => Full(Target[Candidate])
  /\ \/ /\ caller = "Receive"
        /\ pc' = "read"
        /\ UNCHANGED <<posted, finished, zombies, freed>>
     \/ /\ caller = "Idle"
        /\ pc' = "wait"
        /\ posted' = [r \in Requests |-> posted[r] + finished[r]]
        /\ finished' = [r \in Requests |-> 0]
        /\ freed' = freed \cup zombies
        /\ zombies' = {}
  /\ UNCHANGED <<mainVars, queueVars, inUse, cached, linkVars, device,
                 controlVars, fatal>>

\* Slip: devices in use are not invalidated.
DevicesOfCached(t) == {d \in Devices : device[d].target = t /\ cached[d] > 0}

\* The devices InvalidateDevices finds.
DevicesOf(t) == {d \in Devices : device[d].target = t /\ References(d) > 0}

\* A request to invalidate the connections of a target: InvalidateDevices,
\* and the request is complete.
PushInvalidate ==
  LET r == Candidate
      hit == DevicesOf(Target[r])
      purged == Spent(device')
  IN  /\ MayTake /\ r \in Invalidates
      /\ Take
      /\ device' = [d \in Devices |->
                      [device[d] EXCEPT !.invalid = @ \/ d \in hit]]
      /\ cached' = [d \in Devices |-> IF d \in purged THEN 0 ELSE cached[d]]
      /\ UNCHANGED inUse
      /\ Unlink(r)
      /\ FinishAndPublish(r, purged)
      /\ pc' = IF SanityCheck' THEN "push" ELSE PcAfterThrow
      /\ UNCHANGED <<mainVars, inbox, caller, frame, current>>

\* The device for a request: a cached one (the first, but nothing here depends
\* on which), or else a new one.
CachedFor(t) == {d \in Devices : cached[d] > 0 /\ device[d].target = t}
IsNew(d) == device[d].phase = "none"
Picks(d) ==
  LET t == Target[Candidate]
  IN  IF CachedFor(t) = {} THEN IsNew(d) ELSE d \in CachedFor(t)

\* Slips: the vector is erased from even when it is empty, or not at all.
UncacheAlways(d) == [cached EXCEPT ![d] = @ - 1]
UncacheNever(d) == cached

Uncache(d) == IF IsNew(d) THEN cached ELSE [cached EXCEPT ![d] = @ - 1]

\* Device d as Push hands it to Connect.
SetUp(d, max) ==
  IF IsNew(d)
  THEN [Unallocated EXCEPT !.target = Target[Candidate], !.max = max]
  ELSE device[d]

\* Connect answers at once, with the callback already run, for every CURL
\* device and for a Redis device that has its connection.
ConnectsAtOnce(d) ==
  \/ Target[Candidate] = "CURL"
  \/ Target[Candidate] = "Redis" /\ ~IsNew(d)

\* in_use_devices_ push_back and SanityCheck behind Connect.
Track(t, d) ==
  /\ inUse' = [inUse EXCEPT ![t] = Append(@, d)]
  /\ IF SanityCheck'
     THEN pc' = "push" /\ UNCHANGED fatal
     ELSE pc' = PcAfterThrow /\ fatal' = TRUE

\* Connect returned Async: a connection is being made, or a PostgreSQL
\* connection is armed again.
PushConnecting(d, max) ==
  LET r == Candidate
  IN  /\ MayTake /\ r \notin Invalidates /\ Picks(d) /\ ~ConnectsAtOnce(d)
      /\ Take
      /\ device' = [device EXCEPT ![d] =
                      [SetUp(d, max) EXCEPT !.phase = "connecting", !.owner = r]]
      /\ cached' = Uncache(d)
      /\ Link(r, d)
      /\ Track(Target[r], d)
      /\ UNCHANGED <<mainVars, inbox, posted, finished, zombies, freed,
                     caller, frame, current>>

\* Connect ran its callback, whose Execute returned Async.
PushExecuting(d, max) ==
  LET r == Candidate
  IN  /\ MayTake /\ r \notin Invalidates /\ Picks(d) /\ ConnectsAtOnce(d)
      /\ Take
      /\ device' = [device EXCEPT ![d] =
                      [SetUp(d, max) EXCEPT
                         !.phase = "executing", !.owner = r,
                         !.uses = IF Target[r] = "CURL" THEN @ ELSE @ + 1]]
      /\ cached' = Uncache(d)
      /\ Link(r, d)
      /\ Track(Target[r], d)
      /\ UNCHANGED <<mainVars, inbox, posted, finished, zombies, freed,
                     caller, frame, current>>

\* Connect ran its callback, whose Execute returned Error: the callback
\* rejects the request and caches the device, and Connect returns Nop.
PushExecuteError(d, max) ==
  LET r == Candidate
      t == Target[r]
  IN  /\ MayTake /\ r \notin Invalidates /\ Picks(d) /\ ConnectsAtOnce(d)
      /\ t \in ExecuteErrors
      /\ Take
      /\ device' = [device EXCEPT ![d] =
                      [SetUp(d, max) EXCEPT
                         !.phase = "open",
                         !.uses = IF t = "CURL" THEN @ ELSE @ + 1]]
      /\ inUse' = [inUse EXCEPT ![t] = RemoveFirst(@, d)]
      /\ requestDevice' = [requestDevice EXCEPT ![r] = NoDevice]
      /\ deviceRequest' = [deviceRequest EXCEPT ![d] = NoRequest]
      /\ cached' = [Uncache(d) EXCEPT ![d] =
                      IF Reusable(device'[d]) THEN @ + 1 ELSE @]
      /\ FinishAndPublish(r, IF Reusable(device'[d]) THEN {} ELSE {d})
      /\ IF SanityCheck'
         THEN pc' = "track" /\ frame' = d /\ current' = r
         ELSE pc' = PcAfterThrow /\ UNCHANGED <<frame, current>>
      /\ UNCHANGED <<mainVars, inbox, caller>>

\* Behind that Connect: current_request->target_ is read, and the device goes
\* into in_use_devices_.
PushTrack ==
  /\ pc = "track"
  /\ frame' = NoDevice /\ current' = NoRequest
  /\ UNCHANGED <<mainVars, queueVars, posted, finished, cached, linkVars,
                 zombies, device, freed, caller, idx>>
  /\ Track(Target[current], frame)

\* The same read, when the main thread has deleted the request: what is read
\* may still be the target (PushTrack), or names no vector.
PushTrackDeleted ==
  /\ pc = "track" /\ answered[current] > 0
  /\ pc' = "stopped" /\ fatal' = TRUE
  /\ UNCHANGED <<mainVars, queueVars, posted, finished, inUse, cached,
                 linkVars, zombies, device, freed, controlVars>>

\* Connect of a new device returned Error: the device is deleted and the
\* request rejected.
PushConnectError(d, max) ==
  LET r == Candidate
  IN  /\ MayTake /\ r \notin Invalidates /\ Picks(d) /\ IsNew(d)
      /\ Target[r] \in ConnectErrors
      /\ Take
      /\ device' = [device EXCEPT ![d] = [SetUp(d, max) EXCEPT !.phase = "lost"]]
      /\ Unlink(r)
      /\ UNCHANGED <<inUse, cached>>
      /\ FinishAndPublish(r, {d})
      /\ pc' = IF SanityCheck' THEN "push" ELSE PcAfterThrow
      /\ UNCHANGED <<mainVars, inbox, caller, frame, current>>

-----------------------------------------------------------------------------
(* Events of a device, while the hub thread waits.                         *)

\* What the connected and the execute callback share: the request is
\* unlinked and finished, the device leaves in_use_devices_ and, when it is
\* reusable, is cached; "spent" is what happens to it otherwise.
Settle(d, dev, spent) ==
  /\ device' = [device EXCEPT ![d] =
                  IF Reusable(dev) \/ spent # "untrack"
                  THEN dev ELSE [dev EXCEPT !.tracked = FALSE]]
  /\ Unlink(device[d].owner)
  /\ EraseInUse(d)
  /\ cached' = [cached EXCEPT ![d] = IF Reusable(dev) THEN @ + 1 ELSE @]
  /\ FinishAndPublish(device[d].owner,
                      IF Reusable(dev) \/ spent # "delete" THEN {} ELSE {d})

\* The callback is over and the device's own function goes on.
ResumeIn(d, where) ==
  /\ pc' = IF SanityCheck' THEN where ELSE "wait"
  /\ frame' = IF SanityCheck' THEN d ELSE NoDevice
  /\ UNCHANGED <<mainVars, queueVars, caller, idx, current>>

\* The connection is up and the request is sent on it.
Connected(d) ==
  /\ pc = "wait" /\ d \notin freed
  /\ device[d].phase = "connecting"
  /\ device' = [device EXCEPT ![d].phase = "executing", ![d].uses = @ + 1]
  /\ UNCHANGED <<mainVars, queueVars, posted, finished, inUse, cached,
                 linkVars, zombies, freed, pc, controlVars, fatal>>

\* The connection is up, but Execute returned Error.
ConnectedExecuteError(d) ==
  /\ pc = "wait" /\ d \notin freed
  /\ device[d].phase = "connecting" /\ device[d].target \in ExecuteErrors
  /\ Settle(d, [device[d] EXCEPT !.phase = "open", !.uses = @ + 1,
                                 !.owner = NoRequest], "delete")
  /\ ResumeIn(d, "return")

\* Slip: the listener is not told that the connection failed.
ConnectFailedSilently(d) ==
  /\ pc = "wait" /\ d \notin freed
  /\ device[d].phase = "connecting"
  /\ Settle(d, [device[d] EXCEPT !.phase = "lost", !.owner = NoRequest],
            "delete")
  /\ ResumeIn(d, "return")

\* The connection could not be made, or broke before the request was sent.
ConnectFailed(d) ==
  /\ pc = "wait" /\ d \notin freed
  /\ device[d].phase = "connecting"
  /\ Settle(d, [device[d] EXCEPT !.phase = "lost", !.owner = NoRequest],
            "delete")
  /\ ResumeIn(d, "notify")

\* The reply came.
Reply(d) ==
  /\ pc = "wait" /\ d \notin freed
  /\ device[d].phase = "executing"
  /\ Settle(d, [device[d] EXCEPT !.phase = "open", !.owner = NoRequest],
            "untrack")
  /\ ResumeIn(d, "return")

\* The connection broke while a reply was due: the execute callback gets an
\* error, then the listener is told.
LostExecuting(d) ==
  /\ pc = "wait" /\ d \notin freed
  /\ device[d].phase = "executing" /\ device[d].target # "CURL"
  /\ Settle(d, [device[d] EXCEPT !.phase = "lost", !.owner = NoRequest],
            "untrack")
  /\ ResumeIn(d, "notify")

\* An idle connection was closed by the server.
LostIdle(d) ==
  /\ pc = "wait" /\ d \notin freed
  /\ device[d].phase = "open" /\ device[d].target # "CURL"
  /\ device' = [device EXCEPT ![d].phase = "lost"]
  /\ pc' = "notify" /\ frame' = d
  /\ UNCHANGED <<mainVars, queueVars, posted, finished, inUse, cached,
                 linkVars, zombies, freed, caller, idx, current, fatal>>

\* Back in the device's function: PostgreSQL deletes a device that is no
\* longer tracked, Redis and CURL do not look.
Return ==
  /\ pc = "return"
  /\ pc' = "wait" /\ frame' = NoDevice
  /\ freed' = IF device[frame].target = "PostgreSQL" /\ ~device[frame].tracked
              THEN freed \cup {frame} ELSE freed
  /\ UNCHANGED <<mainVars, queueVars, posted, finished, inUse, cached,
                 linkVars, zombies, device, caller, idx, current, fatal>>

\* OneShotHandler::OnConnectionStatusChanged with Disconnected or Error.
Notify ==
  LET d == frame
      r == deviceRequest[d]
      found == References(d) > 0
  IN  /\ pc = "notify" /\ d \notin freed
      /\ IF SanityCheck /\ found
         THEN /\ IF cached[d] > 0
                 THEN cached' = [cached EXCEPT ![d] = @ - 1] /\ UNCHANGED inUse
                 ELSE EraseInUse(d) /\ UNCHANGED cached
              /\ zombies' = zombies \cup {d}
              /\ IF r # NoRequest
                 THEN Unlink(r) /\ posted' = [posted EXCEPT ![r] = @ + 1]
                 ELSE UNCHANGED <<linkVars, posted>>
              /\ UNCHANGED fatal
         ELSE /\ fatal' = TRUE
              /\ UNCHANGED <<cached, inUse, zombies, linkVars, posted>>
      /\ pc' = "wait" /\ frame' = NoDevice
      /\ UNCHANGED <<mainVars, queueVars, finished, device, freed, caller, idx,
                     current>>

\* The callback deleted the device under the function that goes on: its
\* listener_ptr_ is read from freed memory, which may hold nullptr or not.
NotifyDeleted ==
  /\ pc = "notify" /\ frame \in freed
  /\ \/ pc' = "wait" /\ UNCHANGED fatal
     \/ pc' = "stopped" /\ fatal' = TRUE
  /\ frame' = NoDevice
  /\ UNCHANGED <<mainVars, queueVars, posted, finished, inUse, cached,
                 linkVars, zombies, device, freed, caller, idx, current>>

-----------------------------------------------------------------------------
MainNext == \E r \in Requests : Send(r) \/ Deliver(r)

ReadNext == StartRead \/ Receive \/ EndRead

PushNext ==
  \/ PushDone
  \/ PushInvalidate
  \/ /\ MayTake
     /\ \E d \in Devices, max \in MaxReuse[Target[Candidate]] :
          \/ PushConnecting(d, max)
          \/ PushExecuting(d, max)
          \/ PushExecuteError(d, max)
          \/ PushConnectError(d, max)
  \/ PushTrack
  \/ PushTrackDeleted

\* A device whose connection or reply is due settles one way or the other.
Settles(d) ==
  \/ Connected(d) \/ ConnectedExecuteError(d) \/ ConnectFailed(d)
  \/ Reply(d) \/ LostExecuting(d)

DeviceNext == \E d \in Devices : Settles(d) \/ LostIdle(d)

ResumeNext == Return \/ Notify \/ NotifyDeleted

HubNext == ReadNext \/ PushNext \/ ResumeNext

\* An uncaught exception or a wild read has ended the process.
Terminated == pc = "stopped" /\ UNCHANGED vars

Next == MainNext \/ HubNext \/ DeviceNext \/ Terminated

Spec == Init /\ [][Next]_vars

\* The hub thread keeps running (its receive event comes back every 15 s at
\* the latest); libevent serves every socket that is ready, so a device whose
\* event is due is served although the thread is often busy elsewhere (SF);
\* the main thread reads its socket.  That a connection attempt and a reply
\* settle in the end is what TCP keep-alive, statement_timeout and CURL's
\* timeouts are configured for.
Fairness ==
  /\ WF_vars(HubNext)
  /\ \A d \in Devices : SF_vars(Settles(d))
  /\ \A r \in Requests : WF_vars(Deliver(r))

FairSpec == Spec /\ Fairness

-----------------------------------------------------------------------------
(* Properties.                                                             *)

TypeOK ==
  /\ unsent \subseteq Requests
  /\ inbox \in Seq(Requests) /\ pending \in Seq(Requests)
  /\ posted \in [Requests -> Nat]
  /\ answered \in [Requests -> Nat]
  /\ finished \in [Requests -> Nat]
  /\ inUse \in [Targets -> Seq(Devices)]
  /\ cached \in [Devices -> Nat]
  /\ requestDevice \in [Requests -> Devices \cup {NoDevice}]
  /\ deviceRequest \in [Devices -> Requests \cup {NoRequest}]
  /\ zombies \subseteq Devices /\ freed \subseteq Devices
  /\ device \in [Devices -> DeviceRecord]
  /\ pc \in {"wait", "read", "push", "track", "return", "notify", "stopped"}
  /\ caller \in {"Receive", "Idle"}
  /\ idx \in Nat
  /\ frame \in Devices \cup {NoDevice}
  /\ current \in Requests \cup {NoRequest}
  /\ fatal \in BOOLEAN

\* A request is in exactly one place from the moment it exists until its
\* answer was handled: not lost, not answered twice, and never read by the
\* hub after the main thread deleted it (SanityCheck's "a request can only be
\* located in one of the lists", over the whole path of the request).
OnePlace ==
  \A r \in Requests :
    (IF r \in unsent THEN 1 ELSE 0) + Count(inbox, r) + Count(pending, r)
      + (IF requestDevice[r] # NoDevice THEN 1 ELSE 0)
      + finished[r] + posted[r] + answered[r] = 1

\* No more devices of a target are in use than its limit, whatever the order
\* of sends, replies and losses.
WithinLimit == \A t \in Targets : Len(inUse[t]) =< Limit[t]

\* A device takes a slot of in_use_devices_ if and only if a request runs on
\* it: no slot leaks, and no running request escapes the limit.
SlotsMatchLinks ==
  \A d \in Devices :
    Count(inUse[device[d].target], d) =
      IF deviceRequest[d] = NoRequest THEN 0 ELSE 1

\* A cached device is open, idle and not running a request of anybody, except
\* that the loss of a connection is noticed one callback before the listener
\* takes the device out: Push never hands out a dead or a busy device.
CachedIsIdle ==
  \A d \in Devices :
    cached[d] > 0 =>
      /\ cached[d] = 1
      /\ deviceRequest[d] = NoRequest
      /\ device[d].owner = NoRequest
      /\ device[d].tracked
      /\ \/ device[d].phase = "open"
         \/ device[d].phase = "lost" /\ pc = "notify" /\ frame = d

\* Nothing the handler refers to was deleted: no entry of its vectors, no
\* linked device, no zombie.
NoDangling ==
  \A d \in freed :
    References(d) = 0 /\ deviceRequest[d] = NoRequest /\ d \notin zombies

\* The callback a device holds belongs to the request it is linked to, and it
\* holds one exactly while its connection or its reply is due.
CallbackMatchesLink ==
  \A d \in Devices \ freed :
    /\ device[d].owner = deviceRequest[d]
    /\ device[d].phase \in {"connecting", "executing"} <=>
         device[d].owner # NoRequest

\* The "Unable to delete device" and "more than one reference" exceptions of
\* the handler are never thrown, wherever connections break.
NoFatal == ~fatal

\* The function of a device that goes on behind a callback of the handler has
\* not lost its object ("it's safe to delete it now",
\* one_shot_handler.cc:508).
FrameAlive == pc \in {"return", "notify"} => frame \notin freed

\* A request is only ever given a device that is new or may still be reused:
\* not an invalidated one, and not one that has run its last query.
OnlyReusableGiven ==
  [][\A d \in Devices :
       deviceRequest[d] = NoRequest /\ deviceRequest'[d] # NoRequest =>
         IsNew(d) \/ Reusable(device[d])]_vars

\* When an invalidation completes, every connection of its target that exists
\* is marked or deleted, those running a request included.
InvalidationReachesAll ==
  [][\A r \in Invalidates :
       finished[r] + posted[r] = 0 /\ finished'[r] + posted'[r] > 0 =>
         \A d \in Devices :
           device[d].target = Target[r] /\ ~IsNew(d) =>
             device'[d].invalid \/ ~device'[d].tracked \/ d \in freed']_vars

\* Every request that was pushed is answered.
EveryRequestAnswered ==
  \A r \in Requests : r \notin unsent ~> answered[r] > 0

\* Every device whose connection is gone is deleted: by KillZombies, at the
\* latest on the next tick.
LostDeviceDeleted ==
  \A d \in Devices : device[d].phase = "lost" ~> d \in freed

\* The handler keeps the promise of RequestPool.
Stage ==
  [r \in Requests |->
     IF r \in unsent THEN "unsent"
     ELSE IF answered[r] > 0 THEN "answered"
     ELSE IF finished[r] + posted[r] > 0 THEN "finished"
     ELSE IF requestDevice[r] # NoDevice THEN "running"
     ELSE "queued"]

Pool == INSTANCE RequestPool WITH stage <- Stage

\* Every behaviour of the handler is one of the pool of requests it stands
\* for: each request moves forward only, within the limits, and is answered
\* once.
ImplementsPool == Pool!Spec

=============================================================================

------------------------------- MODULE Bridge -------------------------------
(***************************************************************************)
(* The bridge to the main thread: ev::loop::Bridge on libevent and         *)
(* ev::ngx::Bridge on nginx.  CallOnMainThread makes a Callback object and *)
(* writes its address to a datagram socket, or sets a timer for it.  The   *)
(* main thread reads addresses, calls the objects and deletes them.        *)
(*                                                                         *)
(* A datagram holds a pointer and nothing else, so a pointer that is in    *)
(* the socket twice, or in the socket and in a timer, is a call on a       *)
(* deleted object.  The socket does not block: when it is full the callback*)
(* is put in a timer of one second and sent again.                         *)
(***************************************************************************)
EXTENDS Naturals, Sequences

CONSTANTS
  HubCallbacks,     \* made by the hub thread, with a payload and no timeout
  TimerCallbacks,   \* made by the main thread, with a timeout
  SignalCallbacks,  \* made by a signal handler that interrupts the main thread
  Throwing,         \* the callbacks that may throw
  Capacity,         \* datagrams the socket holds
  Nothing

Callbacks == HubCallbacks \cup TimerCallbacks \cup SignalCallbacks

ASSUME CallbackKinds ==
  /\ HubCallbacks \cap TimerCallbacks = {}
  /\ HubCallbacks \cap SignalCallbacks = {}
  /\ TimerCallbacks \cap SignalCallbacks = {}
  /\ Nothing \notin Callbacks
ASSUME ThrowingAssumption == Throwing \subseteq Callbacks
ASSUME CapacityAssumption == Capacity \in Nat \ {0}

VARIABLES
  kind,       \* which of the two bridges this is
  place,      \* where each callback is
  socket,     \* addresses in the socket
  armed,      \* loop: the read event is pending; ngx: an edge is not handled
  receiving,  \* the main thread is in SocketCallback / Handler
  running,    \* the callback that is called
  making,     \* the callback each context is handing to the bridge
  state       \* what has become of the bridge

bridgeVars ==
  <<kind, place, socket, armed, receiving, running, making, state>>

Contexts == {"hub", "main", "signal"}
\* "entered": CallOnMainThread holds its mutex and made the object.
\* "counted": ScheduleCalbackOnMainThread is about to send it.
\* "refused": the send failed with EAGAIN.
Places == {"unmade", "entered", "counted", "refused", "socket", "timer",
           "running", "deleted", "leaked"}
States == {"up", "failed", "stopped", "stuck", "dead"}

\* Startup of the nginx bridge, Start of the loop: the read event is added.
Init ==
  /\ kind \in {"loop", "ngx"}
  /\ place = [cb \in Callbacks |-> "unmade"]
  /\ socket = <<>>
  /\ armed = (kind = "loop")
  /\ receiving = FALSE
  /\ running = Nothing
  /\ making = [c \in Contexts |-> Nothing]
  /\ state = "up"

-----------------------------------------------------------------------------
(* CallOnMainThread, in any thread.                                        *)

\* The main thread is not inside CallOnMainThread, nor interrupted by a
\* signal handler that is.
MainFree ==
  /\ state \notin {"stuck", "dead"}
  /\ making["main"] = Nothing /\ making["signal"] = Nothing

Idle == MainFree /\ ~receiving /\ running = Nothing

\* Hub::NextCallback::Call and its siblings.
Make(cb) ==
  /\ state # "dead"
  /\ making["hub"] = Nothing /\ place[cb] = "unmade"
  /\ place' = [place EXCEPT ![cb] = "counted"]
  /\ making' = [making EXCEPT !["hub"] = cb]
  /\ UNCHANGED <<kind, socket, armed, receiving, running, state>>

\* Scheduler::SetClientTimeout and Manager::OnREDISDisconnected, at any
\* moment of the main thread's life, inside another callback too.
MakeTimer(cb) ==
  /\ MainFree /\ state # "stopped" /\ place[cb] = "unmade"
  /\ place' = [place EXCEPT ![cb] = "entered"]
  /\ making' = [making EXCEPT !["main"] = cb]
  /\ UNCHANGED <<kind, socket, armed, receiving, running, state>>

\* CallOnMainThread without a payload has a mutex of its own, which is not
\* recursive.
HoldsMutex(cb) == cb # Nothing /\ place[cb] = "entered"

\* Signals::OnSignal for SIGTTIN, in the signal handler.  Where it interrupts
\* the same function it waits for a mutex that its own thread holds.
Signal(cb) ==
  /\ state \notin {"stuck", "dead", "stopped"}
  /\ making["signal"] = Nothing /\ place[cb] = "unmade"
  /\ IF HoldsMutex(making["main"])
     THEN state' = "stuck" /\ UNCHANGED <<place, making>>
     ELSE /\ place' = [place EXCEPT ![cb] = "counted"]
          /\ making' = [making EXCEPT !["signal"] = cb]
          /\ UNCHANGED state
  /\ UNCHANGED <<kind, socket, armed, receiving, running>>

\* Where a callback goes when its context has nothing more to do with it.
Leave(context, where) ==
  /\ place' = [place EXCEPT ![making[context]] = where]
  /\ making' = [making EXCEPT ![context] = Nothing]

\* The loop's Stop closes the socket; the nginx bridge leaves it open.
Closed == kind = "loop" /\ state = "stopped"

\* Slip: the socket is not set non-block.
SendBlocks(context) ==
  /\ making[context] # Nothing /\ place[making[context]] = "counted"
  /\ Len(socket) < Capacity
  /\ socket' = Append(socket, making[context])
  /\ Leave(context, "socket")
  /\ armed' = (armed \/ kind = "ngx")
  /\ UNCHANGED <<kind, receiving, running, state>>

\* Slip: the error of an earlier send is taken for the error of this one.
SendRetries(context) ==
  /\ making[context] # Nothing /\ place[making[context]] = "counted"
  /\ IF Len(socket) < Capacity
     THEN /\ socket' = Append(socket, making[context])
          /\ armed' = (armed \/ kind = "ngx")
     ELSE UNCHANGED <<socket, armed>>
  /\ place' = [place EXCEPT ![making[context]] = "refused"]
  /\ UNCHANGED <<kind, receiving, running, making, state>>

\* The send of ScheduleCalbackOnMainThread: it succeeds, or fails with EAGAIN.
\* Behind the loop's Stop it throws: nothing of the hub thread catches that but
\* to call ThrowFatalException, whose callback Stop has cleared, so that the
\* process ends.
Send(context) ==
  /\ making[context] # Nothing /\ place[making[context]] = "counted"
  /\ state # "dead"
  /\ \/ /\ ~Closed /\ Len(socket) < Capacity
        /\ socket' = Append(socket, making[context])
        /\ Leave(context, "socket")
        /\ armed' = (armed \/ kind = "ngx")
        /\ UNCHANGED state
     \/ /\ ~Closed /\ Len(socket) = Capacity
        /\ place' = [place EXCEPT ![making[context]] = "refused"]
        /\ UNCHANGED <<socket, armed, making, state>>
     \/ /\ Closed
        /\ Leave(context, "leaked")
        /\ state' = "dead"
        /\ UNCHANGED <<socket, armed>>
  /\ UNCHANGED <<kind, receiving, running>>

\* ScheduleCalbackOnMainThread with a timeout: its caller's, or one second
\* after EAGAIN.  Behind the loop's Stop there is no base for the timer, and
\* it throws as Send does.
Defer(context) ==
  /\ making[context] # Nothing
  /\ place[making[context]] \in {"entered", "refused"}
  /\ state \notin {"stuck", "dead"}
  /\ Leave(context, IF Closed THEN "leaked" ELSE "timer")
  /\ state' = IF Closed THEN "dead" ELSE state
  /\ UNCHANGED <<kind, socket, armed, receiving, running>>

-----------------------------------------------------------------------------
(* The event loop of the main thread.                                      *)

\* The loop is level-triggered and one-shot, nginx edge-triggered.  Handler
\* returns at once if nginx says that nothing is available or ready: nginx, of
\* which src/ has no source, is taken to call it with both set.
Readable ==
  /\ Idle /\ state # "stopped" /\ armed
  /\ kind = "loop" => socket # <<>>
  /\ receiving' = TRUE
  /\ armed' = FALSE
  /\ UNCHANGED <<kind, place, socket, running, making, state>>

\* One turn of the receive loop: the address is read and the object called.
Receive ==
  /\ MainFree /\ receiving /\ running = Nothing /\ socket # <<>>
  /\ running' = Head(socket)
  /\ socket' = Tail(socket)
  /\ place' = [place EXCEPT ![Head(socket)] = "running"]
  /\ UNCHANGED <<kind, armed, receiving, making, state>>

\* Slip: the loop does not renew its read intent.
DrainedForgets ==
  /\ MainFree /\ receiving /\ running = Nothing /\ socket = <<>>
  /\ receiving' = FALSE
  /\ UNCHANGED <<kind, place, socket, armed, running, making, state>>

\* EAGAIN ends the receive loop; libevent's read event is added again.
Drained ==
  /\ MainFree /\ receiving /\ running = Nothing /\ socket = <<>>
  /\ receiving' = FALSE
  /\ armed' = (armed \/ kind = "loop")
  /\ UNCHANGED <<kind, place, socket, running, making, state>>

\* The callback returns and is deleted.
Return ==
  /\ MainFree /\ running # Nothing
  /\ place' = [place EXCEPT ![running] = "deleted"]
  /\ running' = Nothing
  /\ UNCHANGED <<kind, socket, armed, receiving, making, state>>

\* The callback throws.  SocketCallback and Handler report it and return:
\* the object is not deleted, and the loop's read event is not added again.
\* DifferedHandler catches nothing.
Throw ==
  /\ MainFree /\ running \in Throwing
  /\ place' = [place EXCEPT ![running] = "leaked"]
  /\ running' = Nothing
  /\ receiving' = FALSE
  /\ state' = IF receiving THEN "failed" ELSE "dead"
  /\ UNCHANGED <<kind, socket, armed, making>>

\* A timer: the loop sends the callback, without the mutex; nginx calls it,
\* and has no reason to stop doing so after Shutdown.
TimerFires(cb) ==
  /\ Idle /\ place[cb] = "timer"
  /\ \/ /\ kind = "loop" /\ state # "stopped"
        /\ place' = [place EXCEPT ![cb] = "counted"]
        /\ making' = [making EXCEPT !["main"] = cb]
        /\ UNCHANGED running
     \/ /\ kind = "ngx"
        /\ place' = [place EXCEPT ![cb] = "running"]
        /\ running' = cb
        /\ UNCHANGED making
  /\ UNCHANGED <<kind, socket, armed, receiving, state>>

\* Stop, Shutdown: the read event is deleted.
StopBridge ==
  /\ Idle /\ state # "stopped"
  /\ state' = "stopped"
  /\ armed' = FALSE
  /\ UNCHANGED <<kind, place, socket, receiving, running, making>>

-----------------------------------------------------------------------------
HubCalls ==
  (\E cb \in HubCallbacks : Make(cb)) \/ Send("hub") \/ Defer("hub")

SignalCalls ==
  (\E cb \in SignalCallbacks : Signal(cb)) \/ Send("signal") \/ Defer("signal")

MainRuns ==
  \/ \E cb \in TimerCallbacks : MakeTimer(cb)
  \/ Send("main") \/ Defer("main")
  \/ Readable \/ Receive \/ Drained \/ Return \/ Throw
  \/ \E cb \in Callbacks : TimerFires(cb)
  \/ StopBridge

Next == HubCalls \/ SignalCalls \/ MainRuns

Spec == Init /\ [][Next]_bridgeVars

-----------------------------------------------------------------------------
TypeOK ==
  /\ kind \in {"loop", "ngx"}
  /\ place \in [Callbacks -> Places]
  /\ socket \in Seq(Callbacks)
  /\ armed \in BOOLEAN /\ receiving \in BOOLEAN
  /\ running \in Callbacks \cup {Nothing}
  /\ making \in [Contexts -> Callbacks \cup {Nothing}]
  /\ state \in States

\* The address of a callback is in one place only: the socket has it once and
\* nothing else does, or one context has it, or the main thread calls it.
\* Whoever finds it finds an object that exists ("callback->Call()",
\* loop/bridge.cc:485, ngx/bridge.cc:390).
OnePointer ==
  /\ \A i, j \in DOMAIN socket : socket[i] = socket[j] => i = j
  /\ \A i \in DOMAIN socket : place[socket[i]] = "socket"
  /\ running # Nothing => place[running] = "running"
  /\ \A c \in Contexts :
       making[c] # Nothing =>
         /\ place[making[c]] \in {"entered", "counted", "refused"}
         /\ \A other \in Contexts \ {c} : making[other] # making[c]

Stage ==
  [cb \in Callbacks |->
     CASE place[cb] = "unmade" -> "none"
       [] place[cb] = "running" -> "running"
       [] place[cb] = "deleted" -> "done"
       [] place[cb] = "leaked" -> "lost"
       [] OTHER -> "due"]

Promise == INSTANCE CallbackPromise WITH stage <- Stage

\* Retries, timers, signal handlers and exceptions notwithstanding, a callback
\* runs once, never inside another, and nothing is called after it was
\* deleted: both bridges keep CallbackPromise.
ImplementsPromise == Promise!Spec

=============================================================================

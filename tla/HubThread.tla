------------------------------ MODULE HubThread ------------------------------
(***************************************************************************)
(* The life of the hub thread (ev::hub::Hub::Start, Loop, Stop) with the   *)
(* bridge it calls the main thread through.  Scheduler::Start makes the    *)
(* hub, Scheduler::Stop stops and deletes it.  What the thread does with   *)
(* requests is in OneShotHandler and KeepAliveHandler; here it only makes  *)
(* callbacks while it is in its event loop.                                *)
(***************************************************************************)
EXTENDS Bridge

VARIABLES
  hub,      \* where the hub thread is
  runs,     \* Hub::running_
  aborted,  \* Hub::aborted_
  active,   \* the watchdog event was activated
  stop      \* where the main thread is in Scheduler::Stop

hubVars == <<hub, runs, aborted, active, stop>>
vars == <<bridgeVars, hubVars>>

\* "starting": up to initialized_callback_.  "check": at the head of the
\* loop.  "finally": behind the label of that name.  "freed": the handlers
\* and the base are deleted.  "woken": stop_cv_ is signalled, running_ is not
\* yet false.  "orphan": what the thread works with was deleted under it.
HubStates == {"none", "starting", "ready", "check", "loop", "finally", "freed",
              "woken", "ended", "orphan"}
StopStates == {"no", "aborting", "waiting", "deleted", "returned"}

SystemInit ==
  /\ Init
  /\ hub = "none" /\ runs = FALSE /\ aborted = FALSE /\ active = FALSE
  /\ stop = "no"

-----------------------------------------------------------------------------
(* The hub thread.                                                         *)

HubGoes(from, to) == state # "dead" /\ hub = from /\ hub' = to

\* Loop up to initialized_callback_: a socket that cannot be made, or a
\* callback that throws, leads to "finally".
Initialize ==
  /\ HubGoes("starting", "ready") \/ HubGoes("starting", "finally")
  /\ UNCHANGED <<bridgeVars, runs, aborted, active, stop>>

Run ==
  /\ HubGoes("ready", "check")
  /\ runs' = TRUE
  /\ UNCHANGED <<bridgeVars, aborted, active, stop>>

\* while ( false == aborted_ ).
Check ==
  /\ HubGoes("check", IF aborted THEN "finally" ELSE "loop")
  /\ UNCHANGED <<bridgeVars, runs, aborted, active, stop>>

\* WatchdogCallback, at the latest on the tick of the socket event, and not
\* in the middle of another callback of the loop.
Watchdog ==
  /\ HubGoes("loop", IF aborted THEN "check" ELSE "loop")
  /\ active /\ making["hub"] = Nothing
  /\ active' = FALSE
  /\ UNCHANGED <<bridgeVars, runs, aborted, stop>>

\* finally: the socket is closed, the handlers and the base are deleted.
CleanUp ==
  /\ HubGoes("finally", "freed")
  /\ UNCHANGED <<bridgeVars, runs, aborted, active, stop>>

\* stop_cv_.Wake().
Wake ==
  /\ HubGoes("freed", "woken")
  /\ UNCHANGED <<bridgeVars, runs, aborted, active, stop>>

\* running_ = false, the thread's last access to the hub.
End ==
  /\ HubGoes("woken", "ended")
  /\ runs' = FALSE
  /\ UNCHANGED <<bridgeVars, aborted, active, stop>>

-----------------------------------------------------------------------------
(* The main thread.                                                        *)

Start ==
  /\ MainFree /\ stop = "no" /\ HubGoes("none", "starting")
  /\ UNCHANGED <<bridgeVars, runs, aborted, active, stop>>

\* Hub::Stop: aborted_ is set, then running_ is read.
Abort ==
  /\ MainFree /\ hub # "none" /\ stop = "no"
  /\ aborted' = TRUE
  /\ stop' = "aborting"
  /\ UNCHANGED <<bridgeVars, hub, runs, active>>

StopGoes(from) == state # "dead" /\ stop = from

\* Stop(-1) of a hub that runs activates the watchdog, if the base is there,
\* and waits.  The code reads running_, then the pointer to the base, which it
\* shares with the hub thread unprotected, then activates the event: here it is
\* one step, and a base freed in between is not modelled.
StopWaits ==
  /\ StopGoes("aborting") /\ runs
  /\ active' = (active \/ hub \in {"check", "loop", "finally"})
  /\ stop' = "waiting"
  /\ UNCHANGED <<bridgeVars, hub, runs, aborted>>

\* The rest of Stop, and delete hub_: the base, the handlers and the stepper
\* go, whether the thread has done with them or not.
Free(next) ==
  /\ runs' = FALSE
  /\ hub' = IF hub \in {"starting", "ready", "check", "loop", "finally", "freed"}
            THEN "orphan" ELSE hub
  /\ stop' = next
  /\ UNCHANGED <<bridgeVars, aborted, active>>

\* Stop with a signal number, or of a hub that does not run (yet).
StopAtOnce == StopGoes("aborting") /\ Free("deleted")

\* Slip: a spurious wake-up is taken for the thread's.
StopReturnsEarly == StopGoes("waiting") /\ Free("returned")

\* osal::ConditionVariable, of which src/ has no source, is taken to stay
\* signalled until somebody waits for it: Wake may come before Wait.
StopReturnsWoken ==
  StopGoes("waiting") /\ hub \in {"woken", "ended"} /\ Free("returned")

-----------------------------------------------------------------------------
HubThreadNext ==
  Initialize \/ Run \/ Check \/ Watchdog \/ CleanUp \/ Wake \/ End

StopNext == Abort \/ StopWaits \/ StopAtOnce \/ StopReturnsWoken

\* The main thread is in Stop, and runs nothing but signal handlers.
InStop == stop \in {"aborting", "waiting"}

BridgeNext ==
  /\ \/ hub = "loop" /\ HubCalls
     \/ SignalCalls
     \/ ~InStop /\ MainRuns
  /\ UNCHANGED hubVars

SystemNext == Start \/ HubThreadNext \/ StopNext \/ BridgeNext

SystemSpec == SystemInit /\ [][SystemNext]_vars

\* Both threads are scheduled, and the event loops serve every event that is
\* due: a read event is not starved by timers.  Nobody has to start or stop
\* anything, and no callback has to throw.
HubSends == hub = "loop" /\ (Send("hub") \/ Defer("hub")) /\ UNCHANGED hubVars
HandlerSends == (Send("signal") \/ Defer("signal")) /\ UNCHANGED hubVars
MainSends == ~InStop /\ (Send("main") \/ Defer("main")) /\ UNCHANGED hubVars
MainReads == ~InStop /\ Readable /\ UNCHANGED hubVars
MainReceives == ~InStop /\ (Receive \/ Drained) /\ UNCHANGED hubVars
MainReturns == ~InStop /\ Return /\ UNCHANGED hubVars
MainTimer(cb) == ~InStop /\ TimerFires(cb) /\ UNCHANGED hubVars

Fairness ==
  /\ WF_vars(HubThreadNext)
  /\ WF_vars(StopWaits \/ StopAtOnce) /\ WF_vars(StopReturnsWoken)
  /\ WF_vars(HubSends) /\ WF_vars(HandlerSends) /\ WF_vars(MainSends)
  /\ SF_vars(MainReads) /\ WF_vars(MainReceives) /\ WF_vars(MainReturns)
  /\ \A cb \in Callbacks : WF_vars(MainTimer(cb))

FairSystemSpec == SystemSpec /\ Fairness

-----------------------------------------------------------------------------
HubTypeOK ==
  /\ hub \in HubStates /\ stop \in StopStates
  /\ runs \in BOOLEAN /\ aborted \in BOOLEAN /\ active \in BOOLEAN

\* When a Stop that waited returns, the hub thread has deleted what it worked
\* with and is not handing a callback to the bridge: nothing is deleted twice
\* or under it.  One access is left, "running_ = false" (hub.cc:553), in an
\* object that Scheduler::Stop is deleting.  A Stop that does not wait
\* (StopAtOnce) promises none of this: it deletes under the thread.
WaitedStopIsQuiet ==
  stop = "returned" => hub \in {"woken", "ended"} /\ making["hub"] = Nothing

\* A Stop that waits for the hub thread returns, also when the thread is
\* handing a callback to a socket that only the main thread, which waits,
\* can drain; unless the loop's bridge was stopped before it, and a callback
\* of the thread has ended the process.
StopReturns == stop = "waiting" ~> stop = "returned" \/ state = "dead"

\* A callback that was handed to the bridge is called, retries on a full
\* socket included, unless an exception, a Stop or a signal put an end to the
\* bridge or the hub thread.
EveryCallbackPerformed ==
  \A cb \in Callbacks :
    place[cb] # "unmade" ~>
      place[cb] \in {"deleted", "leaked"} \/ state # "up" \/ hub = "orphan"

=============================================================================

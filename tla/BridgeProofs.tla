---------------------------- MODULE BridgeProofs ----------------------------
(***************************************************************************)
(* Proofs about the bridge, on its own and below the hub thread.           *)
(***************************************************************************)
EXTENDS HubThread, TLAPS

\* OnePointer says nothing of callbacks that claim to run: only the one that
\* is called does.  Without it CallbackPromise's "one at a time" is out of
\* reach.
OneRuns == \A cb \in Callbacks : place[cb] = "running" => running = cb

IInv == TypeOK /\ OnePointer /\ OneRuns

-----------------------------------------------------------------------------
(* The bridge keeps IInv.                                                  *)

LEMMA InitIInv == Init => IInv
  <1>. SUFFICES ASSUME Init PROVE IInv
    OBVIOUS
  <1>1. armed \in BOOLEAN
    <2>1. armed = (kind = "loop")
      BY DEF Init
    <2>. HIDE DEF Init
    <2>2. (kind = "loop") = TRUE \/ (kind = "loop") = FALSE
      OBVIOUS
    <2>. QED BY <2>1, <2>2
  <1>2. TypeOK
    <2>1. /\ kind \in {"loop", "ngx"} /\ socket = <<>>
          /\ place = [cb \in Callbacks |-> "unmade"] /\ running = Nothing
          /\ making = [c \in Contexts |-> Nothing] /\ state = "up"
      BY Zenon DEF Init
    <2>2. receiving \in BOOLEAN
      BY Zenon DEF Init
    <2>3. socket \in Seq(Callbacks)
      BY <2>1
    <2>4. /\ place \in [Callbacks -> Places] /\ state \in States
          /\ making \in [Contexts -> Callbacks \cup {Nothing}]
          /\ running \in Callbacks \cup {Nothing}
      BY <2>1 DEF Places, States
    <2>. QED BY <1>1, <2>1, <2>2, <2>3, <2>4 DEF TypeOK
  <1>3. OnePointer
    BY DEF Init, OnePointer, Contexts
  <1>4. OneRuns
    BY DEF Init, OneRuns
  <1>. QED BY <1>2, <1>3, <1>4 DEF IInv

\* A context hands its callback over or drops it.
LEMMA LeaveTypes ==
  ASSUME TypeOK, NEW c \in Contexts, making[c] # Nothing, NEW w \in Places,
         Leave(c, w)
  PROVE  /\ place' \in [Callbacks -> Places]
         /\ making' \in [Contexts -> Callbacks \cup {Nothing}]
         /\ making[c] \in Callbacks
         /\ place'[making[c]] = w
         /\ \A cb \in Callbacks \ {making[c]} : place'[cb] = place[cb]
         /\ making'[c] = Nothing
         /\ \A d \in Contexts \ {c} : making'[d] = making[d]
  BY DEF TypeOK, Leave

LEMMA MakeIInv ==
  ASSUME IInv, NEW cb \in HubCallbacks, Make(cb)
  PROVE  IInv'
  <1>1. cb \in Callbacks /\ cb # Nothing
    BY CallbackKinds DEF Callbacks
  <1>2. TypeOK'
    BY <1>1 DEF IInv, TypeOK, Make, Places, Contexts
  <1>3. OnePointer'
    BY <1>1 DEF IInv, TypeOK, OnePointer, Make, Contexts
  <1>4. OneRuns'
    BY <1>1 DEF IInv, TypeOK, OneRuns, Make
  <1>. QED BY <1>2, <1>3, <1>4 DEF IInv

LEMMA MakeTimerIInv ==
  ASSUME IInv, NEW cb \in TimerCallbacks, MakeTimer(cb)
  PROVE  IInv'
  <1>1. cb \in Callbacks /\ cb # Nothing
    BY CallbackKinds DEF Callbacks
  <1>2. TypeOK'
    BY <1>1 DEF IInv, TypeOK, MakeTimer, Places, Contexts
  <1>3. OnePointer'
    BY <1>1 DEF IInv, TypeOK, OnePointer, MakeTimer, MainFree, Contexts
  <1>4. OneRuns'
    BY <1>1 DEF IInv, TypeOK, OneRuns, MakeTimer
  <1>. QED BY <1>2, <1>3, <1>4 DEF IInv

LEMMA SignalIInv ==
  ASSUME IInv, NEW cb \in SignalCallbacks, Signal(cb)
  PROVE  IInv'
  <1>1. cb \in Callbacks /\ cb # Nothing
    BY CallbackKinds DEF Callbacks
  <1>2. CASE HoldsMutex(making["main"])
    BY <1>2 DEF IInv, TypeOK, OnePointer, OneRuns, Signal, States
  <1>3. CASE ~HoldsMutex(making["main"])
    <2>1. TypeOK'
      BY <1>1, <1>3 DEF IInv, TypeOK, Signal, Places, Contexts
    <2>2. OnePointer'
      BY <1>1, <1>3 DEF IInv, TypeOK, OnePointer, Signal, Contexts
    <2>3. OneRuns'
      BY <1>1, <1>3 DEF IInv, TypeOK, OneRuns, Signal
    <2>. QED BY <2>1, <2>2, <2>3 DEF IInv
  <1>. QED BY <1>2, <1>3

LEMMA SendIInv ==
  ASSUME IInv, NEW c \in Contexts, Send(c)
  PROVE  IInv'
  <1>. DEFINE cb == making[c]
  <1>0. cb \in Callbacks /\ cb # Nothing /\ place[cb] = "counted"
    BY DEF Send, IInv, TypeOK
  <1>1. CASE Len(socket) < Capacity /\ socket' = Append(socket, cb)
             /\ Leave(c, "socket") /\ armed' = (armed \/ kind = "ngx")
             /\ UNCHANGED state
    <2>1. /\ place' \in [Callbacks -> Places]
          /\ making' \in [Contexts -> Callbacks \cup {Nothing}]
          /\ place'[cb] = "socket"
          /\ \A x \in Callbacks \ {cb} : place'[x] = place[x]
          /\ making'[c] = Nothing
          /\ \A d \in Contexts \ {c} : making'[d] = making[d]
      BY <1>0, <1>1, LeaveTypes DEF IInv, Places
    <2>2. TypeOK'
      BY <1>0, <1>1, <2>1 DEF IInv, TypeOK, Send
    <2>3. OnePointer'
      <3>1. socket \in Seq(Callbacks)
        BY DEF IInv, TypeOK
      <3>2. /\ Len(socket') = Len(socket) + 1
            /\ \A i \in 1 .. Len(socket) : socket'[i] = socket[i]
            /\ socket'[Len(socket) + 1] = cb
            /\ DOMAIN socket' = 1 .. Len(socket) + 1
            /\ DOMAIN socket = 1 .. Len(socket)
            /\ Len(socket) \in Nat
        BY <1>0, <1>1, <3>1
      <3>3. \A i \in 1 .. Len(socket) :
              socket[i] # cb /\ socket[i] \in Callbacks /\ place'[socket[i]] = "socket"
        BY <1>0, <2>1, <3>1, <3>2 DEF IInv, OnePointer
      <3>4. \A i, j \in DOMAIN socket' : socket'[i] = socket'[j] => i = j
        BY <3>2, <3>3 DEF IInv, OnePointer
      <3>5. \A i \in DOMAIN socket' : place'[socket'[i]] = "socket"
        BY <2>1, <3>2, <3>3
      <3>6. running' # Nothing => place'[running'] = "running"
        BY <1>0, <2>1 DEF IInv, TypeOK, OnePointer, Send
      <3>7. \A d \in Contexts :
              making'[d] # Nothing =>
                /\ place'[making'[d]] \in {"entered", "counted", "refused"}
                /\ \A other \in Contexts \ {d} : making'[other] # making'[d]
        BY <1>0, <2>1 DEF IInv, TypeOK, OnePointer
      <3>. QED BY <3>4, <3>5, <3>6, <3>7 DEF OnePointer
    <2>4. OneRuns'
      BY <1>0, <2>1 DEF IInv, OneRuns, Send
    <2>. QED BY <2>2, <2>3, <2>4 DEF IInv
  <1>2. CASE /\ place' = [place EXCEPT ![cb] = "refused"]
             /\ UNCHANGED <<socket, armed, making, state>>
    <2>1. TypeOK'
      BY <1>0, <1>2 DEF IInv, TypeOK, Send, Places
    <2>2. OnePointer'
      BY <1>0, <1>2 DEF IInv, TypeOK, OnePointer, Send
    <2>3. OneRuns'
      BY <1>0, <1>2 DEF IInv, TypeOK, OneRuns, Send
    <2>. QED BY <2>1, <2>2, <2>3 DEF IInv
  <1>3. CASE Leave(c, "leaked") /\ state' = "dead" /\ UNCHANGED <<socket, armed>>
    <2>1. /\ place' \in [Callbacks -> Places]
          /\ making' \in [Contexts -> Callbacks \cup {Nothing}]
          /\ place'[cb] = "leaked"
          /\ \A x \in Callbacks \ {cb} : place'[x] = place[x]
          /\ making'[c] = Nothing
          /\ \A d \in Contexts \ {c} : making'[d] = making[d]
      BY <1>0, <1>3, LeaveTypes DEF IInv, Places
    <2>2. TypeOK'
      BY <1>3, <2>1 DEF IInv, TypeOK, Send, States
    <2>3. OnePointer'
      BY <1>0, <1>3, <2>1 DEF IInv, TypeOK, OnePointer, Send
    <2>4. OneRuns'
      BY <1>0, <2>1 DEF IInv, OneRuns, Send
    <2>. QED BY <2>2, <2>3, <2>4 DEF IInv
  <1>. QED BY <1>1, <1>2, <1>3 DEF Send

LEMMA DeferIInv ==
  ASSUME IInv, NEW c \in Contexts, Defer(c)
  PROVE  IInv'
  <1>. DEFINE cb == making[c]
              w == IF Closed THEN "leaked" ELSE "timer"
  <1>0. /\ cb \in Callbacks /\ cb # Nothing
        /\ place[cb] \in {"entered", "refused"}
        /\ w \in Places /\ w # "running"
    BY DEF Defer, IInv, TypeOK, Places
  <1>1. /\ place' \in [Callbacks -> Places]
        /\ making' \in [Contexts -> Callbacks \cup {Nothing}]
        /\ place'[cb] = w
        /\ \A x \in Callbacks \ {cb} : place'[x] = place[x]
        /\ making'[c] = Nothing
        /\ \A d \in Contexts \ {c} : making'[d] = making[d]
    <2>1. Leave(c, w)
      BY DEF Defer
    <2>. HIDE DEF w
    <2>. QED BY <1>0, <2>1, LeaveTypes DEF IInv
  <1>. HIDE DEF w
  <1>2. TypeOK'
    BY <1>1 DEF IInv, TypeOK, Defer, States
  <1>3. OnePointer'
    BY <1>0, <1>1 DEF IInv, TypeOK, OnePointer, Defer
  <1>4. OneRuns'
    BY <1>0, <1>1 DEF IInv, OneRuns, Defer
  <1>. QED BY <1>2, <1>3, <1>4 DEF IInv

\* The address that is read is in the socket no more.
LEMMA ReceiveIInv ==
  ASSUME IInv, Receive
  PROVE  IInv'
  <1>1. /\ socket \in Seq(Callbacks) /\ socket # <<>>
        /\ Len(socket) \in Nat \ {0}
        /\ DOMAIN socket = 1 .. Len(socket)
        /\ Head(socket) = socket[1] /\ Head(socket) \in Callbacks
        /\ Tail(socket) \in Seq(Callbacks)
        /\ Len(Tail(socket)) = Len(socket) - 1
        /\ DOMAIN Tail(socket) = 1 .. Len(socket) - 1
        /\ \A i \in 1 .. Len(socket) - 1 : Tail(socket)[i] = socket[i + 1]
        /\ \A i \in 1 .. Len(socket) : socket[i] \in Callbacks
    BY DEF IInv, TypeOK, Receive
  <1>2. Head(socket) # Nothing /\ place[Head(socket)] = "socket"
    BY <1>1, CallbackKinds DEF IInv, OnePointer
  <1>3. TypeOK'
    BY <1>1 DEF IInv, TypeOK, Receive, Places
  <1>4. OnePointer'
    <2>1. \A i, j \in DOMAIN socket' : socket'[i] = socket'[j] => i = j
      BY <1>1 DEF IInv, OnePointer, Receive
    <2>2. \A i \in DOMAIN socket' : place'[socket'[i]] = "socket"
      <3>. SUFFICES ASSUME NEW i \in DOMAIN socket'
                    PROVE  place'[socket'[i]] = "socket"
        OBVIOUS
      <3>1. i + 1 \in DOMAIN socket /\ 1 \in DOMAIN socket /\ i + 1 # 1
            /\ socket'[i] = socket[i + 1]
        BY <1>1 DEF Receive
      <3>2. socket[i + 1] # Head(socket) /\ place[socket[i + 1]] = "socket"
        BY <1>1, <3>1 DEF IInv, OnePointer
      <3>. QED BY <1>1, <3>1, <3>2 DEF Receive, IInv, TypeOK
    <2>3. running' # Nothing => place'[running'] = "running"
      BY <1>1 DEF IInv, TypeOK, Receive
    <2>4. \A c \in Contexts :
            making'[c] # Nothing =>
              /\ place'[making'[c]] \in {"entered", "counted", "refused"}
              /\ \A other \in Contexts \ {c} : making'[other] # making'[c]
      BY <1>1, <1>2 DEF IInv, TypeOK, OnePointer, Receive
    <2>. QED BY <2>1, <2>2, <2>3, <2>4 DEF OnePointer
  <1>5. OneRuns'
    BY <1>1, CallbackKinds DEF IInv, TypeOK, OneRuns, Receive
  <1>. QED BY <1>3, <1>4, <1>5 DEF IInv

LEMMA ReturnIInv ==
  ASSUME IInv, Return \/ Throw
  PROVE  IInv'
  <1>1. PICK w \in {"deleted", "leaked"} :
          /\ place' = [place EXCEPT ![running] = w]
          /\ running' = Nothing
    BY DEF Return, Throw
  <1>2. running # Nothing /\ running \in Callbacks /\ place[running] = "running"
    <2>1. CASE Return
      BY <2>1 DEF Return, IInv, TypeOK, OnePointer
    <2>2. CASE Throw
      <3>1. PICK cb \in Callbacks \cup {Nothing} : cb = running
        BY DEF IInv, TypeOK
      <3>. QED BY <2>2, ThrowingAssumption, CallbackKinds
               DEF Throw, IInv, TypeOK, OnePointer
    <2>. QED BY <2>1, <2>2
  <1>3. UNCHANGED <<kind, socket, armed, making>>
    BY DEF Return, Throw
  <1>4. receiving' \in BOOLEAN /\ state' \in States
    BY DEF Return, Throw, IInv, TypeOK, States
  <1>5. TypeOK'
    BY <1>1, <1>2, <1>3, <1>4 DEF IInv, TypeOK, Places
  <1>6. OnePointer'
    BY <1>1, <1>2, <1>3 DEF IInv, TypeOK, OnePointer
  <1>7. OneRuns'
    BY <1>1, <1>2 DEF IInv, TypeOK, OneRuns
  <1>. QED BY <1>5, <1>6, <1>7 DEF IInv

LEMMA TimerFiresIInv ==
  ASSUME IInv, NEW cb \in Callbacks, TimerFires(cb)
  PROVE  IInv'
  <1>0. cb # Nothing /\ place[cb] = "timer" /\ running = Nothing
    BY CallbackKinds DEF TimerFires, Idle
  <1>1. TypeOK'
    BY DEF IInv, TypeOK, TimerFires, Places, Contexts
  <1>2. CASE /\ place' = [place EXCEPT ![cb] = "counted"]
             /\ making' = [making EXCEPT !["main"] = cb]
             /\ UNCHANGED running
    <2>1. OnePointer'
      BY <1>0, <1>2 DEF IInv, TypeOK, OnePointer, TimerFires, Contexts
    <2>2. OneRuns'
      BY <1>2 DEF IInv, TypeOK, OneRuns
    <2>. QED BY <1>1, <2>1, <2>2 DEF IInv
  <1>3. CASE /\ place' = [place EXCEPT ![cb] = "running"]
             /\ running' = cb
             /\ UNCHANGED making
    <2>1. OnePointer'
      BY <1>0, <1>3 DEF IInv, TypeOK, OnePointer, TimerFires
    <2>2. OneRuns'
      BY <1>0, <1>3, CallbackKinds DEF IInv, TypeOK, OneRuns
    <2>. QED BY <1>1, <2>1, <2>2 DEF IInv
  <1>. QED BY <1>2, <1>3 DEF TimerFires

LEMMA NextIInv ==
  ASSUME IInv, [Next]_bridgeVars
  PROVE  IInv'
  <1>1. CASE HubCalls
    BY <1>1, MakeIInv, SendIInv, DeferIInv DEF HubCalls, Contexts
  <1>2. CASE SignalCalls
    BY <1>2, SignalIInv, SendIInv, DeferIInv DEF SignalCalls, Contexts
  <1>3. CASE MainRuns
    <2>1. CASE \E cb \in TimerCallbacks : MakeTimer(cb)
      BY <2>1, MakeTimerIInv
    <2>2. CASE Send("main") \/ Defer("main")
      BY <2>2, SendIInv, DeferIInv DEF Contexts
    <2>3. CASE Readable \/ Drained \/ StopBridge
      BY <2>3 DEF Readable, Drained, StopBridge, IInv, TypeOK, OnePointer,
                  OneRuns, States
    <2>4. CASE Receive
      BY <2>4, ReceiveIInv
    <2>5. CASE Return \/ Throw
      BY <2>5, ReturnIInv
    <2>6. CASE \E cb \in Callbacks : TimerFires(cb)
      BY <2>6, TimerFiresIInv
    <2>. QED BY <1>3, <2>1, <2>2, <2>3, <2>4, <2>5, <2>6 DEF MainRuns
  <1>4. CASE UNCHANGED bridgeVars
    BY <1>4 DEF bridgeVars, IInv, TypeOK, OnePointer, OneRuns
  <1>. QED BY <1>1, <1>2, <1>3, <1>4 DEF Next

-----------------------------------------------------------------------------
(* The bridge below the hub thread.                                        *)

\* What the hub thread and Scheduler::Stop add changes no variable of the
\* bridge but by its own actions.
LEMMA SystemStep == [SystemNext]_vars => [Next]_bridgeVars
  BY DEF SystemNext, Start, HubThreadNext, Initialize, Run, Check, Watchdog,
         CleanUp, Wake, End, StopNext, Abort, StopWaits, StopAtOnce,
         StopReturnsWoken, StopGoes, Free, BridgeNext, Next, vars

LEMMA SystemIInv == SystemSpec => []IInv
  <1>1. SystemInit => IInv
    BY InitIInv DEF SystemInit
  <1>2. IInv /\ [SystemNext]_vars => IInv'
    BY NextIInv, SystemStep
  <1>. QED BY <1>1, <1>2, PTL DEF SystemSpec

\* Every variable of the bridge keeps its type.
THEOREM BridgeTypes == SystemSpec => []TypeOK
  <1>1. IInv => TypeOK
    BY DEF IInv
  <1>. QED BY <1>1, SystemIInv, PTL

\* The address of a callback is never in two places, whatever is refused,
\* retried, stopped or interrupted (the "callback:%p" of both bridges).
THEOREM PointerOnce == SystemSpec => []OnePointer
  <1>1. IInv => OnePointer
    BY DEF IInv
  <1>. QED BY <1>1, SystemIInv, PTL

-----------------------------------------------------------------------------
(* The bridge keeps CallbackPromise.                                       *)

LEMMA StageInit == Init => Promise!Init
  BY DEF Init, Promise!Init, Stage

\* A callback that goes from one place to another moves in the promise, if
\* the stages of the two differ.
StageOf(p) ==
  CASE p = "unmade" -> "none"
    [] p = "running" -> "running"
    [] p = "deleted" -> "done"
    [] p = "leaked" -> "lost"
    [] OTHER -> "due"

LEMMA StageMoves ==
  ASSUME place \in [Callbacks -> Places], NEW cb \in Callbacks, NEW p \in Places,
         place' = [place EXCEPT ![cb] = p]
  PROVE  /\ Stage' = [Stage EXCEPT ![cb] = StageOf(p)]
         /\ \A x \in Callbacks : Stage[x] = StageOf(place[x])
         /\ Stage[cb] = StageOf(p) => Stage' = Stage
  <1>1. Stage = [x \in Callbacks |-> StageOf(place[x])]
    BY DEF Stage, StageOf
  <1>2. Stage' = [x \in Callbacks |-> StageOf(place'[x])]
    BY DEF Stage, StageOf
  <1>. HIDE DEF StageOf
  <1>3. \A x \in Callbacks : place'[x] = IF x = cb THEN p ELSE place[x]
    OBVIOUS
  <1>. QED BY <1>1, <1>2, <1>3

LEMMA PlaceMoves ==
  ASSUME IInv, NEW cb \in Callbacks, NEW p \in Places,
         place' = [place EXCEPT ![cb] = p],
         \/ place[cb] = "unmade" /\ p \in {"entered", "counted"}
         \/ /\ place[cb] \in {"entered", "counted", "refused", "timer"}
            /\ p \in {"counted", "refused", "socket", "timer", "leaked"}
         \/ /\ place[cb] \in {"socket", "timer"} /\ p = "running"
            /\ running = Nothing
         \/ place[cb] = "running" /\ p \in {"deleted", "leaked"}
  PROVE  [Promise!Next]_Stage
  <1>1. /\ Stage' = [Stage EXCEPT ![cb] = StageOf(p)]
        /\ \A x \in Callbacks : Stage[x] = StageOf(place[x])
        /\ Stage[cb] = StageOf(p) => Stage' = Stage
    BY StageMoves DEF IInv, TypeOK
  <1>2. CASE place[cb] = "unmade" /\ p \in {"entered", "counted"}
    <2>1. Promise!Ask(cb)
      BY <1>1, <1>2 DEF Promise!Ask, Promise!Move, StageOf
    <2>. QED BY <2>1 DEF Promise!Next
  <1>3. CASE /\ place[cb] \in {"entered", "counted", "refused", "timer"}
             /\ p \in {"counted", "refused", "socket", "timer", "leaked"}
    <2>1. CASE p = "leaked"
      <3>1. Promise!Lose(cb)
        BY <1>1, <1>3, <2>1 DEF Promise!Lose, Promise!Move, StageOf
      <3>. QED BY <3>1 DEF Promise!Next
    <2>2. CASE p # "leaked"
      BY <1>1, <1>3, <2>2 DEF StageOf
    <2>. QED BY <2>1, <2>2
  <1>4. CASE /\ place[cb] \in {"socket", "timer"} /\ p = "running"
             /\ running = Nothing
    <2>1. \A x \in Callbacks : place[x] # "running"
      BY <1>4, CallbackKinds DEF IInv, OneRuns
    <2>2. \A x \in Callbacks : Stage[x] # "running"
      BY <1>1, <2>1 DEF StageOf
    <2>3. Promise!Begin(cb)
      BY <1>1, <1>4, <2>2 DEF Promise!Begin, Promise!Move, StageOf
    <2>. QED BY <2>3 DEF Promise!Next
  <1>5. CASE place[cb] = "running" /\ p \in {"deleted", "leaked"}
    <2>1. Promise!End(cb) \/ Promise!Lose(cb)
      BY <1>1, <1>5 DEF Promise!End, Promise!Lose, Promise!Move, StageOf
    <2>. QED BY <2>1 DEF Promise!Next
  <1>. QED BY <1>2, <1>3, <1>4, <1>5

LEMMA PlaceStays == place' = place => Stage' = Stage
  BY DEF Stage

LEMMA PromiseStep ==
  ASSUME IInv, [Next]_bridgeVars
  PROVE  [Promise!Next]_Stage
  <1>1. ASSUME NEW cb \in Callbacks, Make(cb) \/ MakeTimer(cb) \/ Signal(cb)
        PROVE  [Promise!Next]_Stage
    <2>1. CASE place' = [place EXCEPT ![cb] = "entered"]
      BY <1>1, <2>1, PlaceMoves DEF Make, MakeTimer, Signal, Places
    <2>2. CASE place' = [place EXCEPT ![cb] = "counted"]
      BY <1>1, <2>2, PlaceMoves DEF Make, MakeTimer, Signal, Places
    <2>3. CASE place' = place
      BY <2>3, PlaceStays
    <2>. QED BY <1>1, <2>1, <2>2, <2>3 DEF Make, MakeTimer, Signal
  <1>2. ASSUME NEW c \in Contexts, Send(c)
        PROVE  [Promise!Next]_Stage
    <2>1. making[c] \in Callbacks /\ place[making[c]] = "counted"
      BY <1>2 DEF Send, IInv, TypeOK
    <2>2. PICK p \in {"socket", "refused", "leaked"} :
            place' = [place EXCEPT ![making[c]] = p]
      BY <1>2 DEF Send, Leave
    <2>. QED BY <2>1, <2>2, PlaceMoves DEF Places
  <1>3. ASSUME NEW c \in Contexts, Defer(c)
        PROVE  [Promise!Next]_Stage
    <2>1. /\ making[c] \in Callbacks
          /\ place[making[c]] \in {"entered", "refused"}
      BY <1>3 DEF Defer, IInv, TypeOK
    <2>2. PICK p \in {"timer", "leaked"} :
            place' = [place EXCEPT ![making[c]] = p]
      BY <1>3 DEF Defer, Leave
    <2>. QED BY <2>1, <2>2, PlaceMoves DEF Places
  <1>4. CASE Readable \/ Drained \/ StopBridge \/ UNCHANGED bridgeVars
    BY <1>4, PlaceStays DEF Readable, Drained, StopBridge, bridgeVars
  <1>5. CASE Receive
    <2>1. /\ Head(socket) \in Callbacks /\ place[Head(socket)] = "socket"
          /\ running = Nothing
      BY <1>5 DEF Receive, IInv, TypeOK, OnePointer
    <2>. QED BY <1>5, <2>1, PlaceMoves DEF Receive, Places
  <1>6. CASE Return \/ Throw
    <2>1. PICK p \in {"deleted", "leaked"} : place' = [place EXCEPT ![running] = p]
      BY <1>6 DEF Return, Throw
    <2>2. running \in Callbacks /\ running # Nothing
      BY <1>6, ThrowingAssumption, CallbackKinds DEF Return, Throw, IInv, TypeOK
    <2>3. place[running] = "running"
      BY <2>2 DEF IInv, OnePointer
    <2>. QED BY <2>1, <2>2, <2>3, PlaceMoves DEF Places
  <1>7. ASSUME NEW cb \in Callbacks, TimerFires(cb)
        PROVE  [Promise!Next]_Stage
    <2>1. place[cb] = "timer" /\ running = Nothing
      BY <1>7 DEF TimerFires, Idle
    <2>2. PICK p \in {"counted", "running"} : place' = [place EXCEPT ![cb] = p]
      BY <1>7 DEF TimerFires
    <2>. QED BY <2>1, <2>2, PlaceMoves DEF Places
  <1>. QED BY <1>1, <1>2, <1>3, <1>4, <1>5, <1>6, <1>7
           DEF Next, HubCalls, SignalCalls, MainRuns, Callbacks, Contexts

\* Both bridges keep CallbackPromise, for any callbacks, any of them
\* throwing, and any size of the socket: no callback runs twice, inside
\* another one or after it was deleted.
THEOREM KeepsPromise == SystemSpec => ImplementsPromise
  <1>1. SystemInit => Promise!Init
    BY StageInit DEF SystemInit
  <1>2. IInv /\ [SystemNext]_vars => [Promise!Next]_Stage
    BY SystemStep, PromiseStep
  <1>. QED BY <1>1, <1>2, SystemIInv, PTL DEF SystemSpec, ImplementsPromise, Promise!Spec

-----------------------------------------------------------------------------
(* Stop.                                                                   *)

\* WaitedStopIsQuiet is inductive once the hub thread is known to leave its
\* loop only with empty hands.
QuietInv ==
  /\ making["hub"] # Nothing => hub \in {"loop", "orphan"}
  /\ WaitedStopIsQuiet

LEMMA QuietStep ==
  ASSUME TypeOK, QuietInv, [SystemNext]_vars
  PROVE  QuietInv'
  <1>1. CASE Start \/ HubThreadNext \/ StopNext
    BY <1>1 DEF Start, HubThreadNext, Initialize, Run, Check, Watchdog, CleanUp,
                Wake, End, StopNext, Abort, StopWaits, StopAtOnce,
                StopReturnsWoken, StopGoes, Free, HubGoes, bridgeVars, QuietInv,
                WaitedStopIsQuiet
  <1>2. CASE BridgeNext
    <2>1. hub' = hub /\ stop' = stop
      BY <1>2 DEF BridgeNext, hubVars
    <2>2. CASE hub = "loop"
      BY <2>1, <2>2 DEF QuietInv, WaitedStopIsQuiet
    <2>3. CASE hub # "loop"
      <3>1. making'["hub"] = making["hub"]
        BY <1>2, <2>3 DEF BridgeNext, SignalCalls, MainRuns, MakeTimer, Signal,
              Send, Defer, Leave, Readable, Receive, Drained, Return, Throw,
              TimerFires, StopBridge, TypeOK, Contexts
      <3>. QED BY <2>1, <3>1 DEF QuietInv, WaitedStopIsQuiet
    <2>. QED BY <2>2, <2>3
  <1>3. CASE UNCHANGED vars
    BY <1>3 DEF vars, bridgeVars, hubVars, QuietInv, WaitedStopIsQuiet
  <1>. QED BY <1>1, <1>2, <1>3 DEF SystemNext

\* After a Stop that waited the hub thread has let go of all it shared: Stop
\* deletes nothing under it.
THEOREM QuietStop == SystemSpec => []WaitedStopIsQuiet
  <1>1. SystemInit => QuietInv
    BY DEF SystemInit, Init, QuietInv, WaitedStopIsQuiet, Contexts
  <1>2. TypeOK /\ QuietInv /\ [SystemNext]_vars => QuietInv'
    BY QuietStep
  <1>3. QuietInv => WaitedStopIsQuiet
    BY DEF QuietInv
  <1>. QED BY <1>1, <1>2, <1>3, BridgeTypes, PTL DEF SystemSpec

LEMMA HubTypeStep ==
  ASSUME HubTypeOK, [SystemNext]_vars
  PROVE  HubTypeOK'
  <1>1. hub' \in HubStates
    BY DEF SystemNext, Start, HubThreadNext, Initialize, Run, Check, Watchdog,
           CleanUp, Wake, End, StopNext, Abort, StopWaits, StopAtOnce,
           StopReturnsWoken, StopGoes, Free, HubGoes, BridgeNext, vars, hubVars,
           HubTypeOK, HubStates
  <1>2. stop' \in StopStates
    BY DEF SystemNext, Start, HubThreadNext, Initialize, Run, Check, Watchdog,
           CleanUp, Wake, End, StopNext, Abort, StopWaits, StopAtOnce,
           StopReturnsWoken, StopGoes, Free, BridgeNext, vars, hubVars,
           HubTypeOK, StopStates
  <1>3. runs' \in BOOLEAN /\ aborted' \in BOOLEAN
    BY DEF SystemNext, Start, HubThreadNext, Initialize, Run, Check, Watchdog,
           CleanUp, Wake, End, StopNext, Abort, StopWaits, StopAtOnce,
           StopReturnsWoken, StopGoes, Free, BridgeNext, vars, hubVars, HubTypeOK
  <1>4. active' \in BOOLEAN
    <2>1. CASE StopWaits
      <3>1. active' = (active \/ hub \in {"check", "loop", "finally"})
        BY <2>1 DEF StopWaits
      <3>. QED BY <3>1, Zenon DEF HubTypeOK
    <2>2. CASE ~StopWaits
      BY <2>2
      DEF SystemNext, Start, HubThreadNext, Initialize, Run, Check, Watchdog,
          CleanUp, Wake, End, StopNext, Abort, StopAtOnce,
          StopReturnsWoken, StopGoes, Free, BridgeNext, vars, hubVars, HubTypeOK
    <2>. QED BY <2>1, <2>2
  <1>. QED BY <1>1, <1>2, <1>3, <1>4 DEF HubTypeOK

\* Every variable of the hub thread and of Stop keeps its type.
THEOREM HubTypes == SystemSpec => []HubTypeOK
  <1>1. SystemInit => HubTypeOK
    BY DEF SystemInit, HubTypeOK, HubStates, StopStates
  <1>2. HubTypeOK /\ [SystemNext]_vars => HubTypeOK'
    BY HubTypeStep
  <1>. QED BY <1>1, <1>2, PTL DEF SystemSpec

=============================================================================

------------------------ MODULE OneShotHandlerProofs ------------------------
(***************************************************************************)
(* Theorems about OneShotHandler, for any requests, devices and limits.    *)
(***************************************************************************)
EXTENDS OneShotHandler, SequenceCounts

-----------------------------------------------------------------------------
(* Types.                                                                  *)

\* Behind a callback the hub thread has a device to return into, and behind a
\* Connect also the request it was for.
FrameOK ==
  /\ pc \in {"track", "return", "notify"} => frame \in Devices
  /\ pc = "track" => current \in Requests

TypeInv == TypeOK /\ FrameOK

LEMMA LinkType ==
  ASSUME TypeOK, NEW r \in Requests, NEW d \in Devices, Link(r, d)
  PROVE  /\ requestDevice' \in [Requests -> Devices \cup {NoDevice}]
         /\ deviceRequest' \in [Devices -> Requests \cup {NoRequest}]
BY DEF TypeOK, Link

LEMMA UnlinkType ==
  ASSUME TypeOK, NEW r, Unlink(r)
  PROVE  /\ requestDevice' \in [Requests -> Devices \cup {NoDevice}]
         /\ deviceRequest' \in [Devices -> Requests \cup {NoRequest}]
BY DEF TypeOK, Unlink

LEMMA EraseInUseType ==
  ASSUME TypeOK, NEW d \in Devices, EraseInUse(d)
  PROVE  /\ inUse' \in [Targets -> Seq(Devices)]
         /\ \A t \in Targets : Len(inUse'[t]) =< Len(inUse[t])
<1>1. \A t \in Targets : /\ RemoveFirst(inUse[t], d) \in Seq(Devices)
                         /\ Len(RemoveFirst(inUse[t], d)) =< Len(inUse[t])
  BY RemoveFirstType DEF TypeOK
<1>2. \A t \in Targets : Len(inUse[t]) \in Nat
  BY DEF TypeOK
<1>3. inUse' = [t \in Targets |-> IF t = device[d].target
                                   THEN RemoveFirst(inUse[t], d) ELSE inUse[t]]
  BY DEF TypeOK, EraseInUse
<1>4. inUse' \in [Targets -> Seq(Devices)]
  BY <1>1, <1>3 DEF TypeOK
<1>5. \A t \in Targets : Len(inUse'[t]) =< Len(inUse[t])
  BY <1>1, <1>2, <1>3
<1> QED
  BY <1>4, <1>5

LEMMA FinishType ==
  ASSUME TypeOK, NEW r, NEW deleted \in SUBSET Devices,
         FinishAndPublish(r, deleted)
  PROVE  /\ posted' \in [Requests -> Nat] /\ finished' \in [Requests -> Nat]
         /\ freed' \subseteq Devices /\ zombies' \subseteq Devices
         /\ fatal' \in BOOLEAN
<1> DEFINE done == [finished EXCEPT ![r] = @ + 1]
<1>1. done \in [Requests -> Nat]
  <2>1. finished \in [Requests -> Nat]
    BY DEF TypeOK
  <2>2. CASE r \in Requests
    BY <2>1, <2>2
  <2>3. CASE r \notin Requests
    <3>1. done = finished
      BY <2>1, <2>3
    <3> QED
      BY <2>1, <3>1
  <2> QED
    BY <2>2, <2>3
<1>2. CASE SanityCheck'
  <2>1. /\ posted' = [q \in Requests |-> posted[q] + done[q]]
        /\ finished' = [q \in Requests |-> 0]
        /\ freed' = freed \cup deleted \cup zombies
        /\ zombies' = {} /\ fatal' = fatal
    BY <1>2, Zenon DEF FinishAndPublish
  <2> HIDE DEF done
  <2> QED
    BY <1>1, <2>1 DEF TypeOK
<1>3. CASE ~ SanityCheck'
  <2>1. /\ finished' = done /\ freed' = freed \cup deleted
        /\ fatal' = TRUE /\ posted' = posted /\ zombies' = zombies
    BY <1>3, Zenon DEF FinishAndPublish
  <2> HIDE DEF done
  <2> QED
    BY <1>1, <2>1 DEF TypeOK
<1> QED
  BY <1>2, <1>3

\* The types of what Settle changes.
SettledType ==
  /\ device' \in [Devices -> DeviceRecord]
  /\ requestDevice' \in [Requests -> Devices \cup {NoDevice}]
  /\ deviceRequest' \in [Devices -> Requests \cup {NoRequest}]
  /\ inUse' \in [Targets -> Seq(Devices)]
  /\ cached' \in [Devices -> Nat]
  /\ posted' \in [Requests -> Nat] /\ finished' \in [Requests -> Nat]
  /\ freed' \subseteq Devices /\ zombies' \subseteq Devices
  /\ fatal' \in BOOLEAN

LEMMA SettleType ==
  ASSUME TypeOK, NEW d \in Devices, NEW dev \in DeviceRecord, NEW spent,
         Settle(d, dev, spent)
  PROVE  SettledType
<1>1. device' \in [Devices -> DeviceRecord]
  <2>1. [dev EXCEPT !.tracked = FALSE] \in DeviceRecord
    BY DEF DeviceRecord
  <2> QED
    BY <2>1 DEF TypeOK, Settle
<1>2. /\ requestDevice' \in [Requests -> Devices \cup {NoDevice}]
      /\ deviceRequest' \in [Devices -> Requests \cup {NoRequest}]
  BY UnlinkType DEF Settle
<1>3. inUse' \in [Targets -> Seq(Devices)]
  BY EraseInUseType DEF Settle
<1>4. cached' \in [Devices -> Nat]
  BY DEF TypeOK, Settle
<1>5. /\ posted' \in [Requests -> Nat] /\ finished' \in [Requests -> Nat]
      /\ freed' \subseteq Devices /\ zombies' \subseteq Devices
      /\ fatal' \in BOOLEAN
  <2> DEFINE deleted == IF Reusable(dev) \/ spent # "delete" THEN {} ELSE {d}
  <2>1. deleted \in SUBSET Devices
    OBVIOUS
  <2>2. FinishAndPublish(device[d].owner, deleted)
    BY DEF Settle
  <2> HIDE DEF deleted
  <2> QED
    BY <2>1, <2>2, FinishType
<1> QED
  BY <1>1, <1>2, <1>3, <1>4, <1>5 DEF SettledType

LEMMA CandidateType ==
  ASSUME TypeOK, MayTake
  PROVE  /\ Candidate \in Requests
         /\ pending' = RemoveAt(pending, idx + 1) => pending' \in Seq(Requests)
         /\ idx + 1 \in Nat
<1>1. idx \in Nat /\ pending \in Seq(Requests) /\ idx < Len(pending)
  BY DEF TypeOK, MayTake
<1>2. idx + 1 \in 1 .. Len(pending)
  BY <1>1
<1> QED
  BY <1>1, <1>2, RemoveAtProperties DEF Candidate

\* The device record Push hands to Connect has its type, whatever of it
\* Connect changes.
LEMMA SetUpType ==
  ASSUME TypeOK, MayTake, NEW d \in Devices,
         NEW max \in MaxReuse[Target[Candidate]]
  PROVE  SetUp(d, max) \in DeviceRecord
<1>1. Target[Candidate] \in Targets
  BY CandidateType, HandlerAssumption
<1>2. max \in Nat \cup {-1}
  BY <1>1, HandlerAssumption
<1>3. device[d] \in DeviceRecord
  BY DEF TypeOK
<1> QED
  BY <1>1, <1>2, <1>3 DEF SetUp, Unallocated, DeviceRecord, Phases

\* Changes of some fields of a device record.
LEMMA DeviceUpdate ==
  ASSUME NEW dev \in DeviceRecord, NEW p \in Phases, NEW b \in BOOLEAN,
         NEW o \in Requests \cup {NoRequest}
  PROVE  /\ [dev EXCEPT !.phase = p, !.owner = o,
                        !.uses = IF b THEN @ ELSE @ + 1] \in DeviceRecord
         /\ [dev EXCEPT !.phase = p,
                        !.uses = IF b THEN @ ELSE @ + 1] \in DeviceRecord
<1> DEFINE n == IF b THEN dev.uses ELSE dev.uses + 1
<1>1. n \in Nat
  BY DEF DeviceRecord
<1> HIDE DEF n
<1>2. /\ [dev EXCEPT !.phase = p, !.owner = o, !.uses = n] \in DeviceRecord
      /\ [dev EXCEPT !.phase = p, !.uses = n] \in DeviceRecord
  BY <1>1 DEF DeviceRecord
<1> QED
  BY <1>2 DEF n

LEMMA DeviceUsed ==
  ASSUME NEW dev \in DeviceRecord, NEW p \in Phases,
         NEW o \in Requests \cup {NoRequest}
  PROVE  /\ [dev EXCEPT !.phase = p, !.uses = @ + 1, !.owner = o]
              \in DeviceRecord
         /\ [dev EXCEPT !.phase = p, !.uses = @ + 1] \in DeviceRecord
<1> DEFINE n == dev.uses + 1
<1>1. n \in Nat
  BY DEF DeviceRecord
<1> HIDE DEF n
<1>2. /\ [dev EXCEPT !.phase = p, !.uses = n, !.owner = o] \in DeviceRecord
      /\ [dev EXCEPT !.phase = p, !.uses = n] \in DeviceRecord
  BY <1>1 DEF DeviceRecord
<1> QED
  BY <1>2 DEF n

LEMMA UncacheType ==
  ASSUME TypeOK, NEW d \in Devices, Picks(d)
  PROVE  Uncache(d) \in [Devices -> Nat]
BY DEF TypeOK, Picks, Uncache, CachedFor

LEMMA TrackType ==
  ASSUME TypeOK, NEW t \in Targets, NEW d \in Devices, Track(t, d)
  PROVE  /\ inUse' \in [Targets -> Seq(Devices)]
         /\ pc' \in {"push", "read", "stopped"}
         /\ fatal' \in BOOLEAN
<1>1. Append(inUse[t], d) \in Seq(Devices)
  BY AppendProperties DEF TypeOK
<1>2. inUse' \in [Targets -> Seq(Devices)]
  BY <1>1 DEF TypeOK, Track
<1>3. CASE SanityCheck'
  <2>1. pc' = "push" /\ fatal' = fatal
    BY <1>3, Zenon DEF Track
  <2> QED
    BY <1>2, <2>1 DEF TypeOK
<1>4. CASE ~ SanityCheck'
  <2>1. pc' = PcAfterThrow /\ fatal' = TRUE
    BY <1>4, Zenon DEF Track
  <2> QED
    BY <1>2, <2>1 DEF PcAfterThrow
<1> QED
  BY <1>3, <1>4

LEMMA ResumeInType ==
  ASSUME TypeOK, NEW d \in Devices, NEW where \in {"return", "notify"},
         ResumeIn(d, where)
  PROVE  /\ pc' \in {"wait", where}
         /\ frame' \in Devices \cup {NoDevice}
         /\ pc' # "wait" => frame' \in Devices
         /\ unsent' = unsent /\ answered' = answered
         /\ pending' = pending /\ inbox' = inbox
         /\ caller' = caller /\ idx' = idx /\ current' = current
<1>1. CASE SanityCheck'
  <2>1. pc' = where /\ frame' = d
    BY <1>1, Zenon DEF ResumeIn
  <2> QED
    BY <2>1 DEF ResumeIn, mainVars, queueVars
<1>2. CASE ~ SanityCheck'
  <2>1. pc' = "wait" /\ frame' = NoDevice
    BY <1>2, Zenon DEF ResumeIn
  <2> QED
    BY <2>1 DEF ResumeIn, mainVars, queueVars
<1> QED
  BY <1>1, <1>2

\* A settled device keeps the invariant, whatever settled it.
LEMMA SettleResumeType ==
  ASSUME TypeInv, NEW d \in Devices, NEW dev \in DeviceRecord, NEW spent,
         NEW where \in {"return", "notify"},
         Settle(d, dev, spent), ResumeIn(d, where)
  PROVE  TypeInv'
<1>1. SettledType
  BY SettleType DEF TypeInv
<1> QED
  BY <1>1, ResumeInType DEF TypeInv, TypeOK, FrameOK, SettledType

LEMMA TypeStep == TypeInv /\ [Next]_vars => TypeInv'
<1> SUFFICES ASSUME TypeInv, [Next]_vars PROVE TypeInv'
  OBVIOUS
<1> USE DEF TypeInv
<1>1. ASSUME NEW r \in Requests, Send(r) PROVE TypeInv'
  BY <1>1, AppendProperties
     DEF Send, TypeOK, FrameOK, linkVars, controlVars
<1>2. ASSUME NEW r \in Requests, Deliver(r) PROVE TypeInv'
  BY <1>2 DEF Deliver, TypeOK, FrameOK, linkVars, controlVars
<1>3. CASE StartRead
  BY <1>3 DEF StartRead, TypeOK, FrameOK, mainVars, linkVars, controlVars
<1>4. CASE Receive
  <2>1. /\ Head(inbox) \in Requests /\ Tail(inbox) \in Seq(Requests)
        /\ Append(pending, Head(inbox)) \in Seq(Requests)
    BY <1>4, HeadTailProperties, AppendProperties DEF Receive, TypeOK
  <2>2. Spent(device) \subseteq Devices
    BY DEF Spent
  <2> QED
    BY <1>4, <2>1, <2>2
       DEF Receive, BeginPush, TypeOK, FrameOK, mainVars, linkVars
<1>5. CASE EndRead
  <2>1. Spent(device) \subseteq Devices
    BY DEF Spent
  <2> QED
    BY <1>5, <2>1
       DEF EndRead, BeginPush, TypeOK, FrameOK, mainVars, linkVars, queueVars
<1>6. CASE PushDone
  BY <1>6 DEF PushDone, TypeOK, FrameOK, mainVars, linkVars, queueVars,
              controlVars
<1>7. CASE PushInvalidate
  <2> DEFINE r == Candidate
             hit == DevicesOf(Target[r])
             purged == Spent(device')
  <2>1. /\ MayTake /\ Take /\ Unlink(r) /\ FinishAndPublish(r, purged)
        /\ device' = [d \in Devices |->
                        [device[d] EXCEPT !.invalid = @ \/ d \in hit]]
        /\ cached' = [d \in Devices |-> IF d \in purged THEN 0 ELSE cached[d]]
        /\ inUse' = inUse /\ inbox' = inbox /\ caller' = caller
        /\ frame' = frame /\ current' = current
        /\ unsent' = unsent /\ answered' = answered
    BY <1>7 DEF PushInvalidate, mainVars
  <2>2. pc' \in {"push", "read", "stopped"}
    <3>1. CASE SanityCheck'
      <4>1. pc' = "push"
        BY <1>7, <3>1, Zenon DEF PushInvalidate
      <4> QED
        BY <4>1
    <3>2. CASE ~ SanityCheck'
      <4>1. pc' = PcAfterThrow
        BY <1>7, <3>2, Zenon DEF PushInvalidate
      <4> QED
        BY <4>1 DEF PcAfterThrow
    <3> QED
      BY <3>1, <3>2
  <2>3. purged \in SUBSET Devices
    BY DEF Spent
  <2>4. device' \in [Devices -> DeviceRecord]
    BY <2>1 DEF TypeOK, DeviceRecord
  <2>5. cached' \in [Devices -> Nat]
    BY <2>1 DEF TypeOK
  <2>6. pending' \in Seq(Requests) /\ idx' \in Nat
    BY <2>1, CandidateType DEF Take
  <2> HIDE DEF r, hit, purged
  <2>7. /\ posted' \in [Requests -> Nat] /\ finished' \in [Requests -> Nat]
        /\ freed' \subseteq Devices /\ zombies' \subseteq Devices
        /\ fatal' \in BOOLEAN
    BY <2>1, <2>3, FinishType
  <2>8. /\ requestDevice' \in [Requests -> Devices \cup {NoDevice}]
        /\ deviceRequest' \in [Devices -> Requests \cup {NoRequest}]
    BY <2>1, UnlinkType
  <2> QED
    BY <2>1, <2>2, <2>4, <2>5, <2>6, <2>7, <2>8 DEF TypeOK, FrameOK
<1>8. ASSUME MayTake, NEW d \in Devices,
             NEW max \in MaxReuse[Target[Candidate]],
             PushConnecting(d, max)
      PROVE  TypeInv'
  <2>1. /\ Candidate \in Requests /\ Target[Candidate] \in Targets
        /\ pending' \in Seq(Requests) /\ idx' \in Nat
    BY <1>8, CandidateType, HandlerAssumption DEF PushConnecting, Take
  <2>2. device' \in [Devices -> DeviceRecord]
    <3>1. [SetUp(d, max) EXCEPT !.phase = "connecting", !.owner = Candidate]
            \in DeviceRecord
      BY <1>8, <2>1, SetUpType DEF DeviceRecord, Phases
    <3> QED
      BY <1>8, <3>1 DEF PushConnecting, TypeOK
  <2>3. cached' \in [Devices -> Nat]
    BY <1>8, UncacheType DEF PushConnecting
  <2>4. /\ requestDevice' \in [Requests -> Devices \cup {NoDevice}]
        /\ deviceRequest' \in [Devices -> Requests \cup {NoRequest}]
    BY <1>8, <2>1, LinkType DEF PushConnecting
  <2>5. /\ inUse' \in [Targets -> Seq(Devices)]
        /\ pc' \in {"push", "read", "stopped"} /\ fatal' \in BOOLEAN
    BY <1>8, <2>1, TrackType DEF PushConnecting
  <2> QED
    BY <1>8, <2>1, <2>2, <2>3, <2>4, <2>5
       DEF PushConnecting, TypeOK, FrameOK, mainVars
<1>9. ASSUME MayTake, NEW d \in Devices,
             NEW max \in MaxReuse[Target[Candidate]],
             PushExecuting(d, max)
      PROVE  TypeInv'
  <2>1. /\ Candidate \in Requests /\ Target[Candidate] \in Targets
        /\ pending' \in Seq(Requests) /\ idx' \in Nat
    BY <1>9, CandidateType, HandlerAssumption DEF PushExecuting, Take
  <2>2. device' \in [Devices -> DeviceRecord]
    <3>1. [SetUp(d, max) EXCEPT
             !.phase = "executing", !.owner = Candidate,
             !.uses = IF Target[Candidate] = "CURL" THEN @ ELSE @ + 1]
            \in DeviceRecord
      BY <1>9, <2>1, SetUpType, DeviceUpdate DEF Phases
    <3> QED
      BY <1>9, <3>1 DEF PushExecuting, TypeOK
  <2>3. cached' \in [Devices -> Nat]
    BY <1>9, UncacheType DEF PushExecuting
  <2>4. /\ requestDevice' \in [Requests -> Devices \cup {NoDevice}]
        /\ deviceRequest' \in [Devices -> Requests \cup {NoRequest}]
    BY <1>9, <2>1, LinkType DEF PushExecuting
  <2>5. /\ inUse' \in [Targets -> Seq(Devices)]
        /\ pc' \in {"push", "read", "stopped"} /\ fatal' \in BOOLEAN
    BY <1>9, <2>1, TrackType DEF PushExecuting
  <2> QED
    BY <1>9, <2>1, <2>2, <2>3, <2>4, <2>5
       DEF PushExecuting, TypeOK, FrameOK, mainVars
<1>10. ASSUME MayTake, NEW d \in Devices,
              NEW max \in MaxReuse[Target[Candidate]],
              PushExecuteError(d, max)
       PROVE  TypeInv'
  <2> DEFINE r == Candidate
             t == Target[r]
             deleted == IF Reusable(device'[d]) THEN {} ELSE {d}
  <2>1. /\ r \in Requests /\ t \in Targets
        /\ pending' \in Seq(Requests) /\ idx' \in Nat
    BY <1>10, CandidateType, HandlerAssumption DEF PushExecuteError, Take
  <2>2. device' \in [Devices -> DeviceRecord]
    <3>1. [SetUp(d, max) EXCEPT
             !.phase = "open", !.uses = IF t = "CURL" THEN @ ELSE @ + 1]
            \in DeviceRecord
      BY <1>10, SetUpType, DeviceUpdate DEF Phases
    <3> QED
      BY <1>10, <3>1 DEF PushExecuteError, TypeOK
  <2>3. cached' \in [Devices -> Nat]
    <3>1. Uncache(d) \in [Devices -> Nat]
      BY <1>10, UncacheType DEF PushExecuteError
    <3> QED
      BY <1>10, <3>1 DEF PushExecuteError
  <2>4. /\ requestDevice' \in [Requests -> Devices \cup {NoDevice}]
        /\ deviceRequest' \in [Devices -> Requests \cup {NoRequest}]
    BY <1>10 DEF PushExecuteError, TypeOK
  <2>5. inUse' \in [Targets -> Seq(Devices)]
    <3>1. RemoveFirst(inUse[t], d) \in Seq(Devices)
      BY <2>1, RemoveFirstType DEF TypeOK
    <3> QED
      BY <1>10, <3>1 DEF PushExecuteError, TypeOK
  <2>6. /\ posted' \in [Requests -> Nat] /\ finished' \in [Requests -> Nat]
        /\ freed' \subseteq Devices /\ zombies' \subseteq Devices
        /\ fatal' \in BOOLEAN
    <3>1. deleted \in SUBSET Devices
      OBVIOUS
    <3>2. FinishAndPublish(r, deleted)
      BY <1>10 DEF PushExecuteError
    <3> HIDE DEF r, deleted
    <3> QED
      BY <3>1, <3>2, FinishType
  <2>7. CASE SanityCheck'
    <3>1. pc' = "track" /\ frame' = d /\ current' = r
      BY <1>10, <2>7, Zenon DEF PushExecuteError
    <3> QED
      BY <1>10, <2>1, <2>2, <2>3, <2>4, <2>5, <2>6, <3>1
         DEF PushExecuteError, TypeOK, FrameOK, mainVars
  <2>8. CASE ~ SanityCheck'
    <3>1. pc' = PcAfterThrow /\ frame' = frame /\ current' = current
      BY <1>10, <2>8, Zenon DEF PushExecuteError
    <3>2. pc' \in {"read", "stopped"}
      BY <3>1 DEF PcAfterThrow
    <3> QED
      BY <1>10, <2>1, <2>2, <2>3, <2>4, <2>5, <2>6, <3>1, <3>2
         DEF PushExecuteError, TypeOK, FrameOK, mainVars
  <2> QED
    BY <2>7, <2>8
<1>11. ASSUME MayTake, NEW d \in Devices,
              NEW max \in MaxReuse[Target[Candidate]],
              PushConnectError(d, max)
       PROVE  TypeInv'
  <2>1. /\ Candidate \in Requests
        /\ pending' \in Seq(Requests) /\ idx' \in Nat
    BY <1>11, CandidateType DEF PushConnectError, Take
  <2>2. device' \in [Devices -> DeviceRecord]
    <3>1. [SetUp(d, max) EXCEPT !.phase = "lost"] \in DeviceRecord
      BY <1>11, SetUpType DEF DeviceRecord, Phases
    <3> QED
      BY <1>11, <3>1 DEF PushConnectError, TypeOK
  <2>3. /\ requestDevice' \in [Requests -> Devices \cup {NoDevice}]
        /\ deviceRequest' \in [Devices -> Requests \cup {NoRequest}]
    BY <1>11, UnlinkType DEF PushConnectError
  <2>4. /\ posted' \in [Requests -> Nat] /\ finished' \in [Requests -> Nat]
        /\ freed' \subseteq Devices /\ zombies' \subseteq Devices
        /\ fatal' \in BOOLEAN
    BY <1>11, FinishType DEF PushConnectError
  <2>5. pc' \in {"push", "read", "stopped"}
    <3>1. CASE SanityCheck'
      <4>1. pc' = "push"
        BY <1>11, <3>1, Zenon DEF PushConnectError
      <4> QED
        BY <4>1
    <3>2. CASE ~ SanityCheck'
      <4>1. pc' = PcAfterThrow
        BY <1>11, <3>2, Zenon DEF PushConnectError
      <4> QED
        BY <4>1 DEF PcAfterThrow
    <3> QED
      BY <3>1, <3>2
  <2> QED
    BY <1>11, <2>1, <2>2, <2>3, <2>4, <2>5
       DEF PushConnectError, TypeOK, FrameOK, mainVars
<1>12. CASE PushTrack
  <2>1. frame \in Devices /\ Target[current] \in Targets
    BY <1>12, HandlerAssumption DEF PushTrack, FrameOK
  <2>2. /\ inUse' \in [Targets -> Seq(Devices)]
        /\ pc' \in {"push", "read", "stopped"} /\ fatal' \in BOOLEAN
    BY <1>12, <2>1, TrackType DEF PushTrack
  <2> QED
    BY <1>12, <2>2
       DEF PushTrack, TypeOK, FrameOK, mainVars, queueVars, linkVars
<1>13. CASE PushTrackDeleted
  BY <1>13 DEF PushTrackDeleted, TypeOK, FrameOK, mainVars, queueVars,
               linkVars, controlVars
<1>14. ASSUME NEW d \in Devices, Connected(d) PROVE TypeInv'
  <2>0. device[d] \in DeviceRecord
    BY DEF TypeOK
  <2>1. [device[d] EXCEPT !.phase = "executing", !.uses = @ + 1]
          \in DeviceRecord
    BY <2>0, DeviceUsed DEF Phases
  <2>2. device' \in [Devices -> DeviceRecord]
    <3>1. device' = [device EXCEPT
                       ![d] = [device[d] EXCEPT !.phase = "executing",
                                                !.uses = @ + 1]]
      BY <1>14 DEF Connected, TypeOK, DeviceRecord
    <3> QED
      BY <2>1, <3>1 DEF TypeOK
  <2> QED
    BY <1>14, <2>2
       DEF Connected, TypeOK, FrameOK, mainVars, queueVars, linkVars,
           controlVars
<1>15. ASSUME NEW d \in Devices, ConnectedExecuteError(d) PROVE TypeInv'
  <2>0. device[d] \in DeviceRecord
    BY DEF TypeOK
  <2>1. [device[d] EXCEPT !.phase = "open", !.uses = @ + 1,
                          !.owner = NoRequest] \in DeviceRecord
    BY <2>0, DeviceUsed DEF Phases
  <2> QED
    BY <1>15, <2>1, SettleResumeType DEF ConnectedExecuteError
<1>16. ASSUME NEW d \in Devices, ConnectFailed(d) \/ LostExecuting(d)
       PROVE  TypeInv'
  <2>1. [device[d] EXCEPT !.phase = "lost", !.owner = NoRequest]
          \in DeviceRecord
    BY DEF TypeOK, DeviceRecord, Phases
  <2> QED
    BY <1>16, <2>1, SettleResumeType DEF ConnectFailed, LostExecuting
<1>17. ASSUME NEW d \in Devices, Reply(d) PROVE TypeInv'
  <2>1. [device[d] EXCEPT !.phase = "open", !.owner = NoRequest]
          \in DeviceRecord
    BY DEF TypeOK, DeviceRecord, Phases
  <2> QED
    BY <1>17, <2>1, SettleResumeType DEF Reply
<1>18. ASSUME NEW d \in Devices, LostIdle(d) PROVE TypeInv'
  <2>1. [device[d] EXCEPT !.phase = "lost"] \in DeviceRecord
    BY DEF TypeOK, DeviceRecord, Phases
  <2>2. device' \in [Devices -> DeviceRecord]
    BY <1>18, <2>1 DEF LostIdle, TypeOK, DeviceRecord, Phases
  <2> QED
    BY <1>18, <2>2
       DEF LostIdle, TypeOK, FrameOK, mainVars, queueVars, linkVars
<1>19. CASE Return
  <2>1. frame \in Devices
    BY <1>19 DEF Return, FrameOK
  <2> QED
    BY <1>19, <2>1
       DEF Return, TypeOK, FrameOK, mainVars, queueVars, linkVars
<1>20. CASE Notify
  <2>1. frame \in Devices
    BY <1>20 DEF Notify, FrameOK
  <2>2. /\ pc' = "wait" /\ frame' = NoDevice
        /\ unsent' = unsent /\ answered' = answered
        /\ pending' = pending /\ inbox' = inbox
        /\ finished' = finished /\ device' = device /\ freed' = freed
        /\ caller' = caller /\ idx' = idx /\ current' = current
    BY <1>20 DEF Notify, mainVars, queueVars
  <2>3. CASE SanityCheck /\ References(frame) > 0
    <3>1. /\ IF cached[frame] > 0
             THEN cached' = [cached EXCEPT ![frame] = @ - 1] /\ inUse' = inUse
             ELSE EraseInUse(frame) /\ cached' = cached
          /\ zombies' = zombies \cup {frame} /\ fatal' = fatal
          /\ IF deviceRequest[frame] # NoRequest
             THEN /\ Unlink(deviceRequest[frame])
                  /\ posted' = [posted EXCEPT ![deviceRequest[frame]] = @ + 1]
             ELSE UNCHANGED <<linkVars, posted>>
      BY <1>20, <2>3, Zenon DEF Notify
    <3>2. inUse' \in [Targets -> Seq(Devices)] /\ cached' \in [Devices -> Nat]
      <4>1. CASE cached[frame] > 0
        <5>1. cached' = [cached EXCEPT ![frame] = @ - 1] /\ inUse' = inUse
          BY <3>1, <4>1
        <5>2. cached[frame] - 1 \in Nat
          BY <2>1, <4>1 DEF TypeOK
        <5> QED
          BY <5>1, <5>2 DEF TypeOK
      <4>2. CASE ~ (cached[frame] > 0)
        BY <2>1, <3>1, <4>2, EraseInUseType DEF TypeOK
      <4> QED
        BY <4>1, <4>2
    <3>3. /\ requestDevice' \in [Requests -> Devices \cup {NoDevice}]
          /\ deviceRequest' \in [Devices -> Requests \cup {NoRequest}]
          /\ posted' \in [Requests -> Nat]
      <4>1. CASE deviceRequest[frame] # NoRequest
        <5>1. deviceRequest[frame] \in Requests
          BY <2>1, <4>1 DEF TypeOK
        <5>2. posted' = [posted EXCEPT ![deviceRequest[frame]] = @ + 1]
          BY <3>1, <4>1
        <5> QED
          BY <3>1, <4>1, <5>1, <5>2, UnlinkType DEF TypeOK
      <4>2. CASE deviceRequest[frame] = NoRequest
        BY <3>1, <4>2 DEF TypeOK, linkVars
      <4> QED
        BY <4>1, <4>2
    <3> QED
      BY <2>1, <2>2, <3>1, <3>2, <3>3 DEF TypeOK, FrameOK
  <2>4. CASE ~ (SanityCheck /\ References(frame) > 0)
    <3>1. /\ fatal' = TRUE
          /\ UNCHANGED <<cached, inUse, zombies, linkVars, posted>>
      BY <1>20, <2>4, Zenon DEF Notify
    <3> QED
      BY <2>2, <3>1 DEF TypeOK, FrameOK, linkVars
  <2> QED
    BY <2>3, <2>4
<1>21. CASE NotifyDeleted
  BY <1>21 DEF NotifyDeleted, TypeOK, FrameOK, mainVars, queueVars, linkVars
<1>22. CASE Terminated \/ UNCHANGED vars
  BY <1>22 DEF Terminated, TypeOK, FrameOK, vars
<1> QED
  BY <1>1, <1>2, <1>3, <1>4, <1>5, <1>6, <1>7, <1>8, <1>9, <1>10, <1>11,
     <1>12, <1>13, <1>14, <1>15, <1>16, <1>17, <1>18, <1>19, <1>20, <1>21,
     <1>22
     DEF Next, MainNext, HubNext, ReadNext, PushNext, ResumeNext, DeviceNext,
         Settles

LEMMA TypeInit == Init => TypeInv
<1> SUFFICES ASSUME Init PROVE TypeInv
  OBVIOUS
<1>1. Unallocated \in DeviceRecord
  BY DEF Unallocated, DeviceRecord, Phases, Targets
<1>2. device \in [Devices -> DeviceRecord]
  BY <1>1 DEF Init
<1>3. inUse \in [Targets -> Seq(Devices)]
  BY DEF Init
<1>4. /\ inbox \in Seq(Requests) /\ pending \in Seq(Requests)
      /\ posted \in [Requests -> Nat] /\ answered \in [Requests -> Nat]
      /\ finished \in [Requests -> Nat] /\ cached \in [Devices -> Nat]
  BY DEF Init
<1>5. /\ requestDevice \in [Requests -> Devices \cup {NoDevice}]
      /\ deviceRequest \in [Devices -> Requests \cup {NoRequest}]
  BY DEF Init
<1>6. /\ unsent \subseteq Requests /\ zombies \subseteq Devices
      /\ freed \subseteq Devices /\ pc = "wait" /\ caller = "Idle"
      /\ idx \in Nat /\ frame = NoDevice /\ current = NoRequest
      /\ fatal \in BOOLEAN
  BY DEF Init
<1> QED
  BY <1>2, <1>3, <1>4, <1>5, <1>6 DEF TypeInv, TypeOK, FrameOK

\* Every variable of the model keeps its type in every behaviour.
THEOREM TypeCorrect == Spec => []TypeOK
<1>1. Spec => []TypeInv
  BY TypeInit, TypeStep, PTL DEF Spec
<1> QED
  BY <1>1, PTL DEF TypeInv

-----------------------------------------------------------------------------
(* The limit of a target.                                                  *)

\* Push looks at the limit before Connect and enters the device into
\* in_use_devices_ behind it.  What keeps the limit is that nothing else can
\* fill the vector in between: the slot the check saw is still free when
\* PushTrack takes it.
SlotReserved ==
  pc = "track" => Len(inUse[Target[current]]) < Limit[Target[current]]

LimitInv == WithinLimit /\ SlotReserved

LEMMA LimitType ==
  ASSUME TypeOK, NEW t \in Targets
  PROVE  Limit[t] \in Nat \ {0} /\ inUse[t] \in Seq(Devices)
                                /\ Len(inUse[t]) \in Nat
BY HandlerAssumption DEF TypeOK

LEMMA FreeSlot ==
  ASSUME TypeOK, MayTake
  PROVE  /\ Target[Candidate] \in Targets
         /\ Len(inUse[Target[Candidate]]) < Limit[Target[Candidate]]
<1>1. Target[Candidate] \in Targets
  BY CandidateType, HandlerAssumption
<1> QED
  BY <1>1, LimitType DEF MayTake, Full

\* Taking the free slot of a target keeps the limit.
LEMMA TrackLimit ==
  ASSUME TypeOK, WithinLimit, NEW t \in Targets, NEW d \in Devices,
         Len(inUse[t]) < Limit[t], Track(t, d)
  PROVE  LimitInv'
<1>1. pc' # "track"
  BY TrackType
<1>2. inUse' = [inUse EXCEPT ![t] = Append(@, d)]
  BY DEF Track
<1>3. Len(inUse'[t]) =< Limit[t]
  <2>1. Len(Append(inUse[t], d)) = Len(inUse[t]) + 1
    BY LimitType, AppendProperties
  <2> QED
    BY <1>2, <2>1, LimitType DEF TypeOK
<1>4. ASSUME NEW u \in Targets, u # t PROVE Len(inUse'[u]) =< Limit[u]
  BY <1>2, <1>4 DEF TypeOK, WithinLimit
<1> QED
  BY <1>1, <1>3, <1>4 DEF LimitInv, WithinLimit, SlotReserved

\* Giving a slot back keeps it.
LEMMA EraseLimit ==
  ASSUME TypeOK, WithinLimit, NEW d \in Devices, EraseInUse(d)
  PROVE  WithinLimit'
<1> SUFFICES ASSUME NEW t \in Targets PROVE Len(inUse'[t]) =< Limit[t]
  BY DEF WithinLimit
<1>1. inUse'[t] \in Seq(Devices) /\ Len(inUse'[t]) =< Len(inUse[t])
  BY EraseInUseType
<1>2. Len(inUse[t]) =< Limit[t]
  BY DEF WithinLimit
<1>3. Len(inUse'[t]) \in Nat
  BY <1>1
<1> QED
  BY <1>1, <1>2, <1>3, LimitType

LEMMA LimitStep == TypeInv /\ LimitInv /\ [Next]_vars => LimitInv'
<1> SUFFICES ASSUME TypeInv, LimitInv, [Next]_vars PROVE LimitInv'
  OBVIOUS
<1>0. TypeOK /\ WithinLimit
  BY DEF TypeInv, LimitInv
\* Steps that leave in_use_devices_ alone and do not enter "track".
<1>1. ASSUME inUse' = inUse, pc' # "track" \/ UNCHANGED <<pc, current>>
      PROVE  LimitInv'
  BY <1>1 DEF LimitInv, WithinLimit, SlotReserved
<1>2. ASSUME NEW r \in Requests, Send(r) \/ Deliver(r) PROVE LimitInv'
  BY <1>1, <1>2 DEF Send, Deliver, controlVars
<1>3. CASE StartRead \/ Receive \/ EndRead
  BY <1>1, <1>3 DEF StartRead, Receive, EndRead, BeginPush
<1>4. CASE PushDone \/ PushTrackDeleted
  BY <1>1, <1>4 DEF PushDone, PushTrackDeleted
<1>5. CASE PushInvalidate
  <2>1. inUse' = inUse /\ pc' = IF SanityCheck' THEN "push" ELSE PcAfterThrow
    BY <1>5, Zenon DEF PushInvalidate
  <2>2. pc' # "track"
    BY <2>1 DEF PcAfterThrow
  <2> QED
    BY <1>1, <2>1, <2>2
<1>6. ASSUME MayTake, NEW d \in Devices,
             NEW max \in MaxReuse[Target[Candidate]],
             PushConnecting(d, max) \/ PushExecuting(d, max)
      PROVE  LimitInv'
  BY <1>0, <1>6, FreeSlot, TrackLimit DEF PushConnecting, PushExecuting
<1>7. ASSUME MayTake, NEW d \in Devices,
             NEW max \in MaxReuse[Target[Candidate]],
             PushExecuteError(d, max)
      PROVE  LimitInv'
  <2> DEFINE t == Target[Candidate]
  <2>1. /\ t \in Targets /\ Len(inUse[t]) < Limit[t] /\ Limit[t] \in Nat
    BY <1>0, <1>7, FreeSlot, LimitType
  <2>2. inUse' = [inUse EXCEPT ![t] = RemoveFirst(@, d)]
    BY <1>7 DEF PushExecuteError
  <2>3. Len(inUse'[t]) < Limit[t]
    <3>1. /\ RemoveFirst(inUse[t], d) \in Seq(Devices)
          /\ Len(RemoveFirst(inUse[t], d)) =< Len(inUse[t])
      BY <1>0, <2>1, LimitType, RemoveFirstType
    <3>2. inUse'[t] = RemoveFirst(inUse[t], d)
      BY <1>0, <2>1, <2>2 DEF TypeOK
    <3>3. Len(RemoveFirst(inUse[t], d)) \in Nat /\ Len(inUse[t]) \in Nat
      BY <1>0, <2>1, <3>1, LimitType
    <3> QED
      BY <2>1, <3>1, <3>2, <3>3
  <2>4. WithinLimit'
    <3>1. ASSUME NEW u \in Targets PROVE Len(inUse'[u]) =< Limit[u]
      <4>1. CASE u = t
        <5>1. inUse'[t] \in Seq(Devices)
          BY <1>0, <2>1, <2>2, LimitType, RemoveFirstType DEF TypeOK
        <5>2. Len(inUse'[t]) \in Nat
          BY <5>1
        <5> QED
          BY <2>1, <2>3, <4>1, <5>2
      <4>2. CASE u # t
        BY <1>0, <2>2, <4>2 DEF TypeOK, WithinLimit
      <4> QED
        BY <4>1, <4>2
    <3> QED
      BY <3>1 DEF WithinLimit
  <2>5. CASE SanityCheck'
    <3>1. current' = Candidate
      BY <1>7, <2>5, Zenon DEF PushExecuteError
    <3> QED
      BY <2>3, <2>4, <3>1 DEF LimitInv, SlotReserved
  <2>6. CASE ~ SanityCheck'
    <3>1. pc' = PcAfterThrow
      BY <1>7, <2>6, Zenon DEF PushExecuteError
    <3>2. pc' # "track"
      BY <3>1 DEF PcAfterThrow
    <3> QED
      BY <2>4, <3>2 DEF LimitInv, SlotReserved
  <2> QED
    BY <2>5, <2>6
<1>8. ASSUME NEW d \in Devices, NEW max, PushConnectError(d, max)
      PROVE  LimitInv'
  <2>1. inUse' = inUse /\ pc' = IF SanityCheck' THEN "push" ELSE PcAfterThrow
    BY <1>8, Zenon DEF PushConnectError
  <2>2. pc' # "track"
    BY <2>1 DEF PcAfterThrow
  <2> QED
    BY <1>1, <2>1, <2>2
<1>9. CASE PushTrack
  <2>1. /\ Track(Target[current], frame) /\ frame \in Devices
        /\ Target[current] \in Targets
        /\ Len(inUse[Target[current]]) < Limit[Target[current]]
    BY <1>9, HandlerAssumption
       DEF PushTrack, TypeInv, FrameOK, LimitInv, SlotReserved
  <2> QED
    BY <1>0, <2>1, TrackLimit
<1>10. ASSUME NEW d \in Devices, NEW dev, NEW spent,
              NEW where \in {"return", "notify"},
              Settle(d, dev, spent), ResumeIn(d, where)
       PROVE  LimitInv'
  <2>1. WithinLimit'
    BY <1>0, <1>10, EraseLimit DEF Settle
  <2>2. pc' # "track"
    BY <1>0, <1>10, ResumeInType
  <2> QED
    BY <2>1, <2>2 DEF LimitInv, SlotReserved
<1>11. ASSUME NEW d \in Devices, Settles(d) PROVE LimitInv'
  <2>1. CASE Connected(d)
    BY <1>1, <2>1 DEF Connected, controlVars
  <2> QED
    BY <1>10, <1>11, <2>1
       DEF Settles, ConnectedExecuteError, ConnectFailed, Reply, LostExecuting
<1>12. ASSUME NEW d \in Devices, LostIdle(d) PROVE LimitInv'
  BY <1>1, <1>12 DEF LostIdle
<1>13. CASE Return \/ NotifyDeleted
  BY <1>1, <1>13 DEF Return, NotifyDeleted
<1>14. CASE Notify
  <2>1. pc' # "track"
    BY <1>14 DEF Notify
  <2>2. CASE inUse' = inUse
    BY <1>1, <2>1, <2>2
  <2>3. CASE EraseInUse(frame)
    <3>1. frame \in Devices
      BY <1>14 DEF Notify, TypeInv, FrameOK
    <3> QED
      BY <1>0, <2>1, <2>3, <3>1, EraseLimit DEF LimitInv, SlotReserved
  <2>4. inUse' = inUse \/ EraseInUse(frame)
    BY <1>14, Zenon DEF Notify
  <2> QED
    BY <2>2, <2>3, <2>4
<1>15. CASE Terminated \/ UNCHANGED vars
  BY <1>1, <1>15 DEF Terminated, vars
<1> QED
  BY <1>2, <1>3, <1>4, <1>5, <1>6, <1>7, <1>8, <1>9, <1>11, <1>12, <1>13,
     <1>14, <1>15
     DEF Next, MainNext, HubNext, ReadNext, PushNext, ResumeNext, DeviceNext

LEMMA LimitInit == Init => LimitInv
BY HandlerAssumption DEF Init, LimitInv, WithinLimit, SlotReserved

\* No more devices of a target are in use than max_conn_per_worker_ allows:
\* for any limits, any number of requests and any order of events.
THEOREM LimitKept == Spec => []WithinLimit
<1>1. Spec => []TypeInv
  BY TypeInit, TypeStep, PTL DEF Spec
<1>2. Spec => []LimitInv
  BY <1>1, LimitInit, LimitStep, PTL DEF Spec
<1> QED
  BY <1>2, PTL DEF LimitInv

=============================================================================

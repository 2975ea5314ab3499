-------------------------- MODULE OneShotLinksProofs --------------------------
(***************************************************************************)
(* Theorems about the bookkeeping of OneShotHandler, for any requests,     *)
(* devices and limits: every request is in one place, and the vectors and  *)
(* maps of the handler agree with each other and with what the devices do. *)
(***************************************************************************)
EXTENDS OneShotHandlerProofs

-----------------------------------------------------------------------------
(* Counts of the queues and of the slots.                                  *)

LEMMA CountIs ==
  ASSUME NEW s, NEW x
  PROVE  /\ Count(s, x) = CountIn(s, {x})
         /\ Count(s, x) = Cardinality({i \in DOMAIN s : s[i] = x})
<1>1. {i \in DOMAIN s : s[i] = x} = {i \in DOMAIN s : s[i] \in {x}}
  OBVIOUS
<1> QED
  BY <1>1 DEF Count, CountIn

LEMMA CountType ==
  ASSUME NEW S, NEW s \in Seq(S), NEW x
  PROVE  /\ Count(s, x) \in Nat
         /\ Count(s, x) = 0 <=> \A i \in DOMAIN s : s[i] # x
<1>1. CountIn(s, {x}) \in Nat
  BY CountInType
<1>2. CountIn(s, {x}) = 0 <=> \A i \in DOMAIN s : s[i] \notin {x}
  BY CountInZero
<1> QED
  BY <1>1, <1>2, CountIs

LEMMA CountAppend ==
  ASSUME NEW S, NEW s \in Seq(S), NEW y \in S, NEW x
  PROVE  Count(Append(s, y), x) = Count(s, x) + (IF x = y THEN 1 ELSE 0)
<1>1. CountIn(Append(s, y), {x}) = CountIn(s, {x}) + (IF y \in {x} THEN 1 ELSE 0)
  BY CountInAppend
<1> QED
  BY <1>1, CountIs

LEMMA CountTail ==
  ASSUME NEW S, NEW s \in Seq(S), s # <<>>, NEW x
  PROVE  Count(s, x) = Count(Tail(s), x) + (IF x = Head(s) THEN 1 ELSE 0)
<1>1. CountIn(s, {x}) = CountIn(Tail(s), {x}) + (IF Head(s) \in {x} THEN 1 ELSE 0)
  BY CountInTail
<1> QED
  BY <1>1, CountIs

LEMMA CountRemoveAt ==
  ASSUME NEW S, NEW s \in Seq(S), NEW i \in 1 .. Len(s), NEW x
  PROVE  Count(s, x) = Count(RemoveAt(s, i), x) + (IF x = s[i] THEN 1 ELSE 0)
<1>1. CountIn(s, {x})
        = CountIn(RemoveAt(s, i), {x}) + (IF s[i] \in {x} THEN 1 ELSE 0)
  BY CountInRemoveAt
<1> QED
  BY <1>1, CountIs

LEMMA CountRemoveFirst ==
  ASSUME NEW S, NEW s \in Seq(S), NEW e, NEW x
  PROVE  Count(RemoveFirst(s, e), x)
           = IF x = e /\ Count(s, x) # 0 THEN Count(s, x) - 1 ELSE Count(s, x)
<1>1. CountIn(s, {x})
        = CountIn(RemoveFirst(s, e), {x})
            + (IF e \in {x} /\ \E i \in DOMAIN s : s[i] = e THEN 1 ELSE 0)
  BY CountInRemoveFirst
<1>2. RemoveFirst(s, e) \in Seq(S)
  BY RemoveFirstType
<1>3. Count(RemoveFirst(s, e), x) \in Nat
  BY <1>2, CountType
<1>4. Count(s, x) = 0 <=> \A i \in DOMAIN s : s[i] # x
  BY CountType
<1>5. CountIn(s, {x}) = Count(s, x)
  BY CountIs
<1>6. CountIn(RemoveFirst(s, e), {x}) = Count(RemoveFirst(s, e), x)
  BY CountIs
<1>7. Count(s, x) = Count(RemoveFirst(s, e), x)
        + (IF x = e /\ \E i \in DOMAIN s : s[i] = e THEN 1 ELSE 0)
  BY <1>1, <1>5, <1>6
<1>8. CASE x = e /\ Count(s, x) # 0
  BY <1>3, <1>4, <1>7, <1>8
<1>9. CASE ~ (x = e /\ Count(s, x) # 0)
  BY <1>3, <1>4, <1>7, <1>9
<1> QED
  BY <1>8, <1>9

\* The slots of all targets after an append.
LEMMA SlotAppend ==
  ASSUME inUse \in [Targets -> Seq(Devices)], NEW u \in Targets,
         NEW d \in Devices, inUse' = [inUse EXCEPT ![u] = Append(@, d)]
  PROVE  \A t \in Targets, e \in Devices :
           Count(inUse'[t], e)
             = Count(inUse[t], e) + (IF t = u /\ e = d THEN 1 ELSE 0)
<1> SUFFICES ASSUME NEW t \in Targets, NEW e \in Devices
             PROVE  Count(inUse'[t], e)
                      = Count(inUse[t], e) + (IF t = u /\ e = d THEN 1 ELSE 0)
  OBVIOUS
<1>1. inUse[t] \in Seq(Devices) /\ Count(inUse[t], e) \in Nat
  BY CountType
<1>2. CASE t = u
  <2>1. inUse'[t] = Append(inUse[t], d)
    BY <1>2
  <2>2. Count(Append(inUse[t], d), e)
          = Count(inUse[t], e) + (IF e = d THEN 1 ELSE 0)
    BY <1>1, CountAppend
  <2> QED
    BY <1>2, <2>1, <2>2
<1>3. CASE t # u
  <2>1. inUse'[t] = inUse[t]
    BY <1>3
  <2> QED
    BY <1>1, <1>3, <2>1
<1> QED
  BY <1>2, <1>3

\* The slots of all targets after a removal.
LEMMA SlotErase ==
  ASSUME inUse \in [Targets -> Seq(Devices)], NEW u \in Targets,
         NEW d \in Devices, inUse' = [inUse EXCEPT ![u] = RemoveFirst(@, d)]
  PROVE  \A t \in Targets, e \in Devices :
           Count(inUse'[t], e)
             = IF t = u /\ e = d /\ Count(inUse[t], e) # 0
               THEN Count(inUse[t], e) - 1 ELSE Count(inUse[t], e)
<1> SUFFICES ASSUME NEW t \in Targets, NEW e \in Devices
             PROVE  Count(inUse'[t], e)
                      = IF t = u /\ e = d /\ Count(inUse[t], e) # 0
                        THEN Count(inUse[t], e) - 1 ELSE Count(inUse[t], e)
  OBVIOUS
<1>1. inUse[t] \in Seq(Devices)
  OBVIOUS
<1>2. CASE t = u
  <2>1. inUse'[t] = RemoveFirst(inUse[t], d)
    BY <1>2
  <2>2. Count(RemoveFirst(inUse[t], d), e)
          = IF e = d /\ Count(inUse[t], e) # 0
            THEN Count(inUse[t], e) - 1 ELSE Count(inUse[t], e)
    BY <1>1, CountRemoveFirst
  <2> QED
    BY <1>2, <2>1, <2>2
<1>3. CASE t # u
  BY <1>3
<1> QED
  BY <1>2, <1>3

-----------------------------------------------------------------------------
(* The inductive invariant.                                                *)

IsLinked(d) == deviceRequest[d] # NoRequest

\* Execute may fail inside Connect: the device is entered into in_use_devices_
\* behind that (one_shot_handler.cc:523), although no request runs on it.
Leaks(t) == t \in ExecuteErrors /\ t # "PostgreSQL"

\* The maps between requests and devices are each other's inverse.
LinksInverse ==
  \A r \in Requests, d \in Devices :
    requestDevice[r] = d <=> deviceRequest[d] = r

\* A request runs on a device of its own target; an invalidation on none.
LinkFits(d) ==
  IsLinked(d) => /\ deviceRequest[d] \notin Invalidates
                 /\ Target[deviceRequest[d]] = device[d].target

CallbackFits(d) ==
  d \notin freed =>
    /\ device[d].owner = deviceRequest[d]
    /\ device[d].phase \in {"connecting", "executing"} <=>
         device[d].owner # NoRequest

CachedFits(d) ==
  cached[d] > 0 =>
    /\ cached[d] = 1 /\ ~IsLinked(d)
    /\ device[d].owner = NoRequest /\ device[d].tracked
    /\ \/ device[d].phase = "open"
       \/ device[d].phase = "lost" /\ pc = "notify" /\ frame = d

\* Only the end of a request stops the tracking of its device.
TrackedFits(d) ==
  device[d].phase \in {"none", "connecting", "executing"} => device[d].tracked

\* A device has slots of its own target only: one if a request runs on it, and
\* at most one more that leaked.
SlotFits(d) ==
  /\ \A t \in Targets :
       Count(inUse[t], d) # 0 => device[d].target = t /\ ~IsNew(d)
  /\ IsLinked(d) => Count(inUse[device[d].target], d) >= 1
  /\ Count(inUse[device[d].target], d) =<
       (IF IsLinked(d) THEN 1 ELSE 0)
         + (IF Leaks(device[d].target) THEN 1 ELSE 0)

\* What was deleted, or is about to be, is neither cached nor linked.
GoneFits(d) ==
  d \in freed \cup zombies => cached[d] = 0 /\ ~IsLinked(d) /\ ~IsNew(d)

DeviceOK(d) ==
  /\ LinkFits(d) /\ CallbackFits(d) /\ CachedFits(d) /\ TrackedFits(d)
  /\ SlotFits(d) /\ GoneFits(d)

\* Behind a Connect that returned Nop, the device is idle and has no slot.
TrackOK ==
  pc = "track" =>
    /\ device[frame].target = Target[current] /\ Leaks(Target[current])
    /\ Count(inUse[Target[current]], frame) = 0
    /\ device[frame].phase = "open" /\ ~IsLinked(frame)

\* Behind a callback, the device runs no request.
ResumeOK ==
  /\ pc \in {"return", "notify"} => ~IsLinked(frame) /\ ~IsNew(frame)
  /\ pc = "notify" => device[frame].phase = "lost"

LinksInv ==
  /\ OnePlace /\ LinksInverse
  /\ \A d \in Devices : DeviceOK(d)
  /\ TrackOK /\ ResumeOK

-----------------------------------------------------------------------------
(* What the invariant says of single values.                               *)

LEMMA PlaceTypes ==
  ASSUME TypeOK, NEW q \in Requests
  PROVE  /\ Count(inbox, q) \in Nat /\ Count(pending, q) \in Nat
         /\ finished[q] \in Nat /\ posted[q] \in Nat /\ answered[q] \in Nat
<1>1. inbox \in Seq(Requests) /\ pending \in Seq(Requests)
  BY DEF TypeOK
<1>2. Count(inbox, q) \in Nat /\ Count(pending, q) \in Nat
  BY <1>1, CountType
<1> QED
  BY <1>2 DEF TypeOK

\* A request that runs is nowhere else.
LEMMA RunningPlace ==
  ASSUME TypeOK, OnePlace, NEW r \in Requests, requestDevice[r] # NoDevice
  PROVE  /\ r \notin unsent /\ finished[r] = 0 /\ posted[r] = 0
         /\ answered[r] = 0
<1> DEFINE a == Count(inbox, r)  b == Count(pending, r)
           u == IF r \in unsent THEN 1 ELSE 0
<1>1. /\ a \in Nat /\ b \in Nat
      /\ finished[r] \in Nat /\ posted[r] \in Nat /\ answered[r] \in Nat
  BY PlaceTypes
<1>2. u + a + b + 1 + finished[r] + posted[r] + answered[r] = 1
  BY DEF OnePlace
<1>3. u \in {0, 1} /\ (u = 0 => r \notin unsent)
  OBVIOUS
<1> HIDE DEF a, b, u
<1> QED
  BY <1>1, <1>2, <1>3

LEMMA SlotTypes ==
  ASSUME TypeOK, NEW d \in Devices
  PROVE  /\ device[d].target \in Targets /\ cached[d] \in Nat
         /\ \A t \in Targets : Count(inUse[t], d) \in Nat
<1>1. device[d] \in DeviceRecord /\ cached[d] \in Nat
  BY DEF TypeOK
<1>2. ASSUME NEW t \in Targets PROVE Count(inUse[t], d) \in Nat
  <2>1. inUse[t] \in Seq(Devices)
    BY DEF TypeOK
  <2> QED
    BY <2>1, CountType
<1> QED
  BY <1>1, <1>2 DEF DeviceRecord

\* The same for the next state.
LEMMA SlotTypesNext ==
  ASSUME TypeOK', NEW d \in Devices
  PROVE  /\ device'[d].target \in Targets /\ cached'[d] \in Nat
         /\ \A t \in Targets : Count(inUse'[t], d) \in Nat
<1>1. device'[d] \in DeviceRecord /\ cached'[d] \in Nat
  BY DEF TypeOK
<1>2. ASSUME NEW t \in Targets PROVE Count(inUse'[t], d) \in Nat
  <2>1. inUse'[t] \in Seq(Devices)
    BY DEF TypeOK
  <2> QED
    BY <2>1, CountType
<1> QED
  BY <1>1, <1>2 DEF DeviceRecord

\* At most two references to a device: the cached one and a leaked slot, or
\* the slot of its request and a leaked one.
LEMMA Sane ==
  ASSUME TypeOK, \A d \in Devices : CachedFits(d) /\ SlotFits(d)
  PROVE  SanityCheck
<1> SUFFICES ASSUME NEW d \in Devices PROVE References(d) - 1 =< 1
  BY DEF SanityCheck
<1> DEFINE n == Count(inUse[device[d].target], d)
<1>1. n \in Nat /\ cached[d] \in Nat
  BY SlotTypes
<1>2. n =< (IF IsLinked(d) THEN 1 ELSE 0)
             + (IF Leaks(device[d].target) THEN 1 ELSE 0)
  BY DEF SlotFits
<1>3. cached[d] > 0 => cached[d] = 1 /\ ~ IsLinked(d)
  BY DEF CachedFits
<1>4. References(d) = cached[d] + n
  BY DEF References
<1> HIDE DEF n
<1> QED
  BY <1>1, <1>2, <1>3, <1>4

LEMMA SaneNext ==
  ASSUME TypeOK',
         \A d \in Devices :
           /\ cached'[d] > 0 => cached'[d] = 1 /\ ~ IsLinked(d)'
           /\ SlotFits(d)'
  PROVE  SanityCheck'
<1> SUFFICES ASSUME NEW d \in Devices PROVE (References(d) - 1 =< 1)'
  BY DEF SanityCheck
<1> DEFINE n == Count(inUse'[device'[d].target], d)
<1>1. n \in Nat /\ cached'[d] \in Nat
  BY SlotTypesNext
<1>2. n =< (IF IsLinked(d)' THEN 1 ELSE 0)
             + (IF Leaks(device'[d].target) THEN 1 ELSE 0)
  BY DEF SlotFits
<1>3. cached'[d] > 0 => cached'[d] = 1 /\ ~ IsLinked(d)'
  OBVIOUS
<1>4. References(d)' = cached'[d] + n
  BY DEF References
<1> HIDE DEF n
<1> QED
  BY <1>1, <1>2, <1>3, <1>4

\* A device whose own fields, link and slots a step leaves alone stays
\* consistent, also when it is purged or deleted by the step.
LEMMA DeviceKept ==
  ASSUME NEW e \in Devices, DeviceOK(e),
         device'[e].phase = device[e].phase,
         device'[e].target = device[e].target,
         device'[e].owner = device[e].owner,
         device'[e].tracked = device[e].tracked,
         deviceRequest'[e] = deviceRequest[e],
         cached'[e] = cached[e] \/ cached'[e] = 0,
         \A t \in Targets : Count(inUse'[t], e) = Count(inUse[t], e),
         device[e].target \in Targets,
         freed \subseteq freed',
         e \in freed' \cup zombies' =>
           \/ e \in freed \cup zombies
           \/ cached'[e] = 0 /\ ~ IsLinked(e) /\ ~ IsNew(e),
         cached'[e] > 0 /\ device[e].phase = "lost" =>
           pc' = "notify" /\ frame' = e
  PROVE  DeviceOK(e)'
<1>1. IsLinked(e)' <=> IsLinked(e)
  BY DEF IsLinked
<1>2. IsNew(e)' <=> IsNew(e)
  BY DEF IsNew
<1>3. LinkFits(e)' /\ TrackedFits(e)'
  BY <1>1 DEF DeviceOK, LinkFits, TrackedFits
<1>4. CallbackFits(e)'
  BY DEF DeviceOK, CallbackFits
<1>5. CachedFits(e)'
  BY <1>1 DEF DeviceOK, CachedFits
<1>6. SlotFits(e)'
  BY <1>1, <1>2 DEF DeviceOK, SlotFits
<1>7. GoneFits(e)'
  BY <1>1, <1>2 DEF DeviceOK, GoneFits
<1> QED
  BY <1>3, <1>4, <1>5, <1>6, <1>7 DEF DeviceOK

-----------------------------------------------------------------------------
(* The parts of the handlers.                                              *)

LEMMA LinkInverse ==
  ASSUME TypeOK, LinksInverse, NEW r \in Requests, NEW d \in Devices,
         requestDevice[r] = NoDevice, deviceRequest[d] = NoRequest, Link(r, d)
  PROVE  /\ LinksInverse'
         /\ \A q \in Requests :
              requestDevice'[q] = IF q = r THEN d ELSE requestDevice[q]
         /\ \A e \in Devices :
              deviceRequest'[e] = IF e = d THEN r ELSE deviceRequest[e]
<1>1. /\ \A q \in Requests :
           requestDevice'[q] = IF q = r THEN d ELSE requestDevice[q]
      /\ \A e \in Devices :
           deviceRequest'[e] = IF e = d THEN r ELSE deviceRequest[e]
  BY DEF Link, TypeOK
<1>2. LinksInverse'
  BY <1>1, HandlerAssumption DEF LinksInverse
<1> QED
  BY <1>1, <1>2

LEMMA UnlinkInverse ==
  ASSUME TypeOK, LinksInverse, NEW r \in Requests, Unlink(r)
  PROVE  /\ LinksInverse'
         /\ \A q \in Requests :
              requestDevice'[q] = IF q = r THEN NoDevice ELSE requestDevice[q]
         /\ \A e \in Devices :
              deviceRequest'[e] = IF deviceRequest[e] = r THEN NoRequest
                                                          ELSE deviceRequest[e]
<1>1. /\ \A q \in Requests :
           requestDevice'[q] = IF q = r THEN NoDevice ELSE requestDevice[q]
      /\ \A e \in Devices :
           deviceRequest'[e] = IF e = requestDevice[r] THEN NoRequest
                                                       ELSE deviceRequest[e]
  BY DEF Unlink, TypeOK
<1>2. \A e \in Devices : e = requestDevice[r] <=> deviceRequest[e] = r
  BY DEF LinksInverse
<1>3. LinksInverse'
  BY <1>1, <1>2, HandlerAssumption DEF LinksInverse
<1> QED
  BY <1>1, <1>2, <1>3

\* When the checks of SanityCheck hold, what is finished is posted and the
\* zombies are deleted.
LEMMA FinishEffect ==
  ASSUME TypeOK, NEW r \in Requests, NEW deleted, SanityCheck',
         FinishAndPublish(r, deleted)
  PROVE  /\ \A q \in Requests :
              /\ posted'[q] = posted[q] + finished[q]
                                + (IF q = r THEN 1 ELSE 0)
              /\ finished'[q] = 0
         /\ freed' = freed \cup deleted \cup zombies
         /\ zombies' = {} /\ fatal' = fatal
<1> DEFINE done == [finished EXCEPT ![r] = @ + 1]
<1>1. /\ posted' = [q \in Requests |-> posted[q] + done[q]]
      /\ finished' = [q \in Requests |-> 0]
      /\ freed' = freed \cup deleted \cup zombies
      /\ zombies' = {} /\ fatal' = fatal
  BY Zenon DEF FinishAndPublish
<1>2. \A q \in Requests :
        /\ done[q] = finished[q] + (IF q = r THEN 1 ELSE 0)
        /\ posted[q] \in Nat /\ finished[q] \in Nat
  BY DEF TypeOK
<1> HIDE DEF done
<1>3. ASSUME NEW q \in Requests
      PROVE  /\ posted'[q] = posted[q] + finished[q]
                                + (IF q = r THEN 1 ELSE 0)
             /\ finished'[q] = 0
  <2>1. posted'[q] = posted[q] + done[q] /\ finished'[q] = 0
    BY <1>1
  <2> QED
    BY <1>2, <2>1
<1> QED
  BY <1>1, <1>3

\* The request Push takes leaves the queue; it is nowhere else.
LEMMA CandidateTaken ==
  ASSUME TypeOK, OnePlace, MayTake
  PROVE  /\ Candidate \in Requests
         /\ Take => \A q \in Requests :
              /\ Count(pending', q) \in Nat
              /\ Count(pending, q) = Count(pending', q)
                                       + (IF q = Candidate THEN 1 ELSE 0)
         /\ requestDevice[Candidate] = NoDevice
         /\ Candidate \notin unsent /\ Count(inbox, Candidate) = 0
         /\ finished[Candidate] = 0 /\ posted[Candidate] = 0
         /\ answered[Candidate] = 0
<1>1. idx \in Nat /\ pending \in Seq(Requests) /\ idx < Len(pending)
  BY DEF TypeOK, MayTake
<1>2. idx + 1 \in 1 .. Len(pending)
  BY <1>1
<1>3. Candidate \in Requests
  BY CandidateType
<1>4. ASSUME NEW q \in Requests
      PROVE  /\ Count(RemoveAt(pending, idx + 1), q) \in Nat
             /\ Count(pending, q) = Count(RemoveAt(pending, idx + 1), q)
                                      + (IF q = Candidate THEN 1 ELSE 0)
  <2>1. RemoveAt(pending, idx + 1) \in Seq(Requests)
    BY <1>1, <1>2, RemoveAtProperties
  <2>2. Count(RemoveAt(pending, idx + 1), q) \in Nat
    BY <2>1, CountType
  <2>3. Count(pending, q) = Count(RemoveAt(pending, idx + 1), q)
                              + (IF q = pending[idx + 1] THEN 1 ELSE 0)
    BY <1>1, <1>2, CountRemoveAt
  <2> QED
    BY <2>2, <2>3 DEF Candidate
<1>5. /\ requestDevice[Candidate] = NoDevice
      /\ Candidate \notin unsent /\ Count(inbox, Candidate) = 0
      /\ finished[Candidate] = 0 /\ posted[Candidate] = 0
      /\ answered[Candidate] = 0
  <2>1. Count(pending, Candidate) >= 1
    BY <1>3, <1>4
  <2> QED
    BY <1>3, <2>1, PlaceTypes DEF OnePlace
<1> QED
  BY <1>3, <1>4, <1>5 DEF Take

\* Nothing is linked to the request Push takes.
LEMMA CandidateFree ==
  ASSUME TypeOK, OnePlace, LinksInverse, MayTake, NEW e \in Devices
  PROVE  deviceRequest[e] # Candidate
<1>1. Candidate \in Requests /\ requestDevice[Candidate] = NoDevice
  BY CandidateTaken
<1> QED
  BY <1>1, HandlerAssumption DEF LinksInverse

\* The device Push picks exists or is new, is not deleted, runs no request and
\* has at most a leaked slot.
LEMMA PickFacts ==
  ASSUME TypeOK, \A e \in Devices : DeviceOK(e), MayTake,
         Candidate \in Requests, NEW d \in Devices, Picks(d),
         NEW max \in MaxReuse[Target[Candidate]]
  PROVE  /\ d \notin freed /\ d \notin zombies /\ ~ IsLinked(d)
         /\ SetUp(d, max).target = Target[Candidate]
         /\ SetUp(d, max).tracked /\ SetUp(d, max).owner = NoRequest
         /\ \A e \in Devices :
              Uncache(d)[e] = IF e = d THEN 0 ELSE cached[e]
         /\ \A t \in Targets :
              Count(inUse[t], d) # 0 => t = Target[Candidate]
         /\ Count(inUse[Target[Candidate]], d)
              =< (IF Leaks(Target[Candidate]) THEN 1 ELSE 0)
<1>0. DeviceOK(d) /\ Target[Candidate] \in Targets /\ cached[d] \in Nat
  BY HandlerAssumption, SlotTypes
<1>1. CASE IsNew(d)
  <2>1. d \notin freed /\ d \notin zombies
    BY <1>0, <1>1 DEF DeviceOK, GoneFits
  <2>2. ~ IsLinked(d)
    BY <1>0, <1>1, <2>1 DEF DeviceOK, CallbackFits, IsLinked, IsNew
  <2>3. cached[d] = 0
    BY <1>0, <1>1 DEF DeviceOK, CachedFits, IsNew
  <2>4. /\ SetUp(d, max).target = Target[Candidate]
        /\ SetUp(d, max).tracked /\ SetUp(d, max).owner = NoRequest
    BY <1>1 DEF SetUp, Unallocated
  <2>5. \A t \in Targets : Count(inUse[t], d) = 0
    BY <1>0, <1>1 DEF DeviceOK, SlotFits
  <2>6. Uncache(d) = cached
    BY <1>1 DEF Uncache
  <2> QED
    BY <1>0, <2>1, <2>2, <2>3, <2>4, <2>5, <2>6
<1>2. CASE ~ IsNew(d)
  <2>1. cached[d] > 0 /\ device[d].target = Target[Candidate]
    BY <1>2 DEF Picks, CachedFor
  <2>2. /\ cached[d] = 1 /\ ~ IsLinked(d)
        /\ device[d].owner = NoRequest /\ device[d].tracked
    BY <1>0, <2>1 DEF DeviceOK, CachedFits
  <2>3. d \notin freed /\ d \notin zombies
    BY <1>0, <2>1 DEF DeviceOK, GoneFits
  <2>4. SetUp(d, max) = device[d]
    BY <1>2 DEF SetUp
  <2>5. \A t \in Targets : Count(inUse[t], d) # 0 => t = Target[Candidate]
    BY <1>0, <2>1 DEF DeviceOK, SlotFits
  <2>6. Count(inUse[Target[Candidate]], d)
          =< (IF Leaks(Target[Candidate]) THEN 1 ELSE 0)
    <3>1. Count(inUse[Target[Candidate]], d) \in Nat
      BY <1>0, SlotTypes
    <3>2. Count(inUse[Target[Candidate]], d)
            =< 0 + (IF Leaks(Target[Candidate]) THEN 1 ELSE 0)
      BY <1>0, <2>1, <2>2 DEF DeviceOK, SlotFits
    <3> QED
      BY <3>1, <3>2
  <2>7. \A e \in Devices : Uncache(d)[e] = IF e = d THEN 0 ELSE cached[e]
    <3>1. Uncache(d) = [cached EXCEPT ![d] = @ - 1]
      BY <1>2 DEF Uncache
    <3> QED
      BY <2>2, <3>1 DEF TypeOK
  <2> QED
    BY <2>2, <2>3, <2>1, <2>4, <2>5, <2>6, <2>7
<1> QED
  BY <1>1, <1>2

-----------------------------------------------------------------------------
(* The steps of Push.                                                      *)

\* A request of the queue goes onto a device: PushConnecting, PushExecuting.
LEMMA PushLinks ==
  ASSUME TypeInv, TypeInv', LinksInv, MayTake, Candidate \notin Invalidates,
         NEW d \in Devices, NEW max \in MaxReuse[Target[Candidate]], Picks(d),
         NEW dev, device' = [device EXCEPT ![d] = dev],
         dev.phase \in {"connecting", "executing"}, dev.owner = Candidate,
         dev.target = SetUp(d, max).target,
         dev.tracked = SetUp(d, max).tracked,
         cached' = Uncache(d), Link(Candidate, d), Track(Target[Candidate], d),
         Take,
         UNCHANGED <<mainVars, inbox, posted, finished, zombies, freed, caller,
                     frame, current>>
  PROVE  LinksInv'
<1> DEFINE r == Candidate
           t == Target[Candidate]
<1>0. /\ TypeOK /\ TypeOK' /\ OnePlace /\ LinksInverse
      /\ \A e \in Devices : DeviceOK(e)
  BY DEF TypeInv, LinksInv
<1>1. /\ r \in Requests /\ requestDevice[r] = NoDevice /\ t \in Targets
      /\ \A q \in Requests : Count(pending, q) = Count(pending', q)
                                                 + (IF q = r THEN 1 ELSE 0)
      /\ \A q \in Requests : Count(pending', q) \in Nat
  BY <1>0, CandidateTaken, HandlerAssumption
<1>2. /\ d \notin freed /\ d \notin zombies /\ ~ IsLinked(d)
      /\ dev.target = t /\ dev.tracked
      /\ \A e \in Devices : cached'[e] = IF e = d THEN 0 ELSE cached[e]
      /\ \A u \in Targets : Count(inUse[u], d) # 0 => u = t
      /\ Count(inUse[t], d) =< (IF Leaks(t) THEN 1 ELSE 0)
  BY <1>0, <1>1, PickFacts
<1>3. /\ LinksInverse'
      /\ \A q \in Requests :
           requestDevice'[q] = IF q = r THEN d ELSE requestDevice[q]
      /\ \A e \in Devices :
           deviceRequest'[e] = IF e = d THEN r ELSE deviceRequest[e]
  BY <1>0, <1>1, <1>2, LinkInverse DEF IsLinked
<1>4. \A u \in Targets, e \in Devices :
        Count(inUse'[u], e) = Count(inUse[u], e)
                                + (IF u = t /\ e = d THEN 1 ELSE 0)
  BY <1>0, <1>1, SlotAppend DEF Track, TypeOK
<1>5. pc' \in {"push", "read", "stopped"}
  BY <1>0, <1>1, TrackType
<1>6. /\ device'[d] = dev
      /\ \A e \in Devices : e # d => device'[e] = device[e]
  BY <1>0 DEF TypeOK
<1> HIDE DEF r, t
<1>7. OnePlace'
  <2>1. /\ unsent' = unsent /\ inbox' = inbox /\ posted' = posted
        /\ finished' = finished /\ answered' = answered
    BY DEF mainVars
  <2> QED
    BY <1>0, <1>1, <1>3, <2>1, PlaceTypes, HandlerAssumption DEF OnePlace
<1>8. DeviceOK(d)'
  <2>1. IsLinked(d)'
    BY <1>1, <1>3, HandlerAssumption DEF IsLinked
  <2>2. LinkFits(d)' /\ TrackedFits(d)'
    BY <1>1, <1>2, <1>3, <1>6 DEF LinkFits, TrackedFits, r, t
  <2>3. CallbackFits(d)'
    BY <1>1, <1>3, <1>6, HandlerAssumption DEF CallbackFits, r
  <2>4. cached'[d] = 0
    BY <1>2
  <2>5. CachedFits(d)'
    BY <2>4 DEF CachedFits
  <2>6. ~ IsNew(d)'
    BY <1>6 DEF IsNew
  <2>7. SlotFits(d)'
    BY <1>0, <1>1, <1>2, <1>4, <1>6, <2>1, <2>6, SlotTypes DEF SlotFits
  <2>8. GoneFits(d)'
    BY <1>2 DEF GoneFits
  <2> QED
    BY <2>2, <2>3, <2>5, <2>7, <2>8 DEF DeviceOK
<1>9. ASSUME NEW e \in Devices, e # d PROVE DeviceOK(e)'
  <2>1. cached[e] > 0 => device[e].phase # "lost"
    BY <1>0 DEF DeviceOK, CachedFits, MayTake
  <2>2. /\ device'[e] = device[e] /\ deviceRequest'[e] = deviceRequest[e]
        /\ cached'[e] = cached[e]
    BY <1>2, <1>3, <1>6, <1>9
  <2>3. device[e].target \in Targets
    BY <1>0, SlotTypes
  <2>4. \A u \in Targets : Count(inUse'[u], e) = Count(inUse[u], e)
    BY <1>0, <1>4, <1>9, SlotTypes
  <2>5. DeviceOK(e)
    BY <1>0
  <2> QED
    BY <2>1, <2>2, <2>3, <2>4, <2>5, DeviceKept
<1>10. TrackOK' /\ ResumeOK'
  BY <1>5 DEF TrackOK, ResumeOK
<1> QED
  BY <1>3, <1>7, <1>8, <1>9, <1>10 DEF LinksInv

\* A request of the queue that is finished at once is in one place still.
LEMMA CandidateFinished ==
  ASSUME TypeOK, OnePlace, MayTake, Take, SanityCheck',
         NEW gone, FinishAndPublish(Candidate, gone),
         unsent' = unsent, answered' = answered, inbox' = inbox,
         \A q \in Requests : requestDevice'[q] = requestDevice[q]
  PROVE  OnePlace'
<1>1. /\ Candidate \in Requests /\ requestDevice[Candidate] = NoDevice
      /\ \A q \in Requests : Count(pending, q) = Count(pending', q)
                                          + (IF q = Candidate THEN 1 ELSE 0)
      /\ \A q \in Requests : Count(pending', q) \in Nat
  BY CandidateTaken
<1>2. \A q \in Requests :
        /\ posted'[q] = posted[q] + finished[q]
                          + (IF q = Candidate THEN 1 ELSE 0)
        /\ finished'[q] = 0
  BY <1>1, FinishEffect
<1> QED
  BY <1>1, <1>2, PlaceTypes DEF OnePlace

LEMMA PushInvalidateLinks ==
  ASSUME TypeInv, TypeInv', LinksInv, PushInvalidate
  PROVE  LinksInv'
<1> DEFINE r == Candidate
           purged == Spent(device')
<1>0. /\ TypeOK /\ TypeOK' /\ OnePlace /\ LinksInverse
      /\ \A e \in Devices : DeviceOK(e)
  BY DEF TypeInv, LinksInv
<1>1. /\ MayTake /\ Take /\ Unlink(r) /\ FinishAndPublish(r, purged)
      /\ cached' = [d \in Devices |-> IF d \in purged THEN 0 ELSE cached[d]]
      /\ inUse' = inUse /\ inbox' = inbox
      /\ unsent' = unsent /\ answered' = answered
  BY DEF PushInvalidate, mainVars
<1>2. \A e \in Devices :
        /\ device'[e].phase = device[e].phase
        /\ device'[e].target = device[e].target
        /\ device'[e].owner = device[e].owner
        /\ device'[e].tracked = device[e].tracked
  BY <1>0 DEF PushInvalidate, TypeOK, DeviceRecord
<1>3. \A e \in purged : e \in Devices /\ cached[e] > 0
  BY DEF Spent
<1>4. r \in Requests /\ requestDevice[r] = NoDevice
  BY <1>0, <1>1, CandidateTaken
<1>5. /\ LinksInverse'
      /\ \A q \in Requests : requestDevice'[q] = requestDevice[q]
      /\ \A e \in Devices : deviceRequest'[e] = deviceRequest[e]
  BY <1>0, <1>1, <1>4, UnlinkInverse, CandidateFree
<1> HIDE DEF purged
<1>6. \A e \in Devices :
        /\ cached'[e] = cached[e] \/ cached'[e] = 0
        /\ e \in purged => cached'[e] = 0
        /\ cached[e] > 0 => device[e].phase # "lost"
        /\ device[e].target \in Targets
  BY <1>0, <1>1, SlotTypes DEF DeviceOK, CachedFits, MayTake
<1>7. SanityCheck'
  <2>1. ASSUME NEW e \in Devices
        PROVE  /\ cached'[e] > 0 => cached'[e] = 1 /\ ~ IsLinked(e)'
               /\ SlotFits(e)'
    BY <1>0, <1>1, <1>2, <1>5, <1>6 DEF DeviceOK, CachedFits, SlotFits,
                                        IsLinked, IsNew
  <2> QED
    BY <1>0, <2>1, SaneNext
<1>8. OnePlace'
  BY <1>0, <1>1, <1>5, <1>7, CandidateFinished
<1>9. freed' = freed \cup purged \cup zombies /\ zombies' = {}
  BY <1>0, <1>1, <1>4, <1>7, FinishEffect
<1>10. ASSUME NEW e \in Devices PROVE DeviceOK(e)'
  <2>1. DeviceOK(e)
    BY <1>0
  <2>2. e \in purged => ~ IsLinked(e) /\ ~ IsNew(e)
    BY <1>3, <2>1 DEF DeviceOK, CachedFits, IsNew
  <2>3. \A u \in Targets : Count(inUse'[u], e) = Count(inUse[u], e)
    BY <1>1
  <2> QED
    BY <1>2, <1>5, <1>6, <1>9, <2>1, <2>2, <2>3, DeviceKept
<1>11. pc' = "push"
  BY <1>7, Zenon DEF PushInvalidate
<1>12. TrackOK' /\ ResumeOK'
  BY <1>11 DEF TrackOK, ResumeOK
<1> QED
  BY <1>5, <1>8, <1>10, <1>12 DEF LinksInv

LEMMA PushConnectErrorLinks ==
  ASSUME TypeInv, TypeInv', LinksInv, NEW d \in Devices,
         NEW max \in MaxReuse[Target[Candidate]], PushConnectError(d, max)
  PROVE  LinksInv'
<1> DEFINE r == Candidate
<1>0. /\ TypeOK /\ TypeOK' /\ OnePlace /\ LinksInverse
      /\ \A e \in Devices : DeviceOK(e)
  BY DEF TypeInv, LinksInv
<1>1. /\ MayTake /\ Take /\ Unlink(r) /\ FinishAndPublish(r, {d})
      /\ Picks(d) /\ IsNew(d)
      /\ device' = [device EXCEPT ![d] = [SetUp(d, max) EXCEPT !.phase = "lost"]]
      /\ cached' = cached /\ inUse' = inUse /\ inbox' = inbox
      /\ unsent' = unsent /\ answered' = answered
  BY DEF PushConnectError, mainVars
<1>2. r \in Requests /\ requestDevice[r] = NoDevice
  BY <1>0, <1>1, CandidateTaken
<1>3. /\ LinksInverse'
      /\ \A q \in Requests : requestDevice'[q] = requestDevice[q]
      /\ \A e \in Devices : deviceRequest'[e] = deviceRequest[e]
  BY <1>0, <1>1, <1>2, UnlinkInverse, CandidateFree
<1>4. /\ \A e \in Devices : e # d => device'[e] = device[e]
      /\ device'[d].phase = "lost"
  BY <1>0, <1>1 DEF TypeOK, SetUp, Unallocated
<1>5. \A e \in Devices :
        /\ cached[e] > 0 => device[e].phase # "lost"
        /\ device[e].target \in Targets /\ device'[e].target \in Targets
  BY <1>0, <1>1, SlotTypes, SlotTypesNext DEF DeviceOK, CachedFits, MayTake
<1>6. /\ ~ IsLinked(d) /\ cached[d] = 0 /\ ~ IsNew(d)'
      /\ \A t \in Targets : Count(inUse[t], d) = 0
  <2>1. ~ IsLinked(d)
    BY <1>0, <1>1, <1>2, PickFacts
  <2>2. cached[d] = 0 /\ \A t \in Targets : Count(inUse[t], d) = 0
    BY <1>0, <1>1, SlotTypes DEF DeviceOK, CachedFits, SlotFits, IsNew
  <2> QED
    BY <1>4, <2>1, <2>2 DEF IsNew
<1>7. ASSUME NEW e \in Devices
      PROVE  /\ cached'[e] > 0 => cached'[e] = 1 /\ ~ IsLinked(e)'
             /\ SlotFits(e)'
  <2>1. CASE e = d
    BY <1>1, <1>3, <1>5, <1>6, <2>1 DEF SlotFits, IsLinked
  <2>2. CASE e # d
    BY <1>0, <1>1, <1>3, <1>4, <1>5, <2>2 DEF DeviceOK, CachedFits, SlotFits,
                                              IsLinked, IsNew
  <2> QED
    BY <2>1, <2>2
<1>8. SanityCheck'
  BY <1>0, <1>7, SaneNext
<1>9. OnePlace'
  BY <1>0, <1>1, <1>3, <1>8, CandidateFinished
<1>10. freed' = freed \cup {d} \cup zombies /\ zombies' = {}
  BY <1>0, <1>1, <1>2, <1>8, FinishEffect
<1>11. DeviceOK(d)'
  <2>1. LinkFits(d)' /\ TrackedFits(d)' /\ CachedFits(d)'
    BY <1>1, <1>3, <1>4, <1>6
       DEF LinkFits, TrackedFits, CachedFits, IsLinked
  <2>2. CallbackFits(d)' /\ GoneFits(d)'
    BY <1>1, <1>3, <1>6, <1>10 DEF CallbackFits, GoneFits, IsLinked
  <2> QED
    BY <1>7, <2>1, <2>2 DEF DeviceOK
<1>12. ASSUME NEW e \in Devices, e # d PROVE DeviceOK(e)'
  <2>1. DeviceOK(e)
    BY <1>0
  <2>2. \A u \in Targets : Count(inUse'[u], e) = Count(inUse[u], e)
    BY <1>1
  <2> QED
    BY <1>1, <1>3, <1>4, <1>5, <1>10, <1>12, <2>1, <2>2, DeviceKept
<1>13. pc' = "push"
  BY <1>8, Zenon DEF PushConnectError
<1>14. TrackOK' /\ ResumeOK'
  BY <1>13 DEF TrackOK, ResumeOK
<1> QED
  BY <1>3, <1>9, <1>11, <1>12, <1>14 DEF LinksInv

LEMMA PushExecuteErrorLinks ==
  ASSUME TypeInv, TypeInv', LinksInv, NEW d \in Devices,
         NEW max \in MaxReuse[Target[Candidate]], PushExecuteError(d, max)
  PROVE  LinksInv'
<1> DEFINE r == Candidate
           t == Target[Candidate]
           gone == IF Reusable(device'[d]) THEN {} ELSE {d}
           dev == [SetUp(d, max) EXCEPT
                     !.phase = "open", !.uses = IF t = "CURL" THEN @ ELSE @ + 1]
<1>0. /\ TypeOK /\ TypeOK' /\ OnePlace /\ LinksInverse
      /\ \A e \in Devices : DeviceOK(e)
  BY DEF TypeInv, LinksInv
<1>1. /\ MayTake /\ Take /\ Picks(d) /\ ConnectsAtOnce(d)
      /\ t \in ExecuteErrors
      /\ device' = [device EXCEPT ![d] = dev]
      /\ inUse' = [inUse EXCEPT ![t] = RemoveFirst(@, d)]
      /\ requestDevice' = [requestDevice EXCEPT ![r] = NoDevice]
      /\ deviceRequest' = [deviceRequest EXCEPT ![d] = NoRequest]
      /\ cached' = [Uncache(d) EXCEPT ![d] =
                      IF Reusable(device'[d]) THEN @ + 1 ELSE @]
      /\ FinishAndPublish(r, gone)
      /\ inbox' = inbox /\ unsent' = unsent /\ answered' = answered
  BY DEF PushExecuteError, mainVars
<1>2. r \in Requests /\ requestDevice[r] = NoDevice /\ t \in Targets
  BY <1>0, <1>1, CandidateTaken, HandlerAssumption
<1>3. /\ d \notin freed /\ d \notin zombies /\ ~ IsLinked(d)
      /\ SetUp(d, max).target = t
      /\ SetUp(d, max).tracked /\ SetUp(d, max).owner = NoRequest
      /\ \A e \in Devices : Uncache(d)[e] = IF e = d THEN 0 ELSE cached[e]
      /\ \A u \in Targets : Count(inUse[u], d) # 0 => u = t
      /\ Count(inUse[t], d) =< (IF Leaks(t) THEN 1 ELSE 0)
  BY <1>0, <1>1, <1>2, PickFacts
<1>4. /\ \A e \in Devices : e # d => device'[e] = device[e]
      /\ device'[d].phase = "open" /\ device'[d].target = t
      /\ device'[d].tracked /\ device'[d].owner = NoRequest
  <2>1. device'[d] = dev /\ \A e \in Devices : e # d => device'[e] = device[e]
    BY <1>0, <1>1 DEF TypeOK
  <2>2. SetUp(d, max) \in DeviceRecord
    BY <1>0, <1>1, SetUpType
  <2>3. /\ dev.phase = "open" /\ dev.target = SetUp(d, max).target
        /\ dev.tracked = SetUp(d, max).tracked
        /\ dev.owner = SetUp(d, max).owner
    BY <2>2 DEF DeviceRecord
  <2> HIDE DEF dev
  <2> QED
    BY <1>3, <2>1, <2>3
<1> HIDE DEF dev, gone
<1>5. \A e \in Devices :
        cached'[e] = IF e # d THEN cached[e]
                     ELSE IF Reusable(device'[d]) THEN 1 ELSE 0
  <2>1. Uncache(d) \in [Devices -> Nat]
    BY <1>0, <1>1, UncacheType
  <2> QED
    BY <1>1, <1>3, <2>1
<1>6. /\ LinksInverse'
      /\ \A q \in Requests : requestDevice'[q] = requestDevice[q]
      /\ \A e \in Devices : deviceRequest'[e] = deviceRequest[e]
  <2>1. /\ \A q \in Requests : requestDevice'[q] = requestDevice[q]
        /\ \A e \in Devices : deviceRequest'[e] = deviceRequest[e]
    BY <1>0, <1>1, <1>2, <1>3 DEF TypeOK, IsLinked
  <2> QED
    BY <1>0, <2>1 DEF LinksInverse
<1>7. \A u \in Targets, e \in Devices :
        Count(inUse'[u], e)
          = IF u = t /\ e = d /\ Count(inUse[u], e) # 0
            THEN Count(inUse[u], e) - 1 ELSE Count(inUse[u], e)
  <2>1. inUse \in [Targets -> Seq(Devices)]
    BY <1>0 DEF TypeOK
  <2> HIDE DEF t
  <2> QED
    BY <1>1, <1>2, <2>1, SlotErase
<1>8. \A e \in Devices :
        /\ cached[e] > 0 => device[e].phase # "lost"
        /\ device[e].target \in Targets /\ device'[e].target \in Targets
        /\ \A u \in Targets : Count(inUse[u], e) \in Nat
  BY <1>0, <1>1, SlotTypes, SlotTypesNext DEF DeviceOK, CachedFits, MayTake
<1> HIDE DEF r, t
<1>9. \A u \in Targets : Count(inUse'[u], d) = 0
  BY <1>2, <1>3, <1>7, <1>8
<1>10. \A u \in Targets, e \in Devices :
         e # d => Count(inUse'[u], e) = Count(inUse[u], e)
  BY <1>7
<1>11. ~ IsLinked(d)'
  BY <1>3, <1>6 DEF IsLinked
<1>12. ASSUME NEW e \in Devices
       PROVE  /\ cached'[e] > 0 => cached'[e] = 1 /\ ~ IsLinked(e)'
              /\ SlotFits(e)'
  <2>1. CASE e = d
    BY <1>5, <1>8, <1>9, <1>11, <2>1 DEF SlotFits
  <2>2. CASE e # d
    BY <1>0, <1>4, <1>5, <1>6, <1>8, <1>10, <2>2
       DEF DeviceOK, CachedFits, SlotFits, IsLinked, IsNew
  <2> QED
    BY <2>1, <2>2
<1>13. SanityCheck'
  BY <1>0, <1>12, SaneNext
<1>14. OnePlace'
  BY <1>0, <1>1, <1>6, <1>13, CandidateFinished DEF r
<1>15. freed' = freed \cup gone \cup zombies /\ zombies' = {}
  BY <1>0, <1>1, <1>2, <1>13, FinishEffect
<1>16. DeviceOK(d)'
  <2>1. LinkFits(d)' /\ TrackedFits(d)' /\ CachedFits(d)'
    BY <1>4, <1>5, <1>11 DEF LinkFits, TrackedFits, CachedFits
  <2>2. CallbackFits(d)'
    BY <1>4, <1>11 DEF CallbackFits, IsLinked
  <2>3. GoneFits(d)'
    BY <1>3, <1>4, <1>5, <1>11, <1>15 DEF GoneFits, IsNew, gone
  <2> QED
    BY <1>12, <2>1, <2>2, <2>3 DEF DeviceOK
<1>17. ASSUME NEW e \in Devices, e # d PROVE DeviceOK(e)'
  <2>1. DeviceOK(e) /\ e \notin gone
    BY <1>0, <1>17 DEF gone
  <2> QED
    BY <1>4, <1>5, <1>6, <1>8, <1>10, <1>15, <1>17, <2>1, DeviceKept
<1>18. pc' = "track" /\ frame' = d /\ current' = r
  BY <1>13, Zenon DEF PushExecuteError, r
<1>19. Leaks(t)
  BY <1>1 DEF Leaks, ConnectsAtOnce, t
<1>20. TrackOK' /\ ResumeOK'
  BY <1>2, <1>4, <1>9, <1>11, <1>18, <1>19 DEF TrackOK, ResumeOK, r, t
<1> QED
  BY <1>6, <1>14, <1>16, <1>17, <1>20 DEF LinksInv

\* Behind a Connect that returned Nop: the device takes a slot it has no
\* request for.
LEMMA PushTrackLinks ==
  ASSUME TypeInv, TypeInv', LinksInv, PushTrack
  PROVE  LinksInv'
<1>p. PICK d, t : d = frame /\ t = Target[current]
  OBVIOUS
<1>0. /\ TypeOK /\ TypeOK' /\ OnePlace /\ LinksInverse
      /\ \A e \in Devices : DeviceOK(e)
  BY DEF TypeInv, LinksInv
<1>1. /\ pc = "track" /\ d \in Devices /\ t \in Targets /\ Track(t, d)
      /\ device[d].target = t /\ Leaks(t) /\ Count(inUse[t], d) = 0
      /\ device[d].phase = "open" /\ ~ IsLinked(d)
  BY <1>p, HandlerAssumption DEF PushTrack, TypeInv, FrameOK, LinksInv, TrackOK
<1>2. UNCHANGED <<unsent, answered, inbox, pending, posted, finished, cached,
                  requestDevice, deviceRequest, zombies, device, freed>>
  BY DEF PushTrack, mainVars, queueVars, linkVars
<1>3. pc' \in {"push", "read", "stopped"}
  BY <1>0, <1>1, TrackType
<1>4. \A u \in Targets, e \in Devices :
        Count(inUse'[u], e) = Count(inUse[u], e)
                                + (IF u = t /\ e = d THEN 1 ELSE 0)
  <2>1. /\ inUse \in [Targets -> Seq(Devices)]
        /\ inUse' = [inUse EXCEPT ![t] = Append(@, d)]
    BY <1>0, <1>1 DEF Track, TypeOK
  <2>2. d \in Devices /\ t \in Targets
    BY <1>1
  <2> QED
    BY <2>1, <2>2, SlotAppend
<1>5. \A e \in Devices :
        /\ cached[e] > 0 => device[e].phase # "lost"
        /\ device[e].target \in Targets
        /\ \A u \in Targets : Count(inUse[u], e) \in Nat
  BY <1>0, <1>1, SlotTypes DEF DeviceOK, CachedFits
<1>6. DeviceOK(d)'
  <2>0. DeviceOK(d)
    BY <1>0, <1>1
  <2>1. SlotFits(d)'
    BY <1>1, <1>2, <1>4, <1>5, <2>0 DEF DeviceOK, SlotFits, IsLinked, IsNew
  <2>2. CachedFits(d)'
    BY <1>1, <1>2, <2>0 DEF DeviceOK, CachedFits, IsLinked
  <2> QED
    BY <1>2, <2>0, <2>1, <2>2
       DEF DeviceOK, LinkFits, CallbackFits, TrackedFits, GoneFits, IsLinked,
           IsNew
<1>7. ASSUME NEW e \in Devices, e # d PROVE DeviceOK(e)'
  <2>1. DeviceOK(e)
    BY <1>0
  <2>2. \A u \in Targets : Count(inUse'[u], e) = Count(inUse[u], e)
    BY <1>4, <1>5, <1>7
  <2> QED
    BY <1>2, <1>5, <2>1, <2>2, DeviceKept
<1>8. OnePlace' /\ LinksInverse'
  BY <1>0, <1>2 DEF OnePlace, LinksInverse
<1>9. TrackOK' /\ ResumeOK'
  BY <1>3 DEF TrackOK, ResumeOK
<1> QED
  BY <1>6, <1>7, <1>8, <1>9 DEF LinksInv

-----------------------------------------------------------------------------
(* The events of a device.                                                 *)

\* A request whose device settles: it is finished, and the device is idle.
LEMMA SettleLinks ==
  ASSUME TypeInv, TypeInv', LinksInv, pc = "wait",
         NEW d \in Devices, d \notin freed,
         device[d].phase \in {"connecting", "executing"},
         NEW dev \in DeviceRecord, NEW spent \in {"delete", "untrack"},
         NEW where \in {"return", "notify"},
         dev.phase = (IF where = "notify" THEN "lost" ELSE "open"),
         dev.owner = NoRequest, dev.target = device[d].target,
         dev.tracked = device[d].tracked,
         Settle(d, dev, spent), ResumeIn(d, where)
  PROVE  LinksInv'
<1> DEFINE r == deviceRequest[d]
           t == device[d].target
           gone == IF Reusable(dev) \/ spent # "delete" THEN {} ELSE {d}
<1>0. /\ TypeOK /\ TypeOK' /\ OnePlace /\ LinksInverse
      /\ \A e \in Devices : DeviceOK(e)
  BY DEF TypeInv, LinksInv
<1>1. /\ device[d].owner = r /\ r \in Requests /\ requestDevice[r] = d
      /\ cached[d] = 0 /\ device[d].tracked /\ t \in Targets
      /\ d \notin zombies
  <2>1. device[d].owner = r /\ r # NoRequest
    BY <1>0 DEF DeviceOK, CallbackFits
  <2>2. r \in Requests /\ requestDevice[r] = d
    BY <1>0, <2>1 DEF TypeOK, LinksInverse
  <2>3. cached[d] = 0 /\ t \in Targets
    BY <1>0, SlotTypes DEF DeviceOK, CachedFits
  <2>4. device[d].tracked
    BY <1>0 DEF DeviceOK, TrackedFits
  <2>5. d \notin zombies
    BY <1>0, <2>1 DEF DeviceOK, GoneFits, IsLinked
  <2> QED
    BY <2>1, <2>2, <2>3, <2>4, <2>5
<1>2. /\ Unlink(r) /\ EraseInUse(d) /\ FinishAndPublish(r, gone)
      /\ cached' = [cached EXCEPT ![d] = IF Reusable(dev) THEN @ + 1 ELSE @]
  BY <1>1 DEF Settle
<1>3. /\ UNCHANGED <<unsent, answered, inbox, pending>>
  BY DEF ResumeIn, mainVars, queueVars
<1>4. /\ \A e \in Devices : e # d => device'[e] = device[e]
      /\ device'[d].phase = dev.phase /\ device'[d].owner = NoRequest
      /\ device'[d].target = t
      /\ Reusable(dev) => device'[d].tracked
  <2>1. /\ \A e \in Devices : e # d => device'[e] = device[e]
        /\ device'[d] = IF Reusable(dev) \/ spent # "untrack"
                        THEN dev ELSE [dev EXCEPT !.tracked = FALSE]
    BY <1>0 DEF Settle, TypeOK
  <2>2. /\ [dev EXCEPT !.tracked = FALSE].phase = dev.phase
        /\ [dev EXCEPT !.tracked = FALSE].owner = dev.owner
        /\ [dev EXCEPT !.tracked = FALSE].target = dev.target
    BY DEF DeviceRecord
  <2>3. CASE Reusable(dev) \/ spent # "untrack"
    BY <1>1, <2>1, <2>3
  <2>4. CASE ~ (Reusable(dev) \/ spent # "untrack")
    BY <2>1, <2>2, <2>4
  <2> QED
    BY <2>1, <2>3, <2>4
<1>5. \A e \in Devices :
        cached'[e] = IF e # d THEN cached[e]
                     ELSE IF Reusable(dev) THEN 1 ELSE 0
  BY <1>0, <1>1, <1>2 DEF TypeOK
<1> HIDE DEF gone, r, t
<1>6. /\ LinksInverse'
      /\ \A q \in Requests :
           requestDevice'[q] = IF q = r THEN NoDevice ELSE requestDevice[q]
      /\ \A e \in Devices :
           deviceRequest'[e] = IF deviceRequest[e] = r THEN NoRequest
                                                       ELSE deviceRequest[e]
  BY <1>0, <1>1, <1>2, UnlinkInverse
<1>7. \A e \in Devices : deviceRequest[e] = r <=> e = d
  BY <1>0, <1>1 DEF LinksInverse
<1>8. \A u \in Targets, e \in Devices :
        Count(inUse'[u], e)
          = IF u = t /\ e = d /\ Count(inUse[u], e) # 0
            THEN Count(inUse[u], e) - 1 ELSE Count(inUse[u], e)
  <2>1. /\ inUse \in [Targets -> Seq(Devices)]
        /\ inUse' = [inUse EXCEPT ![t] = RemoveFirst(@, d)]
    BY <1>0, <1>2 DEF TypeOK, EraseInUse, t
  <2> QED
    BY <1>1, <2>1, SlotErase
<1>9. \A e \in Devices :
        /\ cached[e] > 0 => device[e].phase # "lost"
        /\ device[e].target \in Targets /\ device'[e].target \in Targets
        /\ \A u \in Targets : Count(inUse[u], e) \in Nat
  BY <1>0, SlotTypes, SlotTypesNext DEF DeviceOK, CachedFits
<1>10. \A u \in Targets, e \in Devices :
         e # d => Count(inUse'[u], e) = Count(inUse[u], e)
  BY <1>8
<1>11. ~ IsLinked(d)' /\ IsLinked(d) /\ ~ IsNew(d)'
  BY <1>1, <1>4, <1>6, <1>7, HandlerAssumption DEF IsLinked, IsNew
<1>12. SlotFits(d)'
  <2>1. SlotFits(d)
    BY <1>0 DEF DeviceOK
  <2>2. /\ \A u \in Targets : Count(inUse'[u], d) # 0 => u = t
        /\ Count(inUse'[t], d) =< (IF Leaks(t) THEN 1 ELSE 0)
    BY <1>1, <1>8, <1>9, <1>11, <2>1 DEF SlotFits, t
  <2>3. Count(inUse'[t], d) \in Nat
    BY <1>0, <1>1, SlotTypesNext
  <2> QED
    BY <1>4, <1>11, <2>2, <2>3 DEF SlotFits
<1>13. ASSUME NEW e \in Devices
       PROVE  /\ cached'[e] > 0 => cached'[e] = 1 /\ ~ IsLinked(e)'
              /\ SlotFits(e)'
  <2>1. CASE e = d
    BY <1>5, <1>11, <1>12, <2>1
  <2>2. CASE e # d
    BY <1>0, <1>4, <1>5, <1>6, <1>7, <1>9, <1>10, <2>2
       DEF DeviceOK, CachedFits, SlotFits, IsLinked, IsNew
  <2> QED
    BY <2>1, <2>2
<1>14. SanityCheck'
  BY <1>0, <1>13, SaneNext
<1>15. /\ \A q \in Requests :
            /\ posted'[q] = posted[q] + finished[q]
                              + (IF q = r THEN 1 ELSE 0)
            /\ finished'[q] = 0
       /\ freed' = freed \cup gone \cup zombies /\ zombies' = {}
  BY <1>0, <1>1, <1>2, <1>14, FinishEffect
<1>16. OnePlace'
  <2>1. requestDevice[r] # NoDevice
    BY <1>1, HandlerAssumption
  <2> QED
    BY <1>0, <1>1, <1>3, <1>6, <1>15, <2>1, PlaceTypes DEF OnePlace
<1>17. pc' = where /\ frame' = d
  BY <1>14, Zenon DEF ResumeIn
<1>18. DeviceOK(d)'
  <2>1. LinkFits(d)' /\ TrackedFits(d)' /\ CachedFits(d)'
    BY <1>4, <1>5, <1>11, <1>17 DEF LinkFits, TrackedFits, CachedFits
  <2>2. CallbackFits(d)'
    BY <1>4, <1>11 DEF CallbackFits, IsLinked
  <2>3. GoneFits(d)'
    BY <1>1, <1>5, <1>11, <1>15 DEF GoneFits, gone
  <2> QED
    BY <1>12, <2>1, <2>2, <2>3 DEF DeviceOK
<1>19. ASSUME NEW e \in Devices, e # d PROVE DeviceOK(e)'
  <2>1. DeviceOK(e) /\ e \notin gone
    BY <1>0, <1>19 DEF gone
  <2> QED
    BY <1>4, <1>5, <1>6, <1>7, <1>9, <1>10, <1>15, <1>19, <2>1, DeviceKept
<1>20. TrackOK' /\ ResumeOK'
  BY <1>4, <1>11, <1>17 DEF TrackOK, ResumeOK
<1> QED
  BY <1>6, <1>16, <1>18, <1>19, <1>20 DEF LinksInv

\* Steps that change no device, link or slot, and at most purge or delete
\* devices that run no request.
LEMMA DevicesKept ==
  ASSUME TypeOK, LinksInv,
         UNCHANGED <<requestDevice, deviceRequest, inUse, device>>,
         NEW gone \in SUBSET Devices,
         \A e \in gone : cached'[e] = 0 /\ ~ IsLinked(e) /\ ~ IsNew(e),
         \A e \in Devices \ gone : cached'[e] = cached[e],
         freed \subseteq freed',
         freed' \cup zombies' \subseteq freed \cup zombies \cup gone,
         \A e \in Devices : cached'[e] > 0 /\ device[e].phase = "lost" =>
                              pc' = "notify" /\ frame' = e
  PROVE  LinksInverse' /\ \A e \in Devices : DeviceOK(e)'
<1>1. LinksInverse'
  BY DEF LinksInv, LinksInverse
<1>2. ASSUME NEW e \in Devices PROVE DeviceOK(e)'
  <2>1. DeviceOK(e) /\ device[e].target \in Targets
    BY SlotTypes DEF LinksInv
  <2>2. \A u \in Targets : Count(inUse'[u], e) = Count(inUse[u], e)
    OBVIOUS
  <2>3. /\ device'[e].phase = device[e].phase
        /\ device'[e].target = device[e].target
        /\ device'[e].owner = device[e].owner
        /\ device'[e].tracked = device[e].tracked
        /\ deviceRequest'[e] = deviceRequest[e]
    OBVIOUS
  <2>4. /\ cached'[e] = cached[e] \/ cached'[e] = 0
        /\ e \in freed' \cup zombies' =>
             \/ e \in freed \cup zombies
             \/ cached'[e] = 0 /\ ~ IsLinked(e) /\ ~ IsNew(e)
    OBVIOUS
  <2> QED
    BY <2>1, <2>2, <2>3, <2>4, DeviceKept
<1> QED
  BY <1>1, <1>2

\* Only behind the loss of a connection may a cached device be lost.
LEMMA CachedNotLost ==
  ASSUME LinksInv, NEW e \in Devices, cached[e] > 0, device[e].phase = "lost"
  PROVE  pc = "notify" /\ frame = e
BY DEF LinksInv, DeviceOK, CachedFits

\* The purge and the deletion of zombies with which a pass begins.
LEMMA BeginPushLinks ==
  ASSUME TypeOK, LinksInv, pc # "notify", NEW who, BeginPush(who),
         UNCHANGED <<requestDevice, deviceRequest, inUse, device>>
  PROVE  LinksInverse' /\ \A e \in Devices : DeviceOK(e)'
<1> DEFINE purged == Spent(device)
<1>1. /\ freed' = freed \cup zombies \cup purged /\ zombies' = {}
      /\ \A e \in Devices : cached'[e] = IF e \in purged THEN 0 ELSE cached[e]
  BY DEF BeginPush
<1>2. purged \in SUBSET Devices
  BY DEF Spent
<1>3. \A e \in purged : ~ IsLinked(e) /\ ~ IsNew(e)
  BY DEF Spent, LinksInv, DeviceOK, CachedFits, IsNew
<1> HIDE DEF purged
<1>4. \A e \in Devices : ~ (cached'[e] > 0 /\ device[e].phase = "lost")
  BY <1>1, CachedNotLost
<1> QED
  BY <1>1, <1>2, <1>3, <1>4, DevicesKept

LEMMA ReadLinks ==
  ASSUME TypeInv, LinksInv, StartRead \/ Receive \/ EndRead
  PROVE  LinksInv'
<1>0. TypeOK /\ OnePlace
  BY DEF TypeInv, LinksInv
<1>1. CASE StartRead
  <2>1. /\ pc = "wait" /\ pc' = "read"
        /\ UNCHANGED <<unsent, answered, inbox, posted, pending, finished,
                       inUse, cached, requestDevice, deviceRequest, zombies,
                       device, freed>>
    BY <1>1 DEF StartRead, mainVars, linkVars
  <2>2. \A e \in Devices : ~ (cached'[e] > 0 /\ device[e].phase = "lost")
    BY <2>1, CachedNotLost
  <2>3. LinksInverse' /\ \A e \in Devices : DeviceOK(e)'
    <3>1. {} \in SUBSET Devices
      OBVIOUS
    <3> QED
      BY <1>0, <2>1, <2>2, <3>1, DevicesKept
  <2>4. OnePlace' /\ TrackOK' /\ ResumeOK'
    BY <1>0, <2>1 DEF OnePlace, TrackOK, ResumeOK
  <2> QED
    BY <2>3, <2>4 DEF LinksInv
<1>2. CASE Receive
  <2>1. /\ pc = "read" /\ pc' = "push" /\ inbox # <<>>
        /\ inbox' = Tail(inbox) /\ pending' = Append(pending, Head(inbox))
        /\ UNCHANGED <<unsent, answered, posted, finished, inUse,
                       requestDevice, deviceRequest, device>>
        /\ BeginPush("Receive")
    BY <1>2 DEF Receive, mainVars, linkVars, BeginPush
  <2>2. LinksInverse' /\ \A e \in Devices : DeviceOK(e)'
    BY <1>0, <2>1, BeginPushLinks
  <2>3. /\ inbox \in Seq(Requests) /\ pending \in Seq(Requests)
        /\ Head(inbox) \in Requests /\ Tail(inbox) \in Seq(Requests)
    BY <1>0, <2>1, HeadTailProperties DEF TypeOK
  <2>4. ASSUME NEW q \in Requests
        PROVE  /\ Count(inbox, q) = Count(inbox', q)
                                      + (IF q = Head(inbox) THEN 1 ELSE 0)
               /\ Count(pending', q) = Count(pending, q)
                                         + (IF q = Head(inbox) THEN 1 ELSE 0)
               /\ Count(inbox', q) \in Nat
    <3>1. Count(inbox, q) = Count(Tail(inbox), q)
                              + (IF q = Head(inbox) THEN 1 ELSE 0)
      BY <2>1, <2>3, CountTail
    <3>2. Count(Append(pending, Head(inbox)), q)
            = Count(pending, q) + (IF q = Head(inbox) THEN 1 ELSE 0)
      BY <2>3, CountAppend
    <3>3. Count(Tail(inbox), q) \in Nat
      BY <2>3, CountType
    <3> QED
      BY <2>1, <3>1, <3>2, <3>3
  <2>5. OnePlace'
    <3> SUFFICES ASSUME NEW q \in Requests
                 PROVE  ((IF q \in unsent THEN 1 ELSE 0) + Count(inbox, q)
                          + Count(pending, q)
                          + (IF requestDevice[q] # NoDevice THEN 1 ELSE 0)
                          + finished[q] + posted[q] + answered[q] = 1)'
      BY DEF OnePlace
    <3>1. (IF q \in unsent THEN 1 ELSE 0) + Count(inbox, q)
            + Count(pending, q)
            + (IF requestDevice[q] # NoDevice THEN 1 ELSE 0)
            + finished[q] + posted[q] + answered[q] = 1
      BY <1>0 DEF OnePlace
    <3>2. Count(pending, q) \in Nat
      BY <1>0, PlaceTypes
    <3>3. Count(inbox', q) + Count(pending', q)
            = Count(inbox, q) + Count(pending, q)
      BY <2>4, <3>2
    <3>4. /\ unsent' = unsent /\ requestDevice' = requestDevice
          /\ finished' = finished /\ posted' = posted /\ answered' = answered
      BY <2>1
    <3>5. Count(pending', q) \in Nat /\ Count(inbox', q) \in Nat
      BY <2>4, <3>2
    <3> QED
      BY <1>0, <3>1, <3>2, <3>3, <3>4, <3>5, PlaceTypes
  <2>6. TrackOK' /\ ResumeOK'
    BY <2>1 DEF TrackOK, ResumeOK
  <2> QED
    BY <2>2, <2>5, <2>6 DEF LinksInv
<1>3. CASE EndRead
  <2>1. /\ pc = "read" /\ pc' = "push"
        /\ UNCHANGED <<unsent, answered, inbox, pending, posted, finished,
                       inUse, requestDevice, deviceRequest, device>>
        /\ BeginPush("Idle")
    BY <1>3 DEF EndRead, mainVars, linkVars, queueVars, BeginPush
  <2>2. LinksInverse' /\ \A e \in Devices : DeviceOK(e)'
    BY <1>0, <2>1, BeginPushLinks
  <2>3. OnePlace' /\ TrackOK' /\ ResumeOK'
    BY <1>0, <2>1 DEF OnePlace, TrackOK, ResumeOK
  <2> QED
    BY <2>2, <2>3 DEF LinksInv
<1> QED
  BY <1>1, <1>2, <1>3

LEMMA MainLinks ==
  ASSUME TypeInv, LinksInv, NEW r \in Requests, Send(r) \/ Deliver(r)
  PROVE  LinksInv'
<1>0. TypeOK /\ OnePlace
  BY DEF TypeInv, LinksInv
<1>1. UNCHANGED <<pending, finished, inUse, cached, requestDevice,
                  deviceRequest, zombies, device, freed, pc, frame, current>>
  BY DEF Send, Deliver, linkVars, controlVars
<1>2. LinksInverse' /\ \A e \in Devices : DeviceOK(e)'
  <2>1. {} \in SUBSET Devices
    OBVIOUS
  <2> QED
    BY <1>0, <1>1, <2>1, CachedNotLost, DevicesKept
<1>3. TrackOK' /\ ResumeOK'
  BY <1>1 DEF LinksInv, TrackOK, ResumeOK, IsLinked, IsNew
<1>4. OnePlace'
  <2>1. CASE Send(r)
    <3>1. /\ r \in unsent /\ unsent' = unsent \ {r} /\ inbox' = Append(inbox, r)
          /\ posted' = posted /\ answered' = answered
      BY <2>1 DEF Send
    <3>2. inbox \in Seq(Requests)
      BY <1>0 DEF TypeOK
    <3>3. \A q \in Requests :
            Count(inbox', q) = Count(inbox, q) + (IF q = r THEN 1 ELSE 0)
      BY <3>1, <3>2, CountAppend
    <3> QED
      BY <1>0, <1>1, <3>1, <3>3, PlaceTypes DEF OnePlace
  <2>2. CASE Deliver(r)
    <3>1. /\ unsent' = unsent /\ inbox' = inbox
          /\ \A q \in Requests :
               /\ posted'[q] = IF q = r THEN posted[q] - 1 ELSE posted[q]
               /\ answered'[q] = IF q = r THEN answered[q] + 1 ELSE answered[q]
      BY <1>0, <2>2 DEF Deliver, TypeOK
    <3> QED
      BY <1>0, <1>1, <3>1, PlaceTypes DEF OnePlace
  <2> QED
    BY <2>1, <2>2
<1> QED
  BY <1>2, <1>3, <1>4 DEF LinksInv

LEMMA PushEndLinks ==
  ASSUME TypeInv, LinksInv, PushDone \/ PushTrackDeleted
  PROVE  LinksInv'
<1>0. TypeOK /\ OnePlace
  BY DEF TypeInv, LinksInv
<1>1. /\ pc \in {"push", "track"} /\ pc' \in {"read", "wait", "stopped"}
      /\ UNCHANGED <<unsent, answered, inbox, pending, inUse, cached,
                     requestDevice, deviceRequest, device>>
      /\ freed \subseteq freed' /\ freed' \cup zombies' = freed \cup zombies
  BY DEF PushDone, PushTrackDeleted, mainVars, queueVars, linkVars
<1>2. LinksInverse' /\ \A e \in Devices : DeviceOK(e)'
  <2>1. {} \in SUBSET Devices
    OBVIOUS
  <2>2. \A e \in Devices : ~ (cached'[e] > 0 /\ device[e].phase = "lost")
    BY <1>1, CachedNotLost
  <2> QED
    BY <1>0, <1>1, <2>1, <2>2, DevicesKept
<1>3. OnePlace'
  <2>1. \A q \in Requests : posted'[q] + finished'[q] = posted[q] + finished[q]
    BY <1>0, PlaceTypes DEF PushDone, PushTrackDeleted
  <2>2. \A q \in Requests : posted'[q] \in Nat /\ finished'[q] \in Nat
    BY <1>0, PlaceTypes DEF PushDone, PushTrackDeleted
  <2> QED
    BY <1>0, <1>1, <2>1, <2>2, PlaceTypes DEF OnePlace
<1>4. TrackOK' /\ ResumeOK'
  BY <1>1 DEF TrackOK, ResumeOK
<1> QED
  BY <1>2, <1>3, <1>4 DEF LinksInv

\* The connection of a device comes up, or an idle one is lost.
LEMMA PhaseLinks ==
  ASSUME TypeInv, TypeInv', LinksInv, NEW d \in Devices,
         Connected(d) \/ LostIdle(d)
  PROVE  LinksInv'
<1>0. TypeOK /\ TypeOK' /\ OnePlace /\ LinksInverse /\ DeviceOK(d)
  BY DEF TypeInv, LinksInv
<1>1. /\ pc = "wait" /\ d \notin freed
      /\ UNCHANGED <<unsent, answered, inbox, pending, posted, finished, inUse,
                     cached, requestDevice, deviceRequest, zombies, freed>>
      /\ \A e \in Devices : e # d => device'[e] = device[e]
      /\ device'[d].target = device[d].target
      /\ device'[d].owner = device[d].owner
      /\ device'[d].tracked = device[d].tracked
  <2>1. /\ pc = "wait" /\ d \notin freed
        /\ UNCHANGED <<unsent, answered, inbox, pending, posted, finished,
                       inUse, cached, requestDevice, deviceRequest, zombies,
                       freed>>
    BY DEF Connected, LostIdle, mainVars, queueVars, linkVars
  <2>2. device \in [Devices -> DeviceRecord]
    BY <1>0 DEF TypeOK
  <2>3. CASE Connected(d)
    BY <2>1, <2>2, <2>3 DEF Connected, DeviceRecord
  <2>4. CASE LostIdle(d)
    BY <2>1, <2>2, <2>4 DEF LostIdle, DeviceRecord
  <2> QED
    BY <2>3, <2>4
<1>2. \/ /\ device[d].phase = "connecting" /\ device'[d].phase = "executing"
         /\ pc' = "wait"
      \/ /\ device[d].phase = "open" /\ device'[d].phase = "lost"
         /\ pc' = "notify" /\ frame' = d
  BY <1>0, <1>1 DEF Connected, LostIdle, TypeOK, DeviceRecord
<1>3. \A e \in Devices : cached[e] > 0 => device[e].phase # "lost"
  BY <1>1, CachedNotLost
<1>4. DeviceOK(d)'
  <2>1. (IsLinked(d)' <=> IsLinked(d)) /\ ~ IsNew(d) /\ ~ IsNew(d)'
    BY <1>1, <1>2 DEF IsLinked, IsNew
  <2>2. LinkFits(d)' /\ TrackedFits(d)' /\ GoneFits(d)'
    BY <1>0, <1>1, <1>2, <2>1 DEF DeviceOK, LinkFits, TrackedFits, GoneFits
  <2>3. CallbackFits(d)'
    BY <1>0, <1>1, <1>2 DEF DeviceOK, CallbackFits
  <2>4. CachedFits(d)'
    BY <1>0, <1>1, <1>2, <2>1 DEF DeviceOK, CachedFits
  <2>5. SlotFits(d)'
    BY <1>0, <1>1, <2>1 DEF DeviceOK, SlotFits
  <2> QED
    BY <2>2, <2>3, <2>4, <2>5 DEF DeviceOK
<1>5. ASSUME NEW e \in Devices, e # d PROVE DeviceOK(e)'
  <2>1. DeviceOK(e) /\ device[e].target \in Targets
    BY <1>0, SlotTypes DEF LinksInv
  <2>2. \A u \in Targets : Count(inUse'[u], e) = Count(inUse[u], e)
    BY <1>1
  <2>3. device'[e] = device[e]
    BY <1>1, <1>5
  <2> QED
    BY <1>1, <1>3, <2>1, <2>2, <2>3, DeviceKept
<1>6. OnePlace' /\ LinksInverse'
  BY <1>0, <1>1 DEF OnePlace, LinksInverse
<1>7. TrackOK' /\ ResumeOK'
  <2>1. ~ IsLinked(d) \/ pc' = "wait"
    BY <1>0, <1>1, <1>2 DEF DeviceOK, CallbackFits, IsLinked
  <2> QED
    BY <1>1, <1>2, <2>1 DEF TrackOK, ResumeOK, IsLinked, IsNew
<1> QED
  BY <1>4, <1>5, <1>6, <1>7 DEF LinksInv

LEMMA ReturnLinks ==
  ASSUME TypeInv, LinksInv, Return \/ NotifyDeleted
  PROVE  LinksInv'
<1>p. PICK d \in Devices : d = frame
  BY DEF TypeInv, FrameOK, Return, NotifyDeleted
<1>0. TypeOK /\ OnePlace /\ DeviceOK(d)
  BY DEF TypeInv, LinksInv
<1>1. /\ pc \in {"return", "notify"} /\ pc' \in {"wait", "stopped"}
      /\ UNCHANGED <<unsent, answered, inbox, pending, posted, finished, inUse,
                     cached, requestDevice, deviceRequest, zombies, device>>
  BY DEF Return, NotifyDeleted, mainVars, queueVars, linkVars
<1>2. ~ IsLinked(d) /\ ~ IsNew(d)
  BY <1>p, <1>1 DEF LinksInv, ResumeOK
<1>3. CASE Return
  <2>1. /\ pc # "notify"
        /\ \/ freed' = freed
           \/ ~ device[d].tracked /\ freed' = freed \cup {d}
    BY <1>p, <1>3 DEF Return
  <2>2. \A e \in Devices : ~ (cached'[e] > 0 /\ device[e].phase = "lost")
    BY <1>1, <2>1, CachedNotLost
  <2>3. CASE freed' = freed
    <3>1. {} \in SUBSET Devices
      OBVIOUS
    <3>2. LinksInverse' /\ \A e \in Devices : DeviceOK(e)'
      BY <1>0, <1>1, <2>2, <2>3, <3>1, DevicesKept
    <3> QED
      BY <1>0, <1>1, <3>2 DEF LinksInv, OnePlace, TrackOK, ResumeOK
  <2>4. CASE ~ device[d].tracked /\ freed' = freed \cup {d}
    <3>1. {d} \in SUBSET Devices
      OBVIOUS
    <3>2. cached[d] = 0
      BY <1>0, <2>4, SlotTypes DEF DeviceOK, CachedFits
    <3>3. LinksInverse' /\ \A e \in Devices : DeviceOK(e)'
      BY <1>0, <1>1, <1>2, <2>2, <2>4, <3>1, <3>2, DevicesKept
    <3> QED
      BY <1>0, <1>1, <3>3 DEF LinksInv, OnePlace, TrackOK, ResumeOK
  <2> QED
    BY <2>1, <2>3, <2>4
<1>4. CASE NotifyDeleted
  <2>1. d \in freed /\ freed' = freed
    BY <1>p, <1>4 DEF NotifyDeleted
  <2>2. cached[d] = 0
    BY <1>0, <2>1 DEF DeviceOK, GoneFits
  <2>3. \A e \in Devices : ~ (cached'[e] > 0 /\ device[e].phase = "lost")
    BY <1>p, <1>1, <2>2, CachedNotLost
  <2>4. {} \in SUBSET Devices
    OBVIOUS
  <2>5. LinksInverse' /\ \A e \in Devices : DeviceOK(e)'
    BY <1>0, <1>1, <2>1, <2>3, <2>4, DevicesKept
  <2> QED
    BY <1>0, <1>1, <2>5 DEF LinksInv, OnePlace, TrackOK, ResumeOK
<1> QED
  BY <1>3, <1>4

\* The listener is told of a loss: the device leaves the vector it is in.
LEMMA NotifyLinks ==
  ASSUME TypeInv, TypeInv', LinksInv, Notify
  PROVE  LinksInv'
<1>p. PICK d \in Devices : d = frame
  BY DEF TypeInv, FrameOK, Notify
<1>0. TypeOK /\ TypeOK' /\ OnePlace /\ LinksInverse /\ DeviceOK(d)
  BY DEF TypeInv, LinksInv
<1>1. /\ pc = "notify" /\ pc' = "wait" /\ d \notin freed
      /\ UNCHANGED <<unsent, answered, inbox, pending, finished, device, freed>>
  BY <1>p DEF Notify, mainVars, queueVars
<1>2. ~ IsLinked(d) /\ ~ IsNew(d) /\ device[d].phase = "lost"
  BY <1>p, <1>1 DEF LinksInv, ResumeOK
<1>3. SanityCheck
  BY <1>0, Sane DEF LinksInv, DeviceOK
<1>4. deviceRequest[d] = NoRequest
  BY <1>2 DEF IsLinked
<1>5. cached[d] = 0 \/ cached[d] = 1
  BY <1>0, SlotTypes DEF DeviceOK, CachedFits
<1>6. ASSUME UNCHANGED <<posted, requestDevice, deviceRequest>>
      PROVE  /\ OnePlace' /\ LinksInverse' /\ TrackOK' /\ ResumeOK'
             /\ \A e \in Devices : (IsLinked(e)' <=> IsLinked(e))
                                   /\ (IsNew(e)' <=> IsNew(e))
  BY <1>0, <1>1, <1>6 DEF OnePlace, LinksInverse, TrackOK, ResumeOK, IsLinked,
                          IsNew
<1>7. \A e \in Devices : e # d /\ cached[e] > 0 => device[e].phase # "lost"
  BY <1>p, CachedNotLost
<1>8. CASE ~ (References(d) > 0)
  <2>1. UNCHANGED <<cached, inUse, zombies, requestDevice, deviceRequest, posted>>
    <3>1. UNCHANGED <<cached, inUse, zombies, linkVars, posted>>
      BY <1>p, <1>8, Zenon DEF Notify
    <3> QED
      BY <3>1 DEF linkVars
  <2>2. cached[d] = 0
    BY <1>0, <1>5, <1>8, SlotTypes DEF References
  <2>3. \A e \in Devices : ~ (cached'[e] > 0 /\ device[e].phase = "lost")
    BY <1>7, <2>1, <2>2
  <2>4. {} \in SUBSET Devices
    OBVIOUS
  <2>5. \A e \in Devices : DeviceOK(e)'
    BY <1>0, <1>1, <2>1, <2>3, <2>4, DevicesKept
  <2> QED
    BY <1>6, <2>1, <2>5 DEF LinksInv
<1>9. CASE References(d) > 0
  <2>1. /\ IF cached[d] > 0
           THEN cached' = [cached EXCEPT ![d] = @ - 1] /\ UNCHANGED inUse
           ELSE EraseInUse(d) /\ UNCHANGED cached
        /\ zombies' = zombies \cup {d}
        /\ UNCHANGED <<linkVars, posted>>
    BY <1>p, <1>3, <1>4, <1>9, Zenon DEF Notify
  <2>2. UNCHANGED <<posted, requestDevice, deviceRequest>>
    BY <2>1 DEF linkVars
  <2>3. CASE cached[d] > 0
    <3>1. /\ UNCHANGED inUse
          /\ \A e \in Devices : cached'[e] = IF e = d THEN 0 ELSE cached[e]
      BY <1>0, <1>5, <2>1, <2>3 DEF TypeOK
    <3>2. \A e \in Devices : ~ (cached'[e] > 0 /\ device[e].phase = "lost")
      BY <1>7, <3>1
    <3>3. {d} \in SUBSET Devices
      OBVIOUS
    <3>4. \A e \in Devices : DeviceOK(e)'
      BY <1>0, <1>1, <1>2, <2>1, <2>2, <3>1, <3>2, <3>3, DevicesKept
    <3> QED
      BY <1>6, <2>2, <3>4 DEF LinksInv
  <2>4. CASE ~ (cached[d] > 0)
    <3>1. EraseInUse(d) /\ cached' = cached /\ cached[d] = 0
      BY <1>5, <2>1, <2>4
    <3>2. device[d].target \in Targets
      BY <1>0, SlotTypes
    <3>3. \A u \in Targets, e \in Devices :
            Count(inUse'[u], e)
              = IF u = device[d].target /\ e = d /\ Count(inUse[u], e) # 0
                THEN Count(inUse[u], e) - 1 ELSE Count(inUse[u], e)
      <4>1. /\ inUse \in [Targets -> Seq(Devices)]
            /\ inUse' = [inUse EXCEPT ![device[d].target] = RemoveFirst(@, d)]
        BY <1>0, <3>1 DEF TypeOK, EraseInUse
      <4> QED
        BY <3>2, <4>1, SlotErase
    <3>4. DeviceOK(d)'
      <4>1. SlotFits(d)'
        <5>1. \A u \in Targets : /\ Count(inUse'[u], d) \in Nat
                                 /\ Count(inUse[u], d) \in Nat
                                 /\ Count(inUse'[u], d) =< Count(inUse[u], d)
          BY <1>0, <3>3, SlotTypes, SlotTypesNext
        <5>2. SlotFits(d) /\ ~ IsLinked(d)' /\ ~ IsNew(d)'
          BY <1>0, <1>2, <1>6, <2>2 DEF DeviceOK
        <5> QED
          BY <1>1, <1>2, <3>2, <5>1, <5>2 DEF SlotFits
      <4>2. CachedFits(d)' /\ GoneFits(d)'
        BY <1>2, <1>6, <2>2, <3>1 DEF CachedFits, GoneFits
      <4>3. LinkFits(d)' /\ CallbackFits(d)' /\ TrackedFits(d)'
        BY <1>0, <1>1, <1>2, <1>6, <2>2
           DEF DeviceOK, LinkFits, CallbackFits, TrackedFits
      <4> QED
        BY <4>1, <4>2, <4>3 DEF DeviceOK
    <3>5. ASSUME NEW e \in Devices, e # d PROVE DeviceOK(e)'
      <4>1. DeviceOK(e) /\ device[e].target \in Targets
        BY <1>0, SlotTypes DEF LinksInv
      <4>2. \A u \in Targets : Count(inUse'[u], e) = Count(inUse[u], e)
        BY <3>3, <3>5
      <4> QED
        BY <1>1, <1>7, <2>1, <2>2, <3>1, <3>5, <4>1, <4>2, DeviceKept
    <3> QED
      BY <1>6, <2>2, <3>4, <3>5 DEF LinksInv
  <2> QED
    BY <2>3, <2>4
<1> QED
  BY <1>8, <1>9

-----------------------------------------------------------------------------
(* The invariant holds.                                                    *)

LEMMA LinksInit == Init => LinksInv
<1> SUFFICES ASSUME Init PROVE LinksInv
  OBVIOUS
<1>1. /\ unsent = Requests /\ inbox = <<>> /\ pending = <<>>
      /\ \A q \in Requests :
           /\ posted[q] = 0 /\ answered[q] = 0 /\ finished[q] = 0
           /\ requestDevice[q] = NoDevice
      /\ \A d \in Devices :
           /\ cached[d] = 0 /\ deviceRequest[d] = NoRequest
           /\ device[d] = Unallocated
      /\ \A t \in Targets : inUse[t] = <<>>
      /\ zombies = {} /\ freed = {} /\ pc = "wait"
  BY DEF Init
<1>2. \A x : Count(<<>>, x) = 0
  <2> TAKE x
  <2>1. Count(<<>>, x) = CountIn(<<>>, {x})
    BY CountIs
  <2> QED
    BY <2>1, CountInEmpty
<1>3. OnePlace
  BY <1>1, <1>2 DEF OnePlace
<1>4. LinksInverse
  BY <1>1, HandlerAssumption DEF LinksInverse
<1>5. ASSUME NEW d \in Devices PROVE DeviceOK(d)
  <2>1. /\ device[d].phase = "none" /\ device[d].target \in Targets
        /\ device[d].tracked /\ device[d].owner = NoRequest
    BY <1>1 DEF Unallocated, Targets
  <2>2. /\ \A t \in Targets : Count(inUse[t], d) = 0
        /\ ~ IsLinked(d)
    BY <1>1, <1>2 DEF IsLinked
  <2>3. SlotFits(d)
    BY <2>1, <2>2 DEF SlotFits
  <2> QED
    BY <1>1, <2>1, <2>2, <2>3
       DEF DeviceOK, LinkFits, CallbackFits, CachedFits, TrackedFits, GoneFits
<1> QED
  BY <1>1, <1>3, <1>4, <1>5 DEF LinksInv, TrackOK, ResumeOK

LEMMA LinksStep == TypeInv /\ LinksInv /\ [Next]_vars => LinksInv'
<1> SUFFICES ASSUME TypeInv, LinksInv, [Next]_vars PROVE LinksInv'
  OBVIOUS
<1>0. TypeInv' /\ TypeOK
  BY TypeStep DEF TypeInv
<1>1. CASE MainNext
  BY <1>1, MainLinks DEF MainNext
<1>2. CASE ReadNext
  BY <1>2, ReadLinks DEF ReadNext
<1>3. CASE PushNext
  <2>1. CASE PushDone \/ PushTrackDeleted
    BY <2>1, PushEndLinks
  <2>2. CASE PushInvalidate
    BY <1>0, <2>2, PushInvalidateLinks
  <2>3. CASE PushTrack
    BY <1>0, <2>3, PushTrackLinks
  <2>4. ASSUME MayTake, NEW d \in Devices,
               NEW max \in MaxReuse[Target[Candidate]],
               \/ PushConnecting(d, max)
               \/ PushExecuting(d, max)
               \/ PushExecuteError(d, max)
               \/ PushConnectError(d, max)
        PROVE  LinksInv'
    <3>0. SetUp(d, max) \in DeviceRecord
      BY <1>0, <2>4, SetUpType
    <3>1. CASE PushConnecting(d, max)
      <4> DEFINE dev == [SetUp(d, max) EXCEPT !.phase = "connecting",
                                              !.owner = Candidate]
      <4>1. /\ dev.phase \in {"connecting", "executing"}
            /\ dev.owner = Candidate /\ dev.target = SetUp(d, max).target
            /\ dev.tracked = SetUp(d, max).tracked
        BY <3>0 DEF DeviceRecord
      <4>2. device' = [device EXCEPT ![d] = dev]
        BY <3>1 DEF PushConnecting
      <4>3. /\ Candidate \notin Invalidates /\ Picks(d) /\ Take
            /\ cached' = Uncache(d) /\ Link(Candidate, d)
            /\ Track(Target[Candidate], d)
            /\ UNCHANGED <<mainVars, inbox, posted, finished, zombies, freed,
                           caller, frame, current>>
        BY <3>1 DEF PushConnecting
      <4> HIDE DEF dev
      <4> QED
        BY <1>0, <2>4, <4>1, <4>2, <4>3, PushLinks
    <3>2. CASE PushExecuting(d, max)
      <4> DEFINE dev == [SetUp(d, max) EXCEPT
                           !.phase = "executing", !.owner = Candidate,
                           !.uses = IF Target[Candidate] = "CURL"
                                    THEN @ ELSE @ + 1]
      <4>1. /\ dev.phase \in {"connecting", "executing"}
            /\ dev.owner = Candidate /\ dev.target = SetUp(d, max).target
            /\ dev.tracked = SetUp(d, max).tracked
        BY <3>0 DEF DeviceRecord
      <4>2. device' = [device EXCEPT ![d] = dev]
        BY <3>2 DEF PushExecuting
      <4>3. /\ Candidate \notin Invalidates /\ Picks(d) /\ Take
            /\ cached' = Uncache(d) /\ Link(Candidate, d)
            /\ Track(Target[Candidate], d)
            /\ UNCHANGED <<mainVars, inbox, posted, finished, zombies, freed,
                           caller, frame, current>>
        BY <3>2 DEF PushExecuting
      <4> HIDE DEF dev
      <4> QED
        BY <1>0, <2>4, <4>1, <4>2, <4>3, PushLinks
    <3>3. CASE PushExecuteError(d, max)
      BY <1>0, <2>4, <3>3, PushExecuteErrorLinks
    <3>4. CASE PushConnectError(d, max)
      BY <1>0, <2>4, <3>4, PushConnectErrorLinks
    <3> QED
      BY <2>4, <3>1, <3>2, <3>3, <3>4
  <2> QED
    BY <1>3, <2>1, <2>2, <2>3, <2>4 DEF PushNext
<1>4. CASE ResumeNext
  BY <1>0, <1>4, ReturnLinks, NotifyLinks DEF ResumeNext
<1>5. ASSUME NEW d \in Devices, Settles(d) \/ LostIdle(d) PROVE LinksInv'
  <2>0. device[d] \in DeviceRecord
    BY <1>0 DEF TypeOK
  <2>1. CASE Connected(d) \/ LostIdle(d)
    BY <1>0, <2>1, PhaseLinks
  <2>2. CASE ConnectedExecuteError(d)
    <3> DEFINE dev == [device[d] EXCEPT !.phase = "open", !.uses = @ + 1,
                                        !.owner = NoRequest]
    <3>1. dev \in DeviceRecord
      BY <2>0, DeviceUsed DEF Phases
    <3>2. /\ dev.phase = "open" /\ dev.owner = NoRequest
          /\ dev.target = device[d].target /\ dev.tracked = device[d].tracked
      BY <2>0 DEF DeviceRecord
    <3>3. /\ pc = "wait" /\ d \notin freed /\ device[d].phase = "connecting"
          /\ Settle(d, dev, "delete") /\ ResumeIn(d, "return")
      BY <2>2 DEF ConnectedExecuteError
    <3> HIDE DEF dev
    <3> QED
      BY <1>0, <3>1, <3>2, <3>3, SettleLinks
  <2>3. CASE ConnectFailed(d) \/ LostExecuting(d)
    <3> DEFINE dev == [device[d] EXCEPT !.phase = "lost", !.owner = NoRequest]
    <3>1. /\ dev \in DeviceRecord
          /\ dev.phase = "lost" /\ dev.owner = NoRequest
          /\ dev.target = device[d].target /\ dev.tracked = device[d].tracked
      BY <2>0 DEF DeviceRecord, Phases
    <3>2. /\ pc = "wait" /\ d \notin freed
          /\ device[d].phase \in {"connecting", "executing"}
          /\ Settle(d, dev, "delete") \/ Settle(d, dev, "untrack")
          /\ ResumeIn(d, "notify")
      BY <2>3 DEF ConnectFailed, LostExecuting
    <3> HIDE DEF dev
    <3> QED
      BY <1>0, <3>1, <3>2, SettleLinks
  <2>4. CASE Reply(d)
    <3> DEFINE dev == [device[d] EXCEPT !.phase = "open", !.owner = NoRequest]
    <3>1. /\ dev \in DeviceRecord
          /\ dev.phase = "open" /\ dev.owner = NoRequest
          /\ dev.target = device[d].target /\ dev.tracked = device[d].tracked
      BY <2>0 DEF DeviceRecord, Phases
    <3>2. /\ pc = "wait" /\ d \notin freed /\ device[d].phase = "executing"
          /\ Settle(d, dev, "untrack") /\ ResumeIn(d, "return")
      BY <2>4 DEF Reply
    <3> HIDE DEF dev
    <3> QED
      BY <1>0, <3>1, <3>2, SettleLinks
  <2> QED
    BY <1>5, <2>1, <2>2, <2>3, <2>4 DEF Settles
<1>6. CASE Terminated \/ UNCHANGED vars
  <2>1. UNCHANGED vars
    BY <1>6 DEF Terminated
  <2>2. UNCHANGED <<unsent, inbox, posted, answered, pending, finished, inUse,
                    cached, requestDevice, deviceRequest, zombies, device,
                    freed, pc, frame, current>>
    BY <2>1 DEF vars
  <2>3. \A e \in Devices : DeviceOK(e)' <=> DeviceOK(e)
    BY <2>2 DEF DeviceOK, LinkFits, CallbackFits, CachedFits, TrackedFits,
                SlotFits, GoneFits, IsLinked, IsNew
  <2> QED
    BY <2>2, <2>3 DEF LinksInv, OnePlace, LinksInverse, TrackOK, ResumeOK,
                      IsLinked, IsNew
<1> QED
  BY <1>1, <1>2, <1>3, <1>4, <1>5, <1>6
     DEF Next, HubNext, DeviceNext

LEMMA LinksHold == Spec => []LinksInv
<1>1. Spec => []TypeInv
  BY TypeInit, TypeStep, PTL DEF Spec
<1> QED
  BY <1>1, LinksInit, LinksStep, PTL DEF Spec

\* A request is in exactly one place from its creation until its answer was
\* handled: whatever is refused, fails or breaks, it is neither lost nor
\* answered twice, and the hub does not touch it after its end.
THEOREM RequestInOnePlace == Spec => []OnePlace
BY LinksHold, PTL DEF LinksInv

\* Push never hands out a device that is dead, busy or no longer tracked: a
\* cached device is open and idle, except while its loss is being reported.
THEOREM CachedAreIdle == Spec => []CachedIsIdle
<1>1. LinksInv => CachedIsIdle
  BY DEF LinksInv, DeviceOK, CachedFits, CachedIsIdle, IsLinked
<1> QED
  BY <1>1, LinksHold, PTL

\* The callback a device holds is that of the request it is linked to, and it
\* holds one exactly while its connection or its reply is due.
THEOREM CallbacksMatch == Spec => []CallbackMatchesLink
<1>1. LinksInv => CallbackMatchesLink
  BY DEF LinksInv, DeviceOK, CallbackFits, CallbackMatchesLink
<1> QED
  BY <1>1, LinksHold, PTL

\* The exception of SanityCheck for a device with more than one reference
\* (one_shot_handler.cc) is never thrown.
THEOREM NeverInsane == Spec => []SanityCheck
<1>1. Spec => []TypeInv
  BY TypeInit, TypeStep, PTL DEF Spec
<1>2. TypeInv /\ LinksInv => SanityCheck
  BY Sane DEF TypeInv, LinksInv, DeviceOK
<1> QED
  BY <1>1, <1>2, LinksHold, PTL

\* No slot leaks and no running request escapes the limit, if Execute cannot
\* fail inside Connect: only an Execute of PostgreSQL, which runs later, does.
THEOREM SlotsMatch ==
  ASSUME ExecuteErrors \subseteq {"PostgreSQL"}
  PROVE  Spec => []SlotsMatchLinks
<1>1. Spec => []TypeInv
  BY TypeInit, TypeStep, PTL DEF Spec
<1>2. TypeInv /\ LinksInv => SlotsMatchLinks
  <2> SUFFICES ASSUME TypeInv, LinksInv, NEW d \in Devices
               PROVE  Count(inUse[device[d].target], d) =
                        IF deviceRequest[d] = NoRequest THEN 0 ELSE 1
    BY DEF SlotsMatchLinks
  <2>1. SlotFits(d) /\ ~ Leaks(device[d].target)
    BY DEF LinksInv, DeviceOK, Leaks
  <2>2. Count(inUse[device[d].target], d) \in Nat
    BY SlotTypes DEF TypeInv
  <2> QED
    BY <2>1, <2>2 DEF SlotFits, IsLinked
<1> QED
  BY <1>1, <1>2, LinksHold, PTL

-----------------------------------------------------------------------------
(* The handler implements RequestPool.                                     *)

\* What a step must leave alone to keep the stage of a request.
LEMMA StageKept ==
  ASSUME TypeOK, TypeOK', NEW q \in Requests,
         q \in unsent' <=> q \in unsent, answered'[q] = answered[q],
         finished'[q] + posted'[q] = finished[q] + posted[q],
         requestDevice'[q] = requestDevice[q]
  PROVE  Stage'[q] = Stage[q]
BY DEF Stage

\* A step of one request alone is a step of the pool's stages.
LEMMA StageMoves ==
  ASSUME NEW r \in Requests, NEW to, Stage'[r] = to,
         \A q \in Requests : q # r => Stage'[q] = Stage[q]
  PROVE  Stage' = [Stage EXCEPT ![r] = to]
<1>1. Stage = [q \in Requests |-> Stage[q]]
  BY DEF Stage
<1>2. Stage' = [q \in Requests |-> Stage'[q]]
  BY DEF Stage
<1> DEFINE now == Stage  next == Stage'
<1>3. now = [q \in Requests |-> now[q]] /\ next = [q \in Requests |-> next[q]]
  BY <1>1, <1>2
<1> HIDE DEF now, next
<1>4. next[r] = to /\ \A q \in Requests : q # r => next[q] = now[q]
  BY DEF now, next
<1>5. next = [now EXCEPT ![r] = to]
  BY <1>3, <1>4
<1> QED
  BY <1>5 DEF now, next

LEMMA StageStays ==
  ASSUME \A q \in Requests : Stage'[q] = Stage[q]
  PROVE  Stage' = Stage
<1>1. Stage = [q \in Requests |-> Stage[q]]
  BY DEF Stage
<1>2. Stage' = [q \in Requests |-> Stage'[q]]
  BY DEF Stage
<1> QED
  BY <1>1, <1>2

\* The pool counts as the handler does.
LEMMA PoolCardinality ==
  ASSUME NEW S PROVE Pool!Cardinality(S) = Cardinality(S)
BY DEF Pool!Cardinality, Cardinality

\* Every running request has a slot of its own, so that no more requests of a
\* target run than devices of it are in use.
LEMMA RunningBound ==
  ASSUME TypeOK, LinksInv, NEW t \in Targets
  PROVE  /\ Cardinality(Pool!Running(t)) \in Nat
         /\ Cardinality(Pool!Running(t)) =< Len(inUse[t])
<1> DEFINE R == Pool!Running(t)
           slots == 1 .. Len(inUse[t])
           f == [r \in R |-> CHOOSE i \in slots : inUse[t][i] = requestDevice[r]]
<1>1. /\ Len(inUse[t]) \in Nat /\ DOMAIN inUse[t] = slots
      /\ inUse[t] \in Seq(Devices)
  <2>1. inUse[t] \in Seq(Devices)
    BY DEF TypeOK
  <2> QED
    BY <2>1, LenProperties
<1>2. ASSUME NEW r \in R
      PROVE  /\ r \in Requests /\ requestDevice[r] \in Devices
             /\ deviceRequest[requestDevice[r]] = r
             /\ \E i \in slots : inUse[t][i] = requestDevice[r]
  <2>1. r \in Requests /\ Target[r] = t /\ Stage[r] = "running"
    BY DEF Pool!Running
  <2>2. requestDevice[r] \in Devices
    BY <2>1 DEF Stage, TypeOK
  <2>3. deviceRequest[requestDevice[r]] = r
    BY <2>1, <2>2 DEF LinksInv, LinksInverse
  <2>4. /\ IsLinked(requestDevice[r])
        /\ device[requestDevice[r]].target = t
    BY <2>1, <2>2, <2>3, HandlerAssumption
       DEF LinksInv, DeviceOK, LinkFits, IsLinked
  <2>5. Count(inUse[t], requestDevice[r]) >= 1
    BY <2>2, <2>4 DEF LinksInv, DeviceOK, SlotFits
  <2>6. Count(inUse[t], requestDevice[r]) # 0
    BY <2>5
  <2>7. \E i \in DOMAIN inUse[t] : inUse[t][i] = requestDevice[r]
    BY <1>1, <2>6, CountType
  <2> QED
    BY <1>1, <2>1, <2>2, <2>3, <2>7
<1> HIDE DEF R, slots
<1>3. \A r \in R : f[r] \in slots /\ inUse[t][f[r]] = requestDevice[r]
  BY <1>2
<1>4. f \in [R -> slots]
  BY <1>3
<1>5. ASSUME NEW r \in R, NEW q \in R, f[r] = f[q] PROVE r = q
  <2>1. requestDevice[r] = requestDevice[q]
    BY <1>3, <1>5
  <2> QED
    BY <1>2, <2>1
<1> HIDE DEF f
<1>6. f \in Injection(R, slots)
  BY <1>4, <1>5, Fun_IsInj
<1>7. IsFiniteSet(slots) /\ Cardinality(slots) = Len(inUse[t])
  BY <1>1, FS_Interval DEF slots
<1>8. /\ IsFiniteSet(R) /\ Cardinality(R) =< Cardinality(slots)
      /\ Cardinality(R) \in Nat
  BY <1>6, <1>7, FS_Injection, FS_CardinalityType
<1> QED
  BY <1>7, <1>8 DEF R

\* The steps that leave every request where it is: nothing of it is a step of
\* the pool.
LEMMA PoolStutters ==
  ASSUME TypeInv, TypeInv', LinksInv,
         \/ ReadNext \/ PushDone \/ PushTrack \/ PushTrackDeleted
         \/ ResumeNext \/ Terminated \/ UNCHANGED vars
         \/ \E d \in Devices : Connected(d) \/ LostIdle(d)
  PROVE  Stage' = Stage
<1>1. CASE ~ (PushDone \/ Notify)
  BY <1>1, StageStays
     DEF ReadNext, StartRead, Receive, EndRead, PushTrack, PushTrackDeleted,
         ResumeNext, Return, NotifyDeleted, Terminated, Connected, LostIdle,
         vars, mainVars, queueVars, linkVars, Stage
<1>2. CASE PushDone
  <2>1. /\ UNCHANGED <<unsent, answered, requestDevice>>
        /\ \A q \in Requests :
             finished'[q] + posted'[q] = finished[q] + posted[q]
    BY <1>2, PlaceTypes DEF PushDone, mainVars, linkVars, TypeInv
  <2> QED
    BY <2>1, StageKept, StageStays DEF TypeInv
<1>3. CASE Notify
  <2>1. deviceRequest[frame] = NoRequest
    BY <1>3 DEF Notify, LinksInv, ResumeOK, IsLinked
  <2>2. UNCHANGED <<linkVars, posted>>
    BY <1>3, <2>1, Zenon DEF Notify
  <2>3. UNCHANGED <<unsent, answered, requestDevice, finished, posted>>
    BY <1>3, <2>2 DEF Notify, mainVars, linkVars
  <2> QED
    BY <2>3, StageStays DEF Stage
<1> QED
  BY <1>1, <1>2, <1>3

\* A pass of Push takes one request: it starts on a device, or is finished.
LEMMA PoolPush ==
  ASSUME TypeInv, TypeInv', LinksInv, LinksInv', MayTake, Take,
         NEW to \in {"running", "finished"},
         UNCHANGED <<unsent, inbox, answered>>,
         \A q \in Requests : q # Candidate =>
           /\ finished'[q] + posted'[q] = finished[q] + posted[q]
           /\ requestDevice'[q] = requestDevice[q],
         IF to = "running"
         THEN /\ finished'[Candidate] = 0 /\ posted'[Candidate] = 0
              /\ requestDevice'[Candidate] # NoDevice
         ELSE finished'[Candidate] + posted'[Candidate] > 0
  PROVE  Pool!Next
<1> DEFINE r == Candidate
<1>0. TypeOK /\ TypeOK' /\ OnePlace
  BY DEF TypeInv, LinksInv
<1>1. /\ r \in Requests /\ requestDevice[r] = NoDevice
      /\ r \notin unsent /\ finished[r] = 0 /\ posted[r] = 0 /\ answered[r] = 0
  BY <1>0, CandidateTaken
<1>p. PICK c \in Requests : c = Candidate
  BY <1>1
<1>2. Stage[c] = "queued"
  BY <1>p, <1>1 DEF Stage
<1>3. Stage'[c] = to
  BY <1>p, <1>1 DEF Stage
<1>4. \A q \in Requests : q # c => Stage'[q] = Stage[q]
  BY <1>p, <1>0, StageKept
<1>5. Stage' = [Stage EXCEPT ![c] = to]
  BY <1>3, <1>4, StageMoves
<1>6. CASE to = "finished"
  <2>1. Pool!Finish(c)
    BY <1>2, <1>5, <1>6 DEF Pool!Finish, Pool!Move
  <2> QED
    BY <2>1 DEF Pool!Next
<1>7. CASE to = "running"
  <2>1. /\ Target[c] \in Targets
        /\ Len(inUse[Target[c]]) < Limit[Target[c]]
    BY <1>p, <1>0, FreeSlot
  <2>2. Cardinality(Pool!Running(Target[c])) < Limit[Target[c]]
    <3>1. /\ Cardinality(Pool!Running(Target[c])) \in Nat
          /\ Cardinality(Pool!Running(Target[c])) =< Len(inUse[Target[c]])
      BY <1>0, <2>1, RunningBound
    <3>2. Len(inUse[Target[c]]) \in Nat /\ Limit[Target[c]] \in Nat
      BY <1>0, <2>1, LimitType
    <3> QED
      BY <2>1, <3>1, <3>2
  <2>3. Pool!Move(c, {"queued"}, "running")
    BY <1>2, <1>5, <1>7 DEF Pool!Move
  <2>4. Pool!Start(c)
    BY <2>2, <2>3, PoolCardinality DEF Pool!Start
  <2> QED
    BY <2>4 DEF Pool!Next
<1> QED
  BY <1>6, <1>7

\* A request whose device settles is finished.
LEMMA PoolSettle ==
  ASSUME TypeInv, TypeInv', LinksInv, SanityCheck',
         NEW d \in Devices, d \notin freed,
         device[d].phase \in {"connecting", "executing"},
         NEW dev, NEW spent, NEW where,
         Settle(d, dev, spent), ResumeIn(d, where)
  PROVE  Pool!Next
<1>0. TypeOK /\ TypeOK' /\ OnePlace /\ LinksInverse
  BY DEF TypeInv, LinksInv
<1>1. /\ device[d].owner \in Requests /\ requestDevice[device[d].owner] = d
  <2>1. CallbackFits(d)
    BY DEF LinksInv, DeviceOK
  <2>2. device[d].owner = deviceRequest[d] /\ device[d].owner # NoRequest
    BY <2>1 DEF CallbackFits
  <2>3. deviceRequest[d] \in Requests
    BY <1>0, <2>2 DEF TypeOK
  <2> QED
    BY <1>0, <2>2, <2>3 DEF LinksInverse
<1>p. PICK r \in Requests : r = device[d].owner
  BY <1>1
<1>2. Unlink(r) /\ \E gone : FinishAndPublish(r, gone)
  BY <1>p DEF Settle
<1>3. /\ \A q \in Requests :
           requestDevice'[q] = IF q = r THEN NoDevice ELSE requestDevice[q]
      /\ \A q \in Requests :
           /\ posted'[q] = posted[q] + finished[q]
                             + (IF q = r THEN 1 ELSE 0)
           /\ finished'[q] = 0
  BY <1>0, <1>2, UnlinkInverse, FinishEffect
<1>4. UNCHANGED <<unsent, answered>>
  BY DEF ResumeIn, mainVars
<1>5. /\ r \notin unsent /\ finished[r] = 0 /\ posted[r] = 0 /\ answered[r] = 0
      /\ requestDevice[r] # NoDevice
  <2>1. requestDevice[r] # NoDevice
    BY <1>p, <1>1, HandlerAssumption
  <2> QED
    BY <1>0, <2>1, RunningPlace
<1>6. Stage[r] = "running" /\ Stage'[r] = "finished"
  BY <1>3, <1>4, <1>5 DEF Stage
<1>7. \A q \in Requests : q # r => Stage'[q] = Stage[q]
  <2> SUFFICES ASSUME NEW q \in Requests, q # r PROVE Stage'[q] = Stage[q]
    OBVIOUS
  <2>1. finished'[q] + posted'[q] = finished[q] + posted[q]
    BY <1>0, <1>3, PlaceTypes
  <2> QED
    BY <1>0, <1>3, <1>4, <2>1, StageKept
<1>8. Pool!Finish(r)
  BY <1>6, <1>7, StageMoves DEF Pool!Finish, Pool!Move
<1> QED
  BY <1>8 DEF Pool!Next

LEMMA PoolMain ==
  ASSUME TypeInv, TypeInv', LinksInv, NEW r \in Requests, Send(r) \/ Deliver(r)
  PROVE  Pool!Next
<1>0. TypeOK /\ TypeOK' /\ OnePlace
  BY DEF TypeInv, LinksInv
<1>1. UNCHANGED <<finished, requestDevice>>
  BY DEF Send, Deliver, linkVars
<1>2. CASE Send(r)
  <2>1. /\ r \in unsent /\ unsent' = unsent \ {r}
        /\ posted' = posted /\ answered' = answered
    BY <1>2 DEF Send
  <2>2. /\ finished[r] = 0 /\ posted[r] = 0 /\ answered[r] = 0
        /\ requestDevice[r] = NoDevice
    BY <1>0, <2>1, PlaceTypes DEF OnePlace
  <2>3. Stage[r] = "unsent" /\ Stage'[r] = "queued"
    BY <1>1, <2>1, <2>2 DEF Stage
  <2>4. \A q \in Requests : q # r => Stage'[q] = Stage[q]
    BY <1>1, <2>1 DEF Stage
  <2>5. Pool!Submit(r)
    BY <2>3, <2>4, StageMoves DEF Pool!Submit, Pool!Move
  <2> QED
    BY <2>5 DEF Pool!Next
<1>3. CASE Deliver(r)
  <2>1. /\ posted[r] > 0 /\ unsent' = unsent
        /\ \A q \in Requests : q # r =>
             posted'[q] = posted[q] /\ answered'[q] = answered[q]
        /\ answered'[r] = answered[r] + 1
    BY <1>0, <1>3 DEF Deliver, TypeOK
  <2>2. r \notin unsent /\ answered[r] = 0 /\ finished[r] + posted[r] > 0
    BY <1>0, <2>1, PlaceTypes DEF OnePlace
  <2>3. Stage[r] = "finished" /\ Stage'[r] = "answered"
    BY <2>1, <2>2 DEF Stage
  <2>4. \A q \in Requests : q # r => Stage'[q] = Stage[q]
    BY <1>1, <2>1 DEF Stage
  <2>5. Pool!Deliver(r)
    BY <2>3, <2>4, StageMoves DEF Pool!Deliver, Pool!Move
  <2> QED
    BY <2>5 DEF Pool!Next
<1> QED
  BY <1>2, <1>3

LEMMA PoolStep ==
  TypeInv /\ TypeInv' /\ LinksInv /\ LinksInv' /\ [Next]_vars
    => [Pool!Next]_Stage
<1> SUFFICES ASSUME TypeInv, TypeInv', LinksInv, LinksInv', [Next]_vars
             PROVE  Pool!Next \/ Stage' = Stage
  OBVIOUS
<1>0. TypeOK /\ TypeOK' /\ OnePlace
  BY DEF TypeInv, LinksInv
<1>s. SanityCheck'
  BY <1>0, SaneNext DEF LinksInv, DeviceOK, CachedFits
<1>1. CASE MainNext
  BY <1>1, PoolMain DEF MainNext
<1>2. ASSUME MayTake, Take, UNCHANGED <<unsent, inbox, answered>>,
             NEW gone, FinishAndPublish(Candidate, gone),
             \A q \in Requests : requestDevice'[q] = requestDevice[q]
      PROVE  Pool!Next
  <2>1. Candidate \in Requests
    BY <1>0, <1>2, CandidateType
  <2>2. \A q \in Requests :
          /\ posted'[q] = posted[q] + finished[q]
                            + (IF q = Candidate THEN 1 ELSE 0)
          /\ finished'[q] = 0
    BY <1>0, <1>2, <1>s, <2>1, FinishEffect
  <2>3. /\ \A q \in Requests : q # Candidate =>
             finished'[q] + posted'[q] = finished[q] + posted[q]
        /\ finished'[Candidate] + posted'[Candidate] > 0
    BY <1>0, <2>1, <2>2, PlaceTypes
  <2>4. "finished" \in {"running", "finished"} /\ "finished" # "running"
    OBVIOUS
  <2> QED
    BY <1>2, <2>3, <2>4, PoolPush
<1>3. CASE PushInvalidate
  <2>1. /\ MayTake /\ Take /\ Unlink(Candidate)
        /\ FinishAndPublish(Candidate, Spent(device'))
        /\ UNCHANGED <<unsent, inbox, answered>>
    BY <1>3 DEF PushInvalidate, mainVars
  <2>2. \A q \in Requests : requestDevice'[q] = requestDevice[q]
    BY <1>0, <2>1, CandidateTaken DEF Unlink, TypeOK
  <2> QED
    BY <1>2, <2>1, <2>2
<1>4. ASSUME MayTake, NEW d \in Devices, NEW max, PushConnectError(d, max)
      PROVE  Pool!Next
  <2>1. /\ MayTake /\ Take /\ Unlink(Candidate)
        /\ FinishAndPublish(Candidate, {d})
        /\ UNCHANGED <<unsent, inbox, answered>>
    BY <1>4 DEF PushConnectError, mainVars
  <2>2. \A q \in Requests : requestDevice'[q] = requestDevice[q]
    BY <1>0, <2>1, CandidateTaken DEF Unlink, TypeOK
  <2> QED
    BY <1>2, <2>1, <2>2
<1>5. ASSUME MayTake, NEW d \in Devices, NEW max, PushExecuteError(d, max)
      PROVE  Pool!Next
  <2>1. /\ Take /\ UNCHANGED <<unsent, inbox, answered>>
        /\ \E gone : FinishAndPublish(Candidate, gone)
        /\ requestDevice' = [requestDevice EXCEPT ![Candidate] = NoDevice]
    BY <1>5 DEF PushExecuteError, mainVars
  <2>2. \A q \in Requests : requestDevice'[q] = requestDevice[q]
    BY <1>0, <1>5, <2>1, CandidateTaken DEF TypeOK
  <2> QED
    BY <1>2, <1>5, <2>1, <2>2
<1>6. ASSUME MayTake, NEW d \in Devices, NEW max,
             PushConnecting(d, max) \/ PushExecuting(d, max)
      PROVE  Pool!Next
  <2>1. /\ Take /\ Link(Candidate, d)
        /\ UNCHANGED <<unsent, inbox, answered, finished, posted>>
    BY <1>6 DEF PushConnecting, PushExecuting, mainVars
  <2>2. /\ Candidate \in Requests
        /\ finished[Candidate] = 0 /\ posted[Candidate] = 0
    BY <1>0, <1>6, CandidateTaken
  <2>3. /\ \A q \in Requests : q # Candidate =>
             requestDevice'[q] = requestDevice[q]
        /\ requestDevice'[Candidate] = d
    BY <1>0, <2>1, <2>2 DEF Link, TypeOK
  <2>4. d # NoDevice
    BY HandlerAssumption
  <2>5. "running" \in {"running", "finished"}
    OBVIOUS
  <2> QED
    BY <1>6, <2>1, <2>2, <2>3, <2>4, <2>5, PoolPush
<1>7. ASSUME NEW d \in Devices, Settles(d) PROVE Pool!Next \/ Stage' = Stage
  <2>1. CASE Connected(d)
    BY <2>1, PoolStutters
  <2>2. CASE ~ Connected(d)
    <3>1. /\ d \notin freed /\ device[d].phase \in {"connecting", "executing"}
          /\ \E dev, spent, where : Settle(d, dev, spent) /\ ResumeIn(d, where)
      BY <1>7, <2>2 DEF Settles, ConnectedExecuteError, ConnectFailed, Reply,
                        LostExecuting
    <3> QED
      BY <1>s, <3>1, PoolSettle
  <2> QED
    BY <2>1, <2>2
<1>8. CASE PushNext
  BY <1>3, <1>4, <1>5, <1>6, <1>8, PoolStutters DEF PushNext
<1>9. CASE DeviceNext
  BY <1>7, <1>9, PoolStutters DEF DeviceNext
<1>10. CASE ReadNext \/ ResumeNext \/ Terminated \/ UNCHANGED vars
  BY <1>10, PoolStutters
<1> QED
  BY <1>1, <1>8, <1>9, <1>10 DEF Next, HubNext

\* The handler keeps the promise of RequestPool, for any requests, devices,
\* limits and failures: a request moves forward only, runs only while its
\* target is below the limit, and its answer is delivered once.
THEOREM KeepsPool == Spec => ImplementsPool
<1>1. Spec => []TypeInv
  BY TypeInit, TypeStep, PTL DEF Spec
<1>2. Init => Pool!Init
  BY DEF Init, Pool!Init, Stage
<1> QED
  BY <1>1, <1>2, LinksHold, PoolStep, PTL DEF Spec, ImplementsPool, Pool!Spec

=============================================================================

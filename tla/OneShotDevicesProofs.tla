-------------------------- MODULE OneShotDevicesProofs --------------------------
(***************************************************************************)
(* Theorems about the devices of OneShotHandler, for any requests, devices *)
(* and limits: none that is spent or invalidated is used again, none that  *)
(* exists escapes an invalidation, and nothing refers to a deleted one.    *)
(***************************************************************************)
EXTENDS OneShotLinksProofs

-----------------------------------------------------------------------------
(* The inductive invariant, beside LinksInv.                               *)

Gone == freed \cup zombies

\* A device that exists and is tracked is in one of the handler's vectors.
KeptFits(d) ==
  ~IsNew(d) /\ d \notin Gone /\ device[d].tracked => cached[d] > 0 \/ IsLinked(d)

\* A CURL device is never spent, invalidated or lost; one that could not be
\* set up is deleted before it takes a slot.
UnlimitedFits(d) ==
  device[d].target = "CURL" =>
    IF d \in Gone THEN Count(inUse["CURL"], d) = 0
    ELSE /\ ~device[d].invalid /\ device[d].max = -1
         /\ device[d].phase \in {"open", "executing"}

\* While requests are taken, what the purge left in cached_devices_ is
\* reusable.
PurgedOK ==
  pc \in {"push", "track"} =>
    \A d \in Devices : cached[d] > 0 => Reusable(device[d])

\* A device is deleted once, and not between Connect and its slot.
GoneOnce ==
  /\ freed \cap zombies = {}
  /\ pc = "return" => frame \notin zombies
  /\ pc = "track" /\ Target[current] = "CURL" => frame \notin Gone

SpentInv ==
  /\ \A d \in Devices : KeptFits(d) /\ UnlimitedFits(d)
  /\ PurgedOK /\ GoneOnce

-----------------------------------------------------------------------------
(* Steps.                                                                  *)

\* A device that a step leaves alone, or purges, stays consistent.
LEMMA SpentKept ==
  ASSUME NEW e \in Devices, KeptFits(e), UnlimitedFits(e),
         device'[e].phase = device[e].phase,
         device'[e].target = device[e].target,
         device'[e].tracked = device[e].tracked,
         device[e].target = "CURL" => device'[e].invalid = device[e].invalid,
         device'[e].max = device[e].max,
         deviceRequest'[e] = deviceRequest[e],
         Count(inUse'["CURL"], e) = Count(inUse["CURL"], e),
         e \in Gone => e \in Gone',
         e \in Gone' => e \in Gone \/ device[e].target # "CURL",
         e \notin Gone' => cached'[e] = cached[e]
  PROVE  KeptFits(e)' /\ UnlimitedFits(e)'
<1>1. KeptFits(e)'
  BY DEF KeptFits, IsLinked, IsNew
<1>2. UnlimitedFits(e)'
  <2>1. CASE device[e].target # "CURL"
    BY <2>1 DEF UnlimitedFits
  <2>2. CASE device[e].target = "CURL" /\ e \in Gone
    BY <2>2 DEF UnlimitedFits
  <2>3. CASE device[e].target = "CURL" /\ e \notin Gone
    <3>1. e \notin Gone'
      BY <2>3
    <3>2. /\ ~ device'[e].invalid /\ device'[e].max = -1
          /\ device'[e].phase \in {"open", "executing"}
      BY <2>3 DEF UnlimitedFits
    <3> QED
      BY <3>1, <3>2 DEF UnlimitedFits
  <2> QED
    BY <2>1, <2>2, <2>3
<1> QED
  BY <1>1, <1>2

LEMMA NextSane ==
  ASSUME TypeOK', LinksInv' PROVE SanityCheck'
BY SaneNext DEF LinksInv, DeviceOK, CachedFits

\* A CURL device that is cached can be used again.
LEMMA UnlimitedReusable ==
  ASSUME LinksInv, SpentInv, NEW d \in Devices, cached[d] > 0,
         device[d].target = "CURL"
  PROVE  Reusable(device[d]) /\ d \notin Gone
BY DEF LinksInv, DeviceOK, GoneFits, SpentInv, UnlimitedFits, Reusable, Gone

\* The device Push hands to Connect, for a CURL request.
LEMMA PickUnlimited ==
  ASSUME TypeOK, LinksInv, SpentInv, MayTake, NEW d \in Devices, Picks(d),
         Target[Candidate] = "CURL", NEW max \in MaxReuse[Target[Candidate]]
  PROVE  ~ SetUp(d, max).invalid /\ SetUp(d, max).max = -1
<1>1. CASE IsNew(d)
  <2>1. max = -1
    BY HandlerAssumption
  <2> QED
    BY <1>1, <2>1 DEF SetUp, Unallocated
<1>2. CASE ~ IsNew(d)
  <2>1. SetUp(d, max) = device[d] /\ cached[d] > 0 /\ device[d].target = "CURL"
    BY <1>2 DEF SetUp, Picks, CachedFor
  <2>2. d \notin Gone
    BY <2>1, UnlimitedReusable
  <2> QED
    BY <2>1, <2>2 DEF SpentInv, UnlimitedFits
<1> QED
  BY <1>1, <1>2

LEMMA PushSpent ==
  ASSUME TypeInv, TypeInv', LinksInv, LinksInv', SpentInv, MayTake,
         NEW d \in Devices, NEW max \in MaxReuse[Target[Candidate]],
         PushConnecting(d, max) \/ PushExecuting(d, max)
  PROVE  SpentInv'
<1> DEFINE t == Target[Candidate]
<1>0. TypeOK /\ TypeOK' /\ pc = "push" /\ Candidate \in Requests /\ t \in Targets
  BY CandidateType, HandlerAssumption DEF TypeInv, MayTake
<1>1. /\ Picks(d) /\ cached' = Uncache(d) /\ Link(Candidate, d) /\ Track(t, d)
      /\ UNCHANGED <<zombies, freed>>
  BY DEF PushConnecting, PushExecuting
<1>2. /\ d \notin freed /\ d \notin zombies
      /\ SetUp(d, max).target = t
      /\ \A e \in Devices : cached'[e] = IF e = d THEN 0 ELSE cached[e]
  BY <1>0, <1>1, PickFacts DEF LinksInv
<1>3. /\ \A e \in Devices : e # d => device'[e] = device[e]
      /\ device'[d].target = t /\ device'[d].max = SetUp(d, max).max
      /\ device'[d].invalid = SetUp(d, max).invalid
      /\ t = "CURL" => device'[d].phase = "executing"
  <2>1. SetUp(d, max) \in DeviceRecord
    BY <1>0, SetUpType
  <2>2. device \in [Devices -> DeviceRecord]
    BY <1>0 DEF TypeOK
  <2>3. CASE PushConnecting(d, max)
    <3>1. device' = [device EXCEPT
            ![d] = [SetUp(d, max) EXCEPT !.phase = "connecting",
                                         !.owner = Candidate]]
      BY <2>3 DEF PushConnecting
    <3>2. t # "CURL"
      BY <2>3 DEF PushConnecting, ConnectsAtOnce
    <3> QED
      BY <1>2, <2>1, <2>2, <3>1, <3>2 DEF DeviceRecord
  <2>4. CASE PushExecuting(d, max)
    <3>1. device' = [device EXCEPT
            ![d] = [SetUp(d, max) EXCEPT
                      !.phase = "executing", !.owner = Candidate,
                      !.uses = IF t = "CURL" THEN @ ELSE @ + 1]]
      BY <2>4 DEF PushExecuting
    <3> QED
      BY <1>2, <2>1, <2>2, <3>1 DEF DeviceRecord
  <2> QED
    BY <2>3, <2>4
<1>4. /\ deviceRequest'[d] = Candidate
      /\ \A e \in Devices : e # d => deviceRequest'[e] = deviceRequest[e]
  BY <1>0, <1>1 DEF Link, TypeOK
<1>5. \A u \in Targets, e \in Devices : e # d =>
        Count(inUse'[u], e) = Count(inUse[u], e)
  <2>1. /\ inUse \in [Targets -> Seq(Devices)]
        /\ inUse' = [inUse EXCEPT ![t] = Append(@, d)]
    BY <1>0, <1>1 DEF Track, TypeOK
  <2>2. \A u \in Targets, e \in Devices :
          Count(inUse'[u], e) = Count(inUse[u], e)
                                  + (IF u = t /\ e = d THEN 1 ELSE 0)
    BY <1>0, <2>1, SlotAppend
  <2> QED
    BY <1>0, <2>2, SlotTypes
<1>6. pc' \in {"push", "read", "stopped"}
  BY <1>0, <1>1, TrackType
<1>7. t = "CURL" => ~ SetUp(d, max).invalid /\ SetUp(d, max).max = -1
  BY <1>0, <1>1, PickUnlimited
<1> HIDE DEF t
<1>8. KeptFits(d)' /\ UnlimitedFits(d)'
  BY <1>0, <1>1, <1>2, <1>3, <1>4, <1>7, HandlerAssumption
     DEF KeptFits, UnlimitedFits, IsLinked, Gone
<1>9. ASSUME NEW e \in Devices, e # d PROVE KeptFits(e)' /\ UnlimitedFits(e)'
  <2>1. KeptFits(e) /\ UnlimitedFits(e)
    BY DEF SpentInv
  <2>2. Count(inUse'["CURL"], e) = Count(inUse["CURL"], e)
    BY <1>5, <1>9 DEF Targets
  <2>3. /\ device'[e] = device[e] /\ deviceRequest'[e] = deviceRequest[e]
        /\ cached'[e] = cached[e] /\ Gone' = Gone
    BY <1>1, <1>2, <1>3, <1>4, <1>9 DEF Gone
  <2> QED
    BY <2>1, <2>2, <2>3, SpentKept
<1>10. PurgedOK'
  BY <1>0, <1>2, <1>3 DEF SpentInv, PurgedOK
<1>11. GoneOnce'
  BY <1>1, <1>6 DEF SpentInv, GoneOnce
<1> QED
  BY <1>8, <1>9, <1>10, <1>11 DEF SpentInv

LEMMA PushInvalidateSpent ==
  ASSUME TypeInv, TypeInv', LinksInv, LinksInv', SpentInv, PushInvalidate
  PROVE  SpentInv'
<1> DEFINE purged == Spent(device')
           hit == DevicesOf(Target[Candidate])
<1>0. /\ TypeOK /\ TypeOK' /\ MayTake /\ Candidate \in Requests
      /\ Target[Candidate] = "PostgreSQL" /\ SanityCheck'
  BY CandidateType, HandlerAssumption, NextSane DEF TypeInv, PushInvalidate
<1>1. /\ FinishAndPublish(Candidate, purged) /\ Unlink(Candidate)
      /\ \A e \in Devices :
           cached'[e] = IF e \in purged THEN 0 ELSE cached[e]
      /\ inUse' = inUse
  BY DEF PushInvalidate
<1>2. \A e \in Devices :
        /\ device'[e].phase = device[e].phase
        /\ device'[e].target = device[e].target
        /\ device'[e].tracked = device[e].tracked
        /\ device'[e].max = device[e].max
        /\ device'[e].uses = device[e].uses
        /\ e \notin hit => device'[e].invalid = device[e].invalid
  <2>1. device' = [e \in Devices |->
                     [device[e] EXCEPT !.invalid = @ \/ e \in hit]]
    BY DEF PushInvalidate
  <2> HIDE DEF hit
  <2>2. ASSUME NEW e \in Devices
        PROVE  device'[e] = [device[e] EXCEPT !.invalid = @ \/ e \in hit]
    BY <2>1
  <2>3. \A e \in Devices : device[e] \in DeviceRecord
    BY <1>0 DEF TypeOK
  <2> QED
    BY <2>2, <2>3 DEF DeviceRecord
<1>3. ASSUME NEW e \in Devices, device[e].target = "CURL"
      PROVE  device'[e].invalid = device[e].invalid /\ e \notin purged
  <2>1. e \notin hit
    BY <1>0, <1>3 DEF DevicesOf
  <2>3. device'[e].invalid = device[e].invalid
    BY <1>2, <2>1
  <2>4. cached[e] > 0 => Reusable(device[e])
    BY <1>3, UnlimitedReusable
  <2>5. Reusable(device'[e]) <=> Reusable(device[e])
    BY <1>2, <2>3 DEF Reusable
  <2> QED
    BY <2>3, <2>4, <2>5 DEF Spent
<1>4. \A e \in Devices : cached'[e] > 0 => Reusable(device'[e])
  <2>1. ASSUME NEW e \in Devices, cached'[e] > 0 PROVE Reusable(device'[e])
    <3>1. e \notin purged /\ cached[e] > 0
      BY <1>1, <2>1
    <3> QED
      BY <3>1 DEF Spent
  <2> QED
    BY <2>1
<1> HIDE DEF purged, hit
<1>5. freed' = freed \cup purged \cup zombies /\ zombies' = {}
  BY <1>0, <1>1, FinishEffect
<1>6. \A e \in Devices : deviceRequest'[e] = deviceRequest[e]
  <2>1. requestDevice[Candidate] = NoDevice
    BY <1>0, CandidateTaken DEF LinksInv
  <2> QED
    BY <1>0, <1>1, <2>1, HandlerAssumption DEF Unlink, TypeOK
<1>7. ASSUME NEW e \in Devices PROVE KeptFits(e)' /\ UnlimitedFits(e)'
  <2>1. KeptFits(e) /\ UnlimitedFits(e)
    BY DEF SpentInv
  <2>2. /\ e \in Gone => e \in Gone'
        /\ e \in Gone' => e \in Gone \/ device[e].target # "CURL"
        /\ e \notin Gone' => cached'[e] = cached[e]
    BY <1>1, <1>3, <1>5 DEF Gone
  <2> QED
    BY <1>1, <1>2, <1>3, <1>6, <2>1, <2>2, SpentKept
<1>8. PurgedOK'
  BY <1>4 DEF PurgedOK
<1>9. GoneOnce'
  <2>1. pc' = "push"
    BY <1>0, Zenon DEF PushInvalidate
  <2> QED
    BY <1>5, <2>1 DEF GoneOnce
<1> QED
  BY <1>7, <1>8, <1>9 DEF SpentInv

LEMMA PushConnectErrorSpent ==
  ASSUME TypeInv, TypeInv', LinksInv, LinksInv', SpentInv, MayTake,
         NEW d \in Devices, NEW max \in MaxReuse[Target[Candidate]],
         PushConnectError(d, max)
  PROVE  SpentInv'
<1>0. /\ TypeOK /\ TypeOK' /\ SanityCheck' /\ Candidate \in Requests
      /\ pc = "push"
  BY CandidateType, NextSane DEF TypeInv, MayTake
<1>1. /\ FinishAndPublish(Candidate, {d}) /\ Unlink(Candidate) /\ IsNew(d)
      /\ device' = [device EXCEPT ![d] = [SetUp(d, max) EXCEPT !.phase = "lost"]]
      /\ cached' = cached /\ inUse' = inUse
  BY DEF PushConnectError
<1>2. freed' = freed \cup {d} \cup zombies /\ zombies' = {}
  BY <1>0, <1>1, FinishEffect
<1>3. \A e \in Devices : e # d => device'[e] = device[e]
  BY <1>0, <1>1 DEF TypeOK
<1>4. \A e \in Devices : deviceRequest'[e] = deviceRequest[e]
  BY <1>0, <1>1, CandidateTaken, HandlerAssumption DEF Unlink, LinksInv, TypeOK
<1>5. Count(inUse["CURL"], d) = 0 /\ cached[d] = 0
  BY <1>0, <1>1, SlotTypes
     DEF LinksInv, DeviceOK, SlotFits, CachedFits, IsNew, Targets
<1>6. KeptFits(d)' /\ UnlimitedFits(d)'
  BY <1>1, <1>2, <1>5 DEF KeptFits, UnlimitedFits, Gone
<1>7. ASSUME NEW e \in Devices, e # d PROVE KeptFits(e)' /\ UnlimitedFits(e)'
  <2>1. KeptFits(e) /\ UnlimitedFits(e)
    BY DEF SpentInv
  <2>2. /\ e \in Gone' <=> e \in Gone
        /\ device'[e] = device[e]
    BY <1>2, <1>3, <1>7 DEF Gone
  <2> QED
    BY <1>1, <1>4, <2>1, <2>2, SpentKept
<1>8. PurgedOK'
  BY <1>0, <1>1, <1>3, <1>5 DEF SpentInv, PurgedOK
<1>9. GoneOnce'
  <2>1. pc' = "push"
    BY <1>0, Zenon DEF PushConnectError
  <2> QED
    BY <1>2, <2>1 DEF GoneOnce
<1> QED
  BY <1>6, <1>7, <1>8, <1>9 DEF SpentInv

LEMMA PushExecuteErrorSpent ==
  ASSUME TypeInv, TypeInv', LinksInv, LinksInv', SpentInv, MayTake,
         NEW d \in Devices, NEW max \in MaxReuse[Target[Candidate]],
         PushExecuteError(d, max)
  PROVE  SpentInv'
<1> DEFINE t == Target[Candidate]
           gone == IF Reusable(device'[d]) THEN {} ELSE {d}
           dev == [SetUp(d, max) EXCEPT
                     !.phase = "open", !.uses = IF t = "CURL" THEN @ ELSE @ + 1]
<1>0. /\ TypeOK /\ TypeOK' /\ SanityCheck' /\ Candidate \in Requests
      /\ pc = "push" /\ t \in Targets
  BY CandidateType, HandlerAssumption, NextSane DEF TypeInv, MayTake
<1>1. /\ Picks(d) /\ device' = [device EXCEPT ![d] = dev]
      /\ inUse' = [inUse EXCEPT ![t] = RemoveFirst(@, d)]
      /\ deviceRequest' = [deviceRequest EXCEPT ![d] = NoRequest]
      /\ cached' = [Uncache(d) EXCEPT ![d] =
                      IF Reusable(device'[d]) THEN @ + 1 ELSE @]
      /\ FinishAndPublish(Candidate, gone)
  BY DEF PushExecuteError
<1>2. /\ d \notin freed /\ d \notin zombies /\ SetUp(d, max).target = t
      /\ \A e \in Devices : Uncache(d)[e] = IF e = d THEN 0 ELSE cached[e]
  BY <1>0, <1>1, PickFacts DEF LinksInv
<1>3. /\ \A e \in Devices : e # d => device'[e] = device[e]
      /\ device'[d].phase = "open" /\ device'[d].target = t
      /\ device'[d].max = SetUp(d, max).max
      /\ device'[d].invalid = SetUp(d, max).invalid
  <2>1. SetUp(d, max) \in DeviceRecord
    BY <1>0, SetUpType
  <2>2. device \in [Devices -> DeviceRecord]
    BY <1>0 DEF TypeOK
  <2>3. /\ dev.phase = "open" /\ dev.target = SetUp(d, max).target
        /\ dev.max = SetUp(d, max).max /\ dev.invalid = SetUp(d, max).invalid
    BY <2>1 DEF DeviceRecord
  <2> HIDE DEF dev
  <2> QED
    BY <1>1, <1>2, <2>2, <2>3
<1> HIDE DEF dev
<1>4. t = "CURL" => Reusable(device'[d])
  BY <1>0, <1>1, <1>3, PickUnlimited DEF Reusable
<1>5. \A e \in Devices :
        cached'[e] = IF e # d THEN cached[e]
                     ELSE IF Reusable(device'[d]) THEN 1 ELSE 0
  <2>1. Uncache(d) \in [Devices -> Nat]
    BY <1>0, <1>1, UncacheType
  <2> QED
    BY <1>1, <1>2, <2>1
<1>6. freed' = freed \cup gone \cup zombies /\ zombies' = {}
  BY <1>0, <1>1, FinishEffect
<1>7. \A u \in Targets, e \in Devices : e # d =>
        Count(inUse'[u], e) = Count(inUse[u], e)
  <2>1. /\ inUse \in [Targets -> Seq(Devices)]
        /\ inUse' = [inUse EXCEPT ![t] = RemoveFirst(@, d)]
    BY <1>0, <1>1 DEF TypeOK
  <2> HIDE DEF t, gone
  <2>2. \A u \in Targets, e \in Devices :
          Count(inUse'[u], e)
            = IF u = t /\ e = d /\ Count(inUse[u], e) # 0
              THEN Count(inUse[u], e) - 1 ELSE Count(inUse[u], e)
    BY <1>0, <2>1, SlotErase
  <2> QED
    BY <2>2
<1>8. \A e \in Devices : e # d => deviceRequest'[e] = deviceRequest[e]
  BY <1>0, <1>1 DEF TypeOK
<1> HIDE DEF t
<1>9. KeptFits(d)' /\ UnlimitedFits(d)'
  <2>1. CASE Reusable(device'[d])
    <3>1. d \notin Gone'
      BY <1>2, <1>6, <2>1 DEF Gone
    <3>2. t = "CURL" => ~ device'[d].invalid /\ device'[d].max = -1
      BY <1>0, <1>1, <1>3, PickUnlimited DEF t
    <3> QED
      BY <1>3, <1>5, <2>1, <3>1, <3>2 DEF KeptFits, UnlimitedFits
  <2>2. CASE ~ Reusable(device'[d])
    BY <1>3, <1>4, <1>6, <2>2 DEF KeptFits, UnlimitedFits, Gone
  <2> QED
    BY <2>1, <2>2
<1>10. ASSUME NEW e \in Devices, e # d PROVE KeptFits(e)' /\ UnlimitedFits(e)'
  <2>1. KeptFits(e) /\ UnlimitedFits(e)
    BY DEF SpentInv
  <2>2. /\ e \in Gone' <=> e \in Gone
        /\ device'[e] = device[e]
    BY <1>3, <1>6, <1>10 DEF Gone
  <2>3. Count(inUse'["CURL"], e) = Count(inUse["CURL"], e)
    BY <1>7, <1>10 DEF Targets
  <2> QED
    BY <1>5, <1>8, <1>10, <2>1, <2>2, <2>3, SpentKept
<1>11. PurgedOK'
  <2>1. ASSUME NEW e \in Devices, cached'[e] > 0 PROVE Reusable(device'[e])
    <3>1. CASE e = d
      BY <1>5, <2>1, <3>1
    <3>2. CASE e # d
      BY <1>0, <1>3, <1>5, <2>1, <3>2 DEF SpentInv, PurgedOK
    <3> QED
      BY <3>1, <3>2
  <2> QED
    BY <2>1 DEF PurgedOK
<1>12. GoneOnce'
  <2>1. pc' = "track" /\ frame' = d /\ current' = Candidate
    BY <1>0, Zenon DEF PushExecuteError
  <2> QED
    BY <1>2, <1>4, <1>6, <2>1 DEF GoneOnce, Gone, t
<1> QED
  BY <1>9, <1>10, <1>11, <1>12 DEF SpentInv

LEMMA PushTrackSpent ==
  ASSUME TypeInv, TypeInv', LinksInv, LinksInv', SpentInv, PushTrack
  PROVE  SpentInv'
<1>p. PICK d, t : d = frame /\ t = Target[current]
  OBVIOUS
<1>0. TypeOK /\ TypeOK'
  BY DEF TypeInv
<1>1. /\ pc = "track" /\ d \in Devices /\ t \in Targets /\ Track(t, d)
      /\ device[d].target = t
      /\ t = "CURL" => d \notin Gone
  BY <1>p, HandlerAssumption
     DEF PushTrack, TypeInv, FrameOK, LinksInv, TrackOK, SpentInv, GoneOnce
<1>2. UNCHANGED <<cached, deviceRequest, zombies, device, freed>>
  BY DEF PushTrack, linkVars
<1>3. pc' \in {"push", "read", "stopped"}
  BY <1>0, <1>1, TrackType
<1>4. \A u \in Targets, e \in Devices :
        e # d \/ u # t => Count(inUse'[u], e) = Count(inUse[u], e)
  <2>1. /\ inUse \in [Targets -> Seq(Devices)]
        /\ inUse' = [inUse EXCEPT ![t] = Append(@, d)]
    BY <1>0, <1>1 DEF Track, TypeOK
  <2>2. d \in Devices /\ t \in Targets
    BY <1>1
  <2>3. \A u \in Targets, e \in Devices :
          Count(inUse'[u], e) = Count(inUse[u], e)
                                  + (IF u = t /\ e = d THEN 1 ELSE 0)
    BY <2>1, <2>2, SlotAppend
  <2> QED
    BY <1>0, <2>3, SlotTypes
<1>5. ASSUME NEW e \in Devices PROVE KeptFits(e)' /\ UnlimitedFits(e)'
  <2>1. KeptFits(e) /\ UnlimitedFits(e)
    BY DEF SpentInv
  <2>2. CASE e # d \/ t # "CURL"
    <3>1. Count(inUse'["CURL"], e) = Count(inUse["CURL"], e)
      BY <1>4, <2>2 DEF Targets
    <3> QED
      BY <1>2, <2>1, <3>1, SpentKept DEF Gone
  <2>3. CASE e = d /\ t = "CURL"
    BY <1>1, <1>2, <2>1, <2>3 DEF KeptFits, UnlimitedFits, Gone, IsNew, IsLinked
  <2> QED
    BY <2>2, <2>3
<1>6. PurgedOK' /\ GoneOnce'
  BY <1>1, <1>2, <1>3 DEF SpentInv, PurgedOK, GoneOnce
<1> QED
  BY <1>5, <1>6 DEF SpentInv

\* Steps that change no device, link or slot and delete no CURL device.
LEMMA SpentUnchanged ==
  ASSUME SpentInv, UNCHANGED <<deviceRequest, inUse, device>>,
         Gone \subseteq Gone',
         \A e \in Devices :
           /\ e \in Gone' => e \in Gone \/ device[e].target # "CURL"
           /\ e \notin Gone' => cached'[e] = cached[e],
         PurgedOK', GoneOnce'
  PROVE  SpentInv'
<1>1. ASSUME NEW e \in Devices PROVE KeptFits(e)' /\ UnlimitedFits(e)'
  <2>1. KeptFits(e) /\ UnlimitedFits(e)
    BY DEF SpentInv
  <2>2. /\ device'[e] = device[e] /\ deviceRequest'[e] = deviceRequest[e]
        /\ Count(inUse'["CURL"], e) = Count(inUse["CURL"], e)
        /\ e \in Gone => e \in Gone'
    OBVIOUS
  <2> QED
    BY <2>1, <2>2, SpentKept
<1> QED
  BY <1>1 DEF SpentInv

LEMMA ReadSpent ==
  ASSUME LinksInv, SpentInv, StartRead \/ Receive \/ EndRead
  PROVE  SpentInv'
<1>1. CASE StartRead
  <2>1. /\ pc' = "read"
        /\ UNCHANGED <<cached, deviceRequest, inUse, device, zombies, freed>>
    BY <1>1 DEF StartRead, linkVars
  <2>2. PurgedOK' /\ GoneOnce'
    BY <2>1 DEF SpentInv, PurgedOK, GoneOnce
  <2> QED
    BY <2>1, <2>2, SpentUnchanged DEF Gone
<1>2. CASE Receive \/ EndRead
  <2> DEFINE purged == Spent(device)
  <2>1. /\ pc' = "push" /\ zombies' = {}
        /\ freed' = freed \cup zombies \cup purged
        /\ \A e \in Devices :
             cached'[e] = IF e \in purged THEN 0 ELSE cached[e]
        /\ UNCHANGED <<deviceRequest, inUse, device>>
    BY <1>2 DEF Receive, EndRead, BeginPush, linkVars
  <2>2. \A e \in Devices : device[e].target = "CURL" => e \notin purged
    BY UnlimitedReusable DEF Spent
  <2>3. PurgedOK'
    BY <2>1 DEF PurgedOK, Spent
  <2> HIDE DEF purged
  <2>4. GoneOnce'
    BY <2>1 DEF GoneOnce
  <2>5. /\ Gone \subseteq Gone'
        /\ \A e \in Devices :
             /\ e \in Gone' => e \in Gone \/ device[e].target # "CURL"
             /\ e \notin Gone' => cached'[e] = cached[e]
    BY <2>1, <2>2 DEF Gone
  <2> QED
    BY <2>1, <2>3, <2>4, <2>5, SpentUnchanged
<1> QED
  BY <1>1, <1>2

LEMMA QuietSpent ==
  ASSUME SpentInv,
         \/ MainNext \/ PushDone \/ PushTrackDeleted \/ NotifyDeleted
         \/ Terminated \/ UNCHANGED vars
  PROVE  SpentInv'
<1>1. /\ UNCHANGED <<cached, deviceRequest, inUse, device>> /\ Gone' = Gone
      /\ \/ UNCHANGED <<pc, frame, current, zombies, freed>>
         \/ /\ pc' \in {"read", "wait", "stopped"}
            /\ UNCHANGED <<zombies, freed>> \/ zombies' = {}
  BY DEF MainNext, Send, Deliver, PushDone, PushTrackDeleted, NotifyDeleted,
         Terminated, vars, linkVars, controlVars, Gone
<1>2. PurgedOK' /\ GoneOnce'
  BY <1>1 DEF SpentInv, PurgedOK, GoneOnce
<1> QED
  BY <1>1, <1>2, SpentUnchanged

\* A device that settles is cached, deleted, or tracked no longer.
LEMMA SettleSpent ==
  ASSUME TypeInv, TypeInv', LinksInv, LinksInv', SpentInv,
         NEW d \in Devices, d \notin freed,
         device[d].phase \in {"connecting", "executing"},
         NEW dev \in DeviceRecord, NEW spent \in {"delete", "untrack"},
         NEW where \in {"return", "notify"},
         device[d].target = "CURL" => dev.phase \in {"open", "executing"},
         dev.target = device[d].target, dev.invalid = device[d].invalid,
         dev.max = device[d].max,
         Settle(d, dev, spent), ResumeIn(d, where)
  PROVE  SpentInv'
<1> DEFINE gone == IF Reusable(dev) \/ spent # "delete" THEN {} ELSE {d}
<1>0. /\ TypeOK /\ TypeOK' /\ SanityCheck'
  BY NextSane DEF TypeInv
<1>1. /\ device[d].owner \in Requests /\ cached[d] = 0 /\ d \notin zombies
      /\ \A e \in Devices : deviceRequest[e] = device[d].owner <=> e = d
  <2>1. CallbackFits(d) /\ CachedFits(d) /\ GoneFits(d)
    BY DEF LinksInv, DeviceOK
  <2>2. device[d].owner = deviceRequest[d] /\ device[d].owner # NoRequest
    BY <2>1 DEF CallbackFits
  <2>3. deviceRequest[d] \in Requests
    BY <1>0, <2>2 DEF TypeOK
  <2>4. cached[d] = 0 /\ d \notin zombies
    BY <1>0, <2>1, <2>2, SlotTypes DEF CachedFits, GoneFits, IsLinked
  <2>5. requestDevice[deviceRequest[d]] = d
    BY <2>3 DEF LinksInv, LinksInverse
  <2>6. \A e \in Devices : deviceRequest[e] = deviceRequest[d] <=> e = d
    BY <2>3, <2>5 DEF LinksInv, LinksInverse
  <2> QED
    BY <2>2, <2>3, <2>4, <2>6
<1>2. /\ Unlink(device[d].owner) /\ EraseInUse(d)
      /\ FinishAndPublish(device[d].owner, gone)
      /\ cached' = [cached EXCEPT ![d] = IF Reusable(dev) THEN @ + 1 ELSE @]
  BY DEF Settle
<1>3. /\ \A e \in Devices : e # d => device'[e] = device[e]
      /\ device'[d].phase = dev.phase /\ device'[d].target = dev.target
      /\ device'[d].max = dev.max /\ device'[d].invalid = dev.invalid
      /\ ~ Reusable(dev) /\ spent = "untrack" => ~ device'[d].tracked
  <2>1. /\ \A e \in Devices : e # d => device'[e] = device[e]
        /\ device'[d] = IF Reusable(dev) \/ spent # "untrack"
                        THEN dev ELSE [dev EXCEPT !.tracked = FALSE]
    BY <1>0 DEF Settle, TypeOK
  <2>2. CASE Reusable(dev) \/ spent # "untrack"
    BY <2>1, <2>2
  <2>3. CASE ~ (Reusable(dev) \/ spent # "untrack")
    BY <2>1, <2>3 DEF DeviceRecord
  <2> QED
    BY <2>1, <2>2, <2>3
<1>4. \A e \in Devices :
        cached'[e] = IF e # d THEN cached[e]
                     ELSE IF Reusable(dev) THEN 1 ELSE 0
  BY <1>0, <1>1, <1>2 DEF TypeOK
<1> HIDE DEF gone
<1>5. freed' = freed \cup gone \cup zombies /\ zombies' = {}
  BY <1>0, <1>1, <1>2, FinishEffect
<1>6. \A e \in Devices : e # d => deviceRequest'[e] = deviceRequest[e]
  BY <1>0, <1>1, <1>2, UnlinkInverse DEF LinksInv
<1>7. \A u \in Targets, e \in Devices : e # d =>
        Count(inUse'[u], e) = Count(inUse[u], e)
  <2>1. /\ inUse \in [Targets -> Seq(Devices)]
        /\ inUse' = [inUse EXCEPT ![device[d].target] = RemoveFirst(@, d)]
        /\ device[d].target \in Targets
    BY <1>0, <1>2, SlotTypes DEF TypeOK, EraseInUse
  <2>2. \A u \in Targets, e \in Devices :
          Count(inUse'[u], e)
            = IF u = device[d].target /\ e = d /\ Count(inUse[u], e) # 0
              THEN Count(inUse[u], e) - 1 ELSE Count(inUse[u], e)
    BY <2>1, SlotErase
  <2> QED
    BY <2>2
<1>8. d \notin Gone /\ gone \subseteq {d}
  BY <1>1 DEF Gone, gone
<1>9. KeptFits(d)'
  <2>1. CASE Reusable(dev)
    BY <1>4, <2>1 DEF KeptFits
  <2>2. CASE ~ Reusable(dev)
    BY <1>3, <1>5, <2>2 DEF KeptFits, Gone, gone
  <2> QED
    BY <2>1, <2>2
<1>10. UnlimitedFits(d)'
  <2>1. CASE device[d].target # "CURL"
    BY <1>3, <2>1 DEF UnlimitedFits
  <2>2. CASE device[d].target = "CURL"
    <3>1. ~ device[d].invalid /\ device[d].max = -1
      BY <1>8, <2>2 DEF SpentInv, UnlimitedFits
    <3>2. Reusable(dev)
      BY <3>1 DEF Reusable
    <3>3. d \notin Gone'
      BY <1>5, <1>8, <3>2 DEF Gone, gone
    <3> QED
      BY <1>3, <2>2, <3>1, <3>3 DEF UnlimitedFits
  <2> QED
    BY <2>1, <2>2
<1>11. ASSUME NEW e \in Devices, e # d PROVE KeptFits(e)' /\ UnlimitedFits(e)'
  <2>1. KeptFits(e) /\ UnlimitedFits(e)
    BY DEF SpentInv
  <2>2. /\ e \in Gone' <=> e \in Gone
        /\ device'[e] = device[e] /\ cached'[e] = cached[e]
        /\ deviceRequest'[e] = deviceRequest[e]
    BY <1>3, <1>4, <1>5, <1>6, <1>8, <1>11 DEF Gone
  <2>3. Count(inUse'["CURL"], e) = Count(inUse["CURL"], e)
    BY <1>7, <1>11 DEF Targets
  <2> QED
    BY <2>1, <2>2, <2>3, SpentKept
<1>12. pc' = where
  BY <1>0, Zenon DEF ResumeIn
<1>13. PurgedOK' /\ GoneOnce'
  BY <1>5, <1>12 DEF PurgedOK, GoneOnce
<1> QED
  BY <1>9, <1>10, <1>11, <1>13 DEF SpentInv

LEMMA PhaseSpent ==
  ASSUME TypeInv, LinksInv, SpentInv, NEW d \in Devices,
         Connected(d) \/ LostIdle(d)
  PROVE  SpentInv'
<1>0. device \in [Devices -> DeviceRecord]
  BY DEF TypeInv, TypeOK
<1>1. /\ d \notin freed /\ pc' \in {"wait", "notify"}
      /\ UNCHANGED <<inUse, cached, deviceRequest, zombies, freed>>
  BY DEF Connected, LostIdle, linkVars
<1>2. /\ \A e \in Devices : e # d => device'[e] = device[e]
      /\ device'[d].target = device[d].target
      /\ device'[d].tracked = device[d].tracked
      /\ ~ IsNew(d)
      /\ device[d].target = "CURL" => d \in Gone
  <2>1. CASE Connected(d)
    <3>1. device[d].phase = "connecting"
      BY <2>1 DEF Connected
    <3>2. device[d].target = "CURL" => d \in Gone
      BY <3>1 DEF SpentInv, UnlimitedFits
    <3> QED
      BY <1>0, <2>1, <3>1, <3>2 DEF Connected, DeviceRecord, IsNew
  <2>2. CASE LostIdle(d)
    BY <1>0, <2>2 DEF LostIdle, DeviceRecord, IsNew
  <2> QED
    BY <2>1, <2>2
<1>3. ASSUME NEW e \in Devices PROVE KeptFits(e)' /\ UnlimitedFits(e)'
  <2>1. KeptFits(e) /\ UnlimitedFits(e)
    BY DEF SpentInv
  <2>2. CASE e = d
    BY <1>1, <1>2, <2>1, <2>2 DEF KeptFits, UnlimitedFits, Gone, IsLinked
  <2>3. CASE e # d
    BY <1>1, <1>2, <2>1, <2>3, SpentKept DEF Gone
  <2> QED
    BY <2>2, <2>3
<1>4. PurgedOK' /\ GoneOnce'
  BY <1>1 DEF SpentInv, PurgedOK, GoneOnce
<1> QED
  BY <1>3, <1>4 DEF SpentInv

LEMMA ReturnSpent ==
  ASSUME LinksInv, SpentInv, Return
  PROVE  SpentInv'
<1>1. /\ pc = "return" /\ pc' = "wait"
      /\ UNCHANGED <<inUse, cached, deviceRequest, zombies, device>>
      /\ \/ freed' = freed
         \/ /\ device[frame].target = "PostgreSQL"
            /\ ~ device[frame].tracked /\ freed' = freed \cup {frame}
  BY DEF Return, linkVars
<1>2. frame \notin zombies
  BY <1>1 DEF SpentInv, GoneOnce
<1>3. PurgedOK' /\ GoneOnce'
  BY <1>1, <1>2 DEF SpentInv, PurgedOK, GoneOnce
<1>4. \A e \in Devices : e \in Gone' => e \in Gone \/ device[e].target # "CURL"
  BY <1>1 DEF Gone
<1> QED
  BY <1>1, <1>3, <1>4, SpentUnchanged DEF Gone

LEMMA NotifySpent ==
  ASSUME TypeInv, LinksInv, SpentInv, Notify
  PROVE  SpentInv'
<1>p. PICK d \in Devices : d = frame
  BY DEF TypeInv, FrameOK, Notify
<1>0. TypeOK
  BY DEF TypeInv
<1>1. /\ pc = "notify" /\ pc' = "wait" /\ d \notin freed
      /\ UNCHANGED <<device, freed>>
  BY <1>p DEF Notify
<1>2. device[d].phase = "lost" /\ deviceRequest[d] = NoRequest
  BY <1>p, <1>1 DEF LinksInv, ResumeOK, IsLinked
<1>3. device[d].target = "CURL" => d \in Gone
  BY <1>2 DEF SpentInv, UnlimitedFits
<1>4. CASE ~ (SanityCheck /\ References(d) > 0)
  <2>1. UNCHANGED <<cached, inUse, zombies, linkVars>>
    BY <1>p, <1>4, Zenon DEF Notify
  <2>2. PurgedOK' /\ GoneOnce'
    BY <1>1, <2>1 DEF SpentInv, PurgedOK, GoneOnce
  <2> QED
    BY <1>1, <2>1, <2>2, SpentUnchanged DEF Gone, linkVars
<1>5. CASE SanityCheck /\ References(d) > 0
  <2>1. /\ IF cached[d] > 0
           THEN cached' = [cached EXCEPT ![d] = @ - 1] /\ UNCHANGED inUse
           ELSE EraseInUse(d) /\ UNCHANGED cached
        /\ zombies' = zombies \cup {d}
        /\ UNCHANGED linkVars
    BY <1>p, <1>2, <1>5, Zenon DEF Notify
  <2>2. deviceRequest' = deviceRequest
    BY <2>1 DEF linkVars
  <2>3. \A e \in Devices : e # d => cached'[e] = cached[e]
    BY <1>0, <2>1 DEF TypeOK
  <2>4. \A e \in Devices : \/ Count(inUse'["CURL"], e) = Count(inUse["CURL"], e)
                           \/ e = d /\ Count(inUse["CURL"], e) # 0
    <3>1. CASE inUse' = inUse
      BY <3>1
    <3>2. CASE EraseInUse(d)
      <4>1. /\ inUse \in [Targets -> Seq(Devices)]
            /\ inUse' = [inUse EXCEPT ![device[d].target] = RemoveFirst(@, d)]
            /\ device[d].target \in Targets
        BY <1>0, <3>2, SlotTypes DEF TypeOK, EraseInUse
      <4>2. \A u \in Targets, e \in Devices :
              Count(inUse'[u], e)
                = IF u = device[d].target /\ e = d /\ Count(inUse[u], e) # 0
                  THEN Count(inUse[u], e) - 1 ELSE Count(inUse[u], e)
        BY <4>1, SlotErase
      <4> QED
        BY <4>2 DEF Targets
    <3> QED
      BY <2>1, <3>1, <3>2
  <2>5. Gone' = Gone \cup {d}
    BY <1>1, <2>1 DEF Gone
  <2>6. ASSUME NEW e \in Devices PROVE KeptFits(e)' /\ UnlimitedFits(e)'
    <3>1. KeptFits(e) /\ UnlimitedFits(e)
      BY DEF SpentInv
    <3>2. CASE e = d
      <4>1. device[d].target = "CURL" => Count(inUse["CURL"], d) = 0
        BY <1>3, <3>1, <3>2 DEF UnlimitedFits
      <4>2. device[d].target = "CURL" => Count(inUse'["CURL"], d) = 0
        BY <2>4, <4>1
      <4> QED
        BY <1>1, <2>5, <3>2, <4>2 DEF KeptFits, UnlimitedFits
    <3>3. CASE e # d
      BY <1>1, <2>2, <2>3, <2>4, <2>5, <3>1, <3>3, SpentKept
    <3> QED
      BY <3>2, <3>3
  <2>7. PurgedOK' /\ GoneOnce'
    BY <1>1, <2>1 DEF SpentInv, PurgedOK, GoneOnce
  <2> QED
    BY <2>6, <2>7 DEF SpentInv
<1> QED
  BY <1>4, <1>5


-----------------------------------------------------------------------------
(* The invariant holds.                                                    *)

LEMMA SpentInit == Init => SpentInv
<1> SUFFICES ASSUME Init PROVE SpentInv
  OBVIOUS
<1>1. ASSUME NEW d \in Devices PROVE KeptFits(d) /\ UnlimitedFits(d)
  BY DEF Init, KeptFits, UnlimitedFits, IsNew, Unallocated
<1>2. PurgedOK /\ GoneOnce
  BY DEF Init, PurgedOK, GoneOnce
<1> QED
  BY <1>1, <1>2 DEF SpentInv

\* A device whose connection is being made is not one of CURL.
LEMMA ConnectingIsLimited ==
  ASSUME TypeInv, LinksInv, SpentInv, NEW d \in Devices, d \notin freed,
         device[d].phase = "connecting"
  PROVE  device[d].target # "CURL"
<1>1. IsLinked(d)
  BY DEF LinksInv, DeviceOK, CallbackFits, IsLinked
<1>2. d \notin Gone
  BY <1>1 DEF LinksInv, DeviceOK, GoneFits, Gone
<1> QED
  BY <1>2 DEF SpentInv, UnlimitedFits

LEMMA SpentStep ==
  TypeInv /\ LinksInv /\ SpentInv /\ [Next]_vars => SpentInv'
<1> SUFFICES ASSUME TypeInv, LinksInv, SpentInv, [Next]_vars PROVE SpentInv'
  OBVIOUS
<1>0. TypeInv' /\ TypeOK /\ LinksInv'
  BY TypeStep, LinksStep DEF TypeInv
<1>1. CASE \/ MainNext \/ PushDone \/ PushTrackDeleted \/ NotifyDeleted
           \/ Terminated \/ UNCHANGED vars
  BY <1>1, QuietSpent
<1>2. CASE ReadNext
  BY <1>2, ReadSpent DEF ReadNext
<1>3. CASE PushInvalidate
  BY <1>0, <1>3, PushInvalidateSpent
<1>4. CASE PushTrack
  BY <1>0, <1>4, PushTrackSpent
<1>5. ASSUME MayTake, NEW d \in Devices,
             NEW max \in MaxReuse[Target[Candidate]],
             \/ PushConnecting(d, max)
             \/ PushExecuting(d, max)
             \/ PushExecuteError(d, max)
             \/ PushConnectError(d, max)
      PROVE  SpentInv'
  <2>1. CASE PushConnecting(d, max) \/ PushExecuting(d, max)
    BY <1>0, <1>5, <2>1, PushSpent
  <2>2. CASE PushExecuteError(d, max)
    BY <1>0, <1>5, <2>2, PushExecuteErrorSpent
  <2>3. CASE PushConnectError(d, max)
    BY <1>0, <1>5, <2>3, PushConnectErrorSpent
  <2> QED
    BY <1>5, <2>1, <2>2, <2>3
<1>6. CASE Return \/ Notify
  BY <1>6, ReturnSpent, NotifySpent
<1>7. ASSUME NEW d \in Devices, Settles(d) \/ LostIdle(d) PROVE SpentInv'
  <2>0. device[d] \in DeviceRecord
    BY <1>0 DEF TypeOK
  <2>1. CASE Connected(d) \/ LostIdle(d)
    BY <2>1, PhaseSpent
  <2>2. CASE ConnectedExecuteError(d)
    <3> DEFINE dev == [device[d] EXCEPT !.phase = "open", !.uses = @ + 1,
                                        !.owner = NoRequest]
    <3>1. dev \in DeviceRecord
      BY <2>0, DeviceUsed DEF Phases
    <3>2. /\ dev.phase = "open" /\ dev.target = device[d].target
          /\ dev.invalid = device[d].invalid /\ dev.max = device[d].max
      BY <2>0 DEF DeviceRecord
    <3>3. /\ d \notin freed /\ device[d].phase = "connecting"
          /\ Settle(d, dev, "delete") /\ ResumeIn(d, "return")
      BY <2>2 DEF ConnectedExecuteError
    <3> HIDE DEF dev
    <3> QED
      BY <1>0, <3>1, <3>2, <3>3, SettleSpent
  <2>3. CASE ConnectFailed(d) \/ LostExecuting(d)
    <3> DEFINE dev == [device[d] EXCEPT !.phase = "lost", !.owner = NoRequest]
    <3>1. /\ dev \in DeviceRecord /\ dev.target = device[d].target
          /\ dev.invalid = device[d].invalid /\ dev.max = device[d].max
      BY <2>0 DEF DeviceRecord, Phases
    <3>2. /\ d \notin freed
          /\ device[d].phase \in {"connecting", "executing"}
          /\ Settle(d, dev, "delete") \/ Settle(d, dev, "untrack")
          /\ ResumeIn(d, "notify")
      BY <2>3 DEF ConnectFailed, LostExecuting
    <3>3. device[d].target # "CURL"
      BY <2>3, ConnectingIsLimited DEF ConnectFailed, LostExecuting
    <3> HIDE DEF dev
    <3> QED
      BY <1>0, <3>1, <3>2, <3>3, SettleSpent
  <2>4. CASE Reply(d)
    <3> DEFINE dev == [device[d] EXCEPT !.phase = "open", !.owner = NoRequest]
    <3>1. /\ dev \in DeviceRecord
          /\ dev.phase = "open" /\ dev.target = device[d].target
          /\ dev.invalid = device[d].invalid /\ dev.max = device[d].max
      BY <2>0 DEF DeviceRecord, Phases
    <3>2. /\ d \notin freed /\ device[d].phase = "executing"
          /\ Settle(d, dev, "untrack") /\ ResumeIn(d, "return")
      BY <2>4 DEF Reply
    <3> HIDE DEF dev
    <3> QED
      BY <1>0, <3>1, <3>2, SettleSpent
  <2> QED
    BY <1>7, <2>1, <2>2, <2>3, <2>4 DEF Settles
<1> QED
  BY <1>1, <1>2, <1>3, <1>4, <1>5, <1>6, <1>7
     DEF Next, HubNext, PushNext, ResumeNext, DeviceNext

LEMMA DevicesHold == Spec => [](TypeInv /\ LinksInv /\ SpentInv)
BY TypeInit, TypeStep, LinksInit, LinksStep, SpentInit, SpentStep, PTL DEF Spec

\* Nothing the handler refers to was deleted: no entry of its vectors, no
\* linked device, no zombie.  The assumption is the code's: hiredis refuses a
\* command only on a connection that is being closed (redis/device.cc:173),
\* which no cached device has.
THEOREM NothingDangles ==
  ASSUME "Redis" \notin ExecuteErrors
  PROVE  Spec => []NoDangling
<1>1. TypeInv /\ LinksInv /\ SpentInv => NoDangling
  <2> SUFFICES ASSUME TypeInv, LinksInv, SpentInv, NEW d \in freed
               PROVE  /\ References(d) = 0
                      /\ deviceRequest[d] = NoRequest /\ d \notin zombies
    BY DEF NoDangling
  <2>0. d \in Devices /\ TypeOK /\ d \in Gone
    BY DEF TypeInv, TypeOK, Gone
  <2>1. cached[d] = 0 /\ ~ IsLinked(d) /\ d \notin zombies
    BY <2>0 DEF LinksInv, DeviceOK, GoneFits, SpentInv, GoneOnce
  <2>2. Count(inUse[device[d].target], d) = 0
    <3>1. /\ device[d].target \in Targets
          /\ Count(inUse[device[d].target], d) \in Nat
      BY <2>0, SlotTypes
    <3>2. CASE device[d].target = "CURL"
      BY <2>0, <3>2 DEF SpentInv, UnlimitedFits
    <3>3. CASE device[d].target # "CURL"
      <4>1. ~ Leaks(device[d].target)
        BY <3>1, <3>3 DEF Leaks, Targets
      <4> QED
        BY <2>0, <2>1, <3>1, <4>1 DEF LinksInv, DeviceOK, SlotFits
    <3> QED
      BY <3>2, <3>3
  <2> QED
    BY <2>1, <2>2 DEF References, IsLinked
<1> QED
  BY <1>1, DevicesHold, PTL

-----------------------------------------------------------------------------
(* What a step may not do.                                                 *)

\* Only the two actions of Push that link a device give it a request.
LEMMA OnlyPushLinks ==
  ASSUME TypeOK, [Next]_vars, NEW d \in Devices,
         deviceRequest'[d] \notin {NoRequest, deviceRequest[d]}
  PROVE  /\ MayTake
         /\ \E max \in MaxReuse[Target[Candidate]] :
              PushConnecting(d, max) \/ PushExecuting(d, max)
<1>1. ASSUME NEW r, Unlink(r) PROVE FALSE
  BY <1>1 DEF Unlink
<1>2. deviceRequest' # deviceRequest
  OBVIOUS
<1>3. ~ UNCHANGED vars
  BY <1>2 DEF vars
<1>4. ASSUME MainNext \/ ReadNext \/ Terminated PROVE FALSE
  BY <1>2, <1>3, <1>4 DEF MainNext, Send, Deliver, ReadNext, StartRead, Receive,
                          EndRead, Terminated, linkVars
<1>5. ASSUME ResumeNext PROVE FALSE
  <2>1. CASE Return \/ NotifyDeleted
    BY <1>2, <2>1 DEF Return, NotifyDeleted, linkVars
  <2>2. CASE Notify
    <3>1. deviceRequest' = deviceRequest \/ Unlink(deviceRequest[frame])
      BY <2>2, Zenon DEF Notify, linkVars
    <3> QED
      BY <1>1, <1>2, <3>1
  <2> QED
    BY <1>5, <2>1, <2>2 DEF ResumeNext
<1>6. ASSUME DeviceNext PROVE FALSE
  <2> PICK e \in Devices : Settles(e) \/ LostIdle(e)
    BY <1>6 DEF DeviceNext
  <2>1. \/ deviceRequest' = deviceRequest
        \/ Unlink(device[e].owner)
    BY DEF Settles, Connected, LostIdle, ConnectedExecuteError, ConnectFailed,
           Reply, LostExecuting, Settle, linkVars
  <2> QED
    BY <1>1, <1>2, <2>1
<1>7. ASSUME \/ PushDone \/ PushInvalidate \/ PushTrack \/ PushTrackDeleted
      PROVE  FALSE
  BY <1>1, <1>2, <1>7
     DEF PushDone, PushInvalidate, PushTrack, PushTrackDeleted, linkVars
<1>8. /\ MayTake
      /\ \E e \in Devices, max \in MaxReuse[Target[Candidate]] :
           \/ PushConnecting(e, max) \/ PushExecuting(e, max)
           \/ PushExecuteError(e, max) \/ PushConnectError(e, max)
  BY <1>3, <1>4, <1>5, <1>6, <1>7 DEF Next, HubNext, PushNext
<1> PICK e \in Devices, max \in MaxReuse[Target[Candidate]] :
           \/ PushConnecting(e, max) \/ PushExecuting(e, max)
           \/ PushExecuteError(e, max) \/ PushConnectError(e, max)
  BY <1>8
<1>9. ~ PushConnectError(e, max)
  BY <1>1 DEF PushConnectError
<1>10. e = d
  <2>1. \/ Link(Candidate, e)
        \/ deviceRequest' = [deviceRequest EXCEPT ![e] = NoRequest]
    BY <1>9 DEF PushConnecting, PushExecuting, PushExecuteError
  <2> QED
    BY <2>1 DEF Link, TypeOK
<1>11. ~ PushExecuteError(e, max)
  BY <1>10 DEF PushExecuteError, TypeOK
<1> QED
  BY <1>8, <1>9, <1>10, <1>11

\* A request is only ever given a device that is new or may still be reused:
\* not an invalidated one, and not one that has run its last query.
THEOREM OnlyReusable == Spec => OnlyReusableGiven
<1>1. ASSUME TypeInv, SpentInv, [Next]_vars, NEW d \in Devices,
             deviceRequest[d] = NoRequest, deviceRequest'[d] # NoRequest
      PROVE  IsNew(d) \/ Reusable(device[d])
  <2>1. MayTake /\ Picks(d)
    BY <1>1, OnlyPushLinks DEF TypeInv, PushConnecting, PushExecuting
  <2>2. IsNew(d) \/ cached[d] > 0
    BY <2>1 DEF Picks, CachedFor
  <2> QED
    BY <1>1, <2>1, <2>2 DEF SpentInv, PurgedOK, MayTake
<1>2. TypeInv /\ SpentInv /\ [Next]_vars =>
        [\A d \in Devices :
           deviceRequest[d] = NoRequest /\ deviceRequest'[d] # NoRequest =>
             IsNew(d) \/ Reusable(device[d])]_vars
  BY <1>1
<1> QED
  BY <1>2, DevicesHold, PTL DEF Spec, OnlyReusableGiven

\* What ends another request leaves an invalidation where it is.
LEMMA FinishSpares ==
  ASSUME TypeInv, TypeInv', LinksInv', NEW r \in Requests,
         finished[r] = 0, posted[r] = 0,
         NEW q \in Requests, q # r, NEW deleted, FinishAndPublish(q, deleted)
  PROVE  finished'[r] = 0 /\ posted'[r] = 0
<1>1. SanityCheck'
  BY NextSane DEF TypeInv
<1> QED
  BY <1>1, FinishEffect DEF TypeInv

LEMMA OnlyInvalidateFinishes ==
  ASSUME TypeInv, LinksInv, [Next]_vars, NEW r \in Invalidates,
         finished[r] = 0, posted[r] = 0, finished'[r] + posted'[r] > 0
  PROVE  PushInvalidate
<1>0. /\ TypeInv' /\ LinksInv' /\ TypeOK /\ r \in Requests
  BY TypeStep, LinksStep, HandlerAssumption DEF TypeInv
<1>1. ~ (finished'[r] = 0 /\ posted'[r] = 0)
  OBVIOUS
<1>2. ASSUME UNCHANGED <<finished, posted>> PROVE FALSE
  BY <1>1, <1>2
<1>3. CASE MainNext \/ ReadNext \/ Terminated \/ UNCHANGED vars
  <2>1. UNCHANGED <<finished, posted>> \/ \E q \in Requests : Deliver(q)
    BY <1>3 DEF MainNext, Send, ReadNext, StartRead, Receive, EndRead,
                Terminated, vars
  <2>2. PICK q \in Requests : Deliver(q)
    BY <1>2, <2>1
  <2>3. finished' = finished /\ posted[q] > 0
        /\ posted' = [posted EXCEPT ![q] = @ - 1]
    BY <2>2 DEF Deliver
  <2> QED
    BY <1>0, <1>1, <2>3 DEF TypeOK
<1>4. CASE ResumeNext
  <2>1. CASE Return \/ NotifyDeleted
    BY <1>2, <2>1 DEF Return, NotifyDeleted
  <2>2. CASE Notify
    <3>1. deviceRequest[frame] = NoRequest
      BY <2>2 DEF LinksInv, ResumeOK, IsLinked, Notify
    <3>2. UNCHANGED <<finished, posted>>
      BY <2>2, <3>1, Zenon DEF Notify
    <3> QED
      BY <1>2, <3>2
  <2> QED
    BY <1>4, <2>1, <2>2 DEF ResumeNext
<1>5. CASE DeviceNext
  <2>1. PICK d \in Devices : Settles(d) \/ LostIdle(d)
    BY <1>5 DEF DeviceNext
  <2>2. CASE Connected(d) \/ LostIdle(d)
    BY <1>2, <2>2 DEF Connected, LostIdle
  <2>3. CASE \/ ConnectedExecuteError(d) \/ ConnectFailed(d) \/ Reply(d)
             \/ LostExecuting(d)
    <3>1. /\ d \notin freed /\ device[d].phase \in {"connecting", "executing"}
          /\ \E deleted : FinishAndPublish(device[d].owner, deleted)
      BY <2>3 DEF ConnectedExecuteError, ConnectFailed, Reply, LostExecuting,
                  Settle
    <3>2. IsLinked(d) /\ device[d].owner = deviceRequest[d]
      BY <3>1 DEF LinksInv, DeviceOK, CallbackFits, IsLinked
    <3>3. device[d].owner \in Requests /\ device[d].owner # r
      BY <1>0, <3>2 DEF LinksInv, DeviceOK, LinkFits, IsLinked, TypeOK
    <3> QED
      BY <1>0, <1>1, <3>1, <3>3, FinishSpares
  <2> QED
    BY <2>1, <2>2, <2>3 DEF Settles
<1>6. CASE PushDone \/ PushTrack \/ PushTrackDeleted
  <2>1. CASE PushTrack \/ PushTrackDeleted
    BY <1>2, <2>1 DEF PushTrack, PushTrackDeleted
  <2>2. CASE PushDone
    BY <1>0, <1>1, <2>2 DEF PushDone
  <2> QED
    BY <1>6, <2>1, <2>2
<1>7. ASSUME MayTake, NEW d \in Devices,
             NEW max \in MaxReuse[Target[Candidate]],
             \/ PushConnecting(d, max) \/ PushExecuting(d, max)
             \/ PushExecuteError(d, max) \/ PushConnectError(d, max)
      PROVE  FALSE
  <2>1. CASE PushConnecting(d, max) \/ PushExecuting(d, max)
    BY <1>2, <2>1 DEF PushConnecting, PushExecuting
  <2>2. CASE PushExecuteError(d, max) \/ PushConnectError(d, max)
    <3>1. Candidate \in Requests
      BY <1>0, <1>7, CandidateType
    <3>2. /\ Candidate \notin Invalidates
          /\ \E deleted : FinishAndPublish(Candidate, deleted)
      BY <2>2 DEF PushExecuteError, PushConnectError
    <3> QED
      BY <1>0, <1>1, <3>1, <3>2, FinishSpares
  <2> QED
    BY <1>7, <2>1, <2>2
<1> QED
  BY <1>3, <1>4, <1>5, <1>6, <1>7 DEF Next, HubNext, PushNext

\* When an invalidation completes, every connection of its target that exists
\* is marked or deleted, those running a request included: no device that is
\* tracked is outside the vectors InvalidateDevices goes through.
THEOREM InvalidationComplete == Spec => InvalidationReachesAll
<1>1. ASSUME TypeInv, LinksInv, SpentInv, [Next]_vars, NEW r \in Invalidates,
             finished[r] + posted[r] = 0, finished'[r] + posted'[r] > 0,
             NEW d \in Devices, device[d].target = Target[r], ~ IsNew(d)
      PROVE  device'[d].invalid \/ ~ device'[d].tracked \/ d \in freed'
  <2>0. TypeOK /\ TypeInv' /\ LinksInv' /\ r \in Requests
    BY <1>1, TypeStep, LinksStep, HandlerAssumption DEF TypeInv
  <2>1. finished[r] = 0 /\ posted[r] = 0
    <3>1. finished[r] \in Nat /\ posted[r] \in Nat
      BY <2>0 DEF TypeOK
    <3> QED
      BY <1>1, <3>1
  <2>2. PushInvalidate
    BY <1>1, <2>1, OnlyInvalidateFinishes
  <2>3. Candidate \in Requests /\ Candidate \in Invalidates /\ SanityCheck'
    BY <2>0, <2>2, CandidateType, NextSane DEF PushInvalidate, TypeInv
  <2>4. \E deleted : freed' = freed \cup deleted \cup zombies
    <3>1. PICK deleted : FinishAndPublish(Candidate, deleted)
      BY <2>2 DEF PushInvalidate
    <3>2. freed' = freed \cup deleted \cup zombies
      BY <2>0, <2>3, <3>1, FinishEffect
    <3> QED
      BY <3>2
  <2>5. CASE d \in Gone
    BY <2>4, <2>5 DEF Gone
  <2>6. CASE d \notin Gone
    <3>1. device'[d] =
            [device[d] EXCEPT !.invalid = @ \/ d \in DevicesOf(Target[Candidate])]
      BY <2>2 DEF PushInvalidate
    <3>2. /\ device'[d].tracked = device[d].tracked
          /\ d \in DevicesOf(Target[Candidate]) => device'[d].invalid
      BY <2>0, <3>1 DEF TypeOK, DeviceRecord
    <3>3. CASE ~ device[d].tracked
      BY <3>2, <3>3
    <3>4. CASE device[d].tracked
      <4>1. cached[d] > 0 \/ IsLinked(d)
        BY <1>1, <2>6, <3>4 DEF SpentInv, KeptFits
      <4>2. IsLinked(d) => Count(inUse[device[d].target], d) >= 1
        BY <1>1 DEF LinksInv, DeviceOK, SlotFits
      <4>3. cached[d] \in Nat /\ Count(inUse[device[d].target], d) \in Nat
        BY <2>0, SlotTypes
      <4>4. References(d) > 0
        BY <4>1, <4>2, <4>3 DEF References
      <4>5. Target[Candidate] = device[d].target
        BY <1>1, <2>3, HandlerAssumption
      <4> QED
        BY <3>2, <4>4, <4>5 DEF DevicesOf
    <3> QED
      BY <3>3, <3>4
  <2> QED
    BY <2>5, <2>6
<1>2. TypeInv /\ LinksInv /\ SpentInv /\ [Next]_vars =>
        [\A r \in Invalidates :
           finished[r] + posted[r] = 0 /\ finished'[r] + posted'[r] > 0 =>
             \A d \in Devices :
               device[d].target = Target[r] /\ ~IsNew(d) =>
                 device'[d].invalid \/ ~device'[d].tracked \/ d \in freed']_vars
  BY <1>1
<1> QED
  BY <1>2, DevicesHold, PTL DEF Spec, InvalidationReachesAll

-----------------------------------------------------------------------------
(* Without limits of uses, which is how the connectors are configured by   *)
(* default (shared_glue.cc:181-228), and while nobody sends the signal for *)
(* an invalidation (signals.cc), no device is deleted under a function of  *)
(* its own that goes on, and no exception of the handler is thrown.        *)

NoLimits ==
  /\ \A t \in Targets : MaxReuse[t] \subseteq {-1}
  /\ Invalidates = {}

\* Every device stays reusable, and one whose loss is to be reported is cached.
FrameInv ==
  /\ \A d \in Devices :
       /\ ~device[d].invalid /\ device[d].max = -1 /\ device[d].tracked
       /\ d \in zombies => device[d].phase = "lost"
  /\ pc \in {"return", "notify"} => frame \notin freed
  /\ pc = "notify" => cached[frame] > 0

\* A device that Push takes stays reusable.
LEMMA FramePush ==
  ASSUME NoLimits, TypeInv, TypeInv', LinksInv, LinksInv', FrameInv, MayTake,
         NEW d \in Devices, NEW max \in MaxReuse[Target[Candidate]],
         \/ PushConnecting(d, max) \/ PushExecuting(d, max)
         \/ PushExecuteError(d, max) \/ PushConnectError(d, max)
  PROVE  FrameInv'
<1>0. /\ TypeOK /\ SanityCheck' /\ Candidate \in Requests
      /\ Target[Candidate] \in Targets
  BY CandidateType, NextSane, HandlerAssumption DEF TypeInv
<1>1. Picks(d)
  BY DEF PushConnecting, PushExecuting, PushExecuteError, PushConnectError
<1>2. d \notin zombies
  BY <1>0, <1>1, PickFacts DEF LinksInv
<1>3. /\ SetUp(d, max) \in DeviceRecord
      /\ ~ SetUp(d, max).invalid /\ SetUp(d, max).max = -1
      /\ SetUp(d, max).tracked
  <2>1. SetUp(d, max) \in DeviceRecord
    BY <1>0, SetUpType
  <2>2. max = -1
    BY <1>0 DEF NoLimits
  <2> QED
    BY <2>1, <2>2 DEF SetUp, Unallocated, FrameInv
<1>4. /\ \A e \in Devices : e # d => device'[e] = device[e]
      /\ ~ device'[d].invalid /\ device'[d].max = -1 /\ device'[d].tracked
  <2>1. device \in [Devices -> DeviceRecord]
    BY <1>0 DEF TypeOK
  <2>2. CASE PushConnecting(d, max)
    BY <1>3, <2>1, <2>2 DEF PushConnecting, DeviceRecord
  <2>3. CASE PushExecuting(d, max)
    BY <1>3, <2>1, <2>3 DEF PushExecuting, DeviceRecord
  <2>4. CASE PushExecuteError(d, max)
    BY <1>3, <2>1, <2>4 DEF PushExecuteError, DeviceRecord
  <2>5. CASE PushConnectError(d, max)
    BY <1>3, <2>1, <2>5 DEF PushConnectError, DeviceRecord
  <2> QED
    BY <2>2, <2>3, <2>4, <2>5
<1>5. zombies' \subseteq zombies
  <2>1. CASE PushConnecting(d, max) \/ PushExecuting(d, max)
    BY <2>1 DEF PushConnecting, PushExecuting
  <2>2. CASE PushExecuteError(d, max) \/ PushConnectError(d, max)
    <3>1. \E deleted : FinishAndPublish(Candidate, deleted)
      BY <2>2 DEF PushExecuteError, PushConnectError
    <3> QED
      BY <1>0, <3>1, FinishEffect
  <2> QED
    BY <2>1, <2>2
<1>6. pc' \notin {"return", "notify"}
  <2>1. CASE PushConnecting(d, max) \/ PushExecuting(d, max)
    <3>1. Track(Target[Candidate], d)
      BY <2>1 DEF PushConnecting, PushExecuting
    <3> QED
      BY <1>0, <3>1, TrackType
  <2>2. CASE PushExecuteError(d, max)
    BY <1>0, <2>2, Zenon DEF PushExecuteError
  <2>3. CASE PushConnectError(d, max)
    BY <1>0, <2>3, Zenon DEF PushConnectError
  <2> QED
    BY <2>1, <2>2, <2>3
<1> QED
  BY <1>2, <1>4, <1>5, <1>6 DEF FrameInv

\* A device that settles is cached, and not deleted.
LEMMA FrameSettle ==
  ASSUME TypeInv, TypeInv', LinksInv, LinksInv', FrameInv,
         NEW d \in Devices, d \notin freed,
         device[d].phase \in {"connecting", "executing"},
         NEW dev \in DeviceRecord, NEW spent, NEW where,
         dev.invalid = device[d].invalid, dev.max = device[d].max,
         dev.tracked = device[d].tracked,
         Settle(d, dev, spent), ResumeIn(d, where)
  PROVE  FrameInv' /\ UNCHANGED fatal
<1>0. TypeOK /\ SanityCheck' /\ Reusable(dev)
  BY NextSane DEF TypeInv, FrameInv, Reusable
<1>1. device[d].owner \in Requests /\ d \notin zombies
  <2>1. CallbackFits(d) /\ GoneFits(d)
    BY DEF LinksInv, DeviceOK
  <2> QED
    BY <1>0, <2>1 DEF CallbackFits, GoneFits, IsLinked, TypeOK
<1>2. FinishAndPublish(device[d].owner, {})
  BY <1>0 DEF Settle
<1>3. freed' = freed \cup zombies /\ zombies' = {} /\ fatal' = fatal
  BY <1>0, <1>1, <1>2, FinishEffect
<1>4. /\ frame' = d
      /\ cached'[d] > 0
  <2>1. frame' = d
    BY <1>0, Zenon DEF ResumeIn
  <2>2. cached' = [cached EXCEPT ![d] = @ + 1]
    BY <1>0 DEF Settle
  <2> QED
    BY <1>0, <2>1, <2>2 DEF TypeOK
<1>5. device' = [device EXCEPT ![d] = dev]
  BY <1>0 DEF Settle
<1> QED
  BY <1>0, <1>1, <1>3, <1>4, <1>5 DEF FrameInv, TypeOK

LEMMA FrameStep ==
  ASSUME NoLimits
  PROVE  TypeInv /\ LinksInv /\ SpentInv /\ FrameInv /\ [Next]_vars => FrameInv'
<1> SUFFICES ASSUME TypeInv, LinksInv, SpentInv, FrameInv, [Next]_vars
             PROVE  FrameInv'
  OBVIOUS
<1>0. TypeInv' /\ TypeOK /\ LinksInv'
  BY TypeStep, LinksStep DEF TypeInv
<1>1. CASE MainNext \/ Terminated \/ UNCHANGED vars
  BY <1>1 DEF MainNext, Send, Deliver, Terminated, vars, controlVars, FrameInv
<1>2. CASE ReadNext
  BY <1>2 DEF ReadNext, StartRead, Receive, EndRead, BeginPush, FrameInv
<1>3. ASSUME PushInvalidate PROVE FALSE
  BY <1>3 DEF PushInvalidate, NoLimits
<1>4. CASE PushDone \/ PushTrackDeleted
  BY <1>4 DEF PushDone, PushTrackDeleted, FrameInv
<1>5. CASE PushTrack
  <2>1. /\ UNCHANGED <<device, zombies>>
        /\ \E t \in Targets, d \in Devices : Track(t, d)
    <3>1. frame \in Devices /\ current \in Requests
      BY <1>5 DEF TypeInv, FrameOK, PushTrack
    <3> QED
      BY <1>5, <3>1, HandlerAssumption DEF PushTrack
  <2>2. pc' \in {"push", "read", "stopped"}
    BY <1>0, <2>1, TrackType
  <2> QED
    BY <2>1, <2>2 DEF FrameInv
<1>6. ASSUME MayTake, NEW d \in Devices,
             NEW max \in MaxReuse[Target[Candidate]],
             \/ PushConnecting(d, max) \/ PushExecuting(d, max)
             \/ PushExecuteError(d, max) \/ PushConnectError(d, max)
      PROVE  FrameInv'
  BY <1>0, <1>6, FramePush
<1>7. CASE Return \/ NotifyDeleted
  BY <1>7 DEF Return, NotifyDeleted, FrameInv
<1>8. CASE Notify
  <2>1. /\ pc' = "wait" /\ device' = device
        /\ zombies' \subseteq zombies \cup {frame}
    BY <1>8, Zenon DEF Notify
  <2>2. device[frame].phase = "lost"
    BY <1>8 DEF LinksInv, ResumeOK, Notify
  <2> QED
    BY <2>1, <2>2 DEF FrameInv
<1>9. ASSUME NEW d \in Devices, Settles(d) \/ LostIdle(d) PROVE FrameInv'
  <2>0. device[d] \in DeviceRecord
    BY <1>0 DEF TypeOK
  <2>1. d \notin freed /\ device[d].phase \in {"connecting", "executing"}
          => d \notin zombies
    BY DEF FrameInv
  <2>2. CASE Connected(d)
    <3>1. /\ device[d].phase = "connecting" /\ pc' = "wait"
          /\ d \notin freed /\ zombies' = zombies
          /\ device' = [device EXCEPT ![d].phase = "executing",
                                      ![d].uses = @ + 1]
      BY <2>2 DEF Connected
    <3> QED
      BY <1>0, <2>0, <2>1, <3>1 DEF FrameInv, TypeOK, DeviceRecord
  <2>3. CASE LostIdle(d)
    <3>1. /\ device[d].phase = "open" /\ pc' = "notify" /\ frame' = d
          /\ d \notin freed /\ UNCHANGED <<zombies, freed, cached>>
          /\ device' = [device EXCEPT ![d].phase = "lost"]
      BY <2>3 DEF LostIdle
    <3>2. d \notin zombies /\ device[d].tracked /\ ~ IsNew(d)
      BY <3>1 DEF FrameInv, IsNew
    <3>3. ~ IsLinked(d)
      BY <3>1 DEF LinksInv, DeviceOK, CallbackFits, IsLinked
    <3>4. cached[d] > 0
      BY <3>1, <3>2, <3>3 DEF SpentInv, KeptFits, Gone
    <3> QED
      BY <1>0, <2>0, <3>1, <3>4 DEF FrameInv, TypeOK, DeviceRecord
  <2>4. CASE ConnectedExecuteError(d)
    <3> DEFINE dev == [device[d] EXCEPT !.phase = "open", !.uses = @ + 1,
                                        !.owner = NoRequest]
    <3>1. dev \in DeviceRecord
      BY <2>0, DeviceUsed DEF Phases
    <3>2. /\ dev.invalid = device[d].invalid /\ dev.max = device[d].max
          /\ dev.tracked = device[d].tracked
      BY <2>0 DEF DeviceRecord
    <3>3. /\ d \notin freed /\ device[d].phase = "connecting"
          /\ Settle(d, dev, "delete") /\ ResumeIn(d, "return")
      BY <2>4 DEF ConnectedExecuteError
    <3> HIDE DEF dev
    <3> QED
      BY <1>0, <3>1, <3>2, <3>3, FrameSettle
  <2>5. CASE ConnectFailed(d) \/ LostExecuting(d)
    <3> DEFINE dev == [device[d] EXCEPT !.phase = "lost", !.owner = NoRequest]
    <3>1. /\ dev \in DeviceRecord /\ dev.tracked = device[d].tracked
          /\ dev.invalid = device[d].invalid /\ dev.max = device[d].max
      BY <2>0 DEF DeviceRecord, Phases
    <3>2. /\ d \notin freed
          /\ device[d].phase \in {"connecting", "executing"}
          /\ \E spent : Settle(d, dev, spent)
          /\ ResumeIn(d, "notify")
      BY <2>5 DEF ConnectFailed, LostExecuting
    <3> HIDE DEF dev
    <3> QED
      BY <1>0, <3>1, <3>2, FrameSettle
  <2>6. CASE Reply(d)
    <3> DEFINE dev == [device[d] EXCEPT !.phase = "open", !.owner = NoRequest]
    <3>1. /\ dev \in DeviceRecord /\ dev.tracked = device[d].tracked
          /\ dev.invalid = device[d].invalid /\ dev.max = device[d].max
      BY <2>0 DEF DeviceRecord, Phases
    <3>2. /\ d \notin freed /\ device[d].phase = "executing"
          /\ Settle(d, dev, "untrack") /\ ResumeIn(d, "return")
      BY <2>6 DEF Reply
    <3> HIDE DEF dev
    <3> QED
      BY <1>0, <3>1, <3>2, FrameSettle
  <2> QED
    BY <1>9, <2>2, <2>3, <2>4, <2>5, <2>6 DEF Settles
<1> QED
  BY <1>1, <1>2, <1>3, <1>4, <1>5, <1>6, <1>7, <1>8, <1>9
     DEF Next, HubNext, PushNext, ResumeNext, DeviceNext

LEMMA FrameInit == Init => FrameInv
BY DEF Init, FrameInv, Unallocated

\* The function of a device that goes on behind a callback of the handler has
\* not lost its object, while connections have no limit of uses and are not
\* invalidated: neither a failed connection nor a lost one is deleted before
\* the listener was told.
THEOREM FrameStaysAlive ==
  ASSUME NoLimits
  PROVE  Spec => []FrameAlive
<1>1. TypeInv /\ LinksInv /\ SpentInv /\ FrameInv /\ [Next]_vars => FrameInv'
  BY FrameStep
<1>2. FrameInv => FrameAlive
  BY DEF FrameInv, FrameAlive
<1> QED
  BY <1>1, <1>2, FrameInit, DevicesHold, PTL DEF Spec

LEMMA FatalStep ==
  ASSUME NoLimits, ExecuteErrors \subseteq {"PostgreSQL"}, TypeInv, LinksInv,
         FrameInv, [Next]_vars
  PROVE  UNCHANGED fatal
<1>0. TypeInv' /\ TypeOK /\ LinksInv' /\ SanityCheck'
  BY TypeStep, LinksStep, NextSane DEF TypeInv
<1>1. CASE MainNext \/ ReadNext \/ Terminated \/ UNCHANGED vars
  BY <1>1 DEF MainNext, Send, Deliver, ReadNext, StartRead, Receive, EndRead,
              Terminated, vars
<1>2. pc # "track"
  BY DEF LinksInv, TrackOK, Leaks
<1>3. CASE PushNext
  <2>1. ~ PushInvalidate
    BY DEF PushInvalidate, NoLimits
  <2>2. ~ PushTrack /\ ~ PushTrackDeleted
    BY <1>2 DEF PushTrack, PushTrackDeleted
  <2>3. CASE PushDone
    BY <2>3 DEF PushDone
  <2>4. ASSUME MayTake, NEW d \in Devices,
               NEW max \in MaxReuse[Target[Candidate]],
               \/ PushConnecting(d, max) \/ PushExecuting(d, max)
               \/ PushExecuteError(d, max) \/ PushConnectError(d, max)
        PROVE  UNCHANGED fatal
    <3>1. Candidate \in Requests
      BY <1>0, <2>4, CandidateType
    <3>2. ~ PushExecuteError(d, max)
      BY DEF PushExecuteError, ConnectsAtOnce
    <3>3. CASE PushConnecting(d, max) \/ PushExecuting(d, max)
      <4>1. Track(Target[Candidate], d)
        BY <3>3 DEF PushConnecting, PushExecuting
      <4> QED
        BY <1>0, <4>1, Zenon DEF Track
    <3>4. CASE PushConnectError(d, max)
      <4>1. FinishAndPublish(Candidate, {d})
        BY <3>4 DEF PushConnectError
      <4> QED
        BY <1>0, <3>1, <4>1, FinishEffect
    <3> QED
      BY <2>4, <3>2, <3>3, <3>4
  <2> QED
    BY <1>3, <2>1, <2>2, <2>3, <2>4 DEF PushNext
<1>4. CASE ResumeNext
  <2>1. CASE Return
    BY <2>1 DEF Return
  <2>2. ~ NotifyDeleted
    BY DEF NotifyDeleted, FrameInv
  <2>3. CASE Notify
    <3>1. frame \in Devices
      BY <2>3 DEF TypeInv, FrameOK, Notify
    <3>2. References(frame) > 0
      BY <1>0, <2>3, <3>1, SlotTypes DEF FrameInv, Notify, References
    <3>3. SanityCheck
      BY <1>0, Sane DEF LinksInv, DeviceOK
    <3> QED
      BY <2>3, <3>2, <3>3, Zenon DEF Notify
  <2> QED
    BY <1>4, <2>1, <2>2, <2>3 DEF ResumeNext
<1>5. ASSUME NEW d \in Devices, Settles(d) \/ LostIdle(d) PROVE UNCHANGED fatal
  <2>1. CASE Connected(d) \/ LostIdle(d)
    BY <2>1 DEF Connected, LostIdle
  <2>2. CASE \/ ConnectedExecuteError(d) \/ ConnectFailed(d) \/ Reply(d)
             \/ LostExecuting(d)
    <3>1. /\ d \notin freed /\ device[d].phase \in {"connecting", "executing"}
          /\ \E deleted : FinishAndPublish(device[d].owner, deleted)
      BY <2>2 DEF ConnectedExecuteError, ConnectFailed, Reply, LostExecuting,
                  Settle
    <3>2. device[d].owner \in Requests
      BY <1>0, <3>1 DEF LinksInv, DeviceOK, CallbackFits, TypeOK
    <3> QED
      BY <1>0, <3>1, <3>2, FinishEffect
  <2> QED
    BY <1>5, <2>1, <2>2 DEF Settles
<1> QED
  BY <1>1, <1>3, <1>4, <1>5 DEF Next, HubNext, DeviceNext

\* The "Unable to delete device" and "more than one reference" exceptions are
\* never thrown, wherever connections break, while connections have no limit
\* of uses and no Execute fails inside Connect.
THEOREM NothingFatal ==
  ASSUME NoLimits, ExecuteErrors \subseteq {"PostgreSQL"}
  PROVE  Spec => []NoFatal
<1>1. TypeInv /\ LinksInv /\ SpentInv /\ FrameInv /\ [Next]_vars => FrameInv'
  BY FrameStep
<1>2. TypeInv /\ LinksInv /\ FrameInv /\ NoFatal /\ [Next]_vars => NoFatal'
  BY FatalStep DEF NoFatal
<1>3. Init => NoFatal
  BY DEF Init, NoFatal
<1> QED
  BY <1>1, <1>2, <1>3, FrameInit, DevicesHold, PTL DEF Spec
=============================================================================

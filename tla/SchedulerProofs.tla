--------------------------- MODULE SchedulerProofs ---------------------------
(***************************************************************************)
(* Theorems about Scheduler, for any tasks, subscriptions and clients, and *)
(* whichever of the clients leave: ids are not shared, the map of ids      *)
(* finds the objects that have not ended, and the object whose Step runs   *)
(* is not deleted under it.                                                *)
(***************************************************************************)
EXTENDS Scheduler, FiniteSetTheorems, SequenceTheorems, TLAPS

-----------------------------------------------------------------------------
(* Bags.                                                                   *)

\* A message added to a bag of messages leaves a bag of messages.
LEMMA BagAdd ==
  ASSUME NEW B, IsABag(B), NEW e
  PROVE  /\ IsABag(B (+) SetToBag({e}))
         /\ DOMAIN (B (+) SetToBag({e})) = DOMAIN B \cup {e}
<1> DEFINE C == B (+) SetToBag({e})
<1>1. DOMAIN C = DOMAIN B \cup {e}
  BY DEF (+), SetToBag
<1>2. ASSUME NEW x \in DOMAIN B \cup {e}
      PROVE  C[x] \in {n \in Nat : n > 0}
  <2>1. C[x] = (IF x \in DOMAIN B THEN B[x] ELSE 0)
                 + (IF x \in {e} THEN 1 ELSE 0)
    BY DEF (+), SetToBag
  <2>2. x \in DOMAIN B => B[x] \in Nat /\ B[x] > 0
    BY DEF IsABag
  <2> QED
    BY <2>1, <2>2
<1>3. C = [x \in DOMAIN C |-> C[x]]
  BY DEF (+)
<1> QED
  BY <1>1, <1>2, <1>3 DEF IsABag

\* A message taken out of a bag leaves a bag, with nothing new in it.
LEMMA BagTake ==
  ASSUME NEW B, IsABag(B), NEW e
  PROVE  /\ IsABag(B (-) SetToBag({e}))
         /\ DOMAIN (B (-) SetToBag({e})) \subseteq DOMAIN B
<1> DEFINE D == [x \in DOMAIN B |-> IF x \in {e} THEN B[x] - 1 ELSE B[x]]
           C == [x \in {y \in DOMAIN D : D[y] > 0} |-> D[x]]
<1>1. B (-) SetToBag({e}) = C
  BY DEF (-), SetToBag
<1>2. ASSUME NEW x \in DOMAIN C
      PROVE  C[x] \in {n \in Nat : n > 0}
  <2>1. x \in DOMAIN B /\ D[x] > 0 /\ C[x] = D[x]
    OBVIOUS
  <2>2. B[x] \in Nat /\ B[x] > 0
    BY <2>1 DEF IsABag
  <2>3. D[x] = B[x] - 1 \/ D[x] = B[x]
    BY <2>1
  <2> QED
    BY <2>1, <2>2, <2>3
<1>3. DOMAIN C \subseteq DOMAIN B
  OBVIOUS
<1>4. C \in [DOMAIN C -> {n \in Nat : n > 0}]
  BY <1>2
<1> HIDE DEF C
<1> QED
  BY <1>1, <1>3, <1>4 DEF IsABag

-----------------------------------------------------------------------------
(* The inductive invariant.                                                *)

\* The generator has counted to nextId, and no further than there are objects.
IdsBounded ==
  /\ \A o \in Objects : idOf[o] =< nextId
  /\ \A i \in DOMAIN freeIds : freeIds[i] =< nextId
  /\ nextId =< Cardinality({o \in Objects : idOf[o] # 0})

\* A zombie is kept once and not deleted, and only what was pushed is deleted.
ZombiesOnce ==
  /\ \A i \in DOMAIN zombies : zombies[i] \in Alive
  /\ \A i, j \in DOMAIN zombies : zombies[i] = zombies[j] => i = j
  /\ \A o \in deleted : idOf[o] # 0

\* What there is to say of the ids alone.
IdInv == IdsUnique /\ IdsBounded

\* What a client holds and what the hub keeps was pushed, and has an id.
Pushed ==
  /\ \A c \in Clients : \A o \in objects[c] : idOf[o] # 0
  /\ \A s \in keepAlive : idOf[s] # 0

IInv ==
  TypeOK /\ IdInv /\ ZombiesOnce /\ MapsAgree /\ SteppingAlive /\ Pushed

-----------------------------------------------------------------------------
(* The generator of ids.                                                   *)

\* There are as many ids as objects: one that has none yet finds one left.
LEMMA RoomForId ==
  ASSUME TypeOK, IdsBounded, NEW o \in Objects, idOf[o] = 0
  PROVE  /\ nextId + 1 \in Ids
         /\ nextId + 1 =< Cardinality({p \in Objects : p = o \/ idOf[p] # 0})
<1> DEFINE S == {p \in Objects : idOf[p] # 0}
           T == {p \in Objects : p = o \/ idOf[p] # 0}
<1>1. IsFiniteSet(Objects)
  BY SchedulerAssumption
<1>2. T = S \cup {o} /\ o \notin S
  OBVIOUS
<1>3. S \in SUBSET Objects /\ T \in SUBSET Objects
  OBVIOUS
<1>4. IsFiniteSet(S)
  BY <1>1, <1>3, FS_Subset
<1>5. Cardinality(T) = Cardinality(S) + 1
  BY <1>2, <1>4, FS_AddElement
<1>6. Cardinality(T) =< Cardinality(Objects)
  BY <1>1, <1>3, FS_Subset
<1>7. Cardinality(S) \in Nat /\ Cardinality(Objects) \in Nat
  BY <1>1, <1>4, FS_CardinalityType
<1>8. nextId \in Nat /\ nextId =< Cardinality(S)
  BY DEF TypeOK, IdsBounded, Ids
<1> HIDE DEF S, T
<1>9. nextId + 1 =< Cardinality(T) /\ nextId + 1 \in Ids
  BY <1>5, <1>6, <1>7, <1>8 DEF Ids
<1> QED
  BY <1>9 DEF T

\* An object that rents an id gets one that nobody has.
LEMMA RentFresh ==
  ASSUME TypeOK, IdInv, ZombiesOnce,
         NEW o \in Objects, idOf[o] = 0, Rent(o), UNCHANGED deleted
  PROVE  /\ idOf'[o] \in Ids
         /\ idOf' = [idOf EXCEPT ![o] = idOf'[o]]
         /\ freeIds' \in Seq(Ids) /\ nextId' \in {0} \cup Ids
         /\ o \notin Alive /\ Alive' = Alive \cup {o}
         /\ \A p \in Alive : idOf[p] # idOf'[o]
         /\ IdInv'
<1> DEFINE i == idOf'[o]
           T == {p \in Objects : p = o \/ idOf[p] # 0}
<1>1. /\ o \notin Alive /\ o \notin deleted
      /\ idOf \in [Objects -> {0} \cup Ids]
      /\ freeIds \in Seq(Ids) /\ nextId \in Nat /\ nextId \in {0} \cup Ids
  BY DEF TypeOK, ZombiesOnce, Alive, Ids
<1>2. idOf' = [idOf EXCEPT ![o] = i]
  BY <1>1 DEF Rent
<1>3. nextId + 1 \in Ids /\ nextId + 1 =< Cardinality(T)
  BY RoomForId DEF IdInv
<1>4. /\ i \in Ids /\ i =< nextId'
      /\ nextId' \in {0} \cup Ids /\ nextId =< nextId' /\ nextId' =< nextId + 1
      /\ nextId' = nextId \/ nextId' =< Cardinality(T)
      /\ \A p \in Alive : idOf[p] # i
      /\ freeIds' \in Seq(Ids)
      /\ \A j \in DOMAIN freeIds' : freeIds'[j] # i /\ freeIds'[j] =< nextId
      /\ \A j \in DOMAIN freeIds' : \E k \in DOMAIN freeIds : freeIds'[j] = freeIds[k]
      /\ \A j, k \in DOMAIN freeIds' : freeIds'[j] = freeIds'[k] => j = k
  <2>1. CASE freeIds = <<>>
    <3>1. i = nextId + 1 /\ nextId' = nextId + 1 /\ freeIds' = freeIds
      BY <1>1, <2>1 DEF Rent
    <3>2. \A p \in Alive : idOf[p] =< nextId
      BY DEF Alive, IdInv, IdsBounded
    <3>3. \A p \in Alive : idOf[p] \in Nat
      BY <1>1 DEF Alive, Ids
    <3>4. DOMAIN freeIds' = {}
      BY <2>1, <3>1
    <3> QED
      BY <1>1, <1>3, <3>1, <3>2, <3>3, <3>4
  <2>2. CASE freeIds # <<>>
    <3>1. i = Head(freeIds) /\ nextId' = nextId /\ freeIds' = Tail(freeIds)
      BY <1>1, <2>2 DEF Rent
    <3>2. /\ freeIds' \in Seq(Ids) /\ Len(freeIds') = Len(freeIds) - 1
          /\ \A j \in 1 .. Len(freeIds') : freeIds'[j] = freeIds[j + 1]
      BY <1>1, <2>2, <3>1, HeadTailProperties
    <3>3. /\ Len(freeIds) \in Nat /\ DOMAIN freeIds = 1 .. Len(freeIds)
          /\ DOMAIN freeIds' = 1 .. Len(freeIds')
      BY <1>1, <3>2, LenProperties
    <3>4. 1 \in DOMAIN freeIds /\ i = freeIds[1]
      BY <1>1, <2>2, <3>1, <3>3, EmptySeq
    <3>5. i \in Ids /\ i =< nextId
      BY <1>1, <3>4 DEF IdInv, IdsBounded
    <3>6. \A p \in Alive : idOf[p] # i
      BY <3>4 DEF IdInv, IdsUnique
    <3>7. ASSUME NEW j \in DOMAIN freeIds'
          PROVE  /\ j \in Nat /\ j + 1 \in DOMAIN freeIds /\ j + 1 # 1
                 /\ freeIds'[j] = freeIds[j + 1]
      BY <3>2, <3>3
    <3>8. \A j \in DOMAIN freeIds' : freeIds'[j] # i /\ freeIds'[j] =< nextId
      BY <3>4, <3>7 DEF IdInv, IdsUnique, IdsBounded
    <3>9. \A j, k \in DOMAIN freeIds' : freeIds'[j] = freeIds'[k] => j = k
      <4> SUFFICES ASSUME NEW j \in DOMAIN freeIds', NEW k \in DOMAIN freeIds',
                          freeIds'[j] = freeIds'[k]
                   PROVE  j = k
        OBVIOUS
      <4>1. j + 1 = k + 1
        BY <3>7 DEF IdInv, IdsUnique
      <4> QED
        BY <3>7, <4>1
    <3> QED
      BY <1>1, <3>1, <3>2, <3>5, <3>6, <3>7, <3>8, <3>9
  <2> QED
    BY <2>1, <2>2
<1>5. i # 0
  BY <1>4 DEF Ids
<1>6. Alive' = Alive \cup {o}
  BY <1>1, <1>2, <1>5 DEF Alive
<1>7. \A p \in Alive : p # o /\ idOf'[p] = idOf[p]
  BY <1>1, <1>2 DEF Alive
<1>8. IdsUnique'
  <2>1. \A p, q \in Alive' : idOf'[p] = idOf'[q] => p = q
    BY <1>4, <1>6, <1>7 DEF IdInv, IdsUnique
  <2>2. \A p \in Alive', j \in DOMAIN freeIds' : freeIds'[j] # idOf'[p]
    BY <1>4, <1>6, <1>7 DEF IdInv, IdsUnique
  <2> QED
    BY <1>4, <2>1, <2>2 DEF IdsUnique
<1>9. IdsBounded'
  <2>1. {p \in Objects : idOf'[p] # 0} = T
    BY <1>1, <1>2, <1>5
  <2>2. nextId' =< Cardinality(T)
    <3>1. Cardinality(T) \in Nat
      BY SchedulerAssumption, FS_Subset, FS_CardinalityType
    <3> QED
      BY <1>1, <1>3, <1>4, <3>1
  <2>3. \A p \in Objects : idOf'[p] =< nextId'
    <3>1. ASSUME NEW p \in Objects, p # o
          PROVE  idOf'[p] =< nextId'
      <4>1. idOf'[p] = idOf[p] /\ idOf[p] =< nextId /\ idOf[p] \in Nat
        BY <1>1, <1>2, <3>1 DEF IdInv, IdsBounded, Ids
      <4>2. nextId' \in Nat
        BY <1>4 DEF Ids
      <4> QED
        BY <1>1, <1>4, <4>1, <4>2
    <3> QED
      BY <1>4, <3>1
  <2>4. ASSUME NEW j \in DOMAIN freeIds'
        PROVE  freeIds'[j] =< nextId'
    <3>1. freeIds'[j] \in Ids
      BY <1>4, LenProperties, ElementOfSeq
    <3>2. freeIds'[j] \in Nat /\ nextId' \in Nat
      BY <1>4, <3>1 DEF Ids
    <3> QED
      BY <1>1, <1>4, <3>2
  <2> HIDE DEF T
  <2> QED
    BY <2>1, <2>2, <2>3, <2>4 DEF IdsBounded
<1> QED
  BY <1>1, <1>2, <1>4, <1>6, <1>8, <1>9 DEF IdInv

\* Each element of a concatenation comes from one of its parts.
LEMMA ConcatParts ==
  ASSUME NEW S, NEW s \in Seq(S), NEW t \in Seq(S)
  PROVE  /\ s \o t \in Seq(S)
         /\ \A j \in DOMAIN (s \o t) :
              /\ j \in Nat
              /\ \/ j \in DOMAIN s /\ (s \o t)[j] = s[j] /\ j =< Len(s)
                 \/ /\ j - Len(s) \in DOMAIN t /\ j > Len(s)
                    /\ (s \o t)[j] = t[j - Len(s)]
<1>1. /\ s \o t \in Seq(S) /\ Len(s \o t) = Len(s) + Len(t)
      /\ \A j \in 1 .. Len(s) + Len(t) :
           (s \o t)[j] = IF j <= Len(s) THEN s[j] ELSE t[j - Len(s)]
  BY ConcatProperties
<1>2. /\ Len(s) \in Nat /\ Len(t) \in Nat
      /\ DOMAIN s = 1 .. Len(s) /\ DOMAIN t = 1 .. Len(t)
      /\ DOMAIN (s \o t) = 1 .. Len(s \o t)
  BY <1>1, LenProperties
<1>3. ASSUME NEW j \in DOMAIN (s \o t)
      PROVE  /\ j \in Nat
             /\ \/ j \in DOMAIN s /\ (s \o t)[j] = s[j] /\ j =< Len(s)
                \/ /\ j - Len(s) \in DOMAIN t /\ j > Len(s)
                   /\ (s \o t)[j] = t[j - Len(s)]
  <2>1. j \in 1 .. Len(s) + Len(t)
    BY <1>1, <1>2
  <2>2. (s \o t)[j] = IF j <= Len(s) THEN s[j] ELSE t[j - Len(s)]
    BY <1>1, <2>1
  <2> QED
    BY <1>2, <2>1, <2>2
<1> QED
  BY <1>1, <1>3

\* Objects that are deleted give their ids back, and no one has them by then.
LEMMA DeleteReturns ==
  ASSUME TypeOK, IdInv, ZombiesOnce, NEW seq \in Seq(Objects),
         \A k \in DOMAIN seq : seq[k] \in Alive,
         \A j, k \in DOMAIN seq : seq[j] = seq[k] => j = k,
         Delete(seq), UNCHANGED <<idOf, nextId>>
  PROVE  /\ freeIds' \in Seq(Ids)
         /\ deleted' \subseteq Objects
         /\ \A o \in deleted' : idOf'[o] # 0
         /\ Alive' = Alive \ {seq[k] : k \in DOMAIN seq}
         /\ IdInv'
<1> DEFINE L == Len(freeIds)
           n == Len(seq)
           ids == [k \in DOMAIN seq |-> idOf[seq[k]]]
<1>1. /\ idOf \in [Objects -> {0} \cup Ids] /\ freeIds \in Seq(Ids)
      /\ deleted \subseteq Objects
      /\ L \in Nat /\ DOMAIN freeIds = 1 .. L
      /\ n \in Nat /\ DOMAIN seq = 1 .. n
  BY LenProperties DEF TypeOK
<1>2. \A k \in 1 .. n : seq[k] \in Objects /\ idOf[seq[k]] \in Ids
  BY <1>1 DEF Alive
<1>3. ids \in Seq(Ids) /\ Len(ids) = n
  <2>1. ids \in [1 .. n -> Ids]
    BY <1>1, <1>2
  <2>2. n \in Nat /\ DOMAIN ids = 1 .. n
    BY <1>1
  <2> HIDE DEF ids, n
  <2>3. ids \in Seq(Ids)
    BY <2>1, <2>2
  <2>4. Len(ids) \in Nat /\ DOMAIN ids = 1 .. Len(ids)
    BY <2>3, LenProperties
  <2> QED
    BY <2>2, <2>3, <2>4
<1>4. freeIds' = freeIds \o ids
  BY DEF Delete
<1>5. /\ freeIds' \in Seq(Ids)
      /\ \A j \in DOMAIN freeIds' :
           /\ j \in Nat
           /\ \/ j \in DOMAIN freeIds /\ freeIds'[j] = freeIds[j] /\ j =< L
              \/ j - L \in DOMAIN ids /\ j > L /\ freeIds'[j] = ids[j - L]
  <2> HIDE DEF ids
  <2> QED
    BY <1>1, <1>3, <1>4, ConcatParts
<1>7. ASSUME NEW j \in DOMAIN freeIds'
      PROVE  /\ j \in Nat
             /\ \/ j =< L /\ j \in DOMAIN freeIds /\ freeIds'[j] = freeIds[j]
                \/ /\ j > L /\ j - L \in DOMAIN seq
                   /\ freeIds'[j] = idOf[seq[j - L]]
  BY <1>1, <1>5
<1>8. /\ Alive' = Alive \ {seq[k] : k \in DOMAIN seq}
      /\ deleted' \subseteq Objects
      /\ \A o \in deleted' : idOf'[o] # 0
  <2>1. deleted' = deleted \cup {seq[k] : k \in DOMAIN seq}
    BY DEF Delete
  <2> QED
    BY <1>1, <1>2, <2>1 DEF Alive, ZombiesOnce
<1>9. IdsUnique'
  <2>1. \A o, p \in Alive' : idOf'[o] = idOf'[p] => o = p
    BY <1>8 DEF IdInv, IdsUnique
  <2>2. ASSUME NEW j \in DOMAIN freeIds', NEW k \in DOMAIN freeIds',
               freeIds'[j] = freeIds'[k]
        PROVE  j = k
    <3>1. CASE j =< L /\ k =< L
      BY <1>1, <1>7, <2>2, <3>1 DEF IdInv, IdsUnique
    <3>2. CASE j > L /\ k > L
      <4>1. /\ j - L \in DOMAIN seq /\ k - L \in DOMAIN seq
            /\ idOf[seq[j - L]] = idOf[seq[k - L]]
        BY <1>1, <1>7, <2>2, <3>2
      <4>2. seq[j - L] = seq[k - L]
        BY <4>1 DEF IdInv, IdsUnique
      <4>3. j - L = k - L
        BY <4>1, <4>2
      <4> QED
        BY <1>1, <1>7, <4>3
    <3>3. CASE j =< L /\ k > L
      BY <1>1, <1>7, <2>2, <3>3 DEF IdInv, IdsUnique
    <3>4. CASE j > L /\ k =< L
      BY <1>1, <1>7, <2>2, <3>4 DEF IdInv, IdsUnique
    <3> QED
      BY <1>1, <1>7, <3>1, <3>2, <3>3, <3>4
  <2>3. ASSUME NEW o \in Alive', NEW j \in DOMAIN freeIds'
        PROVE  freeIds'[j] # idOf'[o]
    <3>1. o \in Alive /\ \A k \in DOMAIN seq : o # seq[k]
      BY <1>8
    <3>2. CASE j =< L
      BY <1>1, <1>7, <3>1, <3>2 DEF IdInv, IdsUnique
    <3>3. CASE j > L
      <4>1. seq[j - L] \in Alive /\ o # seq[j - L]
            /\ freeIds'[j] = idOf[seq[j - L]]
        BY <1>1, <1>7, <3>1, <3>3
      <4> QED
        BY <3>1, <4>1 DEF IdInv, IdsUnique
    <3> QED
      BY <1>1, <1>7, <3>2, <3>3
  <2> QED
    BY <2>1, <2>2, <2>3 DEF IdsUnique
<1>10. IdsBounded'
  <2>1. \A j \in DOMAIN freeIds' : freeIds'[j] =< nextId
    BY <1>1, <1>2, <1>7 DEF IdInv, IdsBounded
  <2> QED
    BY <2>1 DEF IdInv, IdsBounded
<1> QED
  BY <1>5, <1>8, <1>9, <1>10 DEF IdInv

-----------------------------------------------------------------------------
(* The end of objects.                                                     *)

\* What TypeOK says of the maps and of everything else, apart.
MapTypes ==
  /\ registered \subseteq Clients
  /\ objects \in [Clients -> SUBSET Objects]
  /\ clientOf \in [Objects -> Clients \cup {Nobody}]
  /\ byId \in [Ids -> Objects \cup {Nobody}]
  /\ detached \subseteq Objects /\ deleted \subseteq Objects
  /\ zombies \in Seq(Objects)

IdTypes ==
  /\ idOf \in [Objects -> {0} \cup Ids]
  /\ freeIds \in Seq(Ids) /\ nextId \in {0} \cup Ids

OtherTypes ==
  /\ step \in [Tasks -> Int]
  /\ \A t \in Tasks : step[t] \in -1 .. Callbacks[t]
  /\ stepping \in Tasks \cup {Nobody}
  /\ IsABag(flight) /\ DOMAIN flight \subseteq Messages
  /\ keepAlive \subseteq Subscriptions
  /\ logicError \in BOOLEAN

LEMMA Types ==
  /\ TypeOK <=> MapTypes /\ IdTypes /\ OtherTypes
  /\ TypeOK' <=> MapTypes' /\ IdTypes' /\ OtherTypes'
BY DEF TypeOK, MapTypes, IdTypes, OtherTypes

\* KillZombies deletes what had ended, and nothing else.
LEMMA KillZombiesKeeps ==
  ASSUME IInv, KillZombies, UNCHANGED <<idOf, nextId>>
  PROVE  /\ zombies' \in Seq(Objects) /\ deleted' \subseteq Objects
         /\ IdTypes' /\ IdInv' /\ ZombiesOnce'
         /\ Alive' \ Zombies' = Alive \ Zombies
<1>1. TypeOK /\ IdInv /\ ZombiesOnce /\ zombies \in Seq(Objects)
  BY DEF IInv, TypeOK
<1>2. zombies' = <<>> /\ Delete(zombies)
  BY DEF KillZombies
<1>3. /\ freeIds' \in Seq(Ids)
      /\ deleted' \subseteq Objects
      /\ \A o \in deleted' : idOf'[o] # 0
      /\ Alive' = Alive \ Zombies
      /\ IdInv'
  BY <1>1, <1>2, DeleteReturns DEF ZombiesOnce, Zombies
<1>4. zombies' \in Seq(Objects) /\ DOMAIN zombies' = {} /\ Zombies' = {}
  BY <1>2, EmptySeq DEF Zombies
<1>5. IdTypes'
  BY <1>1, <1>3 DEF TypeOK, IdTypes
<1>6. ZombiesOnce'
  BY <1>3, <1>4 DEF ZombiesOnce
<1> QED
  BY <1>3, <1>4, <1>5, <1>6

\* ReleaseObject of an object that has not ended ends it, and nothing else: it
\* never meets a zombie, which it would use after deleting it.
LEMMA ReleaseEnds ==
  ASSUME IInv, NEW o \in Alive \ Zombies, Release(o), UNCHANGED <<idOf, nextId>>
  PROVE  /\ MapTypes' /\ IdTypes' /\ IdInv' /\ ZombiesOnce' /\ MapsAgree'
         /\ Alive' \ Zombies' = (Alive \ Zombies) \ {o}
<1> DEFINE attached == clientOf[o] \in registered /\ o \in objects[clientOf[o]]
           seq == IF attached THEN <<o>> ELSE <<>>
<1>1. /\ TypeOK /\ IdInv /\ ZombiesOnce /\ MapsAgree
      /\ o \in Objects /\ o \in Alive /\ o \notin Zombies /\ idOf[o] \in Ids
  BY DEF IInv, TypeOK, Alive
<1>2. zombies \in Seq(Objects) /\ DOMAIN zombies = 1 .. Len(zombies)
  BY <1>1, LenProperties DEF TypeOK
<1>3. ~ Contains(zombies, o) /\ RemoveFirst(zombies, o) = zombies
  BY <1>1, <1>2 DEF Contains, RemoveFirst, Zombies
<1>4. /\ zombies' = IF attached THEN zombies ELSE Append(zombies, o)
      /\ Delete(<<>> \o seq)
      /\ byId' = [byId EXCEPT ![idOf[o]] = Nobody]
      /\ detached' = detached \ {o}
      /\ clientOf' = [clientOf EXCEPT ![o] = Nobody]
      /\ objects' = [c \in Clients |-> IF c = clientOf[o] THEN objects[c] \ {o}
                                                          ELSE objects[c]]
      /\ registered' = registered
  BY <1>3 DEF Release
<1>5. seq \in Seq(Objects) /\ <<>> \o seq = seq
  BY <1>1, ConcatEmptySeq
<1>6. /\ freeIds' \in Seq(Ids)
      /\ deleted' \subseteq Objects
      /\ \A p \in deleted' : idOf'[p] # 0
      /\ Alive' = Alive \ {seq[k] : k \in DOMAIN seq}
      /\ IdInv'
  <2>1. /\ \A k \in DOMAIN seq : seq[k] \in Alive
        /\ \A j, k \in DOMAIN seq : seq[j] = seq[k] => j = k
    BY <1>1
  <2>2. Delete(seq)
    BY <1>4, <1>5
  <2> HIDE DEF seq
  <2> QED
    BY <1>1, <1>5, <2>1, <2>2, DeleteReturns
<1>7. /\ zombies' \in Seq(Objects)
      /\ ZombiesOnce'
      /\ Alive' \ Zombies' = (Alive \ Zombies) \ {o}
  <2>1. CASE attached
    <3>1. zombies' = zombies /\ Zombies' = Zombies /\ Alive' = Alive \ {o}
      BY <1>4, <1>6, <2>1 DEF Zombies
    <3> QED
      BY <1>1, <1>2, <1>6, <3>1 DEF ZombiesOnce, Zombies
  <2>2. CASE ~ attached
    <3>1. zombies' = Append(zombies, o) /\ Alive' = Alive
      BY <1>4, <1>6, <2>2
    <3>2. /\ zombies' \in Seq(Objects)
          /\ DOMAIN zombies' = 1 .. Len(zombies) + 1 /\ Len(zombies) \in Nat
          /\ \A i \in 1 .. Len(zombies) : zombies'[i] = zombies[i]
          /\ zombies'[Len(zombies) + 1] = o
      BY <1>1, <1>2, <3>1
    <3>3. \A i \in DOMAIN zombies' :
            \/ i \in DOMAIN zombies /\ zombies'[i] = zombies[i]
            \/ i = Len(zombies) + 1 /\ zombies'[i] = o
      BY <1>2, <3>2
    <3>4. Zombies' = Zombies \cup {o}
      <4>1. \A i \in DOMAIN zombies : i \in DOMAIN zombies' /\ zombies'[i] = zombies[i]
        BY <1>2, <3>2
      <4>2. Len(zombies) + 1 \in DOMAIN zombies'
        BY <3>2
      <4> QED
        BY <3>2, <3>3, <4>1, <4>2 DEF Zombies
    <3>5. ZombiesOnce'
      <4>1. \A i \in DOMAIN zombies' : zombies'[i] \in Alive'
        BY <1>1, <3>1, <3>3 DEF ZombiesOnce
      <4>2. \A i, j \in DOMAIN zombies' : zombies'[i] = zombies'[j] => i = j
        BY <1>1, <3>3 DEF ZombiesOnce, Zombies
      <4> QED
        BY <1>6, <4>1, <4>2 DEF ZombiesOnce
    <3> QED
      BY <3>1, <3>2, <3>4, <3>5
  <2> QED
    BY <2>1, <2>2
<1>8. MapsAgree'
  <2> SUFFICES ASSUME NEW i \in Ids, NEW p \in Objects
               PROVE  byId'[i] = p <=> idOf'[p] = i /\ p \in Alive' \ Zombies'
    BY DEF MapsAgree
  <2>1. Nobody # p /\ byId \in [Ids -> Objects \cup {Nobody}]
    BY <1>1, SchedulerAssumption DEF TypeOK
  <2>2. CASE i = idOf[o]
    <3>1. byId'[i] # p
      BY <1>1, <1>4, <2>1, <2>2
    <3>2. p \in Alive /\ idOf[p] = i => p = o
      BY <1>1, <2>2 DEF IdInv, IdsUnique
    <3> QED
      BY <1>7, <3>1, <3>2
  <2>3. CASE i # idOf[o]
    <3>1. byId'[i] = byId[i]
      BY <1>1, <1>4, <2>1, <2>3
    <3> QED
      BY <1>1, <1>7, <2>3, <3>1 DEF MapsAgree
  <2> QED
    BY <2>2, <2>3
<1>9. MapTypes'
  BY <1>1, <1>4, <1>6, <1>7 DEF TypeOK, MapTypes
<1>10. IdTypes'
  BY <1>1, <1>6 DEF TypeOK, IdTypes
<1> QED
  BY <1>6, <1>7, <1>8, <1>9, <1>10

-----------------------------------------------------------------------------
(* Messages.                                                               *)

\* A message that is sent names an object that has an id.
LEMMA PostTypes ==
  ASSUME OtherTypes, NEW m \in Messages, Post(m)
  PROVE  IsABag(flight') /\ DOMAIN flight' \subseteq Messages
<1>1. IsABag(flight) /\ DOMAIN flight \subseteq Messages
  BY DEF OtherTypes
<1>2. flight' = flight (+) SetToBag({m})
  BY DEF Post
<1>3. /\ IsABag(flight (+) SetToBag({m}))
      /\ DOMAIN (flight (+) SetToBag({m})) = DOMAIN flight \cup {m}
  BY <1>1, BagAdd
<1> QED
  BY <1>1, <1>2, <1>3

LEMMA ArrivesTypes ==
  ASSUME TypeOK, NEW m \in BagToSet(flight), NEW kinds, Arrives(m, kinds)
  PROVE  /\ IsABag(flight') /\ DOMAIN flight' \subseteq Messages
         /\ m.id \in Ids /\ stepping = Nobody
<1>1. IsABag(flight) /\ DOMAIN flight \subseteq Messages /\ m \in DOMAIN flight
  BY DEF TypeOK, BagToSet
<1>2. m \in Messages
  BY <1>1
<1>3. m.id \in Ids
  BY <1>2 DEF Messages
<1>4. flight' = flight (-) SetToBag({m}) /\ stepping = Nobody
  BY DEF Arrives
<1>5. IsABag(flight (-) SetToBag({m}))
      /\ DOMAIN (flight (-) SetToBag({m})) \subseteq DOMAIN flight
  BY <1>1, BagTake
<1> QED
  BY <1>1, <1>3, <1>4, <1>5

\* Under the id of an object that has not ended, the map of ids has it.
LEMMA FoundIsAlive ==
  ASSUME MapsAgree, TypeOK, NEW i \in Ids, byId[i] # Nobody
  PROVE  byId[i] \in Objects /\ byId[i] \in Alive \ Zombies /\ idOf[byId[i]] = i
BY DEF MapsAgree, TypeOK

-----------------------------------------------------------------------------
(* The steps.                                                              *)

LEMMA InitHolds == Init => IInv
<1> SUFFICES ASSUME Init PROVE IInv
  OBVIOUS
<1>1. IsABag(flight) /\ DOMAIN flight = {}
  BY DEF Init, EmptyBag, SetToBag, IsABag
<1>2. zombies = <<>> /\ freeIds = <<>> /\ DOMAIN zombies = {} /\ DOMAIN freeIds = {}
  BY DEF Init
<1>3. Alive = {} /\ Zombies = {}
  BY <1>2 DEF Init, Alive, Zombies
<1>4. OtherTypes
  <2>1. \A t \in Tasks : Callbacks[t] \in Nat /\ -1 \in -1 .. Callbacks[t]
    BY SchedulerAssumption
  <2>2. step = [t \in Tasks |-> -1]
    BY DEF Init
  <2>3. step \in [Tasks -> Int] /\ \A t \in Tasks : step[t] = -1
    BY <2>2
  <2>4. \A t \in Tasks : step[t] \in -1 .. Callbacks[t]
    BY <2>1, <2>3
  <2> QED
    BY <1>1, <2>3, <2>4 DEF Init, OtherTypes
<1>5. MapTypes /\ IdTypes
  BY <1>2, EmptySeq DEF Init, MapTypes, IdTypes
<1>6. IdInv
  <2> DEFINE S == {o \in Objects : idOf[o] # 0}
  <2>1. S = {}
    BY DEF Init
  <2>2. nextId = 0 /\ Cardinality({}) = 0
    BY FS_EmptySet DEF Init
  <2>3. \A o \in Objects : idOf[o] = 0
    BY DEF Init
  <2>4. IdsBounded
    <3> HIDE DEF S
    <3>1. nextId =< Cardinality(S)
      BY <2>1, <2>2
    <3>2. \A o \in Objects : idOf[o] =< nextId
      BY <2>2, <2>3
    <3>3. \A i \in DOMAIN freeIds : freeIds[i] =< nextId
      BY <1>2
    <3> QED
      BY <3>1, <3>2, <3>3, Zenon DEF IdsBounded, S
  <2> QED
    BY <1>2, <1>3, <2>4 DEF IdInv, IdsUnique
<1>7. ZombiesOnce /\ SteppingAlive
  BY <1>2 DEF Init, ZombiesOnce, SteppingAlive
<1>9. Pushed
  BY DEF Init, Pushed
<1>8. MapsAgree
  BY <1>3, SchedulerAssumption DEF Init, MapsAgree
<1> QED
  BY <1>4, <1>5, <1>6, <1>7, <1>8, <1>9, Types DEF IInv

\* A step that leaves the maps and the ids alone.
LEMMA FrameKeeps ==
  ASSUME IInv, UNCHANGED <<mapVars, deleted, idVars>>, OtherTypes', SteppingAlive',
         \A s \in keepAlive' : s \in keepAlive \/ idOf[s] # 0
  PROVE  IInv'
<1>1. MapTypes' /\ IdTypes'
  BY Types DEF IInv, MapTypes, IdTypes, mapVars, idVars
<1>2. Alive' = Alive /\ Zombies' = Zombies
  BY DEF Alive, Zombies, mapVars, idVars
<1>3. IdInv' /\ ZombiesOnce' /\ MapsAgree'
  BY <1>2 DEF IInv, IdInv, IdsUnique, IdsBounded, ZombiesOnce, MapsAgree,
              mapVars, idVars
<1>4. Pushed'
  BY DEF IInv, Pushed, mapVars, idVars
<1> QED
  BY <1>1, <1>3, <1>4, Types DEF IInv

\* A step after which no Step is on the stack and an object has ended.
LEMMA ReleaseKeeps ==
  ASSUME IInv, NEW o \in Alive \ Zombies, Release(o), UNCHANGED <<idOf, nextId>>,
         OtherTypes', stepping' = Nobody, UNCHANGED keepAlive
  PROVE  IInv'
<1>1. MapTypes' /\ IdTypes' /\ IdInv' /\ ZombiesOnce' /\ MapsAgree'
  BY ReleaseEnds
<1>2. Pushed'
  <2>1. /\ \A c \in Clients : objects'[c] \subseteq objects[c]
        /\ keepAlive' = keepAlive /\ idOf' = idOf
    BY Types DEF IInv, Release, MapTypes
  <2> QED
    BY <2>1 DEF IInv, Pushed
<1> QED
  BY <1>1, <1>2, Types DEF IInv, SteppingAlive

\* Each step keeps the invariant.
LEMMA StepKeeps == IInv /\ [Next]_vars => IInv'
<1> SUFFICES ASSUME IInv, [Next]_vars PROVE IInv'
  OBVIOUS
<1>0. /\ TypeOK /\ MapTypes /\ IdTypes /\ OtherTypes
      /\ IdInv /\ ZombiesOnce /\ MapsAgree /\ SteppingAlive /\ Pushed
  BY Types DEF IInv
<1>1. ASSUME NEW c \in Clients, Register(c)
      PROVE  IInv'
  <2>1. /\ zombies' \in Seq(Objects) /\ deleted' \subseteq Objects
        /\ IdTypes' /\ IdInv' /\ ZombiesOnce'
        /\ Alive' \ Zombies' = Alive \ Zombies
    BY <1>1, KillZombiesKeeps DEF Register
  <2>2. MapTypes' /\ OtherTypes'
    BY <1>0, <1>1, <2>1 DEF Register, MapTypes, OtherTypes
  <2>3. MapsAgree' /\ SteppingAlive' /\ Pushed'
    BY <1>0, <1>1, <2>1 DEF Register, MapsAgree, SteppingAlive, Pushed
  <2> QED
    BY <2>1, <2>2, <2>3, Types DEF IInv
<1>2. ASSUME NEW c \in Clients, Unregister(c)
      PROVE  IInv'
  <2>1. /\ zombies' \in Seq(Objects) /\ deleted' \subseteq Objects
        /\ IdTypes' /\ IdInv' /\ ZombiesOnce'
        /\ Alive' \ Zombies' = Alive \ Zombies
    BY <1>2, KillZombiesKeeps DEF Unregister
  <2>2. objects[c] \subseteq Objects
    BY <1>0 DEF MapTypes
  <2>3. MapTypes' /\ OtherTypes'
    BY <1>0, <1>2, <2>1, <2>2 DEF Unregister, MapTypes, OtherTypes
  <2>4. MapsAgree' /\ SteppingAlive'
    BY <1>0, <1>2, <2>1 DEF Unregister, MapsAgree, SteppingAlive
  <2>5. Pushed'
    BY <1>0, <1>2 DEF Unregister, Pushed, MapTypes
  <2> QED
    BY <2>1, <2>3, <2>4, <2>5, Types DEF IInv
<1>3. ASSUME NEW c \in Clients, NEW o \in Objects, Push(c, o)
      PROVE  IInv'
  <2> DEFINE i == idOf'[o]
  <2>1. /\ i \in Ids /\ idOf' = [idOf EXCEPT ![o] = i]
        /\ freeIds' \in Seq(Ids) /\ nextId' \in {0} \cup Ids
        /\ o \notin Alive /\ Alive' = Alive \cup {o}
        /\ \A p \in Alive : idOf[p] # i
        /\ IdInv'
    BY <1>0, <1>3, RentFresh DEF Push
  <2>2. Zombies' = Zombies /\ o \notin Zombies /\ idOf[o] = 0 /\ i # 0
    BY <1>0, <1>3, <2>1 DEF Push, Zombies, ZombiesOnce, Ids
  <2>3. byId' = [byId EXCEPT ![i] = o]
    BY <1>3 DEF Push
  <2>4. \A p \in Objects : p # o => idOf'[p] = idOf[p]
    BY <1>0, <2>1 DEF IdTypes
  <2>5. IdTypes' /\ MapTypes'
    BY <1>0, <1>3, <2>1, <2>3 DEF Push, IdTypes, MapTypes
  <2>6. OtherTypes'
    <3>1. Post(Message("echo", o)') /\ Message("echo", o)' \in Messages
      BY <1>3, <2>1 DEF Push, Message, Messages
    <3>2. IsABag(flight') /\ DOMAIN flight' \subseteq Messages
      BY <1>0, <3>1, PostTypes
    <3> QED
      BY <1>0, <1>3, <3>2 DEF Push, OtherTypes
  <2>7. ZombiesOnce'
    <3>1. \A p \in deleted : p \in Objects /\ p # o /\ idOf[p] # 0
      BY <1>0, <2>2 DEF ZombiesOnce, MapTypes
    <3>2. \A p \in deleted : idOf'[p] # 0
      BY <2>4, <3>1
    <3>3. deleted' = deleted /\ zombies' = zombies
      BY <1>3 DEF Push
    <3> QED
      BY <1>0, <2>1, <3>2, <3>3 DEF ZombiesOnce
  <2>8. MapsAgree'
    <3> SUFFICES ASSUME NEW j \in Ids, NEW p \in Objects
                 PROVE  byId'[j] = p <=> idOf'[p] = j /\ p \in Alive' \ Zombies'
      BY DEF MapsAgree
    <3>1. CASE j = i
      <4>1. byId'[j] = o
        BY <1>0, <2>3, <3>1 DEF MapTypes
      <4>2. p # o => ~ (idOf'[p] = j /\ p \in Alive')
        BY <2>1, <2>4, <3>1
      <4> QED
        BY <2>1, <2>2, <3>1, <4>1, <4>2
    <3>2. CASE j # i
      <4>1. byId'[j] = byId[j]
        BY <1>0, <2>3, <3>2 DEF MapTypes
      <4>2. CASE p = o
        BY <1>0, <2>1, <2>2, <3>2, <4>1, <4>2 DEF MapsAgree
      <4>3. CASE p # o
        BY <1>0, <2>1, <2>2, <2>4, <4>1, <4>3 DEF MapsAgree
      <4> QED
        BY <4>2, <4>3
    <3> QED
      BY <3>1, <3>2
  <2>9. SteppingAlive'
    <3> SUFFICES ASSUME stepping # Nobody
                 PROVE  /\ stepping \in Alive' \ Zombies'
                        /\ byId'[idOf'[stepping]] = stepping
      BY <1>3 DEF Push, SteppingAlive
    <3>1. /\ stepping \in Alive \ Zombies /\ stepping \in Objects
          /\ byId[idOf[stepping]] = stepping
      BY <1>0 DEF SteppingAlive, Alive
    <3>2. stepping # o /\ idOf'[stepping] = idOf[stepping] /\ idOf[stepping] # i
      BY <2>1, <2>4, <3>1
    <3>3. idOf[stepping] \in Ids
      BY <1>0, <3>1 DEF IdTypes, Alive
    <3> QED
      BY <1>0, <2>1, <2>2, <2>3, <3>1, <3>2, <3>3 DEF MapTypes
  <2>10. Pushed'
    <3>1. /\ keepAlive' = keepAlive /\ keepAlive \subseteq Objects
          /\ \A d \in Clients : objects[d] \subseteq Objects
          /\ \A d \in Clients : objects'[d] \subseteq objects[d] \cup {o}
      BY <1>0, <1>3 DEF Push, OtherTypes, MapTypes, Objects
    <3>2. \A p \in Objects : idOf[p] # 0 => idOf'[p] # 0
      BY <2>2, <2>4
    <3>3. \A d \in Clients : \A p \in objects'[d] : idOf'[p] # 0
      BY <1>0, <2>2, <3>1, <3>2 DEF Pushed
    <3>4. \A s \in keepAlive' : idOf'[s] # 0
      BY <1>0, <3>1, <3>2 DEF Pushed
    <3> QED
      BY <3>3, <3>4 DEF Pushed
  <2> QED
    BY <2>1, <2>5, <2>6, <2>7, <2>8, <2>9, <2>10, Types DEF IInv
<1>4. ASSUME NEW s \in Subscriptions, PushAgain(s)
      PROVE  IInv'
  <2>1. /\ UNCHANGED <<mapVars, deleted, idVars>> /\ UNCHANGED stepping
        /\ UNCHANGED <<step, keepAlive, logicError>>
        /\ Post(Message("echo", s))
    BY <1>4 DEF PushAgain
  <2>2. s \in Objects /\ idOf[s] \in Ids
    <3>1. PICK c \in registered : s \in objects[c]
      BY <1>4 DEF PushAgain, Attached
    <3>2. c \in Clients /\ idOf[s] # 0 /\ s \in Objects
      BY <1>0, <3>1 DEF MapTypes, Pushed, Objects
    <3> QED
      BY <1>0, <3>2 DEF IdTypes
  <2>3. Message("echo", s) \in Messages
    BY <2>2 DEF Message, Messages
  <2>4. IsABag(flight') /\ DOMAIN flight' \subseteq Messages
    BY <1>0, <2>1, <2>3, PostTypes
  <2>5. OtherTypes' /\ SteppingAlive'
    BY <1>0, <2>1, <2>4
       DEF OtherTypes, SteppingAlive, Alive, Zombies, mapVars, idVars
  <2> QED
    BY <2>1, <2>5, FrameKeeps
<1>5. ASSUME NEW m \in BagToSet(flight), Dropped(m)
      PROVE  IInv'
  <2>1. IsABag(flight') /\ DOMAIN flight' \subseteq Messages /\ stepping = Nobody
    BY <1>0, <1>5, ArrivesTypes DEF Dropped
  <2>2. UNCHANGED <<mapVars, deleted, idVars>>
    BY <1>5 DEF Dropped
  <2>3. OtherTypes' /\ SteppingAlive' /\ keepAlive' = keepAlive
    BY <1>0, <1>5, <2>1 DEF Dropped, OtherTypes, SteppingAlive
  <2> QED
    BY <2>2, <2>3, FrameKeeps
<1>6. ASSUME NEW m \in BagToSet(flight), NextStepDetached(m)
      PROVE  IInv'
  <2>1. /\ IsABag(flight') /\ DOMAIN flight' \subseteq Messages
        /\ m.id \in Ids /\ stepping = Nobody
    BY <1>0, <1>6, ArrivesTypes DEF NextStepDetached
  <2>2. byId[m.id] # Nobody
    BY <1>0, <1>6, SchedulerAssumption DEF NextStepDetached, MapTypes
  <2>3. byId[m.id] \in Alive \ Zombies
    BY <1>0, <2>1, <2>2, FoundIsAlive
  <2>4. OtherTypes' /\ stepping' = Nobody
    BY <1>0, <1>6, <2>1 DEF NextStepDetached, OtherTypes
  <2>5. Release(byId[m.id]) /\ UNCHANGED <<idOf, nextId, keepAlive>>
    BY <1>6 DEF NextStepDetached
  <2> QED
    BY <2>3, <2>4, <2>5, ReleaseKeeps
<1>7. ASSUME NEW m \in BagToSet(flight), NextStep(m)
      PROVE  IInv'
  <2>1. /\ IsABag(flight') /\ DOMAIN flight' \subseteq Messages /\ m.id \in Ids
    BY <1>0, <1>7, ArrivesTypes DEF NextStep
  <2>2. byId[m.id] \in Tasks /\ byId[m.id] # Nobody
    BY <1>7, SchedulerAssumption DEF NextStep, Objects
  <2>3. byId[m.id] \in Alive \ Zombies /\ idOf[byId[m.id]] = m.id
    BY <1>0, <2>1, <2>2, FoundIsAlive
  <2>4. UNCHANGED <<mapVars, deleted, idVars>>
    BY <1>7 DEF NextStep
  <2>5. stepping' = byId[m.id] /\ keepAlive' = keepAlive
    BY <1>7 DEF NextStep
  <2>6. OtherTypes'
    BY <1>0, <1>7, <2>1, <2>2 DEF NextStep, OtherTypes
  <2>7. SteppingAlive'
    <3>1. /\ Alive' = Alive /\ Zombies' = Zombies
          /\ byId' = byId /\ idOf' = idOf
      BY <2>4 DEF Alive, Zombies, mapVars, idVars
    <3> QED
      BY <2>3, <2>5, <3>1 DEF SteppingAlive
  <2> QED
    BY <2>4, <2>5, <2>6, <2>7, FrameKeeps
<1>8. ASSUME NEW m \in BagToSet(flight), NextStepSubscription(m)
      PROVE  IInv'
  <2>1. /\ IsABag(flight') /\ DOMAIN flight' \subseteq Messages
        /\ m.id \in Ids /\ stepping = Nobody
    BY <1>0, <1>8, ArrivesTypes DEF NextStepSubscription
  <2>2. UNCHANGED <<mapVars, deleted, idVars>>
    BY <1>8 DEF NextStepSubscription
  <2>3. OtherTypes' /\ SteppingAlive'
    BY <1>0, <1>8, <2>1 DEF NextStepSubscription, OtherTypes, SteppingAlive
  <2>4. byId[m.id] \in Subscriptions /\ byId[m.id] # Nobody
    BY <1>8, SchedulerAssumption DEF NextStepSubscription, Objects
  <2>5. idOf[byId[m.id]] # 0
    BY <1>0, <2>1, <2>4, FoundIsAlive DEF Alive
  <2>6. keepAlive' \subseteq keepAlive \cup {byId[m.id]}
    BY <1>8 DEF NextStepSubscription
  <2> QED
    BY <2>2, <2>3, <2>5, <2>6, FrameKeeps
<1>9. ASSUME NEW m \in BagToSet(flight), Publish(m)
      PROVE  IInv'
  <2>1. IsABag(flight') /\ DOMAIN flight' \subseteq Messages /\ stepping = Nobody
    BY <1>0, <1>9, ArrivesTypes DEF Publish
  <2>2. UNCHANGED <<mapVars, deleted, idVars>>
    BY <1>9 DEF Publish
  <2>3. logicError' \in BOOLEAN
    BY <1>9 DEF Publish
  <2>4. OtherTypes' /\ SteppingAlive' /\ keepAlive' = keepAlive
    BY <1>0, <1>9, <2>1, <2>3 DEF Publish, OtherTypes, SteppingAlive
  <2> QED
    BY <2>2, <2>4, FrameKeeps
<1>10. ASSUME NEW m \in BagToSet(flight), Disconnected(m)
       PROVE  IInv'
  <2>1. /\ IsABag(flight') /\ DOMAIN flight' \subseteq Messages
        /\ m.id \in Ids /\ stepping = Nobody
    BY <1>0, <1>10, ArrivesTypes DEF Disconnected
  <2>2. OtherTypes' /\ SteppingAlive' /\ stepping' = Nobody
    BY <1>0, <1>10, <2>1 DEF Disconnected, OtherTypes, SteppingAlive
  <2>3. byId[m.id] \in Alive \ Zombies
    BY <1>0, <1>10, <2>1, FoundIsAlive DEF Disconnected
  <2>4. UNCHANGED <<idOf, nextId, keepAlive>>
    BY <1>10 DEF Disconnected
  <2>5. \/ UNCHANGED <<mapVars, deleted, freeIds>>
        \/ Release(byId[m.id])
    BY <1>10 DEF Disconnected
  <2>6. CASE UNCHANGED <<mapVars, deleted, freeIds>>
    BY <2>2, <2>4, <2>6, FrameKeeps DEF idVars
  <2>7. CASE Release(byId[m.id])
    BY <2>2, <2>3, <2>4, <2>7, ReleaseKeeps
  <2> QED
    BY <2>5, <2>6, <2>7
<1>11. ASSUME StepAsks
       PROVE  IInv'
  <2>1. /\ stepping \in Tasks /\ stepping \in Objects /\ stepping \in Alive
        /\ idOf[stepping] \in Ids
    BY <1>0, <1>11 DEF StepAsks, OtherTypes, SteppingAlive, IdTypes, Alive, Objects
  <2>2. Post(Message("answer", stepping)) /\ Message("answer", stepping) \in Messages
    BY <1>11, <2>1 DEF StepAsks, Message, Messages
  <2>3. IsABag(flight') /\ DOMAIN flight' \subseteq Messages
    BY <1>0, <2>2, PostTypes
  <2>4. step' \in [Tasks -> Int] /\ \A t \in Tasks : step'[t] \in -1 .. Callbacks[t]
    <3>1. PICK at \in step[stepping] + 1 .. Callbacks[stepping] :
                 step' = [step EXCEPT ![stepping] = at]
      BY <1>11 DEF StepAsks
    <3>2. /\ step[stepping] \in Int /\ step[stepping] >= -1
          /\ Callbacks[stepping] \in Nat
      BY <1>0, <2>1, SchedulerAssumption DEF OtherTypes
    <3>3. at \in Int /\ at \in -1 .. Callbacks[stepping]
      BY <3>1, <3>2
    <3> QED
      BY <1>0, <3>1, <3>3 DEF OtherTypes
  <2>5. OtherTypes' /\ SteppingAlive'
    BY <1>0, <1>11, <2>3, <2>4 DEF StepAsks, OtherTypes, SteppingAlive
  <2>6. UNCHANGED <<mapVars, deleted, idVars>> /\ keepAlive' = keepAlive
    BY <1>11 DEF StepAsks
  <2> QED
    BY <2>5, <2>6, FrameKeeps
<1>12. ASSUME StepEnds
       PROVE  IInv'
  <2>1. stepping \in Alive \ Zombies
    BY <1>0, <1>12 DEF StepEnds, SteppingAlive
  <2>2. OtherTypes' /\ stepping' = Nobody
    BY <1>0, <1>12 DEF StepEnds, OtherTypes
  <2>3. Release(stepping) /\ UNCHANGED <<idOf, nextId, keepAlive>>
    BY <1>12 DEF StepEnds
  <2> QED
    BY <2>1, <2>2, <2>3, ReleaseKeeps
<1>13. ASSUME NEW s \in Subscriptions, HubPublishes(s) \/ HubDisconnected(s)
       PROVE  IInv'
  <2>1. /\ UNCHANGED <<mapVars, deleted, idVars>>
        /\ UNCHANGED <<step, stepping, logicError>>
        /\ keepAlive' \subseteq keepAlive /\ s \in keepAlive
        /\ Post(Message("publish", s)) \/ Post(Message("disconnected", s))
    BY <1>13 DEF HubPublishes, HubDisconnected
  <2>2. s \in Objects /\ idOf[s] \in Ids
    BY <1>0, <2>1 DEF Pushed, IdTypes, Objects
  <2>3. Message("publish", s) \in Messages /\ Message("disconnected", s) \in Messages
    BY <2>2 DEF Message, Messages
  <2>4. IsABag(flight') /\ DOMAIN flight' \subseteq Messages
    BY <1>0, <2>1, <2>3, PostTypes
  <2>5. OtherTypes' /\ SteppingAlive'
    BY <1>0, <2>1, <2>4
       DEF OtherTypes, SteppingAlive, Alive, Zombies, mapVars, idVars
  <2> QED
    BY <2>1, <2>5, FrameKeeps
<1>14. CASE UNCHANGED vars
  <2>1. UNCHANGED <<mapVars, deleted, idVars>>
        /\ UNCHANGED <<step, stepping, flight, keepAlive, logicError>>
    BY <1>14 DEF vars
  <2>2. OtherTypes' /\ SteppingAlive'
    BY <1>0, <2>1
       DEF OtherTypes, SteppingAlive, Alive, Zombies, mapVars, idVars
  <2> QED
    BY <2>1, <2>2, FrameKeeps
<1> QED
  BY <1>1, <1>2, <1>3, <1>4, <1>5, <1>6, <1>7, <1>8, <1>9, <1>10, <1>11,
     <1>12, <1>13, <1>14
  DEF Next, ClientNext, MessageNext, StepNext, HubNext

-----------------------------------------------------------------------------
(* The theorems.                                                           *)

LEMMA InvariantHolds == Spec => []IInv
BY InitHolds, StepKeeps, PTL DEF Spec

\* Every variable keeps its type: there are never more ids than objects, and
\* the bag of messages never takes a message that names no id (Rent, Post).
THEOREM SchedulerTypes == Spec => []TypeOK
<1>1. IInv => TypeOK
  BY DEF IInv
<1> QED
  BY <1>1, InvariantHolds, PTL

\* No two objects have the same id, nor has an object one that is free, in
\* whatever order ids are rented and returned (UniqueIDGenerator).
THEOREM IdsNeverShared == Spec => []IdsUnique
<1>1. IInv => IdsUnique
  BY DEF IInv, IdInv
<1> QED
  BY <1>1, InvariantHolds, PTL

\* ids_to_object_map_ has exactly the objects that have not ended
\* (Push, ReleaseObject).
THEOREM MapsAlwaysAgree == Spec => []MapsAgree
<1>1. IInv => MapsAgree
  BY DEF IInv
<1> QED
  BY <1>1, InvariantHolds, PTL

\* No call that the callbacks of a task make deletes the task under its own
\* Step (Unregister, Register, Push).
THEOREM StepNeverDeleted == Spec => []SteppingAlive
<1>1. IInv => SteppingAlive
  BY DEF IInv
<1> QED
  BY <1>1, InvariantHolds, PTL


-----------------------------------------------------------------------------
(* The place of an object.                                                 *)

\* The objects that were pushed and have not ended.
Live == Alive \ Zombies

\* A client that is registered holds what it pushed; nobody else holds it.
Holders ==
  \A c \in Clients : \A o \in objects[c] :
    c \in registered /\ clientOf[o] = c /\ o \in Live \ detached

\* What has not ended is held by its client or detached.
PlaceInv ==
  /\ Holders
  /\ detached \subseteq Live
  /\ \A o \in Live : o \in detached \/ Attached(o)

\* Every step is one of these, as far as the maps are concerned.
LEMMA StepKinds ==
  ASSUME IInv, [Next]_vars
  PROVE  \/ \E c \in Clients : Register(c) \/ Unregister(c)
         \/ \E c \in Clients, o \in Objects : Push(c, o)
         \/ \E o \in Live : Release(o) /\ UNCHANGED <<idOf, nextId>>
         \/ UNCHANGED <<mapVars, deleted, idVars>>
<1>0. TypeOK /\ MapsAgree /\ SteppingAlive /\ MapTypes
  BY Types DEF IInv
<1>1. CASE ClientNext
  BY <1>1 DEF ClientNext, PushAgain
<1>2. CASE MessageNext
  <2> PICK m \in BagToSet(flight) :
        \/ Dropped(m) \/ NextStepDetached(m) \/ NextStep(m)
        \/ NextStepSubscription(m) \/ Publish(m) \/ Disconnected(m)
    BY <1>2 DEF MessageNext
  <2>1. CASE \/ Dropped(m) \/ NextStep(m) \/ NextStepSubscription(m)
             \/ Publish(m)
    BY <2>1 DEF Dropped, NextStep, NextStepSubscription, Publish
  <2>2. CASE NextStepDetached(m) \/ Disconnected(m)
    <3>1. \/ UNCHANGED <<mapVars, deleted, idVars>>
          \/ Release(byId[m.id]) /\ UNCHANGED <<idOf, nextId>>
      BY <2>2 DEF NextStepDetached, Disconnected, idVars
    <3>2. byId[m.id] # Nobody
      BY <1>0, <2>2, SchedulerAssumption
         DEF NextStepDetached, Disconnected, MapTypes
    <3>3. m.id \in Ids
      BY <1>0, <2>2, ArrivesTypes DEF NextStepDetached, Disconnected
    <3>4. byId[m.id] \in Live
      BY <1>0, <3>2, <3>3, FoundIsAlive DEF Live
    <3> QED
      BY <3>1, <3>4
  <2> QED
    BY <2>1, <2>2
<1>3. CASE StepNext
  <2>1. CASE StepAsks
    BY <2>1 DEF StepAsks
  <2>2. CASE StepEnds
    BY <1>0, <2>2 DEF StepEnds, SteppingAlive, Live
  <2> QED
    BY <1>3, <2>1, <2>2 DEF StepNext
<1>4. CASE HubNext \/ UNCHANGED vars
  BY <1>4 DEF HubNext, HubPublishes, HubDisconnected, vars
<1> QED
  BY <1>1, <1>2, <1>3, <1>4 DEF Next

\* How a step changes what has not ended.
LEMMA PushLive ==
  ASSUME IInv, NEW c \in Clients, NEW o \in Objects, Push(c, o)
  PROVE  /\ o \notin Live /\ Live' = Live \cup {o} /\ idOf'[o] \in Ids
         /\ \A p \in Objects : p # o => idOf'[p] = idOf[p]
<1>1. TypeOK /\ IdInv /\ ZombiesOnce /\ idOf[o] = 0 /\ Rent(o)
      /\ UNCHANGED <<deleted, zombies>>
  BY DEF IInv, Push
<1>2. /\ idOf'[o] \in Ids /\ idOf' = [idOf EXCEPT ![o] = idOf'[o]]
      /\ o \notin Alive /\ Alive' = Alive \cup {o}
  BY <1>1, RentFresh
<1>3. Zombies' = Zombies /\ o \notin Zombies
  BY <1>1, <1>2 DEF Zombies, ZombiesOnce
<1> QED
  BY <1>1, <1>2, <1>3 DEF Live, TypeOK

LEMMA QuietLive ==
  ASSUME IInv,
         \/ \E c \in Clients : Register(c) \/ Unregister(c)
         \/ UNCHANGED <<mapVars, deleted, idVars>>
  PROVE  Live' = Live /\ idOf' = idOf
<1>1. ASSUME NEW c \in Clients, Register(c) \/ Unregister(c)
      PROVE  Live' = Live /\ idOf' = idOf
  <2>1. KillZombies /\ UNCHANGED <<idOf, nextId>>
    BY <1>1 DEF Register, Unregister
  <2> QED
    BY <2>1, KillZombiesKeeps DEF Live
<1>2. CASE UNCHANGED <<mapVars, deleted, idVars>>
  BY <1>2 DEF Live, Alive, Zombies, mapVars, idVars
<1> QED
  BY <1>1, <1>2

LEMMA PlaceStep == IInv /\ PlaceInv /\ [Next]_vars => PlaceInv'
<1> SUFFICES ASSUME IInv, PlaceInv, [Next]_vars PROVE PlaceInv'
  OBVIOUS
<1>0. MapTypes
  BY Types DEF IInv
<1>1. ASSUME NEW c \in Clients, Register(c) PROVE PlaceInv'
  <2>1. Live' = Live
    BY <1>1, QuietLive
  <2>2. /\ registered' = registered \cup {c}
        /\ UNCHANGED <<objects, clientOf, detached>>
    BY <1>1 DEF Register
  <2> QED
    BY <2>1, <2>2 DEF PlaceInv, Holders, Attached
<1>2. ASSUME NEW c \in Clients, Unregister(c) PROVE PlaceInv'
  <2>1. Live' = Live
    BY <1>2, QuietLive
  <2>2. /\ registered' = registered \ {c} /\ clientOf' = clientOf
        /\ detached' = detached \cup objects[c]
        /\ \A d \in Clients : objects'[d] = IF d = c THEN {} ELSE objects[d]
    BY <1>0, <1>2 DEF Unregister, MapTypes
  <2>3. Holders'
    BY <2>1, <2>2 DEF PlaceInv, Holders
  <2>4. detached' \subseteq Live'
    BY <2>1, <2>2 DEF PlaceInv, Holders
  <2>5. ASSUME NEW o \in Live' PROVE o \in detached' \/ Attached(o)'
    BY <1>0, <2>1, <2>2, <2>5 DEF PlaceInv, Attached, MapTypes
  <2> QED
    BY <2>3, <2>4, <2>5 DEF PlaceInv
<1>3. ASSUME NEW c \in Clients, NEW o \in Objects, Push(c, o) PROVE PlaceInv'
  <2>1. o \notin Live /\ Live' = Live \cup {o}
    BY <1>3, PushLive
  <2>2. /\ c \in registered /\ UNCHANGED <<registered, detached>>
        /\ \A d \in Clients :
             objects'[d] = IF d = c THEN objects[d] \cup {o} ELSE objects[d]
        /\ \A p \in Objects : clientOf'[p] = IF p = o THEN c ELSE clientOf[p]
    BY <1>0, <1>3 DEF Push, MapTypes
  <2>3. Holders'
    <3> SUFFICES ASSUME NEW d \in Clients, NEW p \in objects'[d]
                 PROVE  /\ d \in registered' /\ clientOf'[p] = d
                        /\ p \in Live' \ detached'
      BY DEF Holders
    <3>1. CASE p \in objects[d]
      <4>1. /\ d \in registered /\ clientOf[p] = d /\ p \in Live \ detached
            /\ p \in Objects
        BY <1>0, <3>1 DEF PlaceInv, Holders, MapTypes
      <4>2. clientOf'[p] = d
        BY <2>1, <2>2, <4>1
      <4> QED
        BY <2>1, <2>2, <4>1, <4>2
    <3>2. CASE p \notin objects[d]
      <4>1. p = o /\ d = c
        BY <2>2, <3>2
      <4>2. o \notin detached
        BY <2>1 DEF PlaceInv
      <4> QED
        BY <2>1, <2>2, <4>1, <4>2
    <3> QED
      BY <3>1, <3>2
  <2>4. detached' \subseteq Live'
    BY <2>1, <2>2 DEF PlaceInv
  <2>5. ASSUME NEW p \in Live' PROVE p \in detached' \/ Attached(p)'
    <3>1. CASE p = o
      BY <2>2, <3>1 DEF Attached
    <3>2. CASE p # o
      <4>1. p \in detached \/ Attached(p)
        BY <2>1, <2>5, <3>2 DEF PlaceInv
      <4> QED
        BY <1>0, <2>2, <4>1 DEF Attached, MapTypes
    <3> QED
      BY <3>1, <3>2
  <2> QED
    BY <2>3, <2>4, <2>5 DEF PlaceInv
<1>4. ASSUME NEW o \in Live, Release(o), UNCHANGED <<idOf, nextId>>
      PROVE  PlaceInv'
  <2>1. Live' = Live \ {o}
    BY <1>4, ReleaseEnds DEF Live
  <2>2. /\ registered' = registered /\ detached' = detached \ {o}
        /\ \A d \in Clients :
             objects'[d] = IF d = clientOf[o] THEN objects[d] \ {o}
                                              ELSE objects[d]
        /\ \A p \in Objects : p # o => clientOf'[p] = clientOf[p]
    BY <1>0, <1>4 DEF Release, MapTypes
  <2>3. Holders'
    <3> SUFFICES ASSUME NEW d \in Clients, NEW p \in objects'[d]
                 PROVE  /\ d \in registered' /\ clientOf'[p] = d
                        /\ p \in Live' \ detached'
      BY DEF Holders
    <3>1. p \in objects[d]
      BY <2>2
    <3>2. /\ d \in registered /\ clientOf[p] = d /\ p \in Live \ detached
          /\ p \in Objects
      BY <1>0, <3>1 DEF PlaceInv, Holders, MapTypes
    <3>3. p # o
      BY <2>2, <3>2
    <3> QED
      BY <2>1, <2>2, <3>2, <3>3
  <2>4. detached' \subseteq Live'
    BY <2>1, <2>2 DEF PlaceInv
  <2>5. ASSUME NEW p \in Live' PROVE p \in detached' \/ Attached(p)'
    <3>1. p # o /\ (p \in detached \/ Attached(p))
      BY <2>1, <2>5 DEF PlaceInv
    <3> QED
      BY <1>0, <2>2, <3>1 DEF Attached, MapTypes
  <2> QED
    BY <2>3, <2>4, <2>5 DEF PlaceInv
<1>5. CASE UNCHANGED <<mapVars, deleted, idVars>>
  <2>1. Live' = Live
    BY <1>5, QuietLive
  <2> QED
    BY <1>5, <2>1 DEF PlaceInv, Holders, Attached, mapVars
<1> QED
  BY <1>1, <1>2, <1>3, <1>4, <1>5, StepKinds

LEMMA PlaceInit == Init => PlaceInv
BY DEF Init, PlaceInv, Holders, Live, Alive

LEMMA PlacesHold == Spec => [](IInv /\ PlaceInv)
BY InitHolds, StepKeeps, PlaceInit, PlaceStep, PTL DEF Spec

\* An object that was pushed is in the vector of the client that pushed it, in
\* detached_, in zombies_ once, or deleted, and in one of these only: nothing
\* is lost by Unregister, and nothing is deleted twice.
THEOREM ObjectInOnePlace == Spec => []OnePlace
<1>1. IInv /\ PlaceInv => OnePlace
  <2> SUFFICES ASSUME IInv, PlaceInv, NEW o \in Objects, idOf[o] # 0
               PROVE  Cardinality({c \in registered : o \in objects[c]})
                        + (IF o \in detached THEN 1 ELSE 0)
                        + Cardinality({i \in DOMAIN zombies : zombies[i] = o})
                        + (IF o \in deleted THEN 1 ELSE 0) = 1
    BY DEF OnePlace
  <2> DEFINE held == {c \in registered : o \in objects[c]}
             kept == {i \in DOMAIN zombies : zombies[i] = o}
             h == Cardinality(held)
             k == Cardinality(kept)
  <2>0. MapTypes /\ ZombiesOnce
    BY Types DEF IInv
  <2>1. Cardinality({}) = 0
    BY FS_EmptySet
  <2>2. o \notin Live => h = 0 /\ o \notin detached
    <3>1. o \notin Live => held = {} /\ o \notin detached
      BY <2>0 DEF PlaceInv, Holders, MapTypes
    <3> QED
      BY <2>1, <3>1
  <2>3. o \notin Zombies => k = 0
    <3>1. o \notin Zombies => kept = {}
      BY DEF Zombies
    <3> QED
      BY <2>1, <3>1
  <2>4. CASE o \in deleted
    <3>1. o \notin Live /\ o \notin Zombies
      BY <2>0, <2>4 DEF Live, Alive, Zombies, ZombiesOnce
    <3> HIDE DEF h, k
    <3>2. h + (IF o \in detached THEN 1 ELSE 0) + k
            + (IF o \in deleted THEN 1 ELSE 0) = 1
      BY <2>2, <2>3, <2>4, <3>1
    <3> QED
      BY <3>2 DEF h, k
  <2>5. CASE o \in Zombies
    <3>1. o \notin Live /\ o \notin deleted
      BY <2>0, <2>5 DEF Live, Alive, Zombies, ZombiesOnce
    <3>2. PICK i \in DOMAIN zombies : zombies[i] = o
      BY <2>5 DEF Zombies
    <3>3. kept = {i}
      BY <2>0, <3>2 DEF ZombiesOnce
    <3>4. k = 1
      BY <3>3, FS_Singleton
    <3> HIDE DEF h, k
    <3>5. h + (IF o \in detached THEN 1 ELSE 0) + k
            + (IF o \in deleted THEN 1 ELSE 0) = 1
      BY <2>2, <3>1, <3>4
    <3> QED
      BY <3>5 DEF h, k
  <2>6. CASE o \in Live
    <3>1. o \notin deleted /\ o \notin Zombies
      BY <2>6 DEF Live, Alive
    <3>2. h = IF o \in detached THEN 0 ELSE 1
      <4>1. CASE o \in detached
        <5>1. held = {}
          BY <2>0, <4>1 DEF PlaceInv, Holders, MapTypes
        <5> QED
          BY <2>1, <4>1, <5>1
      <4>2. CASE o \notin detached
        <5>1. PICK c \in registered : o \in objects[c]
          BY <2>6, <4>2 DEF PlaceInv, Attached
        <5>2. held = {c}
          BY <2>0, <5>1 DEF PlaceInv, Holders, MapTypes
        <5> QED
          BY <4>2, <5>2, FS_Singleton
      <4> QED
        BY <4>1, <4>2
    <3> HIDE DEF h, k
    <3>3. h + (IF o \in detached THEN 1 ELSE 0) + k
            + (IF o \in deleted THEN 1 ELSE 0) = 1
      BY <2>3, <3>1, <3>2
    <3> QED
      BY <3>3 DEF h, k
  <2> QED
    BY <2>4, <2>5, <2>6 DEF Live, Alive
<1> QED
  BY <1>1, PlacesHold, PTL

-----------------------------------------------------------------------------
(* Messages under way, while the manager of the subscriptions stays: it    *)
(* goes with the process only (redis/subscriptions/manager.cc, Shutdown).  *)

\* How often a bag holds a message.
Held(b, m) == IF m \in DOMAIN b THEN b[m] ELSE 0

\* How many messages in a bag are to go on with a task of this id.
Under(b, i, t) ==
  Held(b, [kind |-> "echo", id |-> i, from |-> t])
    + Held(b, [kind |-> "answer", id |-> i, from |-> t])

\* A message that goes on with a task of this id.
GoesOn(m, i, t) == m.kind \in {"echo", "answer"} /\ m.id = i /\ m.from = t

\* A message tells whom it is about, and of a task where the task is.
Signed ==
  \A m \in DOMAIN flight :
    /\ idOf[m.from] = m.id
    /\ m.from \in Tasks =>
         m.kind = IF step[m.from] = -1 THEN "echo" ELSE "answer"

\* The manager holds every subscription that was pushed.
ManagerHolds == \A s \in Subscriptions : idOf[s] # 0 => s \in objects[Manager]

\* A task that was not pushed has not been stepped.
Unstarted == \A t \in Tasks : idOf[t] = 0 => step[t] = -1

\* OneMessagePerTask, for one task.
OneMessage(t) ==
  Under(flight, idOf[t], t) + (IF stepping = t THEN 1 ELSE 0)
    = IF t \in Live THEN 1 ELSE 0

FlightInv ==
  /\ Signed /\ ManagerHolds /\ Unstarted
  /\ \A t \in Tasks : OneMessage(t)

LEMMA HeldType ==
  ASSUME NEW b, IsABag(b), NEW m
  PROVE  Held(b, m) \in Nat /\ (Held(b, m) = 0 <=> m \notin DOMAIN b)
BY DEF IsABag, Held

LEMMA HeldAdd ==
  ASSUME NEW b, IsABag(b), NEW e, NEW m
  PROVE  Held(b (+) SetToBag({e}), m) = Held(b, m) + (IF m = e THEN 1 ELSE 0)
<1> DEFINE c == b (+) SetToBag({e})
<1>1. DOMAIN c = DOMAIN b \cup {e}
  BY BagAdd
<1>2. m \in DOMAIN c =>
        c[m] = (IF m \in DOMAIN b THEN b[m] ELSE 0)
                 + (IF m \in {e} THEN 1 ELSE 0)
  BY DEF (+), SetToBag
<1>3. Held(b, m) \in Nat
  BY HeldType
<1> HIDE DEF c
<1>4. Held(c, m) = Held(b, m) + (IF m = e THEN 1 ELSE 0)
  BY <1>1, <1>2, <1>3 DEF Held
<1> QED
  BY <1>4 DEF c

LEMMA HeldTake ==
  ASSUME NEW b, IsABag(b), NEW e \in DOMAIN b, NEW m
  PROVE  Held(b, m) = Held(b (-) SetToBag({e}), m) + (IF m = e THEN 1 ELSE 0)
<1> DEFINE D == [x \in DOMAIN b |-> IF x \in {e} THEN b[x] - 1 ELSE b[x]]
           c == [x \in {y \in DOMAIN D : D[y] > 0} |-> D[x]]
<1>1. b (-) SetToBag({e}) = c
  BY DEF (-), SetToBag
<1>2. Held(b, m) \in Nat /\ (m \in DOMAIN b => b[m] \in Nat /\ b[m] > 0)
  BY HeldType DEF IsABag
<1>3. m \in DOMAIN c <=> m \in DOMAIN b /\ D[m] > 0
  OBVIOUS
<1>4. m \in DOMAIN c => c[m] = D[m]
  OBVIOUS
<1>5. m \in DOMAIN b => D[m] = IF m = e THEN b[m] - 1 ELSE b[m]
  OBVIOUS
<1> HIDE DEF c, D
<1>6. Held(b, m) = Held(c, m) + (IF m = e THEN 1 ELSE 0)
  BY <1>2, <1>3, <1>4, <1>5 DEF Held
<1> QED
  BY <1>1, <1>6

LEMMA UnderType ==
  ASSUME NEW b, IsABag(b), NEW i, NEW t
  PROVE  /\ Under(b, i, t) \in Nat
         /\ Under(b, i, t) = 0 => \A m \in DOMAIN b \cap Messages : ~ GoesOn(m, i, t)
<1> DEFINE echo == [kind |-> "echo", id |-> i, from |-> t]
           answer == [kind |-> "answer", id |-> i, from |-> t]
<1>1. /\ Held(b, echo) \in Nat /\ Held(b, answer) \in Nat
      /\ Held(b, echo) = 0 => echo \notin DOMAIN b
      /\ Held(b, answer) = 0 => answer \notin DOMAIN b
  BY HeldType
<1>2. Under(b, i, t) = Held(b, echo) + Held(b, answer)
  BY DEF Under
<1>3. ASSUME NEW m \in Messages, GoesOn(m, i, t)
      PROVE  m = echo \/ m = answer
  BY <1>3 DEF Messages, GoesOn
<1> HIDE DEF echo, answer
<1> QED
  BY <1>1, <1>2, <1>3

LEMMA UnderAdd ==
  ASSUME NEW b, IsABag(b), NEW e \in Messages, NEW i, NEW t
  PROVE  Under(b (+) SetToBag({e}), i, t)
           = Under(b, i, t) + (IF GoesOn(e, i, t) THEN 1 ELSE 0)
<1> DEFINE echo == [kind |-> "echo", id |-> i, from |-> t]
           answer == [kind |-> "answer", id |-> i, from |-> t]
           c == b (+) SetToBag({e})
<1>1. /\ Held(c, echo) = Held(b, echo) + (IF echo = e THEN 1 ELSE 0)
      /\ Held(c, answer) = Held(b, answer) + (IF answer = e THEN 1 ELSE 0)
      /\ Held(b, echo) \in Nat /\ Held(b, answer) \in Nat
  <2>1. \A m : Held(c, m) = Held(b, m) + (IF m = e THEN 1 ELSE 0)
    BY HeldAdd
  <2>2. \A m : Held(b, m) \in Nat
    BY HeldType
  <2> HIDE DEF echo, answer, c
  <2> QED
    BY <2>1, <2>2
<1>2. GoesOn(e, i, t) <=> echo = e \/ answer = e
  BY DEF Messages, GoesOn
<1>3. echo # answer
  OBVIOUS
<1>4. /\ Under(b, i, t) = Held(b, echo) + Held(b, answer)
      /\ Under(c, i, t) = Held(c, echo) + Held(c, answer)
  BY DEF Under
<1> HIDE DEF echo, answer, c
<1>5. Under(c, i, t) = Under(b, i, t) + (IF GoesOn(e, i, t) THEN 1 ELSE 0)
  BY <1>1, <1>2, <1>3, <1>4
<1> QED
  BY <1>5 DEF c

LEMMA UnderTake ==
  ASSUME NEW b, IsABag(b), NEW e \in Messages, e \in DOMAIN b, NEW i, NEW t
  PROVE  Under(b, i, t) = Under(b (-) SetToBag({e}), i, t)
                            + (IF GoesOn(e, i, t) THEN 1 ELSE 0)
<1> DEFINE echo == [kind |-> "echo", id |-> i, from |-> t]
           answer == [kind |-> "answer", id |-> i, from |-> t]
           c == b (-) SetToBag({e})
<1>0. IsABag(c)
  BY BagTake
<1>1. /\ Held(b, echo) = Held(c, echo) + (IF echo = e THEN 1 ELSE 0)
      /\ Held(b, answer) = Held(c, answer) + (IF answer = e THEN 1 ELSE 0)
  BY HeldTake
<1>2. GoesOn(e, i, t) <=> echo = e \/ answer = e
  BY DEF Messages, GoesOn
<1>3. echo # answer
  OBVIOUS
<1>4. /\ Under(b, i, t) = Held(b, echo) + Held(b, answer)
      /\ Under(c, i, t) = Held(c, echo) + Held(c, answer)
  BY DEF Under
<1> HIDE DEF echo, answer, c
<1>5. Held(c, echo) \in Nat /\ Held(c, answer) \in Nat
  BY <1>0, HeldType
<1>6. Under(b, i, t) = Under(c, i, t) + (IF GoesOn(e, i, t) THEN 1 ELSE 0)
  BY <1>1, <1>2, <1>3, <1>4, <1>5
<1> QED
  BY <1>6 DEF c

\* A message that is sent, and one that arrives.
LEMMA PostAdds ==
  ASSUME OtherTypes, NEW e \in Messages, Post(e)
  PROVE  /\ DOMAIN flight' = DOMAIN flight \cup {e}
         /\ \A i, t : Under(flight', i, t)
                        = Under(flight, i, t) + (IF GoesOn(e, i, t) THEN 1 ELSE 0)
         /\ \A i, t : Under(flight, i, t) \in Nat
<1>1. IsABag(flight) /\ flight' = flight (+) SetToBag({e})
  BY DEF OtherTypes, Post
<1>2. DOMAIN flight' = DOMAIN flight \cup {e}
  BY <1>1, BagAdd
<1>3. \A i, t : Under(flight', i, t)
                  = Under(flight, i, t) + (IF GoesOn(e, i, t) THEN 1 ELSE 0)
  BY <1>1, UnderAdd
<1>4. \A i, t : Under(flight, i, t) \in Nat
  BY <1>1, UnderType
<1> QED
  BY <1>2, <1>3, <1>4

LEMMA ArrivesTakes ==
  ASSUME OtherTypes, NEW e \in DOMAIN flight, NEW kinds, Arrives(e, kinds)
  PROVE  /\ DOMAIN flight' \subseteq DOMAIN flight
         /\ \A i, t : Under(flight, i, t)
                        = Under(flight', i, t) + (IF GoesOn(e, i, t) THEN 1 ELSE 0)
         /\ \A i, t : Under(flight', i, t) \in Nat
<1>1. /\ IsABag(flight) /\ e \in Messages
      /\ flight' = flight (-) SetToBag({e})
  BY DEF OtherTypes, Arrives
<1>2. /\ IsABag(flight') /\ DOMAIN flight' \subseteq DOMAIN flight
  BY <1>1, BagTake
<1>3. \A i, t : Under(flight, i, t)
                  = Under(flight', i, t) + (IF GoesOn(e, i, t) THEN 1 ELSE 0)
  BY <1>1, UnderTake
<1>4. \A i, t : Under(flight', i, t) \in Nat
  BY <1>2, UnderType
<1> QED
  BY <1>2, <1>3, <1>4

\* A message finds the object it is about, which has not ended.
LEMMA MessageFinds ==
  ASSUME IInv, PlaceInv, FlightInv, NEW m \in DOMAIN flight
  PROVE  /\ m \in Messages /\ m.from \in Live /\ byId[m.id] = m.from
         /\ m.from \in Subscriptions => Attached(m.from) /\ m.from \notin detached
         /\ m.from \in Tasks =>
              GoesOn(m, idOf[m.from], m.from) /\ stepping # m.from
<1>0. OtherTypes /\ MapsAgree /\ IdTypes
  BY Types DEF IInv
<1>1. /\ m \in Messages /\ m.from \in Objects /\ m.id \in Ids
      /\ idOf[m.from] = m.id
  BY <1>0 DEF OtherTypes, Messages, FlightInv, Signed
<1>2. CASE m.from \in Subscriptions
  <2>1. m.from \in objects[Manager] /\ m.from \notin Tasks
    BY <1>1, <1>2, SchedulerAssumption DEF FlightInv, ManagerHolds, Ids
  <2>2. Manager \in registered /\ m.from \in Live \ detached
    BY <2>1, SchedulerAssumption DEF PlaceInv, Holders
  <2>3. byId[m.id] = m.from
    BY <1>0, <1>1, <2>2 DEF MapsAgree, Live
  <2> QED
    BY <1>1, <2>1, <2>2, <2>3 DEF Attached
<1>3. CASE m.from \in Tasks
  <2>1. m.from \notin Subscriptions
    BY <1>3, SchedulerAssumption
  <2>2. GoesOn(m, idOf[m.from], m.from)
    BY <1>1, <1>3 DEF FlightInv, Signed, GoesOn
  <2>3. /\ Under(flight, idOf[m.from], m.from) \in Nat
        /\ Under(flight, idOf[m.from], m.from) # 0
    BY <1>0, <1>1, <2>2, UnderType DEF OtherTypes
  <2>4. m.from \in Live /\ stepping # m.from
    BY <1>3, <2>3 DEF FlightInv, OneMessage
  <2>5. byId[m.id] = m.from
    BY <1>0, <1>1, <2>4 DEF MapsAgree, Live
  <2> QED
    BY <1>1, <2>1, <2>2, <2>4, <2>5
<1> QED
  BY <1>1, <1>2, <1>3 DEF Objects

\* Steps that send nothing and let nothing end.
LEMMA FlightQuiet ==
  ASSUME FlightInv, UNCHANGED <<idOf, flight, step, stepping>>, Live' = Live,
         ManagerHolds'
  PROVE  FlightInv'
<1>1. Signed' /\ Unstarted'
  BY DEF FlightInv, Signed, Unstarted
<1>2. \A t \in Tasks : OneMessage(t)'
  BY DEF FlightInv, OneMessage
<1> QED
  BY <1>1, <1>2 DEF FlightInv

\* A message that is about a subscription comes or goes.
LEMMA FlightSubscription ==
  ASSUME IInv, FlightInv, UNCHANGED <<mapVars, deleted, idVars, step, stepping>>,
         NEW e \in Messages, e.from \in Subscriptions, e.id = idOf[e.from],
         \/ Post(e)
         \/ e \in DOMAIN flight /\ \E kinds : Arrives(e, kinds)
  PROVE  FlightInv'
<1>0. OtherTypes /\ idOf' = idOf /\ step' = step /\ stepping' = stepping
  BY Types DEF IInv, idVars
<1>1. Live' = Live /\ objects' = objects
  BY DEF Live, Alive, Zombies, mapVars, idVars
<1>2. \A t \in Tasks : ~ GoesOn(e, idOf[t], t)
  BY SchedulerAssumption DEF GoesOn
<1>3. /\ DOMAIN flight' \subseteq DOMAIN flight \cup {e}
      /\ \A t \in Tasks : Under(flight', idOf[t], t) = Under(flight, idOf[t], t)
  <2>1. CASE Post(e)
    <3>1. /\ DOMAIN flight' = DOMAIN flight \cup {e}
          /\ \A i, t : Under(flight', i, t)
                         = Under(flight, i, t) + (IF GoesOn(e, i, t) THEN 1 ELSE 0)
          /\ \A i, t : Under(flight, i, t) \in Nat
      BY <1>0, <2>1, PostAdds
    <3> QED
      BY <1>2, <3>1
  <2>2. CASE e \in DOMAIN flight /\ \E kinds : Arrives(e, kinds)
    BY <1>0, <1>2, <2>2, ArrivesTakes
  <2> QED
    BY <2>1, <2>2
<1>4. Signed'
  BY <1>0, <1>3, SchedulerAssumption DEF FlightInv, Signed
<1>5. ManagerHolds' /\ Unstarted'
  BY <1>0, <1>1 DEF FlightInv, ManagerHolds, Unstarted
<1>6. \A t \in Tasks : OneMessage(t)'
  BY <1>0, <1>1, <1>3 DEF FlightInv, OneMessage
<1> QED
  BY <1>4, <1>5, <1>6 DEF FlightInv

\* A task ends; what is under way for the others stays.
LEMMA FlightRelease ==
  ASSUME IInv, FlightInv, NEW o \in Live, o \in Tasks, Release(o),
         UNCHANGED <<idOf, nextId, step>>, stepping' = Nobody,
         DOMAIN flight' \subseteq DOMAIN flight,
         Under(flight', idOf[o], o) = 0,
         \A t \in Tasks : t # o =>
           /\ Under(flight', idOf[t], t) = Under(flight, idOf[t], t)
           /\ stepping # t
  PROVE  FlightInv'
<1>0. OtherTypes /\ MapTypes /\ idOf' = idOf /\ step' = step
  BY Types DEF IInv
<1>1. Live' = Live \ {o}
  BY ReleaseEnds DEF Live
<1>2. \A s \in Subscriptions : s \in objects[Manager] => s \in objects'[Manager]
  BY <1>0, SchedulerAssumption DEF Release, MapTypes
<1>3. Signed' /\ ManagerHolds' /\ Unstarted'
  BY <1>0, <1>2 DEF FlightInv, Signed, ManagerHolds, Unstarted
<1>4. ASSUME NEW t \in Tasks PROVE OneMessage(t)'
  <2>1. Nobody # t
    BY SchedulerAssumption DEF Objects
  <2>2. CASE t = o
    BY <1>0, <1>1, <2>1, <2>2 DEF OneMessage
  <2>3. CASE t # o
    BY <1>0, <1>1, <2>1, <2>3 DEF FlightInv, OneMessage
  <2> QED
    BY <2>2, <2>3
<1> QED
  BY <1>3, <1>4 DEF FlightInv

LEMMA FlightInit == Init => FlightInv
<1> SUFFICES ASSUME Init PROVE FlightInv
  OBVIOUS
<1>1. DOMAIN flight = {} /\ zombies = <<>>
  BY DEF Init, EmptyBag, SetToBag
<1>2. Live = {}
  BY DEF Init, Live, Alive
<1>3. Signed /\ ManagerHolds /\ Unstarted
  BY <1>1, SchedulerAssumption
     DEF Init, Signed, ManagerHolds, Unstarted, Objects
<1>4. ASSUME NEW t \in Tasks PROVE OneMessage(t)
  <2>1. Under(flight, idOf[t], t) = 0
    BY <1>1 DEF Under, Held
  <2>2. stepping # t
    BY SchedulerAssumption DEF Init, Objects
  <2> QED
    BY <1>2, <2>1, <2>2 DEF OneMessage
<1> QED
  BY <1>3, <1>4 DEF FlightInv

\* Push sends the first message of a new task; nothing is under way for it yet.
LEMMA FlightPush ==
  ASSUME IInv, PlaceInv, FlightInv, NEW c \in Clients, NEW o \in Objects,
         Push(c, o)
  PROVE  FlightInv'
<1> DEFINE e == [kind |-> "echo", id |-> idOf'[o], from |-> o]
<1>0. OtherTypes /\ MapTypes
  BY Types DEF IInv
<1>1. /\ o \notin Live /\ Live' = Live \cup {o} /\ idOf'[o] \in Ids
      /\ \A p \in Objects : p # o => idOf'[p] = idOf[p]
  BY PushLive
<1>2. /\ idOf[o] = 0 /\ Post(e)
      /\ UNCHANGED <<step, stepping>>
      /\ objects' = [objects EXCEPT ![c] = @ \cup {o}]
      /\ o \in Subscriptions <=> c = Manager
  BY DEF Push, Message
<1>3. e \in Messages
  BY <1>1 DEF Messages
<1>4. /\ DOMAIN flight' = DOMAIN flight \cup {e}
      /\ \A i, t : Under(flight', i, t)
                     = Under(flight, i, t) + (IF GoesOn(e, i, t) THEN 1 ELSE 0)
      /\ \A i, t : Under(flight, i, t) \in Nat
  BY <1>0, <1>2, <1>3, PostAdds
<1>5. \A m \in DOMAIN flight : m.from \in Live /\ m.from \in Objects /\ m.from # o
  <2>1. \A m \in DOMAIN flight : m.from \in Live
    BY MessageFinds
  <2> QED
    BY <1>1, <2>1 DEF Live, Alive
<1>6. o \in Tasks => step[o] = -1
  BY <1>2 DEF FlightInv, Unstarted
<1>7. Signed'
  <2>1. ASSUME NEW m \in DOMAIN flight
        PROVE  /\ idOf'[m.from] = m.id
               /\ m.from \in Tasks =>
                    m.kind = IF step'[m.from] = -1 THEN "echo" ELSE "answer"
    BY <1>1, <1>2, <1>5 DEF FlightInv, Signed
  <2>2. /\ idOf'[e.from] = e.id
        /\ e.from \in Tasks =>
             e.kind = IF step'[e.from] = -1 THEN "echo" ELSE "answer"
    BY <1>2, <1>6
  <2> HIDE DEF e
  <2> QED
    BY <1>4, <2>1, <2>2 DEF Signed
<1>8. ManagerHolds'
  <2>1. ASSUME NEW s \in Subscriptions, idOf'[s] # 0
        PROVE  s \in objects'[Manager]
    <3>1. objects'[Manager] = IF c = Manager THEN objects[Manager] \cup {o}
                                             ELSE objects[Manager]
      BY <1>0, <1>2, SchedulerAssumption DEF MapTypes
    <3>2. s = o \/ idOf[s] # 0
      BY <1>1, <2>1 DEF Objects
    <3> QED
      BY <1>2, <3>1, <3>2 DEF FlightInv, ManagerHolds
  <2> QED
    BY <2>1 DEF ManagerHolds
<1>9. Unstarted'
  <2>1. ASSUME NEW t \in Tasks, idOf'[t] = 0 PROVE step[t] = -1
    <3>1. t \in Objects /\ (t = o \/ idOf[t] = 0)
      BY <1>1, <2>1 DEF Objects
    <3> QED
      BY <1>6, <3>1 DEF FlightInv, Unstarted
  <2> QED
    BY <1>2, <2>1 DEF Unstarted
<1>10. ASSUME NEW t \in Tasks PROVE OneMessage(t)'
  <2>1. OneMessage(t)
    BY DEF FlightInv
  <2>2. CASE t # o
    <3>1. ~ GoesOn(e, idOf[t], t) /\ idOf'[t] = idOf[t] /\ (t \in Live' <=> t \in Live)
      BY <1>1, <2>2 DEF GoesOn, Objects
    <3>2. Under(flight', idOf[t], t) = Under(flight, idOf[t], t)
      BY <1>4, <3>1
    <3> QED
      BY <1>2, <2>1, <3>1, <3>2 DEF OneMessage
  <2>3. CASE t = o
    <3>1. GoesOn(e, idOf'[o], o)
      BY DEF GoesOn
    <3>2. stepping # o
      <4>1. stepping = o => o \in Live
        BY <2>3, SchedulerAssumption DEF IInv, SteppingAlive, Live, Objects
      <4> QED
        BY <1>1, <4>1
    <3>3. Under(flight, idOf'[o], o) = 0
      <4>1. Held(flight, e) = 0
        <5>1. e \notin DOMAIN flight
          BY <1>5
        <5> QED
          BY <5>1 DEF Held
      <4>2. Held(flight, [kind |-> "answer", id |-> idOf'[o], from |-> o]) = 0
        <5> DEFINE a == [kind |-> "answer", id |-> idOf'[o], from |-> o]
        <5>1. a \notin DOMAIN flight
          BY <1>5
        <5> QED
          BY <5>1 DEF Held
      <4> QED
        BY <4>1, <4>2 DEF Under
    <3>4. Under(flight', idOf'[o], o) = 1
      <4> HIDE DEF e
      <4> QED
        BY <1>4, <3>1, <3>3
    <3> QED
      BY <1>1, <1>2, <2>3, <3>2, <3>4 DEF OneMessage
  <2> QED
    BY <2>2, <2>3
<1> QED
  BY <1>7, <1>8, <1>9, <1>10 DEF FlightInv

\* A task is stepped by the one message that is under way for it.
LEMMA FlightNextStep ==
  ASSUME IInv, PlaceInv, FlightInv, NEW m \in DOMAIN flight, NextStep(m)
  PROVE  FlightInv'
<1> DEFINE o == m.from
<1>0. OtherTypes /\ stepping = Nobody /\ \E kinds : Arrives(m, kinds)
  BY Types DEF IInv, NextStep, Arrives
<1>1. /\ stepping' = o /\ o \in Tasks
      /\ UNCHANGED <<mapVars, deleted, idVars, step>>
  BY MessageFinds DEF NextStep
<1>2. Live' = Live /\ objects' = objects /\ idOf' = idOf /\ step' = step
  BY <1>1 DEF Live, Alive, Zombies, mapVars, idVars
<1>3. GoesOn(m, idOf[o], o) /\ o \in Live
  BY <1>1, MessageFinds
<1>4. /\ DOMAIN flight' \subseteq DOMAIN flight
      /\ \A i, t : Under(flight, i, t)
                     = Under(flight', i, t) + (IF GoesOn(m, i, t) THEN 1 ELSE 0)
      /\ \A i, t : Under(flight', i, t) \in Nat
  BY <1>0, ArrivesTakes
<1>5. Signed' /\ ManagerHolds' /\ Unstarted'
  BY <1>2, <1>4 DEF FlightInv, Signed, ManagerHolds, Unstarted
<1>6. ASSUME NEW t \in Tasks PROVE OneMessage(t)'
  <2>1. OneMessage(t) /\ Nobody # t
    BY SchedulerAssumption DEF FlightInv, Objects
  <2>2. Under(flight', idOf[t], t) \in Nat
    BY <1>4
  <2>3. CASE t = o
    <3>1. Under(flight, idOf[t], t) = Under(flight', idOf[t], t) + 1
      BY <1>3, <1>4, <2>3
    <3>2. Under(flight, idOf[t], t) = 1
      BY <1>0, <1>3, <2>1, <2>2, <2>3, <3>1 DEF OneMessage
    <3> QED
      BY <1>1, <1>2, <1>3, <2>2, <2>3, <3>1, <3>2 DEF OneMessage
  <2>4. CASE t # o
    <3>1. ~ GoesOn(m, idOf[t], t)
      BY <2>4 DEF GoesOn
    <3>2. Under(flight', idOf[t], t) = Under(flight, idOf[t], t)
      BY <1>4, <3>1
    <3> QED
      BY <1>0, <1>1, <1>2, <2>1, <2>4, <3>2 DEF OneMessage
  <2> QED
    BY <2>3, <2>4
<1> QED
  BY <1>5, <1>6 DEF FlightInv

\* A Step that sends a request leaves the one message of its task under way.
LEMMA FlightAsks ==
  ASSUME IInv, FlightInv, StepAsks
  PROVE  FlightInv'
<1> DEFINE o == stepping
           e == [kind |-> "answer", id |-> idOf[o], from |-> o]
<1>0. OtherTypes /\ IdTypes
  BY Types DEF IInv
<1>1. /\ o # Nobody /\ o \in Tasks /\ Post(e) /\ stepping' = Nobody
      /\ UNCHANGED <<mapVars, deleted, idVars>>
  BY <1>0 DEF StepAsks, Message, OtherTypes
<1>2. Live' = Live /\ objects' = objects /\ idOf' = idOf
  BY <1>1 DEF Live, Alive, Zombies, mapVars, idVars
<1>3. o \in Live /\ o \in Objects /\ idOf[o] # 0
  BY <1>1 DEF IInv, SteppingAlive, Live, Alive
<1>4. e \in Messages
  BY <1>0, <1>3 DEF Messages, IdTypes
<1>5. /\ DOMAIN flight' = DOMAIN flight \cup {e}
      /\ \A i, t : Under(flight', i, t)
                     = Under(flight, i, t) + (IF GoesOn(e, i, t) THEN 1 ELSE 0)
      /\ \A i, t : Under(flight, i, t) \in Nat
  BY <1>0, <1>1, <1>4, PostAdds
<1>6. /\ step'[o] # -1
      /\ \A t \in Tasks : t # o => step'[t] = step[t]
  <2>1. PICK at \in step[o] + 1 .. Callbacks[o] : step' = [step EXCEPT ![o] = at]
    BY DEF StepAsks
  <2>2. step[o] \in Int /\ Callbacks[o] \in Nat /\ step[o] >= -1 /\ step \in [Tasks -> Int]
    BY <1>0, <1>1, SchedulerAssumption DEF OtherTypes
  <2> QED
    BY <1>1, <2>1, <2>2
<1>7. Under(flight, idOf[o], o) = 0
  <2>1. OneMessage(o) /\ Under(flight, idOf[o], o) \in Nat
    BY <1>1, <1>5 DEF FlightInv
  <2> QED
    BY <1>3, <2>1 DEF OneMessage
<1>8. \A m \in DOMAIN flight : m.from # o
  <2>1. ASSUME NEW m \in DOMAIN flight, m.from = o PROVE FALSE
    <3>1. m \in DOMAIN flight \cap Messages /\ GoesOn(m, idOf[o], o)
      BY <1>0, <1>1, <2>1 DEF OtherTypes, FlightInv, Signed, GoesOn
    <3> QED
      BY <1>0, <1>7, <3>1, UnderType DEF OtherTypes
  <2> QED
    BY <2>1
<1>9. Signed'
  <2>1. ASSUME NEW m \in DOMAIN flight
        PROVE  /\ idOf[m.from] = m.id
               /\ m.from \in Tasks =>
                    m.kind = IF step'[m.from] = -1 THEN "echo" ELSE "answer"
    BY <1>6, <1>8 DEF FlightInv, Signed
  <2>2. /\ idOf[e.from] = e.id
        /\ e.from \in Tasks =>
             e.kind = IF step'[e.from] = -1 THEN "echo" ELSE "answer"
    BY <1>6
  <2> HIDE DEF e
  <2> QED
    BY <1>2, <1>5, <2>1, <2>2 DEF Signed
<1>10. ManagerHolds' /\ Unstarted'
  <2>1. \A t \in Tasks : idOf[t] = 0 => step'[t] = -1
    BY <1>3, <1>6 DEF FlightInv, Unstarted
  <2> QED
    BY <1>2, <2>1 DEF FlightInv, ManagerHolds, Unstarted
<1>11. ASSUME NEW t \in Tasks PROVE OneMessage(t)'
  <2>1. OneMessage(t) /\ Nobody # t
    BY SchedulerAssumption DEF FlightInv, Objects
  <2>2. CASE t = o
    <3>1. GoesOn(e, idOf[o], o)
      BY DEF GoesOn
    <3>2. Under(flight', idOf[o], o) = 1
      <4> HIDE DEF e, o
      <4> QED
        BY <1>5, <1>7, <3>1
    <3> QED
      BY <1>1, <1>2, <1>3, <2>1, <2>2, <3>2 DEF OneMessage
  <2>3. CASE t # o
    <3>1. ~ GoesOn(e, idOf[t], t)
      BY <2>3 DEF GoesOn
    <3>2. Under(flight', idOf[t], t) = Under(flight, idOf[t], t)
      <4> HIDE DEF e, o
      <4> QED
        BY <1>5, <3>1
    <3> QED
      BY <1>1, <1>2, <2>1, <2>3, <3>2 DEF OneMessage
  <2> QED
    BY <2>2, <2>3
<1> QED
  BY <1>9, <1>10, <1>11 DEF FlightInv

\* Each step keeps the messages right.
LEMMA FlightStep ==
  ASSUME Manager \notin Leaving
  PROVE  IInv /\ PlaceInv /\ FlightInv /\ [Next]_vars => FlightInv'
<1> SUFFICES ASSUME IInv, PlaceInv, FlightInv, [Next]_vars PROVE FlightInv'
  OBVIOUS
<1>0. OtherTypes /\ MapTypes /\ IdTypes
  BY Types DEF IInv
<1>1. ASSUME NEW c \in Clients, Register(c) \/ Unregister(c) PROVE FlightInv'
  <2>1. Live' = Live /\ idOf' = idOf
    BY <1>1, QuietLive
  <2>2. UNCHANGED <<flight, step, stepping>> /\ objects'[Manager] = objects[Manager]
    BY <1>0, <1>1, SchedulerAssumption DEF Register, Unregister, MapTypes
  <2>3. ManagerHolds'
    BY <2>1, <2>2 DEF FlightInv, ManagerHolds
  <2> QED
    BY <2>1, <2>2, <2>3, FlightQuiet
<1>2. ASSUME NEW c \in Clients, NEW o \in Objects, Push(c, o) PROVE FlightInv'
  BY <1>2, FlightPush
<1>3. ASSUME NEW s \in Subscriptions,
             PushAgain(s) \/ HubPublishes(s) \/ HubDisconnected(s)
      PROVE  FlightInv'
  <2>1. UNCHANGED <<mapVars, deleted, idVars, step, stepping>>
    BY <1>3 DEF PushAgain, HubPublishes, HubDisconnected
  <2>2. PICK k \in {"echo", "publish", "disconnected"} : Post(Message(k, s))
    BY <1>3 DEF PushAgain, HubPublishes, HubDisconnected
  <2>3. s \in Objects /\ idOf[s] \in Ids
    <3>1. s \in Objects
      BY DEF Objects
    <3>2. idOf[s] # 0
      BY <1>3
         DEF PushAgain, HubPublishes, HubDisconnected, IInv, PlaceInv, Holders,
             Attached, Pushed, Live, Alive, TypeOK
    <3> QED
      BY <1>0, <3>1, <3>2 DEF IdTypes
  <2>4. Message(k, s) \in Messages /\ Message(k, s).from = s
        /\ Message(k, s).id = idOf[s]
    BY <2>3 DEF Message, Messages
  <2> QED
    BY <2>1, <2>2, <2>4, FlightSubscription
<1>4. ASSUME MessageNext PROVE FlightInv'
  <2> PICK m \in BagToSet(flight) :
        \/ Dropped(m) \/ NextStepDetached(m) \/ NextStep(m)
        \/ NextStepSubscription(m) \/ Publish(m) \/ Disconnected(m)
    BY <1>4 DEF MessageNext
  <2> DEFINE o == m.from
  <2>0. m \in DOMAIN flight
    BY DEF BagToSet
  <2>1. /\ m \in Messages /\ o \in Live /\ o \in Objects /\ byId[m.id] = o
        /\ o \in Subscriptions => Attached(o) /\ o \notin detached
        /\ o \in Tasks => GoesOn(m, idOf[o], o) /\ stepping # o
    BY <2>0, MessageFinds DEF Live, Alive
  <2>2. /\ stepping = Nobody /\ o # Nobody /\ idOf[o] = m.id
        /\ \E kinds : Arrives(m, kinds)
    BY <2>0, <2>1, SchedulerAssumption
       DEF Dropped, NextStepDetached, NextStep, NextStepSubscription, Publish,
           Disconnected, Arrives, FlightInv, Signed
  <2>3. CASE NextStep(m)
    BY <2>0, <2>3, FlightNextStep
  <2>4. CASE Dropped(m)
    BY <2>1, <2>2, <2>4 DEF Dropped
  <2>5. ASSUME o \in Subscriptions,
               NextStepSubscription(m) \/ Publish(m) \/ Disconnected(m)
        PROVE  FlightInv'
    <3>1. UNCHANGED <<mapVars, deleted, idVars, step, stepping>>
      BY <2>1, <2>5 DEF NextStepSubscription, Publish, Disconnected, idVars
    <3> QED
      BY <2>0, <2>1, <2>2, <2>5, <3>1, FlightSubscription
  <2>6. ASSUME o \in Tasks, NextStepDetached(m) PROVE FlightInv'
    <3>1. Release(o) /\ UNCHANGED <<idOf, nextId, step>> /\ stepping' = Nobody
      BY <2>1, <2>2, <2>6 DEF NextStepDetached
    <3>2. /\ DOMAIN flight' \subseteq DOMAIN flight
          /\ \A i, t : Under(flight, i, t)
                         = Under(flight', i, t) + (IF GoesOn(m, i, t) THEN 1 ELSE 0)
          /\ \A i, t : Under(flight', i, t) \in Nat
      BY <1>0, <2>0, <2>2, ArrivesTakes
    <3>3. Under(flight', idOf[o], o) = 0
      <4>1. OneMessage(o)
        BY <2>6 DEF FlightInv
      <4>2. Under(flight, idOf[o], o) = 1
        <5>1. /\ Under(flight, idOf[o], o) = Under(flight', idOf[o], o) + 1
              /\ Under(flight', idOf[o], o) \in Nat
          BY <2>1, <2>6, <3>2
        <5> QED
          BY <2>1, <2>6, <4>1, <5>1 DEF OneMessage
      <4>3. Under(flight, idOf[o], o) = Under(flight', idOf[o], o) + 1
            /\ Under(flight', idOf[o], o) \in Nat
        BY <2>1, <2>6, <3>2
      <4> QED
        BY <4>2, <4>3
    <3>4. ASSUME NEW t \in Tasks, t # o
          PROVE  /\ Under(flight', idOf[t], t) = Under(flight, idOf[t], t)
                 /\ stepping # t
      <4>1. ~ GoesOn(m, idOf[t], t) /\ stepping # t
        BY <2>2, <3>4, SchedulerAssumption DEF GoesOn, Objects
      <4> QED
        BY <3>2, <4>1
    <3> QED
      BY <2>1, <2>6, <3>1, <3>2, <3>3, <3>4, FlightRelease
  <2>7. CASE o \in Tasks
    <3>1. m.kind \in {"echo", "answer"} /\ o \notin Subscriptions
      BY <2>1, <2>7, SchedulerAssumption DEF GoesOn
    <3> QED
      BY <2>1, <2>3, <2>4, <2>6, <2>7, <3>1
         DEF NextStepSubscription, Publish, Disconnected, Arrives
  <2>8. CASE o \in Subscriptions
    BY <2>1, <2>3, <2>4, <2>5, <2>8 DEF NextStepDetached
  <2> QED
    BY <2>1, <2>7, <2>8 DEF Objects
<1>5. CASE StepAsks
  BY <1>5, FlightAsks
<1>6. ASSUME StepEnds PROVE FlightInv'
  <2>1. /\ stepping \in Tasks /\ stepping \in Live /\ Release(stepping)
        /\ stepping' = Nobody /\ UNCHANGED <<idOf, nextId, step, flight>>
    BY <1>0, <1>6 DEF StepEnds, OtherTypes, IInv, SteppingAlive, Live
  <2>2. Under(flight', idOf[stepping], stepping) = 0
    <3>1. OneMessage(stepping) /\ Under(flight, idOf[stepping], stepping) \in Nat
      BY <1>0, <2>1, UnderType DEF FlightInv, OtherTypes
    <3> QED
      BY <2>1, <3>1 DEF OneMessage
  <2> QED
    BY <2>1, <2>2, FlightRelease
<1>7. CASE UNCHANGED vars
  <2>1. /\ UNCHANGED <<idOf, flight, step, stepping, objects>>
        /\ Live' = Live
    BY <1>7 DEF vars, mapVars, idVars, Live, Alive, Zombies
  <2>2. ManagerHolds'
    BY <2>1 DEF FlightInv, ManagerHolds
  <2> QED
    BY <2>1, <2>2, FlightQuiet
<1> QED
  BY <1>1, <1>2, <1>3, <1>4, <1>5, <1>6, <1>7
     DEF Next, ClientNext, StepNext, HubNext

LEMMA FlightHolds ==
  ASSUME Manager \notin Leaving
  PROVE  Spec => [](IInv /\ PlaceInv /\ FlightInv)
<1>1. Init => IInv /\ PlaceInv /\ FlightInv
  BY InitHolds, PlaceInit, FlightInit
<1>2. IInv /\ PlaceInv /\ FlightInv /\ [Next]_vars
        => (IInv /\ PlaceInv /\ FlightInv)'
  BY StepKeeps, PlaceStep, FlightStep
<1> QED
  BY <1>1, <1>2, PTL DEF Spec

\* How often a message is under way, in the words of the model.
LEMMA CopiesHeld ==
  ASSUME NEW m
  PROVE  Copies(m) = Held(flight, m) /\ Copies(m)' = Held(flight', m)
BY DEF Copies, Held, BagIn, BagToSet

\* Until a task has ended exactly one message is under way that goes on with
\* it, or its Step runs; afterwards there is none.  It is neither forgotten
\* nor stepped twice for one cause, however the messages are reordered.
THEOREM TaskHasOneMessage ==
  ASSUME Manager \notin Leaving
  PROVE  Spec => []OneMessagePerTask
<1>1. FlightInv => OneMessagePerTask
  <2> SUFFICES ASSUME FlightInv, NEW t \in Tasks
               PROVE  Copies(Message("echo", t)) + Copies(Message("answer", t))
                        + (IF stepping = t THEN 1 ELSE 0)
                        = IF t \in Alive \ Zombies THEN 1 ELSE 0
    BY DEF OneMessagePerTask
  <2>1. Under(flight, idOf[t], t)
          = Copies(Message("echo", t)) + Copies(Message("answer", t))
    BY CopiesHeld DEF Under, Message
  <2> QED
    BY <2>1 DEF FlightInv, OneMessage, Live
<1> QED
  BY <1>1, FlightHolds, PTL

\* A message under way finds the object that it is about, never another one
\* that has rented the same id since.
THEOREM MessageNeverStrays ==
  ASSUME Manager \notin Leaving
  PROVE  Spec => []MessageFindsSender
<1>1. IInv /\ PlaceInv /\ FlightInv => MessageFindsSender
  BY MessageFinds DEF MessageFindsSender, BagToSet
<1> QED
  BY <1>1, FlightHolds, PTL

\* The publish step finds a subscription: its exception is never thrown.
THEOREM PublishFindsSubscription ==
  ASSUME Manager \notin Leaving
  PROVE  Spec => []NoLogicError
<1>1. Init => NoLogicError
  BY DEF Init, NoLogicError
<1>2. IInv /\ PlaceInv /\ FlightInv /\ NoLogicError /\ [Next]_vars
        => NoLogicError'
  <2> SUFFICES ASSUME IInv, PlaceInv, FlightInv, ~ logicError, [Next]_vars,
                      logicError' # logicError
               PROVE  logicError' = FALSE
    BY DEF NoLogicError
  <2>1. PICK m \in BagToSet(flight) : Publish(m)
    <3>1. MessageNext
      BY DEF Next, ClientNext, StepNext, HubNext, Register, Unregister, Push,
             PushAgain, StepAsks, StepEnds, HubPublishes, HubDisconnected, vars
    <3> QED
      BY <3>1 DEF MessageNext, Dropped, NextStepDetached, NextStep,
                  NextStepSubscription, Disconnected
  <2>2. m \in DOMAIN flight /\ m.kind = "publish"
    BY <2>1 DEF BagToSet, Publish, Arrives
  <2>3. byId[m.id] = m.from /\ m.from \in Objects /\ m.from \notin Tasks
    BY <2>2, MessageFinds DEF GoesOn, Live, Alive
  <2> QED
    BY <2>1, <2>3 DEF Publish, Objects
<1> QED
  BY <1>1, <1>2, FlightHolds, PTL DEF Spec

\* Each step on a task is caused by a message of that task, which is used up:
\* the first by the echo of Push, each later one by the answer to what the
\* callback before it asked.
THEOREM StepHasCause ==
  ASSUME Manager \notin Leaving
  PROVE  Spec => StartedByEcho
<1>1. ASSUME IInv, PlaceInv, FlightInv, [Next]_vars, NEW t \in Tasks,
             stepping' = t, stepping # t
      PROVE  \E m \in BagToSet(flight) :
               /\ Copies(m)' < Copies(m)
               /\ m.from = t
               /\ m.kind = IF step[t] = -1 THEN "echo" ELSE "answer"
  <2>0. OtherTypes /\ Nobody # t
    BY <1>1, Types, SchedulerAssumption DEF IInv, Objects
  <2>1. PICK m \in BagToSet(flight) : NextStep(m)
    <3>1. MessageNext
      BY <1>1, <2>0
         DEF Next, ClientNext, StepNext, HubNext, Register, Unregister, Push,
             PushAgain, StepAsks, StepEnds, HubPublishes, HubDisconnected, vars
    <3> QED
      BY <1>1, <3>1
         DEF MessageNext, Dropped, NextStepDetached, NextStepSubscription,
             Publish, Disconnected
  <2>2. m \in DOMAIN flight
    BY DEF BagToSet
  <2>3. m.from = t
    BY <1>1, <2>1, <2>2, MessageFinds DEF NextStep
  <2>4. m.kind = IF step[t] = -1 THEN "echo" ELSE "answer"
    BY <1>1, <2>2, <2>3 DEF FlightInv, Signed
  <2>5. Copies(m)' < Copies(m)
    <3>1. IsABag(flight) /\ flight' = flight (-) SetToBag({m})
      BY <2>0, <2>1 DEF OtherTypes, NextStep, Arrives
    <3>2. IsABag(flight')
      BY <3>1, BagTake
    <3>3. Held(flight, m) = Held(flight', m) + 1
      BY <2>2, <3>1, HeldTake
    <3>4. Held(flight', m) \in Nat
      BY <3>2, HeldType
    <3> QED
      BY <3>3, <3>4, CopiesHeld
  <2> QED
    BY <2>3, <2>4, <2>5
<1>2. IInv /\ PlaceInv /\ FlightInv /\ [Next]_vars
        => [\A t \in Tasks :
              stepping' = t /\ stepping # t =>
                \E m \in BagToSet(flight) :
                  /\ Copies(m)' < Copies(m)
                  /\ m.from = t
                  /\ m.kind = IF step[t] = -1 THEN "echo" ELSE "answer"]_vars
  BY <1>1
<1> QED
  BY <1>2, FlightHolds, PTL DEF Spec, StartedByEcho
=============================================================================

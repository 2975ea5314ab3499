------------------------------ MODULE Scheduler ------------------------------
(***************************************************************************)
(* ev::scheduler::Scheduler on the main thread (scheduler/scheduler.cc)    *)
(* with its objects: tasks (task.cc), subscriptions (redis/subscriptions/  *)
(* request.cc), the ids they rent (object.cc, unique_id_generator.cc) and  *)
(* the messages the hub sends back (hub/hub.cc, hub/keep_alive_handler.cc).*)
(*                                                                         *)
(* A message goes from the main thread to the hub and comes back, or       *)
(* starts in the hub; it is found in "flight" from when it is sent until   *)
(* the main thread handles it.  It names an object by id only: "from", the *)
(* object it is about, is not in the message.  The bridge may send a       *)
(* message again later, so they arrive in any order.                       *)
(*                                                                         *)
(* The callbacks of a task run inside Step and use the scheduler as any    *)
(* code of the main thread does: "stepping" is the object whose Step is on *)
(* the stack, and while it is there only those calls happen.               *)
(*                                                                         *)
(* An address is used by one object only.  A definition under the word     *)
(* "Slip" belongs to no behaviour of the code: it is a mistake that could  *)
(* be made in the definition below, kept to see that the properties notice *)
(* it.                                                                     *)
(***************************************************************************)
EXTENDS Integers, Sequences, FiniteSets, Bags, SequencesExt

CONSTANTS
  Clients,        \* Scheduler::Client objects
  Manager,        \* the client that owns the subscriptions
  Leaving,        \* clients that may call Unregister
  Tasks,          \* Task objects
  Subscriptions,  \* Subscription objects
  Callbacks,      \* Callbacks[t]: length of sequences_ of task t
  MaxEchoes,      \* bounds the commits of a subscription that are under way
  MaxEvents,      \* bounds the publishes that are under way, of each object
  Nobody          \* nullptr

Objects == Tasks \cup Subscriptions
Ids == 1 .. Cardinality(Objects)

ASSUME SchedulerAssumption ==
  /\ IsFiniteSet(Objects)
  /\ Tasks \cap Subscriptions = {}
  /\ Manager \in Clients /\ Leaving \subseteq Clients
  /\ Callbacks \in [Tasks -> Nat]
  /\ MaxEchoes \in Nat /\ MaxEvents \in Nat
  /\ Nobody \notin Objects \cup Clients

VARIABLES
  registered,  \* keys of clients_to_objects_map_
  objects,     \* its vectors
  clientOf,    \* object_to_client_map_
  byId,        \* ids_to_object_map_
  detached,    \* detached_
  zombies,     \* zombies_
  deleted,     \* objects that were deleted
  idOf,        \* unique_id_ of each object
  freeIds,     \* UniqueIDGenerator::cached_
  nextId,      \* UniqueIDGenerator::next_
  step,        \* step_ of each task
  stepping,    \* the object whose Step is on the stack
  flight,      \* messages under way
  keepAlive,   \* subscriptions whose request is in running_requests_
  logicError   \* the exception of the publish step was thrown

mapVars == <<registered, objects, clientOf, byId, detached, zombies>>
idVars  == <<idOf, freeIds, nextId>>
vars == <<mapVars, deleted, idVars, step, stepping, flight, keepAlive,
          logicError>>

Messages ==
  [kind : {"echo", "answer", "publish", "disconnected"},
   id : Ids, from : Objects]

Message(kind, o) == [kind |-> kind, id |-> idOf[o], from |-> o]

Attached(o) == \E c \in registered : o \in objects[c]

Init ==
  /\ registered = {} /\ objects = [c \in Clients |-> {}]
  /\ clientOf = [o \in Objects |-> Nobody]
  /\ byId = [i \in Ids |-> Nobody]
  /\ detached = {} /\ zombies = <<>> /\ deleted = {}
  /\ idOf = [o \in Objects |-> 0] /\ freeIds = <<>> /\ nextId = 0
  /\ step = [t \in Tasks |-> -1]
  /\ stepping = Nobody
  /\ flight = EmptyBag
  /\ keepAlive = {}
  /\ logicError = FALSE

-----------------------------------------------------------------------------
(* Parts of the operations.                                                *)

\* Slip: the id stays at the front of the queue.
RentPeeks(o) ==
  /\ idOf' = [idOf EXCEPT ![o] =
                IF freeIds = <<>> THEN nextId + 1 ELSE Head(freeIds)]
  /\ nextId' = IF freeIds = <<>> THEN nextId + 1 ELSE nextId
  /\ UNCHANGED freeIds

\* Object::UniqueID of an object that has none yet.
Rent(o) ==
  IF freeIds = <<>>
  THEN /\ nextId' = nextId + 1
       /\ idOf' = [idOf EXCEPT ![o] = nextId + 1]
       /\ UNCHANGED freeIds
  ELSE /\ idOf' = [idOf EXCEPT ![o] = Head(freeIds)]
       /\ freeIds' = Tail(freeIds)
       /\ UNCHANGED nextId

\* The destructors of a sequence of objects: each returns its id.
Delete(seq) ==
  /\ deleted' = deleted \cup {seq[i] : i \in DOMAIN seq}
  /\ freeIds' = freeIds \o [i \in DOMAIN seq |-> idOf[seq[i]]]

KillZombies == Delete(zombies) /\ zombies' = <<>>

\* Slip: the id is still mapped to the object.
ReleaseKeepsId(o) ==
  /\ objects' = [c \in Clients |-> objects[c] \ {o}]
  /\ detached' = detached \ {o}
  /\ clientOf' = [clientOf EXCEPT ![o] = Nobody]
  /\ IF Attached(o)
     THEN Delete(<<o>>) /\ UNCHANGED zombies
     ELSE zombies' = Append(zombies, o) /\ UNCHANGED <<deleted, freeIds>>
  /\ UNCHANGED <<registered, byId>>

\* ReleaseObject: an object that is in the vector of its client is deleted,
\* any other becomes a zombie.  One that is a zombie already is deleted first
\* and used, and kept, afterwards.
Release(o) ==
  LET others == RemoveFirst(zombies, o)
      wasZombie == Contains(zombies, o)
      attached == clientOf[o] \in registered /\ o \in objects[clientOf[o]]
  IN  /\ detached' = detached \ {o}
      /\ objects' = [c \in Clients |->
                       IF c = clientOf[o] THEN objects[c] \ {o}
                                          ELSE objects[c]]
      /\ clientOf' = [clientOf EXCEPT ![o] = Nobody]
      /\ byId' = [byId EXCEPT ![idOf[o]] = Nobody]
      /\ zombies' = IF attached THEN others ELSE Append(others, o)
      /\ Delete((IF wasZombie THEN <<o>> ELSE <<>>)
                  \o (IF attached THEN <<o>> ELSE <<>>))
      /\ UNCHANGED registered

\* Slip: the same message twice.
PostTwice(m) == flight' = flight (+) SetToBag({m}) (+) SetToBag({m})

\* A message leaves, at the main thread or at the hub.
Post(m) == flight' = flight (+) SetToBag({m})

\* How often a message is under way.
Copies(m) == IF BagIn(m, flight) THEN flight[m] ELSE 0

Room(kind, o, max) == Copies(Message(kind, o)) < max

-----------------------------------------------------------------------------
(* Calls of the clients.                                                   *)

Register(c) ==
  /\ c \notin registered
  /\ registered' = registered \cup {c}
  /\ KillZombies
  /\ UNCHANGED <<objects, clientOf, byId, detached, idOf, nextId, step,
                 stepping, flight, keepAlive, logicError>>

\* Slip: the client's objects are deleted at once.
UnregisterDeletes(c) ==
  /\ c \in registered \cap Leaving
  /\ registered' = registered \ {c}
  /\ objects' = [objects EXCEPT ![c] = {}]
  /\ deleted' = deleted \cup objects[c] \cup {zombies[i] : i \in DOMAIN zombies}
  /\ zombies' = <<>>
  /\ UNCHANGED <<clientOf, byId, detached, idVars, step, stepping, flight,
                 keepAlive, logicError>>

Unregister(c) ==
  /\ c \in registered \cap Leaving
  /\ registered' = registered \ {c}
  /\ detached' = detached \cup objects[c]
  /\ objects' = [objects EXCEPT ![c] = {}]
  /\ KillZombies
  /\ UNCHANGED <<clientOf, byId, idOf, nextId, step, stepping, flight,
                 keepAlive, logicError>>

\* Push of a new object: Task::Catch, or the first commit of a subscription.
Push(c, o) ==
  /\ c \in registered /\ idOf[o] = 0
  /\ o \in Subscriptions <=> c = Manager
  /\ objects' = [objects EXCEPT ![c] = @ \cup {o}]
  /\ clientOf' = [clientOf EXCEPT ![o] = c]
  /\ Rent(o)
  /\ byId' = [byId EXCEPT ![idOf'[o]] = o]
  /\ Post(Message("echo", o)')
  /\ UNCHANGED <<registered, detached, zombies, deleted, step, stepping,
                 keepAlive, logicError>>

\* Push of an object the client has already: a subscription commits another
\* command.
PushAgain(s) ==
  /\ s \in Subscriptions /\ Attached(s)
  /\ Room("echo", s, MaxEchoes)
  /\ Post(Message("echo", s))
  /\ UNCHANGED <<mapVars, deleted, idVars, step, stepping, keepAlive,
                 logicError>>

-----------------------------------------------------------------------------
(* Messages that arrive on the main thread.                                *)

Arrives(m, kinds) ==
  /\ stepping = Nobody
  /\ BagIn(m, flight) /\ m.kind \in kinds
  /\ flight' = flight (-) SetToBag({m})

\* The id is nobody's: the message, and its result, are dropped.
Dropped(m) ==
  /\ Arrives(m, {"echo", "answer", "publish", "disconnected"})
  /\ byId[m.id] = Nobody
  /\ UNCHANGED <<mapVars, deleted, idVars, step, stepping, keepAlive,
                 logicError>>

\* Next step for an object whose client has gone.
NextStepDetached(m) ==
  /\ Arrives(m, {"echo", "answer"})
  /\ byId[m.id] \in detached
  /\ Release(byId[m.id])
  /\ UNCHANGED <<idOf, nextId, step, stepping, keepAlive, logicError>>

\* Next step for a task of a client: its Step is called.
NextStep(m) ==
  /\ Arrives(m, {"echo", "answer"})
  /\ byId[m.id] \in Tasks \ detached
  /\ stepping' = byId[m.id]
  /\ UNCHANGED <<mapVars, deleted, idVars, step, keepAlive, logicError>>

\* Next step for a subscription: Step sends the next command, if there is one
\* and the reply of another is not waited for, and never ends it.
NextStepSubscription(m) ==
  /\ Arrives(m, {"echo", "answer"})
  /\ byId[m.id] \in Subscriptions \ detached
  /\ keepAlive' \in {keepAlive, keepAlive \cup {byId[m.id]}}
  /\ UNCHANGED <<mapVars, deleted, idVars, step, stepping, logicError>>

\* Slip: the last callback is expected to return a request as well.
StepAsksPast ==
  /\ stepping # Nobody
  /\ \E at \in step[stepping] + 1 .. Callbacks[stepping] + 1 :
       step' = [step EXCEPT ![stepping] = at]
  /\ Post(Message("answer", stepping))
  /\ stepping' = Nobody
  /\ UNCHANGED <<mapVars, deleted, idVars, keepAlive, logicError>>

\* Step runs callbacks of the task up to the first that returns a request,
\* which is sent; callback "at" will get the answer.
StepAsks ==
  /\ stepping # Nobody
  /\ \E at \in step[stepping] + 1 .. Callbacks[stepping] :
       step' = [step EXCEPT ![stepping] = at]
  /\ Post(Message("answer", stepping))
  /\ stepping' = Nobody
  /\ UNCHANGED <<mapVars, deleted, idVars, keepAlive, logicError>>

\* Slip: the task is not released.
StepEndsOnly ==
  /\ stepping # Nobody
  /\ stepping' = Nobody
  /\ UNCHANGED <<mapVars, deleted, idVars, step, flight, keepAlive, logicError>>

\* The last callback has run, or one of them threw or returned nonsense.
StepEnds ==
  /\ stepping # Nobody
  /\ Release(stepping)
  /\ stepping' = Nobody
  /\ UNCHANGED <<idOf, nextId, step, flight, keepAlive, logicError>>

\* The publish step.
Publish(m) ==
  /\ Arrives(m, {"publish"})
  /\ byId[m.id] # Nobody
  /\ logicError' = (logicError \/ byId[m.id] \notin Subscriptions)
  /\ UNCHANGED <<mapVars, deleted, idVars, step, stepping, keepAlive>>

\* The disconnected step.  A subscription that its manager still holds is
\* kept, to be used again; anything else is released.
Disconnected(m) ==
  LET o == byId[m.id]
  IN  /\ Arrives(m, {"disconnected"})
      /\ o # Nobody
      /\ IF o \in Subscriptions /\ Attached(o)
         THEN UNCHANGED <<mapVars, deleted, freeIds>>
         ELSE Release(o)
      /\ UNCHANGED <<idOf, nextId, step, stepping, keepAlive, logicError>>

-----------------------------------------------------------------------------
(* The keep-alive handler of the hub.                                      *)

\* A message arrived on a subscribed connection.
HubPublishes(s) ==
  /\ s \in keepAlive /\ Room("publish", s, MaxEvents)
  /\ Post(Message("publish", s))
  /\ UNCHANGED <<mapVars, deleted, idVars, step, stepping, keepAlive,
                 logicError>>

\* The connection was lost.
HubDisconnected(s) ==
  /\ s \in keepAlive /\ Room("disconnected", s, MaxEvents)
  /\ keepAlive' = keepAlive \ {s}
  /\ Post(Message("disconnected", s))
  /\ UNCHANGED <<mapVars, deleted, idVars, step, stepping, logicError>>

-----------------------------------------------------------------------------
ClientNext ==
  \/ \E c \in Clients : Register(c) \/ Unregister(c)
  \/ \E c \in Clients, o \in Objects : Push(c, o)
  \/ \E s \in Subscriptions : PushAgain(s)

MessageNext ==
  \E m \in BagToSet(flight) :
    \/ Dropped(m) \/ NextStepDetached(m) \/ NextStep(m)
    \/ NextStepSubscription(m) \/ Publish(m) \/ Disconnected(m)

StepNext == StepAsks \/ StepEnds

HubNext == \E s \in Subscriptions : HubPublishes(s) \/ HubDisconnected(s)

Next == ClientNext \/ MessageNext \/ StepNext \/ HubNext

Spec == Init /\ [][Next]_vars

\* Step returns, and every message arrives: the hub answers each request
\* (OneShotHandler, EveryRequestAnswered) and the bridge sends until it has
\* sent.
Handles(kind, o) ==
  \E m \in BagToSet(flight) :
    /\ m.kind = kind /\ m.from = o
    /\ \/ Dropped(m) \/ NextStepDetached(m) \/ NextStep(m)
       \/ NextStepSubscription(m)

Fairness ==
  /\ WF_vars(StepNext)
  /\ \A o \in Objects : SF_vars(Handles("echo", o)) /\ SF_vars(Handles("answer", o))

FairSpec == Spec /\ Fairness

-----------------------------------------------------------------------------
(* Properties.                                                             *)

Alive == {o \in Objects : idOf[o] # 0 /\ o \notin deleted}
Zombies == {zombies[i] : i \in DOMAIN zombies}

TypeOK ==
  /\ registered \subseteq Clients
  /\ objects \in [Clients -> SUBSET Objects]
  /\ clientOf \in [Objects -> Clients \cup {Nobody}]
  /\ byId \in [Ids -> Objects \cup {Nobody}]
  /\ detached \subseteq Objects /\ deleted \subseteq Objects
  /\ zombies \in Seq(Objects)
  /\ idOf \in [Objects -> {0} \cup Ids]
  /\ freeIds \in Seq(Ids) /\ nextId \in {0} \cup Ids
  /\ step \in [Tasks -> Int]
  /\ \A t \in Tasks : step[t] \in -1 .. Callbacks[t]
  /\ stepping \in Tasks \cup {Nobody}
  /\ IsABag(flight) /\ DOMAIN flight \subseteq Messages
  /\ keepAlive \subseteq Subscriptions
  /\ logicError \in BOOLEAN

\* No two objects that exist have the same id, and no id is free while an
\* object has it, whatever the order in which ids are rented and returned.
IdsUnique ==
  /\ \A o, p \in Alive : idOf[o] = idOf[p] => o = p
  /\ \A i, j \in DOMAIN freeIds : freeIds[i] = freeIds[j] => i = j
  /\ \A o \in Alive, i \in DOMAIN freeIds : freeIds[i] # idOf[o]

\* ids_to_object_map_ finds an object under its id exactly as long as it is
\* neither a zombie nor deleted: no answer finds one that has ended, none
\* misses one that has not.
MapsAgree ==
  \A i \in Ids, o \in Objects :
    byId[i] = o <=> idOf[o] = i /\ o \in Alive \ Zombies

\* An object that was pushed is in exactly one place: the vector of the client
\* that pushed it, detached_, zombies_ (once), or deleted.  Nothing is lost by
\* Unregister, and nothing deleted twice.
OnePlace ==
  \A o \in Objects : idOf[o] # 0 =>
    Cardinality({c \in registered : o \in objects[c]})
      + (IF o \in detached THEN 1 ELSE 0)
      + Cardinality({i \in DOMAIN zombies : zombies[i] = o})
      + (IF o \in deleted THEN 1 ELSE 0) = 1

\* The object whose Step is on the stack is not deleted under it by what its
\* callbacks call, its own client going away included, and can still be
\* released once.
SteppingAlive ==
  stepping # Nobody =>
    /\ stepping \in Alive \ Zombies
    /\ byId[idOf[stepping]] = stepping

\* A task is never forgotten and never stepped twice for one cause: until it
\* has ended it has exactly one message under way, or is being stepped; after
\* that, none.
OneMessagePerTask ==
  \A t \in Tasks :
    Copies(Message("echo", t)) + Copies(Message("answer", t))
      + (IF stepping = t THEN 1 ELSE 0)
      = IF t \in Alive \ Zombies THEN 1 ELSE 0

\* A message under way finds the object it is about, or none: "it ownership
\* will be transfered to the task that requested it" (scheduler.cc:125).
MessageFindsSender ==
  \A m \in BagToSet(flight) : byId[m.id] \in {m.from, Nobody}

\* A message that subscriptions publish reaches a subscription ("Logic error:
\* expecting subscription object!", scheduler.cc:167).
NoLogicError == ~logicError

\* The callbacks of a task run from the first on, in order, each with the
\* answer to what the one before asked: nothing but the echo of Push starts
\* it, and only an answer goes on with it.
StartedByEcho ==
  [][\A t \in Tasks :
       stepping' = t /\ stepping # t =>
         \E m \in BagToSet(flight) :
           /\ Copies(m)' < Copies(m)
           /\ m.from = t
           /\ m.kind = IF step[t] = -1 THEN "echo" ELSE "answer"]_vars

\* Every task that was pushed ends, whether its client stays or not.
EveryTaskEnds == \A t \in Tasks : idOf[t] # 0 ~> t \in deleted \cup Zombies

=============================================================================

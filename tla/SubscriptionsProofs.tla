------------------------- MODULE SubscriptionsProofs -------------------------
(***************************************************************************)
(* Proofs about Subscriptions and KeepAliveHandler: what the request and   *)
(* its contexts agree on always, and what the main thread knows of the     *)
(* hub and of the server as long as no connection was lost.                *)
(***************************************************************************)
EXTENDS Subscriptions, SequenceCounts

-----------------------------------------------------------------------------
(* The request.                                                            *)

\* What TypeOK says of the two objects of the main thread.
Requests ==
  [pending : Seq(Commands), current : Commands \cup {NoCommand},
   ping : BOOLEAN, contexts : [Topics -> Nat],
   status : [Topics -> Statuses], armed : BOOLEAN]

Managers ==
  [links : [Topics -> Seq(Clients \cup {Nobody})],
   tracked : SUBSET Topics, recovery : BOOLEAN, timeout : Nat]

\* The commands about a name.
About(t) == {c \in Commands : c.topic = t}

\* The vector of contexts of a name holds the commands about it.
Tracked(q, t) ==
  q.contexts[t] = CountIn(q.pending, About(t)) + (IF q.current.topic = t THEN 1 ELSE 0)

Good(q) == q \in Requests /\ \A t \in Topics : Tracked(q, t)

NoPings(q) == ~ q.ping /\ q.current # Ping /\ CountIn(q.pending, {Ping}) = 0

LEMMA CommandFacts ==
  /\ Ping \in Commands /\ Ping.topic \notin Topics /\ NoCommand \notin Commands
  /\ NoCommand.topic \notin Topics
  /\ \A c \in Commands :
       \/ c = Ping
       \/ c.op \in {"SUBSCRIBE", "UNSUBSCRIBE"} /\ c.topic \in Topics
BY KeepAliveAssumption DEF Commands, Ping, NoCommand

\* The commands that BuildAndTrackCommand makes, one for each name.
LEMMA ListedCommands ==
  ASSUME NEW op \in {"SUBSCRIBE", "UNSUBSCRIBE"}, NEW names \in SUBSET Topics
  PROVE  LET s == SetToSeq({[op |-> op, topic |-> t] : t \in names})
         IN  /\ s \in Seq(Commands)
             /\ \A t \in Topics : CountIn(s, About(t)) = IF t \in names THEN 1 ELSE 0
             /\ CountIn(s, {Ping}) = 0
             /\ s = <<>> <=> names = {}
<1> DEFINE S == {[op |-> op, topic |-> t] : t \in names}
           s == SetToSeq(S)
           f == [t \in names |-> [op |-> op, topic |-> t]]
<1>1. IsFiniteSet(names)
  BY KeepAliveAssumption, FS_Subset
<1>2. f \in Surjection(names, S)
  <2>1. f \in [names -> S] /\ \A c \in S : \E t \in names : f[t] = c
    OBVIOUS
  <2> QED
    BY <2>1, Zenon DEF Surjection
<1>3. IsFiniteSet(S)
  BY <1>1, <1>2, FS_Surjection
<1>4. S \subseteq Commands
  BY DEF Commands
<1>5. s \in Seq(S) /\ Len(s) = Cardinality(S)
  BY <1>3, SetToSeqLists
<1>6. s \in Seq(Commands)
  BY <1>4, <1>5
<1>7. ASSUME NEW t \in Topics
      PROVE  CountIn(s, About(t)) = IF t \in names THEN 1 ELSE 0
  <2>1. S \cap About(t) = IF t \in names THEN {[op |-> op, topic |-> t]} ELSE {}
    BY <1>4 DEF About
  <2>2. CountIn(s, About(t)) = Cardinality(S \cap About(t))
    BY <1>3, CountInSetToSeq
  <2> QED
    BY <2>1, <2>2, FS_Singleton, FS_EmptySet
<1>8. CountIn(s, {Ping}) = 0
  <2>1. S \cap {Ping} = {}
    BY DEF Ping
  <2>2. CountIn(s, {Ping}) = Cardinality(S \cap {Ping})
    BY <1>3, CountInSetToSeq
  <2> QED
    BY <2>1, <2>2, FS_EmptySet
<1>9. s = <<>> <=> names = {}
  <2>1. Cardinality(S) = 0 <=> S = {}
    BY <1>3, FS_EmptySet
  <2>2. s = <<>> <=> Len(s) = 0
    BY <1>5, EmptySeq
  <2> QED
    BY <1>5, <2>1, <2>2
<1> QED
  BY <1>6, <1>7, <1>8, <1>9

\* BuildAndTrackCommand.
LEMMA BuildFacts ==
  ASSUME NEW q, Good(q), NEW op \in {"SUBSCRIBE", "UNSUBSCRIBE"},
         NEW names \in SUBSET Topics
  PROVE  LET r == Build(q, op, names)
         IN  /\ Good(r)
             /\ r.current = q.current /\ r.ping = q.ping /\ r.armed = q.armed
             /\ \A t \in Topics :
                  r.contexts[t] = q.contexts[t] + (IF t \in names THEN 1 ELSE 0)
             /\ \A t \in Topics \ names : r.status[t] = q.status[t]
             /\ NoPings(q) => NoPings(r)
<1> DEFINE s == SetToSeq({[op |-> op, topic |-> t] : t \in names})
           r == Build(q, op, names)
           to == IF op = "SUBSCRIBE" THEN "Subscribing" ELSE "Unsubscribing"
<1>1. /\ q \in Requests /\ q.pending \in Seq(Commands)
      /\ q.contexts \in [Topics -> Nat] /\ q.status \in [Topics -> Statuses]
  BY DEF Good, Requests
<1>2. /\ r.pending = q.pending \o s
      /\ r.contexts = [t \in Topics |-> IF t \in names THEN q.contexts[t] + 1
                                                       ELSE q.contexts[t]]
      /\ r.status = [t \in Topics |-> IF t \in names THEN to ELSE q.status[t]]
      /\ r.current = q.current /\ r.ping = q.ping /\ r.armed = q.armed
      /\ r = [pending |-> r.pending, current |-> r.current, ping |-> r.ping,
              contexts |-> r.contexts, status |-> r.status, armed |-> r.armed]
  <2>1. r = [q EXCEPT !.pending = q.pending \o s,
                      !.contexts = [t \in Topics |-> IF t \in names
                                                     THEN q.contexts[t] + 1
                                                     ELSE q.contexts[t]],
                      !.status = [t \in Topics |-> IF t \in names THEN to
                                                   ELSE q.status[t]]]
    BY DEF Build
  <2> HIDE DEF s, to, r
  <2> QED
    BY <1>1, <2>1 DEF Requests
<1>3. /\ s \in Seq(Commands)
      /\ \A t \in Topics : CountIn(s, About(t)) = IF t \in names THEN 1 ELSE 0
      /\ CountIn(s, {Ping}) = 0
  BY ListedCommands
<1> HIDE DEF s, r
<1>4. /\ r.pending \in Seq(Commands)
      /\ \A P : CountIn(r.pending, P) = CountIn(q.pending, P) + CountIn(s, P)
      /\ \A P : CountIn(q.pending, P) \in Nat
  <2>1. r.pending \in Seq(Commands)
    BY <1>1, <1>2, <1>3, ConcatProperties
  <2>2. \A P : CountIn(r.pending, P) = CountIn(q.pending, P) + CountIn(s, P)
    BY <1>1, <1>2, <1>3, CountInConcat
  <2>3. \A P : CountIn(q.pending, P) \in Nat
    BY <1>1, CountInType
  <2> QED
    BY <2>1, <2>2, <2>3
<1>5. to \in Statuses
  BY DEF Statuses
<1> HIDE DEF to
<1>6. r \in Requests
  <2>1. r.contexts \in [Topics -> Nat] /\ r.status \in [Topics -> Statuses]
    BY <1>1, <1>2, <1>5
  <2>2. /\ r.current \in Commands \cup {NoCommand}
        /\ r.ping \in BOOLEAN /\ r.armed \in BOOLEAN
    BY <1>1, <1>2 DEF Requests
  <2> QED
    BY <1>2, <1>4, <2>1, <2>2 DEF Requests
<1>7. ASSUME NEW t \in Topics PROVE Tracked(r, t)
  <2>1. Tracked(q, t)
    BY DEF Good
  <2>2. /\ CountIn(r.pending, About(t))
             = CountIn(q.pending, About(t)) + CountIn(s, About(t))
        /\ CountIn(s, About(t)) = IF t \in names THEN 1 ELSE 0
        /\ CountIn(q.pending, About(t)) \in Nat
    BY <1>3, <1>4
  <2>3. r.contexts[t] = q.contexts[t] + (IF t \in names THEN 1 ELSE 0)
    BY <1>1, <1>2
  <2> QED
    BY <1>2, <2>1, <2>2, <2>3 DEF Tracked
<1>8. NoPings(q) => NoPings(r)
  <2>1. CountIn(r.pending, {Ping}) = CountIn(q.pending, {Ping}) + 0
    BY <1>3, <1>4
  <2> QED
    BY <1>2, <2>1 DEF NoPings
<1>9. /\ \A t \in Topics :
           r.contexts[t] = q.contexts[t] + (IF t \in names THEN 1 ELSE 0)
      /\ \A t \in Topics \ names : r.status[t] = q.status[t]
  BY <1>1, <1>2
<1> QED
  BY <1>2, <1>6, <1>7, <1>8, <1>9 DEF Good, r

\* CleanUpUnsubscribed touches the status maps only.
LEMMA CleanUpFacts ==
  ASSUME NEW q \in Requests
  PROVE  LET r == CleanUp(q)
         IN  /\ r \in Requests
             /\ r.pending = q.pending /\ r.current = q.current /\ r.ping = q.ping
             /\ r.contexts = q.contexts /\ r.armed = q.armed
             /\ \A t \in Topics :
                  \/ r.status[t] = q.status[t]
                  \/ q.status[t] = "Unsubscribed" /\ r.status[t] = "NotSet"
<1> DEFINE r == CleanUp(q)
           clean == [t \in Topics |-> IF q.status[t] = "Unsubscribed" THEN "NotSet"
                                                                     ELSE q.status[t]]
<1>1. r = q \/ r = [q EXCEPT !.status = clean]
  BY DEF CleanUp
<1>2. clean \in [Topics -> Statuses]
  BY DEF Requests, Statuses
<1>3. \A t \in Topics :
        \/ clean[t] = q.status[t]
        \/ q.status[t] = "Unsubscribed" /\ clean[t] = "NotSet"
  OBVIOUS
<1> HIDE DEF clean, r
<1>4. /\ r \in Requests
      /\ r.pending = q.pending /\ r.current = q.current /\ r.ping = q.ping
      /\ r.contexts = q.contexts /\ r.armed = q.armed
      /\ r.status = q.status \/ r.status = clean
  BY <1>1, <1>2 DEF Requests
<1> QED
  BY <1>3, <1>4 DEF r

\* Publish of an expected reply takes the current command out of its vector.
LEMMA AnswerFacts ==
  ASSUME NEW q, Good(q), NEW c \in Commands, IsExpected(q, c)
  PROVE  LET r == Answer(q, c)
         IN  /\ Good(r) /\ c.topic \in Topics /\ r.pending = q.pending
             /\ r.current = NoCommand /\ r.ping = q.ping /\ ~ r.armed
             /\ \A t \in Topics :
                  r.contexts[t] = q.contexts[t] - (IF t = c.topic THEN 1 ELSE 0)
             /\ IF c.op = "SUBSCRIBE" THEN r.status[c.topic] = "Subscribed"
                                      ELSE r.status[c.topic] \in {"Unsubscribed", "NotSet"}
             /\ \A t \in Topics \ {c.topic} :
                  \/ r.status[t] = q.status[t]
                  \/ q.status[t] = "Unsubscribed" /\ r.status[t] = "NotSet"
             /\ NoPings(q) => NoPings(r)
<1> DEFINE r == Answer(q, c)
           to == IF c.op = "SUBSCRIBE" THEN "Subscribed" ELSE "Unsubscribed"
           n == [q EXCEPT !.contexts[c.topic] = @ - 1, !.status[c.topic] = to,
                          !.current = NoCommand, !.armed = FALSE]
<1>1. /\ q \in Requests /\ c.topic \in Topics /\ c.op \in {"SUBSCRIBE", "UNSUBSCRIBE"}
      /\ q.current.topic = c.topic /\ q.contexts[c.topic] > 0
  BY CommandFacts DEF Good, IsExpected, Ping
<1>2. r = IF to = "Unsubscribed" THEN CleanUp(n) ELSE n
  BY DEF Answer
<1>3. to \in Statuses
  BY DEF Statuses
<1>4. q.contexts[c.topic] - 1 \in Nat
  BY <1>1 DEF Requests
<1>5. /\ n \in Requests /\ n.pending = q.pending /\ n.current = NoCommand
      /\ n.ping = q.ping /\ n.armed = FALSE
      /\ n.contexts = [q.contexts EXCEPT ![c.topic] = @ - 1]
      /\ n.status = [q.status EXCEPT ![c.topic] = to]
  <2> HIDE DEF to
  <2> QED
    BY <1>1, <1>3, <1>4 DEF Requests
<1> HIDE DEF n
<1>6. /\ r \in Requests /\ r.pending = n.pending /\ r.current = n.current
      /\ r.ping = n.ping /\ r.armed = n.armed /\ r.contexts = n.contexts
      /\ \A t \in Topics :
           \/ r.status[t] = n.status[t]
           \/ n.status[t] = "Unsubscribed" /\ r.status[t] = "NotSet"
  <2> HIDE DEF r, to
  <2>1. CASE r = n
    BY <1>5, <2>1
  <2>2. CASE r = CleanUp(n)
    <3>1. n \in Requests
      BY <1>5
    <3> QED
      BY <2>2, <3>1, CleanUpFacts
  <2> QED
    BY <1>2, <2>1, <2>2
<1> HIDE DEF r
<1>7. /\ q.contexts \in [Topics -> Nat] /\ q.status \in [Topics -> Statuses]
      /\ q.pending \in Seq(Commands)
  BY <1>1 DEF Requests
<1>8. \A t \in Topics :
        r.contexts[t] = q.contexts[t] - (IF t = c.topic THEN 1 ELSE 0)
  BY <1>1, <1>5, <1>6, <1>7
<1>9. ASSUME NEW t \in Topics PROVE Tracked(r, t)
  <2>1. Tracked(q, t) /\ CountIn(q.pending, About(t)) \in Nat
    BY <1>7, CountInType DEF Good
  <2>2. r.current.topic # t
    BY <1>5, <1>6, CommandFacts
  <2> QED
    BY <1>1, <1>5, <1>6, <1>8, <2>1, <2>2 DEF Tracked
<1>10. \A t \in Topics \ {c.topic} :
         \/ r.status[t] = q.status[t]
         \/ q.status[t] = "Unsubscribed" /\ r.status[t] = "NotSet"
  BY <1>1, <1>5, <1>6, <1>7
<1>11. IF c.op = "SUBSCRIBE" THEN r.status[c.topic] = "Subscribed"
                             ELSE r.status[c.topic] \in {"Unsubscribed", "NotSet"}
  <2>1. n.status[c.topic] = to
    BY <1>1, <1>5, <1>7
  <2> QED
    BY <1>1, <1>6, <2>1
<1>12. NoPings(q) => NoPings(r)
  BY <1>5, <1>6, CommandFacts DEF NoPings
<1> QED
  BY <1>1, <1>5, <1>6, <1>8, <1>9, <1>10, <1>11, <1>12 DEF Good, r

\* Step of a request that is ready.
LEMMA TakenFacts ==
  ASSUME NEW q, Good(q), IsReady(q)
  PROVE  LET r == Taken(q)
         IN  /\ Good(r) /\ Head(q.pending) \in Commands
             /\ r.current = Head(q.pending) /\ r.ping = q.ping
             /\ \A P : CountIn(q.pending, P)
                         = CountIn(r.pending, P) + (IF r.current \in P THEN 1 ELSE 0)
             /\ r.armed <=> r.current.op = "SUBSCRIBE" /\ r.current.topic \in Channels
             /\ r.contexts = q.contexts /\ r.status = q.status
             /\ NoPings(q) => NoPings(r)
<1> DEFINE r == Taken(q)
<1>1. /\ q \in Requests /\ q.pending \in Seq(Commands) /\ q.pending # <<>>
      /\ q.current = NoCommand
  BY DEF Good, Requests, IsReady
<1>2. Head(q.pending) \in Commands /\ Tail(q.pending) \in Seq(Commands)
  BY <1>1, HeadTailProperties
<1>3. /\ r \in Requests /\ r.pending = Tail(q.pending)
      /\ r.current = Head(q.pending) /\ r.ping = q.ping
      /\ r.contexts = q.contexts /\ r.status = q.status
      /\ r.armed = (Head(q.pending).op = "SUBSCRIBE"
                      /\ Head(q.pending).topic \in Channels)
  BY <1>1, <1>2 DEF Taken, Requests
<1> HIDE DEF r
<1>4. /\ \A P : CountIn(q.pending, P)
                  = CountIn(Tail(q.pending), P) + (IF Head(q.pending) \in P THEN 1 ELSE 0)
      /\ \A P : CountIn(Tail(q.pending), P) \in Nat
  <2>1. \A P : CountIn(q.pending, P)
                 = CountIn(Tail(q.pending), P) + (IF Head(q.pending) \in P THEN 1 ELSE 0)
    BY <1>1, CountInTail
  <2>2. \A P : CountIn(Tail(q.pending), P) \in Nat
    BY <1>2, CountInType
  <2> QED
    BY <2>1, <2>2
<1>5. ASSUME NEW t \in Topics PROVE Tracked(r, t)
  <2>1. Tracked(q, t) /\ q.current.topic # t
    BY <1>1, CommandFacts DEF Good
  <2>2. Head(q.pending) \in About(t) <=> r.current.topic = t
    BY <1>2, <1>3 DEF About
  <2>3. /\ CountIn(q.pending, About(t))
             = CountIn(Tail(q.pending), About(t))
                 + (IF Head(q.pending) \in About(t) THEN 1 ELSE 0)
        /\ CountIn(Tail(q.pending), About(t)) \in Nat
    BY <1>4
  <2> QED
    BY <1>3, <2>1, <2>2, <2>3 DEF Tracked
<1>6. NoPings(q) => NoPings(r)
  <2>1. /\ CountIn(q.pending, {Ping})
             = CountIn(Tail(q.pending), {Ping})
                 + (IF Head(q.pending) \in {Ping} THEN 1 ELSE 0)
        /\ CountIn(Tail(q.pending), {Ping}) \in Nat
    BY <1>4
  <2> QED
    BY <1>3, <2>1 DEF NoPings
<1> QED
  BY <1>2, <1>3, <1>4, <1>5, <1>6 DEF Good, r

\* The end of a ping.
Ponged(q) == [q EXCEPT !.ping = FALSE, !.current = NoCommand]

LEMMA PongedFacts ==
  ASSUME NEW q, Good(q), IsPong(q)
  PROVE  Good(Ponged(q))
<1> DEFINE r == Ponged(q)
<1>1. /\ q \in Requests /\ q.current.topic \notin Topics
      /\ r \in Requests /\ r.pending = q.pending /\ r.contexts = q.contexts
      /\ r.current = NoCommand
  BY CommandFacts DEF Good, IsPong, Ponged, Requests
<1> HIDE DEF r
<1>2. \A t \in Topics : Tracked(r, t)
  BY <1>1, CommandFacts DEF Good, Tracked
<1> QED
  BY <1>1, <1>2 DEF Good, r

\* A disconnection.
LEMMA ForgetFacts ==
  ASSUME NEW q, Good(q)
  PROVE  Good(Forget(q))
<1> DEFINE r == Forget(q)
<1>1. /\ r \in Requests /\ r.pending = <<>> /\ r.current = NoCommand
      /\ \A t \in Topics : r.contexts[t] = 0
  BY EmptySeq DEF Good, Forget, Requests
<1> HIDE DEF r
<1>2. \A t \in Topics : Tracked(r, t)
  BY <1>1, CommandFacts, CountInEmpty DEF Tracked
<1> QED
  BY <1>1, <1>2 DEF Good, r

\* Ping of a request.
Pinged(q) == [q EXCEPT !.ping = TRUE, !.pending = Append(@, Ping)]

LEMMA PingedFacts ==
  ASSUME NEW q, Good(q)
  PROVE  Good(Pinged(q))
<1> DEFINE r == Pinged(q)
<1>1. q \in Requests /\ q.pending \in Seq(Commands)
  BY DEF Good, Requests
<1>2. Append(q.pending, Ping) \in Seq(Commands)
  BY <1>1, CommandFacts, AppendProperties
<1>3. /\ r \in Requests /\ r.pending = Append(q.pending, Ping)
      /\ r.contexts = q.contexts /\ r.current = q.current
  BY <1>1, <1>2 DEF Pinged, Requests
<1> HIDE DEF r
<1>4. ASSUME NEW t \in Topics PROVE Tracked(r, t)
  <2>1. CountIn(Append(q.pending, Ping), About(t))
          = CountIn(q.pending, About(t)) + (IF Ping \in About(t) THEN 1 ELSE 0)
    BY <1>1, CommandFacts, CountInAppend
  <2>2. Ping \notin About(t)
    BY CommandFacts DEF About
  <2>3. CountIn(q.pending, About(t)) \in Nat /\ Tracked(q, t)
    BY <1>1, CountInType DEF Good
  <2> QED
    BY <1>3, <2>1, <2>2, <2>3 DEF Tracked
<1> QED
  BY <1>3, <1>4 DEF Good, r

-----------------------------------------------------------------------------
(* The manager.                                                            *)

LEMMA LinkFacts ==
  ASSUME NEW m \in Managers, NEW client \in Clients, NEW names \in SUBSET Topics
  PROVE  LET r == Link(m, client, names)
         IN  /\ r \in Managers /\ r.tracked = m.tracked \cup names
             /\ \A t \in Topics : Range(m.links[t]) \subseteq Range(r.links[t])
             /\ \A t \in Topics \ names : r.links[t] = m.links[t]
<1> DEFINE r == Link(m, client, names)
           links == [t \in Topics |-> IF t \in names /\ ~ Linked(m, client, t)
                                     THEN Append(m.links[t], client) ELSE m.links[t]]
<1>1. r = [m EXCEPT !.links = links, !.tracked = @ \cup names]
  BY DEF Link
<1>2. m.links \in [Topics -> Seq(Clients \cup {Nobody})]
  BY DEF Managers
<1>3. ASSUME NEW t \in Topics
      PROVE  /\ Append(m.links[t], client) \in Seq(Clients \cup {Nobody})
             /\ Range(m.links[t]) \subseteq Range(Append(m.links[t], client))
  BY <1>2, AppendProperties, RangeOfAppend
<1>4. /\ links \in [Topics -> Seq(Clients \cup {Nobody})]
      /\ \A t \in Topics : Range(m.links[t]) \subseteq Range(links[t])
      /\ \A t \in Topics \ names : links[t] = m.links[t]
  BY <1>2, <1>3
<1> HIDE DEF links, r
<1>5. r \in Managers /\ r.links = links /\ r.tracked = m.tracked \cup names
  BY <1>1, <1>4 DEF Managers
<1> QED
  BY <1>4, <1>5 DEF r

LEMMA UnlinkFacts ==
  ASSUME NEW m \in Managers, NEW client \in Clients, NEW topic \in Topics
  PROVE  LET r == Unlink(m, client, topic)
         IN  /\ r \in Managers /\ r.tracked = m.tracked
             /\ \A t \in Topics : m.links[t] = <<>> => r.links[t] = <<>>
             /\ \A t \in Topics : \A x \in Range(m.links[t]) \ {client} :
                  x \in Range(r.links[t])
<1> DEFINE r == Unlink(m, client, topic)
           left == RemoveFirst(m.links[topic], client)
<1>1. r = [m EXCEPT !.links[topic] = left]
  BY DEF Unlink
<1>2. m.links \in [Topics -> Seq(Clients \cup {Nobody})]
  BY DEF Managers
<1>3. /\ left \in Seq(Clients \cup {Nobody})
      /\ m.links[topic] = <<>> => left = <<>>
      /\ \A x \in Range(m.links[topic]) \ {client} : x \in Range(left)
  BY <1>2, RemoveFirstType, RangeOfRemoveFirst
<1> HIDE DEF left, r
<1>4. r \in Managers /\ r.links = [m.links EXCEPT ![topic] = left] /\ r.tracked = m.tracked
  BY <1>1, <1>2, <1>3 DEF Managers
<1> QED
  BY <1>2, <1>3, <1>4 DEF r

\* Half of what is behind the first of k.
LEMMA HalfFacts ==
  ASSUME NEW k \in Nat
  PROVE  LET n == (k - 1) \div 2
         IN  /\ \A i \in 1 .. n : 2 * i \in 1 .. k
             /\ k <= 2 => n <= 0
             /\ k > 0 => n \in Nat
             /\ n \in Int
<1> DEFINE n == (k - 1) \div 2
<1>1. n \in Int /\ 2 * n <= k - 1 /\ k - 1 < 2 * n + 2
  BY Z3
<1> HIDE DEF n
<1>2. ASSUME NEW i \in 1 .. n PROVE 2 * i \in 1 .. k
  BY <1>1
<1>3. (k <= 2 => n <= 0) /\ (k > 0 => n \in Nat)
  BY <1>1
<1> QED
  BY <1>1, <1>2, <1>3 DEF n

\* Notify of Unsubscribed leaves nobody if it finds one or two.
LEMMA NotifyFacts ==
  ASSUME NEW m \in Managers, NEW topic \in Topics
  PROVE  LET r == NotifyUnsubscribed(m, topic)
         IN  /\ r \in Managers /\ r.tracked = m.tracked
             /\ \A t \in Topics \ {topic} : r.links[t] = m.links[t]
             /\ Len(m.links[topic]) <= 2 => r.links[topic] = <<>>
             /\ \A t \in Topics : m.links[t] = <<>> => r.links[t] = <<>>
<1> DEFINE r == NotifyUnsubscribed(m, topic)
           old == m.links[topic]
           n == (Len(old) - 1) \div 2
           left == Missed(old)
<1>1. r = [m EXCEPT !.links[topic] = left]
  BY DEF NotifyUnsubscribed
<1>2. /\ m.links \in [Topics -> Seq(Clients \cup {Nobody})]
      /\ old \in Seq(Clients \cup {Nobody})
  BY DEF Managers
<1>3. left = [i \in 1 .. n |-> old[2 * i]]
  BY DEF Missed
<1>4. Len(old) \in Nat
  BY <1>2, LenProperties
<1>5. /\ \A i \in 1 .. n : 2 * i \in 1 .. Len(old)
      /\ Len(old) <= 2 => n <= 0
      /\ Len(old) > 0 => n \in Nat
      /\ n \in Int
  BY <1>4, HalfFacts
<1> HIDE DEF n
<1>6. \A i \in 1 .. n : old[2 * i] \in Clients \cup {Nobody}
  BY <1>2, <1>5, ElementOfSeq
<1>7. Len(old) <= 2 => left = <<>>
  BY <1>3, <1>5
<1>8. left \in Seq(Clients \cup {Nobody})
  <2>1. CASE Len(old) <= 2
    BY <1>7, <2>1, EmptySeq
  <2>2. CASE Len(old) > 2
    <3> HIDE DEF old
    <3> QED
      BY <1>3, <1>4, <1>5, <1>6, <2>2
  <2> QED
    BY <1>4, <2>1, <2>2
<1>9. old = <<>> => left = <<>>
  BY <1>7
<1> HIDE DEF left, r
<1>10. r \in Managers /\ r.links = [m.links EXCEPT ![topic] = left] /\ r.tracked = m.tracked
  BY <1>1, <1>2, <1>8 DEF Managers
<1> QED
  BY <1>2, <1>7, <1>9, <1>10 DEF r

-----------------------------------------------------------------------------
(* What holds always.                                                      *)

\* Only what has an entry in the maps of the manager has clients.
LinksTracked == \A t \in Topics : manager.links[t] # <<>> => t \in manager.tracked

\* What TypeOK says of the hub's end, the request, the manager and the rest.
Others ==
  /\ timers \in Nat /\ gaveUp \in BOOLEAN
  /\ dead \in {"no", "exception", "client", "entry"}
  /\ calls \in 0 .. MaxCalls

Main == Good(request) /\ manager \in Managers /\ LinksTracked /\ Others

BaseInv == HubTypeOK /\ RunningMatches /\ Main

LEMMA BaseIs == BaseInv <=> TypeOK /\ RunningMatches /\ LinksTracked
                              /\ \A t \in Topics : Tracked(request, t)
BY DEF BaseInv, Main, Good, Others, TypeOK, Requests, Managers

\* The messages that ask the hub to run the request.
Asking(s) == CountIn(s, {"request"})

\* commit_callback_ adds echoes only.
LEMMA CommitFacts ==
  ASSUME inbox \in Seq({"echo", "request"}), NEW n \in Nat, Commit(n)
  PROVE  /\ inbox' \in Seq({"echo", "request"})
         /\ Asking(inbox') = Asking(inbox)
         /\ \A i \in DOMAIN inbox' : inbox'[i] = "request" =>
              \E j \in DOMAIN inbox : inbox[j] = "request"
<1> DEFINE s == [i \in 1 .. n |-> "echo"]
<1>1. s \in Seq({"echo", "request"}) /\ \A i \in DOMAIN s : s[i] \notin {"request"}
  OBVIOUS
<1> HIDE DEF s
<1>2. inbox' = inbox \o s
  BY DEF Commit, s
<1>3. inbox' \in Seq({"echo", "request"})
  BY <1>1, <1>2, ConcatProperties
<1>4. CountIn(s, {"request"}) = 0
  BY <1>1, CountInZero
<1>5. Asking(inbox') = Asking(inbox) + 0
  BY <1>1, <1>2, <1>4, CountInConcat DEF Asking
<1>6. Asking(inbox) \in Nat
  BY CountInType DEF Asking
<1>7. ASSUME NEW i \in DOMAIN inbox', inbox'[i] = "request"
      PROVE  \E j \in DOMAIN inbox : inbox[j] = "request"
  <2>1. Asking(inbox') # 0
    BY <1>3, <1>7, CountInZero DEF Asking
  <2>2. ~ \A j \in DOMAIN inbox : inbox[j] \notin {"request"}
    BY <1>5, <1>6, <2>1, CountInZero DEF Asking
  <2> QED
    BY <2>2
<1> QED
  BY <1>3, <1>5, <1>6, <1>7

\* How a call of a client changes the request: commands are added behind
\* those that wait, and every name that is given a new status waits for one.
Calling(q, r) ==
  /\ Good(r)
  /\ r.current = q.current /\ r.armed = q.armed
  /\ NoPings(q) => NoPings(r)
  /\ \A t \in Topics :
       \/ r.contexts[t] = q.contexts[t] /\ r.status[t] = q.status[t]
       \/ r.contexts[t] > 0

LEMMA CallingBuild ==
  ASSUME NEW q, Good(q), NEW op \in {"SUBSCRIBE", "UNSUBSCRIBE"},
         NEW names \in SUBSET Topics
  PROVE  Calling(q, Build(q, op, names))
<1>1. /\ Good(Build(q, op, names))
      /\ \A t \in Topics : Build(q, op, names).contexts[t]
                             = q.contexts[t] + (IF t \in names THEN 1 ELSE 0)
      /\ \A t \in Topics \ names : Build(q, op, names).status[t] = q.status[t]
      /\ Build(q, op, names).current = q.current
      /\ Build(q, op, names).armed = q.armed
      /\ NoPings(q) => NoPings(Build(q, op, names))
  BY BuildFacts
<1>2. \A t \in Topics : q.contexts[t] \in Nat
  BY DEF Good, Requests
<1> QED
  BY <1>1, <1>2 DEF Calling

LEMMA CallingTwice ==
  ASSUME NEW q, Good(q), NEW op \in {"SUBSCRIBE", "UNSUBSCRIBE"},
         NEW names \in SUBSET Topics, NEW more \in SUBSET Topics
  PROVE  Calling(q, Build(Build(q, op, names), op, more))
<1> DEFINE r == Build(q, op, names)
           p == Build(r, op, more)
<1>1. Calling(q, r) /\ Good(r)
  BY CallingBuild DEF Calling
<1>2. /\ Good(p)
      /\ \A t \in Topics : p.contexts[t] = r.contexts[t] + (IF t \in more THEN 1 ELSE 0)
      /\ \A t \in Topics \ more : p.status[t] = r.status[t]
      /\ p.current = r.current /\ p.armed = r.armed
      /\ NoPings(r) => NoPings(p)
  <2> HIDE DEF r
  <2> QED
    BY <1>1, BuildFacts
<1>3. \A t \in Topics : q.contexts[t] \in Nat /\ r.contexts[t] \in Nat
  BY <1>1 DEF Good, Requests
<1> HIDE DEF p, r
<1>4. Calling(q, p)
  BY <1>1, <1>2, <1>3 DEF Calling
<1> QED
  BY <1>4 DEF p, r

LEMMA CallingSame ==
  ASSUME NEW q, Good(q)
  PROVE  Calling(q, q)
BY DEF Calling

\* A call of a client.
Called ==
  /\ Calling(request, request')
  /\ manager' \in Managers /\ LinksTracked' /\ Others'
  /\ \E n \in Nat : Commit(n)
  /\ UNCHANGED <<uplink, payload, running, connection, wire, server, losses,
                 messages, timers, gaveUp>>

LEMMA CallFacts ==
  ASSUME BaseInv, ClientNext
  PROVE  Called
<1>0. /\ Good(request) /\ manager \in Managers /\ LinksTracked
      /\ inbox \in Seq({"echo", "request"})
      /\ manager.links \in [Topics -> Seq(Clients \cup {Nobody})]
      /\ manager.tracked \in SUBSET Topics
      /\ manager.recovery \in BOOLEAN /\ manager.timeout \in Nat
      /\ manager = [links |-> manager.links, tracked |-> manager.tracked,
                    recovery |-> manager.recovery, timeout |-> manager.timeout]
  BY DEF BaseInv, Main, HubTypeOK, Managers
<1>1. ASSUME NEW name, Call(name)
      PROVE  /\ timers' \in Nat /\ gaveUp' \in BOOLEAN /\ calls' \in 0 .. MaxCalls
             /\ UNCHANGED <<uplink, payload, running, connection, wire, server,
                            losses, messages, timers, gaveUp>>
  BY <1>1, SubscriptionsAssumption DEF Call, BaseInv, Main, Others
<1>2. ASSUME UNCHANGED inbox PROVE \E n \in Nat : Commit(n)
  <2>1. inbox \o [i \in 1 .. 0 |-> "echo"] = inbox
    BY <1>0
  <2> QED
    BY <1>2, <2>1 DEF Commit
<1>3. ASSUME NEW client \in Clients, NEW names \in SUBSET Topics,
             manager' = Link(manager, client, names)
      PROVE  manager' \in Managers /\ LinksTracked'
  <2>1. /\ \A t \in Topics \ names : manager'.links[t] = manager.links[t]
        /\ manager'.tracked = manager.tracked \cup names
        /\ manager' \in Managers
    BY <1>0, <1>3, LinkFacts
  <2>2. LinksTracked'
    BY <1>0, <2>1 DEF LinksTracked
  <2> QED
    BY <2>1, <2>2
<1>4. ASSUME NEW client \in Clients, NEW topic \in Topics,
             manager' = manager \/ manager' = Unlink(manager, client, topic)
      PROVE  manager' \in Managers /\ LinksTracked'
  <2>1. /\ \A t \in Topics : manager.links[t] = <<>> => manager'.links[t] = <<>>
        /\ manager'.tracked = manager.tracked
        /\ manager' \in Managers
    BY <1>0, <1>4, UnlinkFacts
  <2>2. LinksTracked'
    BY <1>0, <2>1 DEF LinksTracked
  <2> QED
    BY <2>1, <2>2
<1>5. ASSUME NEW client \in Clients, NEW topic \in Topics, Subscribe(client, topic)
      PROVE  Called
  <2>1. manager' \in Managers /\ LinksTracked'
    BY <1>3, <1>5 DEF Subscribe
  <2>2. Others'
    BY <1>1, <1>5 DEF Subscribe, Others, BaseInv, Main
  <2>3. /\ Calling(request, request')
        /\ \E n \in Nat : Commit(n)
    BY <1>0, <1>2, <1>5, CallingSame, CallingBuild DEF Subscribe
  <2> QED
    BY <1>1, <1>5, <2>1, <2>2, <2>3 DEF Called, Subscribe
<1>6. ASSUME NEW client \in Clients, SubscribeDefaults(client) PROVE Called
  <2>1. manager' \in Managers /\ LinksTracked'
    BY <1>3, <1>6, SubscriptionsAssumption DEF SubscribeDefaults
  <2>2. Others'
    BY <1>1, <1>6 DEF SubscribeDefaults, Others, BaseInv, Main
  <2>3. Calling(request, request') /\ \E n \in Nat : Commit(n)
    BY <1>0, <1>2, <1>6, CallingSame DEF SubscribeDefaults
  <2> QED
    BY <1>1, <1>6, <2>1, <2>2, <2>3 DEF Called, SubscribeDefaults
<1>7. ASSUME NEW client \in Clients, NEW topic \in Topics, Unsubscribe(client, topic)
      PROVE  Called
  <2>1. manager' \in Managers /\ LinksTracked'
    BY <1>4, <1>7 DEF Unsubscribe
  <2>2. Others'
    BY <1>1, <1>7 DEF Unsubscribe, Others, BaseInv, Main
  <2>3. Calling(request, request') /\ \E n \in Nat : Commit(n)
    BY <1>0, <1>2, <1>7, CallingSame, CallingBuild DEF Unsubscribe
  <2> QED
    BY <1>1, <1>7, <2>1, <2>2, <2>3 DEF Called, Unsubscribe
<1>8. ASSUME NEW client \in Clients, Leave(client) PROVE Called
  <2> DEFINE links == [t \in Topics |-> RemoveFirst(manager.links[t], client)]
             unused == {t \in manager.tracked : links[t] = <<>>}
             ended == {t \in unused : IsSubscribedOrPending(request, t)}
  <2>1. /\ Call("leave")
        /\ manager' = [manager EXCEPT !.links = links, !.tracked = @ \ unused]
        /\ request' = Build(Build(request, "UNSUBSCRIBE", ended \cap Channels),
                            "UNSUBSCRIBE", ended \cap Patterns)
        /\ Commit(Cardinality(ended))
        /\ UNCHANGED dead
    BY <1>8 DEF Leave
  <2>2. ended \in SUBSET Topics
    BY <1>0
  <2>3. IsFiniteSet(ended) /\ Cardinality(ended) \in Nat
    BY <2>2, KeepAliveAssumption, FS_Subset, FS_CardinalityType
  <2>4. Calling(request, request')
    BY <1>0, <2>1, <2>2, CallingTwice
  <2>5. /\ links \in [Topics -> Seq(Clients \cup {Nobody})]
        /\ \A t \in Topics : manager.links[t] = <<>> => links[t] = <<>>
    BY <1>0, RemoveFirstType, RangeOfRemoveFirst
  <2>6. manager' \in Managers /\ manager'.links = links
        /\ manager'.tracked = manager.tracked \ unused
    <3> HIDE DEF links
    <3> QED
      BY <1>0, <2>1, <2>5 DEF Managers
  <2>7. LinksTracked'
    <3>1. ASSUME NEW t \in Topics, links[t] # <<>>
          PROVE  t \in manager.tracked \ unused
      BY <1>0, <2>5, <3>1 DEF LinksTracked
    <3> HIDE DEF links, unused
    <3> QED
      BY <2>6, <3>1 DEF LinksTracked
  <2> HIDE DEF links, unused, ended
  <2>8. Others'
    BY <1>1, <2>1 DEF Others, BaseInv, Main
  <2> QED
    BY <1>1, <2>1, <2>3, <2>4, <2>6, <2>7, <2>8 DEF Called
<1> QED
  BY <1>5, <1>6, <1>7, <1>8 DEF ClientNext

\* A message of the hub is taken from the queue.
LEMMA ReceivedFacts ==
  ASSUME BaseInv, NEW m, Received(m)
  PROVE  /\ uplink \in Seq(Uplink) /\ uplink # <<>> /\ Head(uplink) = m
         /\ uplink' = Tail(uplink) /\ uplink' \in Seq(Uplink)
         /\ RunningMatches'
         /\ UNCHANGED <<running, connection, wire, server, losses, messages, gaveUp, calls>>
<1>1. uplink \in Seq(Uplink) /\ uplink # <<>> /\ uplink' = Tail(uplink)
  BY DEF BaseInv, HubTypeOK, Received
<1>2. uplink' \in Seq(Uplink)
  BY <1>1, HeadTailProperties
<1> QED
  BY <1>1, <1>2 DEF Received, BaseInv, RunningMatches

\* The end of Publish asks for a command, with echoes.
LEMMA PublishEndsFacts ==
  ASSUME NEW q, NEW n \in Nat, PublishEnds(q, n)
  PROVE  /\ request' = q /\ UNCHANGED <<payload, timers, dead>>
         /\ \E k \in Nat : Commit(k)
BY DEF PublishEnds

\* How the reply that ends a recovery changes the objects.
LEMMA PongFacts ==
  ASSUME BaseInv, PublishPong
  PROVE  /\ \/ request' = request
            \/ IsPong(request) /\ request' = Ponged(request)
            \/ /\ IsPong(request)
               /\ request' = Build(Ponged(request), "SUBSCRIBE",
                                   manager.tracked \cap Channels)
         /\ \/ manager' = manager
            \/ manager' = [manager EXCEPT !.recovery = FALSE, !.timeout = MinTimeout]
         /\ \E k \in Nat : Commit(k)
         /\ UNCHANGED <<payload, timers, dead>>
         /\ Received(ReplyMessage(Ping))
<1> DEFINE q == [request EXCEPT !.ping = FALSE, !.current = NoCommand]
           names == NamesToRecover(q, manager)
           end == [manager EXCEPT !.recovery = FALSE, !.timeout = MinTimeout]
<1>1. q = Ponged(request) /\ names = manager.tracked \cap Channels
  BY DEF Ponged, NamesToRecover
<1>2. /\ Received(ReplyMessage(Ping))
      /\ \/ ~ IsPong(request) /\ PublishEnds(request, 0) /\ UNCHANGED manager
         \/ IsPong(request) /\ PublishEnds(q, 0) /\ UNCHANGED manager
         \/ IsPong(request) /\ PublishEnds(q, 0) /\ manager' = end
         \/ /\ IsPong(request) /\ PublishEnds(Build(q, "SUBSCRIBE", names), 1)
            /\ manager' = end
  <2>1. /\ Received(ReplyMessage(Ping))
        /\ IF ~ IsPong(request) THEN PublishEnds(request, 0) /\ UNCHANGED manager
           ELSE IF ~ manager.recovery THEN PublishEnds(q, 0) /\ UNCHANGED manager
           ELSE /\ manager' = end
                /\ IF names = {} THEN PublishEnds(q, 0)
                   ELSE PublishEnds(Build(q, "SUBSCRIBE", names), 1)
    BY Zenon DEF PublishPong
  <2> HIDE DEF q, names, end
  <2> QED
    BY <2>1, Zenon
<1> HIDE DEF q, names, end
<1>3. /\ \/ request' = request
         \/ IsPong(request) /\ request' = q
         \/ IsPong(request) /\ request' = Build(q, "SUBSCRIBE", names)
      /\ manager' = manager \/ manager' = end
      /\ \E k \in Nat : Commit(k)
      /\ UNCHANGED <<payload, timers, dead>>
  BY <1>2, PublishEndsFacts
<1> QED
  BY <1>1, <1>2, <1>3 DEF end

\* Messages keep what holds always.
LEMMA BaseMessage ==
  ASSUME BaseInv, MessageNext
  PROVE  BaseInv'
<1>0. /\ Good(request) /\ manager \in Managers /\ LinksTracked /\ Others
      /\ HubTypeOK /\ inbox \in Seq({"echo", "request"})
      /\ manager.links \in [Topics -> Seq(Clients \cup {Nobody})]
      /\ manager.tracked \in SUBSET Topics
  BY DEF BaseInv, Main, HubTypeOK, Managers
<1>1. ASSUME NEW m, Received(m), payload' \in Commands,
             inbox' \in Seq({"echo", "request"})
      PROVE  HubTypeOK' /\ RunningMatches'
  BY <1>0, <1>1, ReceivedFacts DEF HubTypeOK
<1>2. ASSUME NEW m, Received(m), UNCHANGED <<timers, dead>> PROVE Others'
  BY <1>0, <1>2 DEF Others, Received
<1>3. ASSUME NEW m, Received(m), UNCHANGED <<payload, timers, dead>>,
             \E k \in Nat : Commit(k), Good(request'),
             manager' \in Managers, LinksTracked'
      PROVE  BaseInv'
  <2>1. inbox' \in Seq({"echo", "request"}) /\ payload' \in Commands
    BY <1>0, <1>3, CommitFacts DEF HubTypeOK
  <2> QED
    BY <1>1, <1>2, <1>3, <2>1 DEF BaseInv, Main
<1>4. CASE Step
  <2>1. Received(EchoMessage) /\ UNCHANGED <<manager, timers, dead>>
    BY <1>4 DEF Step
  <2>2. CASE IsReady(request)
    <3>1. /\ request' = Taken(request) /\ payload' = Head(request.pending)
          /\ inbox' = Append(inbox, "request")
      BY <1>4, <2>2 DEF Step
    <3>2. Good(request') /\ payload' \in Commands
      BY <1>0, <2>2, <3>1, TakenFacts
    <3>3. inbox' \in Seq({"echo", "request"})
      BY <1>0, <3>1, AppendProperties
    <3>4. HubTypeOK' /\ RunningMatches' /\ Others'
      BY <1>1, <1>2, <2>1, <3>2, <3>3
    <3> QED
      BY <1>0, <2>1, <3>2, <3>4 DEF BaseInv, Main, LinksTracked
  <2>3. CASE ~ IsReady(request)
    <3>1. UNCHANGED <<request, payload, inbox>>
      BY <1>4, <2>3 DEF Step
    <3>2. HubTypeOK' /\ RunningMatches' /\ Others'
      BY <1>0, <1>1, <1>2, <2>1, <3>1 DEF HubTypeOK
    <3> QED
      BY <1>0, <2>1, <3>1, <3>2 DEF BaseInv, Main, LinksTracked
  <2> QED
    BY <2>2, <2>3
<1>5. CASE PublishPong
  <2>1. /\ \/ request' = request
           \/ IsPong(request) /\ request' = Ponged(request)
           \/ /\ IsPong(request)
              /\ request' = Build(Ponged(request), "SUBSCRIBE",
                                  manager.tracked \cap Channels)
        /\ \/ manager' = manager
           \/ manager' = [manager EXCEPT !.recovery = FALSE, !.timeout = MinTimeout]
        /\ \E k \in Nat : Commit(k)
        /\ UNCHANGED <<payload, timers, dead>>
        /\ Received(ReplyMessage(Ping))
    BY <1>5, PongFacts
  <2>2. Good(request')
    <3>1. CASE request' = request
      BY <1>0, <3>1
    <3>2. CASE request' # request
      <4>1. Good(Ponged(request))
        BY <1>0, <2>1, <3>2, PongedFacts
      <4>2. Good(Build(Ponged(request), "SUBSCRIBE", manager.tracked \cap Channels))
        BY <1>0, <4>1, BuildFacts
      <4> QED
        BY <2>1, <3>2, <4>1, <4>2
    <3> QED
      BY <3>1, <3>2
  <2>3. /\ manager' \in Managers /\ manager'.links = manager.links
        /\ manager'.tracked = manager.tracked
    BY <1>0, <2>1, SubscriptionsAssumption DEF Managers
  <2>4. LinksTracked'
    BY <1>0, <2>3 DEF LinksTracked
  <2> QED
    BY <1>3, <2>1, <2>2, <2>3, <2>4
<1>6. CASE Disconnected
  <2>1. /\ Received(DisconnectedMessage) /\ request' = Forget(request)
        /\ manager' = [manager EXCEPT !.recovery = TRUE]
        /\ timers' = timers + 1 /\ UNCHANGED <<inbox, payload, dead>>
    BY <1>6 DEF Disconnected
  <2>2. HubTypeOK' /\ RunningMatches'
    BY <1>0, <1>1, <2>1 DEF HubTypeOK
  <2>3. Others'
    BY <1>0, <2>1 DEF Others, Received
  <2>4. /\ manager' \in Managers /\ manager'.links = manager.links
        /\ manager'.tracked = manager.tracked
    BY <1>0, <2>1 DEF Managers
  <2>5. LinksTracked' /\ Good(request')
    BY <1>0, <2>1, <2>4, ForgetFacts DEF LinksTracked
  <2> QED
    BY <2>2, <2>3, <2>4, <2>5 DEF BaseInv, Main
<1>7. ASSUME NEW c \in Commands, PublishReply(c) PROVE BaseInv'
  <2>1. Received(ReplyMessage(c))
    BY <1>7 DEF PublishReply
  <2>2. CASE IsExpected(request, c)
    <3>1. /\ PublishEnds(Answer(request, c), 0)
          /\ manager' = manager \/ manager' = NotifyUnsubscribed(manager, c.topic)
      BY <1>7, <2>2 DEF PublishReply
    <3>2. /\ request' = Answer(request, c) /\ UNCHANGED <<payload, timers, dead>>
          /\ \E k \in Nat : Commit(k)
      BY <3>1, PublishEndsFacts
    <3>3. Good(request') /\ c.topic \in Topics
      BY <1>0, <2>2, <3>2, AnswerFacts
    <3>4. /\ manager' \in Managers /\ manager'.tracked = manager.tracked
          /\ \A t \in Topics : manager.links[t] = <<>> => manager'.links[t] = <<>>
      BY <1>0, <3>1, <3>3, NotifyFacts
    <3>5. LinksTracked'
      BY <1>0, <3>4 DEF LinksTracked
    <3> QED
      BY <1>3, <2>1, <3>2, <3>3, <3>4, <3>5
  <2>3. CASE ~ IsExpected(request, c)
    <3>1. PublishEnds(request, 0) /\ UNCHANGED manager
      BY <1>7, <2>3 DEF PublishReply
    <3>2. /\ request' = request /\ UNCHANGED <<payload, timers, dead>>
          /\ \E k \in Nat : Commit(k)
      BY <3>1, PublishEndsFacts
    <3>3. LinksTracked'
      BY <1>0, <3>1 DEF LinksTracked
    <3> QED
      BY <1>0, <1>3, <2>1, <3>1, <3>2, <3>3
  <2> QED
    BY <2>2, <2>3
<1>8. ASSUME NEW topic \in Topics, PublishMessage(topic) PROVE BaseInv'
  <2>1. /\ Received(PublishedMessage(topic)) /\ PublishEnds(request, 0)
        /\ UNCHANGED manager
    BY <1>8 DEF PublishMessage
  <2>2. /\ request' = request /\ UNCHANGED <<payload, timers, dead>>
        /\ \E k \in Nat : Commit(k)
    BY <2>1, PublishEndsFacts
  <2>3. LinksTracked'
    BY <1>0, <2>1 DEF LinksTracked
  <2> QED
    BY <1>0, <1>3, <2>1, <2>2, <2>3
<1> QED
  BY <1>4, <1>5, <1>6, <1>7, <1>8 DEF MessageNext

\* The timeout doubles.
LEMMA LaterFacts ==
  ASSUME NEW m \in Managers
  PROVE  LET r == [m EXCEPT !.timeout = 2 * @]
         IN  r \in Managers /\ r.links = m.links /\ r.tracked = m.tracked
<1> DEFINE later == 2 * m.timeout
<1>1. later \in Nat
  <2>1. m.timeout \in Nat
    BY DEF Managers
  <2> QED
    BY <2>1
<1>2. [m EXCEPT !.timeout = 2 * @] = [m EXCEPT !.timeout = later]
  OBVIOUS
<1> HIDE DEF later
<1> QED
  BY <1>1, <1>2 DEF Managers

\* So does the timer,
LEMMA BaseTimer ==
  ASSUME BaseInv, TimerNext
  PROVE  BaseInv'
<1>0. /\ Good(request) /\ manager \in Managers /\ LinksTracked /\ Others
      /\ HubTypeOK /\ inbox \in Seq({"echo", "request"}) /\ RunningMatches
  BY DEF BaseInv, Main, HubTypeOK
<1>1. ASSUME TimerFires, inbox' \in Seq({"echo", "request"})
      PROVE  HubTypeOK' /\ RunningMatches' /\ timers' \in Nat
  BY <1>0, <1>1 DEF TimerFires, HubTypeOK, RunningMatches, Others
<1>2. CASE GiveUp
  <2>1. /\ TimerFires /\ UNCHANGED <<request, inbox>> /\ gaveUp' = TRUE
        /\ manager' = [manager EXCEPT !.links = [t \in Topics |-> <<>>],
                                      !.timeout = MinTimeout]
        /\ dead' \in {"client", dead}
    BY <1>2 DEF GiveUp
  <2>2. HubTypeOK' /\ RunningMatches' /\ timers' \in Nat
    BY <1>0, <1>1, <2>1
  <2>3. Others'
    BY <1>0, <2>1, <2>2 DEF Others, TimerFires
  <2>4. manager' \in Managers /\ \A t \in Topics : manager'.links[t] = <<>>
    BY <1>0, <2>1, SubscriptionsAssumption, EmptySeq DEF Managers
  <2> QED
    BY <1>0, <2>1, <2>2, <2>3, <2>4 DEF BaseInv, Main, LinksTracked
<1>3. CASE SendPing
  <2>1. /\ TimerFires /\ Commit(1) /\ UNCHANGED <<gaveUp, dead>>
        /\ request' = Pinged(request)
        /\ manager' = [manager EXCEPT !.timeout = 2 * @]
    BY <1>3 DEF SendPing, Pinged
  <2>2. inbox' \in Seq({"echo", "request"})
    BY <1>0, <2>1, CommitFacts
  <2>3. HubTypeOK' /\ RunningMatches' /\ timers' \in Nat
    BY <1>1, <2>1, <2>2
  <2>4. Others'
    BY <1>0, <2>1, <2>3 DEF Others, TimerFires
  <2>5. /\ manager' \in Managers /\ manager'.links = manager.links
        /\ manager'.tracked = manager.tracked
    BY <1>0, <2>1, LaterFacts
  <2>6. Good(request') /\ LinksTracked'
    BY <1>0, <2>1, <2>5, PingedFacts DEF LinksTracked
  <2> QED
    BY <2>3, <2>4, <2>5, <2>6 DEF BaseInv, Main
<1>4. CASE PingRefused
  <2>1. /\ TimerFires /\ dead' = "exception" /\ UNCHANGED <<request, inbox, gaveUp>>
        /\ manager' = [manager EXCEPT !.timeout = 2 * @]
    BY <1>4 DEF PingRefused
  <2>2. HubTypeOK' /\ RunningMatches' /\ timers' \in Nat
    BY <1>0, <1>1, <2>1
  <2>3. Others'
    BY <1>0, <2>1, <2>2 DEF Others, TimerFires
  <2>4. /\ manager' \in Managers /\ manager'.links = manager.links
        /\ manager'.tracked = manager.tracked
    BY <1>0, <2>1, LaterFacts
  <2>5. LinksTracked'
    BY <1>0, <2>4 DEF LinksTracked
  <2> QED
    BY <1>0, <2>1, <2>2, <2>3, <2>4, <2>5 DEF BaseInv, Main
<1> QED
  BY <1>2, <1>3, <1>4 DEF TimerNext

\* and the hub.
LEMMA BaseHub ==
  ASSUME BaseInv, HubStep(HubNext)
  PROVE  BaseInv'
<1>0. /\ UNCHANGED mainVars /\ HubNext /\ HubTypeOK /\ RunningMatches
      /\ inbox \in Seq({"echo", "request"}) /\ uplink \in Seq(Uplink)
      /\ payload \in Commands /\ wire \in Seq(Commands) /\ server \subseteq Topics
      /\ losses \in 0 .. MaxLosses /\ messages \in 0 .. MaxMessages
      /\ MaxLosses \in Nat /\ MaxMessages \in Nat
  BY KeepAliveAssumption DEF HubStep, BaseInv, HubTypeOK
<1>1. Main'
  BY <1>0 DEF BaseInv, Main, mainVars, LinksTracked, Others
<1>2. \A m \in Uplink : Append(uplink, m) \in Seq(Uplink)
  BY <1>0, AppendProperties
<1>3. EchoMessage \in Uplink /\ DisconnectedMessage \in Uplink
  BY DEF Uplink
<1>4. Append(wire, payload) \in Seq(Commands)
  BY <1>0, AppendProperties
<1>5. inbox # <<>> => Tail(inbox) \in Seq({"echo", "request"})
  BY <1>0, HeadTailProperties
<1>6. ASSUME Echo PROVE HubTypeOK' /\ RunningMatches'
  BY <1>0, <1>2, <1>3, <1>5, <1>6 DEF Echo, HubTypeOK, RunningMatches
<1>7. ASSUME Push PROVE HubTypeOK' /\ RunningMatches'
  BY <1>0, <1>4, <1>5, <1>7 DEF Push, HubTypeOK, RunningMatches
<1>8. ASSUME Connected PROVE HubTypeOK' /\ RunningMatches'
  BY <1>0, <1>4, <1>8 DEF Connected, HubTypeOK, RunningMatches
<1>9. ASSUME Lost PROVE HubTypeOK' /\ RunningMatches'
  <2>1. <<>> \in Seq(Commands)
    BY EmptySeq
  <2>2. /\ connection' = "down" /\ wire' = <<>> /\ server' = {} /\ running' = FALSE
        /\ losses' = losses + 1 /\ losses < MaxLosses
        /\ UNCHANGED <<inbox, payload, messages>>
        /\ uplink' = uplink \/ uplink' = Append(uplink, DisconnectedMessage)
    BY <1>9 DEF Lost, StatusChanged
  <2>3. uplink' \in Seq(Uplink) /\ losses' \in 0 .. MaxLosses
    BY <1>0, <1>2, <1>3, <2>2
  <2> QED
    BY <1>0, <2>1, <2>2, <2>3 DEF HubTypeOK, RunningMatches
<1>10. ASSUME Answered PROVE HubTypeOK' /\ RunningMatches'
  <2> DEFINE c == Head(wire)
  <2>1. c \in Commands /\ Tail(wire) \in Seq(Commands)
    BY <1>0, <1>10, HeadTailProperties DEF Answered
  <2>2. ReplyMessage(c) \in Uplink
    BY <2>1 DEF Uplink
  <2>3. /\ wire' = Tail(wire)
        /\ \/ server' = server
           \/ c.op = "SUBSCRIBE" /\ server' = server \cup {c.topic}
           \/ server' = server \ {c.topic}
        /\ uplink' = IF running THEN Append(uplink, ReplyMessage(c)) ELSE uplink
        /\ UNCHANGED <<inbox, payload, running, connection, losses, messages>>
    BY <1>10, <2>1 DEF Answered, Commands, Ping
  <2>4. c.op = "SUBSCRIBE" => c.topic \in Topics
    BY <2>1 DEF Commands, Ping
  <2> HIDE DEF c
  <2> QED
    BY <1>0, <1>1, <1>2, <2>1, <2>2, <2>3, <2>4 DEF HubTypeOK, RunningMatches, BaseInv
<1>11. ASSUME NEW topic \in Topics, Published(topic) PROVE HubTypeOK' /\ RunningMatches'
  <2>1. PublishedMessage(topic) \in Uplink
    BY DEF Uplink
  <2> QED
    BY <1>0, <1>2, <1>11, <2>1 DEF Published, HubTypeOK, RunningMatches
<1>12. HubTypeOK' /\ RunningMatches'
  BY <1>0, <1>6, <1>7, <1>8, <1>9, <1>10, <1>11 DEF HubNext, HubProgress, BaseInv
<1> QED
  BY <1>1, <1>12 DEF BaseInv

\* A request before the first call.
Fresh ==
  [pending |-> <<>>, current |-> NoCommand, ping |-> FALSE,
   contexts |-> [t \in Topics |-> 0],
   status |-> [t \in Topics |-> "NotSet"], armed |-> FALSE]

LEMMA FreshFacts == Good(Fresh) /\ NoPings(Fresh)
<1>1. Fresh \in Requests
  BY EmptySeq DEF Fresh, Requests, Statuses
<1>2. \A P : CountIn(Fresh.pending, P) = 0
  BY CountInEmpty DEF Fresh
<1>3. \A t \in Topics : Fresh.contexts[t] = 0 /\ Fresh.current.topic # t
  BY CommandFacts DEF Fresh
<1>4. ~ Fresh.ping /\ Fresh.current = NoCommand
  BY DEF Fresh
<1> QED
  BY <1>1, <1>2, <1>3, <1>4, CommandFacts DEF Good, Tracked, NoPings

LEMMA InitFacts ==
  ASSUME Init
  PROVE  /\ BaseInv /\ Calling(Fresh, request)
         /\ Asking(inbox) = 0 /\ \A i \in DOMAIN inbox : inbox[i] # "request"
<1> DEFINE kinds == {k \in {Channels, Patterns} : k \cap Defaults # {}}
           n == Cardinality(kinds)
<1>1. n \in Nat
  <2>1. IsFiniteSet({Channels} \cup {Patterns})
    BY FS_Singleton, FS_AddElement
  <2>2. kinds \in SUBSET ({Channels} \cup {Patterns})
    OBVIOUS
  <2> QED
    BY <2>1, <2>2, FS_Subset, FS_CardinalityType
<1>2. inbox = [i \in 1 .. n |-> "echo"]
  BY DEF Init
<1> HIDE DEF n
<1>3. /\ inbox \in Seq({"echo", "request"})
      /\ \A i \in DOMAIN inbox : inbox[i] \notin {"request"}
  BY <1>1, <1>2
<1>4. Asking(inbox) = 0
  BY <1>3, CountInZero DEF Asking
<1>5. request = Build(Build(Fresh, "SUBSCRIBE", Defaults \cap Channels),
                      "SUBSCRIBE", Defaults \cap Patterns)
  BY DEF Init, Fresh
<1>6. Calling(Fresh, request) /\ Good(request)
  BY <1>5, FreshFacts, CallingTwice DEF Topics, Calling
<1>7. HubTypeOK /\ RunningMatches
  <2>1. <<>> \in Seq(Uplink) /\ <<>> \in Seq(Commands)
    BY EmptySeq
  <2>2. 0 \in 0 .. MaxLosses /\ 0 \in 0 .. MaxMessages
    BY KeepAliveAssumption
  <2>3. HubInit
    BY DEF Init
  <2> QED
    BY <1>3, <2>1, <2>2, <2>3, CommandFacts DEF HubInit, HubTypeOK, RunningMatches
<1>8. manager \in Managers /\ LinksTracked
  <2>1. <<>> \in Seq(Clients \cup {Nobody}) /\ <<Nobody>> \in Seq(Clients \cup {Nobody})
    BY EmptySeq
  <2> QED
    BY <2>1, SubscriptionsAssumption DEF Init, Managers, LinksTracked
<1>9. Others
  <2>1. MaxCalls \in Nat
    BY SubscriptionsAssumption
  <2>2. timers = 0 /\ gaveUp = FALSE /\ dead = "no" /\ calls = 0
    BY DEF Init
  <2>3. calls \in 0 .. MaxCalls /\ timers \in Nat
    BY <2>1, <2>2
  <2> QED
    BY <2>2, <2>3 DEF Others
<1> QED
  BY <1>3, <1>4, <1>6, <1>7, <1>8, <1>9 DEF BaseInv, Main

LEMMA BaseCall ==
  ASSUME BaseInv, ClientNext
  PROVE  BaseInv'
<1>1. Called
  BY CallFacts
<1>2. inbox \in Seq({"echo", "request"}) /\ HubTypeOK /\ RunningMatches
  BY DEF BaseInv, HubTypeOK
<1>3. inbox' \in Seq({"echo", "request"})
  BY <1>1, <1>2, CommitFacts DEF Called
<1> QED
  BY <1>1, <1>2, <1>3
     DEF Called, Calling, BaseInv, Main, HubTypeOK, RunningMatches

LEMMA BaseStep == BaseInv /\ [Next]_vars => BaseInv'
<1> SUFFICES ASSUME BaseInv, [Next]_vars PROVE BaseInv'
  OBVIOUS
<1>1. CASE UNCHANGED vars
  BY <1>1 DEF vars, hubVars, mainVars, BaseInv, HubTypeOK, RunningMatches, Main,
              LinksTracked, Others
<1> QED
  BY <1>1, BaseCall, BaseMessage, BaseTimer, BaseHub DEF Next

LEMMA BaseHolds == Spec => []BaseInv
<1>1. Init => BaseInv
  BY InitFacts
<1> QED
  BY <1>1, BaseStep, PTL DEF Spec

\* The request, the manager and the hub's end keep their types; a vector of
\* contexts never gives more than it has.
THEOREM SubscriptionsTypes == Spec => []TypeOK
<1>1. BaseInv => TypeOK
  BY BaseIs
<1> QED
  BY <1>1, BaseHolds, PTL

\* The vector of contexts of a name holds, at any time, the commands about it
\* that wait and the one whose reply is awaited.
THEOREM ContextsTracked == Spec => []PendingTracked
<1>1. BaseInv => PendingTracked
  <2> SUFFICES ASSUME BaseInv, NEW t \in Topics
               PROVE  request.contexts[t] =
                        Cardinality({i \in DOMAIN request.pending :
                                       request.pending[i].topic = t})
                          + (IF request.current.topic = t THEN 1 ELSE 0)
    BY DEF PendingTracked
  <2>1. request.pending \in Seq(Commands) /\ Tracked(request, t)
    BY DEF BaseInv, Main, Good, Requests
  <2>2. {i \in DOMAIN request.pending : request.pending[i].topic = t}
          = {i \in DOMAIN request.pending : request.pending[i] \in About(t)}
    BY <2>1 DEF About
  <2> QED
    BY <2>1, <2>2 DEF Tracked, CountIn
<1> QED
  BY <1>1, BaseHolds, PTL

\* The maps of the keep-alive handler have a running entry exactly as long as
\* there is a context of its device.
THEOREM HandlerFollowsDevice == Spec => []RunningMatches
<1>1. BaseInv => RunningMatches
  BY DEF BaseInv
<1> QED
  BY <1>1, BaseHolds, PTL

-----------------------------------------------------------------------------
(* As long as no connection was lost.                                      *)

\* The answers of the server that are on their way to the main thread.
Replies == {m \in Uplink : m.kind = "reply"}

\* The places where a command can be between Step and Publish.
Way(asking, connecting, executed, told) ==
  CountIn(asking, {"request"}) + (IF connecting = "connecting" THEN 1 ELSE 0)
    + Len(executed) + CountIn(told, Replies)

OneCommand ==
  Way(inbox, connection, wire, uplink)
    = IF request.current = NoCommand THEN 0 ELSE 1

\* Whatever is under way is about the current command: nothing reports a
\* disconnection, and an answer says what the server did.
OnlyCurrent ==
  /\ \A m \in Range(uplink) : m # DisconnectedMessage
  /\ \A m \in Range(uplink) \cap Replies :
       /\ m.command = request.current
       /\ m.command.topic \in server <=> m.command.op = "SUBSCRIBE"
  /\ \A c \in Range(wire) : c = request.current
  /\ "request" \in Range(inbox) \/ connection = "connecting" =>
       payload = request.current

\* A name about which no command waits has the status that the server knows.
StatusKnown ==
  \A t \in Topics : request.contexts[t] = 0 =>
    /\ request.status[t] \in {"NotSet", "Subscribed", "Unsubscribed"}
    /\ request.status[t] = "Subscribed" <=> t \in server

Steady ==
  /\ timers = 0 /\ NoPings(request)
  /\ OneCommand /\ OnlyCurrent /\ ArmedWhileWaiting /\ StatusKnown

Unbroken == losses = 0 => Steady

LEMMA WayFacts ==
  ASSUME BaseInv
  PROVE  /\ inbox \in Seq({"echo", "request"}) /\ uplink \in Seq(Uplink)
         /\ wire \in Seq(Commands) /\ payload \in Commands
         /\ Asking(inbox) \in Nat /\ Len(wire) \in Nat
         /\ CountIn(uplink, Replies) \in Nat
         /\ Asking(inbox) = 0 <=> "request" \notin Range(inbox)
         /\ Len(wire) = 0 <=> Range(wire) = {}
         /\ CountIn(uplink, Replies) = 0 <=> Range(uplink) \cap Replies = {}
         /\ Range(uplink) \subseteq Uplink
<1>1. /\ inbox \in Seq({"echo", "request"}) /\ uplink \in Seq(Uplink)
      /\ wire \in Seq(Commands) /\ payload \in Commands
  BY DEF BaseInv, HubTypeOK
<1>2. Asking(inbox) \in Nat /\ CountIn(uplink, Replies) \in Nat
  BY <1>1, CountInType DEF Asking
<1>3. Asking(inbox) = 0 <=> "request" \notin Range(inbox)
  <2>1. Asking(inbox) = 0 <=> Range(inbox) \cap {"request"} = {}
    BY <1>1, CountInRange DEF Asking
  <2> QED
    BY <2>1
<1>4. CountIn(uplink, Replies) = 0 <=> Range(uplink) \cap Replies = {}
  BY <1>1, CountInRange
<1>5. Len(wire) \in Nat /\ (Len(wire) = 0 <=> Range(wire) = {})
  <2>1. Len(wire) \in Nat /\ DOMAIN wire = 1 .. Len(wire)
    BY <1>1, LenProperties
  <2>2. Range(wire) = {} <=> DOMAIN wire = {}
    BY DEF Range
  <2>3. \A n \in Nat : n = 0 <=> 1 .. n = {}
    OBVIOUS
  <2> QED
    BY <2>1, <2>2, <2>3
<1>6. Range(uplink) \subseteq Uplink
  BY <1>1, RangeOfSeq
<1> QED
  BY <1>1, <1>2, <1>3, <1>4, <1>5, <1>6

LEMMA MessageKinds ==
  /\ EchoMessage \in Uplink \ Replies /\ DisconnectedMessage \in Uplink \ Replies
  /\ EchoMessage # DisconnectedMessage
  /\ \A c \in Commands : /\ ReplyMessage(c) \in Replies
                         /\ ReplyMessage(c) # DisconnectedMessage
                         /\ ReplyMessage(c).command = c
  /\ \A t \in Topics : /\ PublishedMessage(t) \in Uplink \ Replies
                       /\ PublishedMessage(t) # DisconnectedMessage
BY DEF EchoMessage, DisconnectedMessage, ReplyMessage, PublishedMessage, Uplink,
       Replies

\* A name that is being answered is waited for.
LEMMA CurrentHasContext ==
  ASSUME BaseInv, NEW t \in Topics, request.current.topic = t
  PROVE  request.contexts[t] > 0
<1>1. /\ request.contexts[t] = CountIn(request.pending, About(t)) + 1
      /\ request.pending \in Seq(Commands)
  BY DEF BaseInv, Main, Good, Tracked, Requests
<1>2. CountIn(request.pending, About(t)) \in Nat
  BY <1>1, CountInType
<1> QED
  BY <1>1, <1>2

\* A message that is taken from the queue of the main thread.
LEMMA TakenMessage ==
  ASSUME BaseInv, NEW m, Received(m)
  PROVE  /\ m \in Range(uplink) /\ Range(uplink') \subseteq Range(uplink)
         /\ CountIn(uplink, Replies)
              = CountIn(uplink', Replies) + (IF m \in Replies THEN 1 ELSE 0)
         /\ CountIn(uplink', Replies) \in Nat
         /\ CountIn(uplink', Replies) = 0 => Range(uplink') \cap Replies = {}
         /\ UNCHANGED <<running, connection, wire, server, losses>>
<1>1. /\ uplink \in Seq(Uplink) /\ uplink # <<>> /\ Head(uplink) = m
      /\ uplink' = Tail(uplink) /\ uplink' \in Seq(Uplink)
      /\ UNCHANGED <<running, connection, wire, server, losses>>
  BY ReceivedFacts
<1>2. m \in Range(uplink) /\ Range(uplink') \subseteq Range(uplink)
  BY <1>1, RangeOfTail
<1>3. CountIn(uplink, Replies)
        = CountIn(uplink', Replies) + (IF m \in Replies THEN 1 ELSE 0)
  BY <1>1, CountInTail
<1>4. /\ CountIn(uplink', Replies) \in Nat
      /\ CountIn(uplink', Replies) = 0 => Range(uplink') \cap Replies = {}
  BY <1>1, CountInType, CountInRange
<1> QED
  BY <1>1, <1>2, <1>3, <1>4

\* Calls of clients and commits only add commands that wait and echoes.
LEMMA SteadyCalling ==
  ASSUME BaseInv, Steady, Calling(request, request'), \E n \in Nat : Commit(n),
         \/ UNCHANGED uplink
         \/ \E m : Received(m) /\ m \notin Replies,
         UNCHANGED <<payload, connection, wire, server, timers>>
  PROVE  Steady'
<1>1. /\ inbox \in Seq({"echo", "request"}) /\ Asking(inbox) \in Nat
      /\ Len(wire) \in Nat /\ CountIn(uplink, Replies) \in Nat
  BY WayFacts
<1>2. /\ Asking(inbox') = Asking(inbox)
      /\ "request" \in Range(inbox') => "request" \in Range(inbox)
  BY <1>1, CommitFacts DEF Range
<1>3. /\ CountIn(uplink', Replies) = CountIn(uplink, Replies)
      /\ Range(uplink') \subseteq Range(uplink)
  <2>1. CASE UNCHANGED uplink
    BY <2>1
  <2>2. CASE \E m : Received(m) /\ m \notin Replies
    <3>1. PICK m : Received(m) /\ m \notin Replies
      BY <2>2
    <3>2. /\ Range(uplink') \subseteq Range(uplink)
          /\ CountIn(uplink, Replies)
               = CountIn(uplink', Replies) + (IF m \in Replies THEN 1 ELSE 0)
          /\ CountIn(uplink', Replies) \in Nat
      BY <3>1, TakenMessage
    <3> QED
      BY <3>1, <3>2
  <2> QED
    BY <2>1, <2>2
<1>4. /\ request'.current = request.current /\ request'.armed = request.armed
      /\ NoPings(request')
      /\ \A t \in Topics : request'.contexts[t] = 0 =>
           /\ request.contexts[t] = 0 /\ request'.status[t] = request.status[t]
  BY DEF Steady, Calling
<1>5. OneCommand'
  BY <1>2, <1>3, <1>4 DEF Steady, OneCommand, Way, Asking
<1>6. OnlyCurrent'
  BY <1>2, <1>3, <1>4 DEF Steady, OnlyCurrent
<1>7. ArmedWhileWaiting'
  BY <1>4 DEF Steady, ArmedWhileWaiting
<1>8. StatusKnown'
  BY <1>4 DEF Steady, StatusKnown
<1> QED
  BY <1>4, <1>5, <1>6, <1>7, <1>8 DEF Steady

\* Step sends a command when nothing is under way.
LEMMA SteadyStep ==
  ASSUME BaseInv, Steady, Step
  PROVE  Steady'
<1>0. /\ inbox \in Seq({"echo", "request"})
      /\ Asking(inbox) \in Nat /\ Len(wire) \in Nat
      /\ CountIn(uplink, Replies) \in Nat
      /\ Asking(inbox) = 0 <=> "request" \notin Range(inbox)
      /\ Len(wire) = 0 <=> Range(wire) = {}
      /\ CountIn(uplink, Replies) = 0 <=> Range(uplink) \cap Replies = {}
  BY WayFacts
<1>1. Received(EchoMessage) /\ UNCHANGED <<manager, timers, dead>>
  BY DEF Step
<1>2. /\ Range(uplink') \subseteq Range(uplink)
      /\ CountIn(uplink', Replies) = CountIn(uplink, Replies)
      /\ UNCHANGED <<running, connection, wire, server, losses>>
  <2>1. /\ Range(uplink') \subseteq Range(uplink)
        /\ CountIn(uplink, Replies) = CountIn(uplink', Replies)
             + (IF EchoMessage \in Replies THEN 1 ELSE 0)
        /\ CountIn(uplink', Replies) \in Nat
        /\ UNCHANGED <<running, connection, wire, server, losses>>
    BY <1>1, TakenMessage
  <2> QED
    BY <2>1, MessageKinds
<1>3. CASE IsReady(request)
  <2>1. /\ request' = Taken(request) /\ payload' = Head(request.pending)
        /\ inbox' = Append(inbox, "request")
    BY <1>3 DEF Step
  <2>2. /\ request'.current \in Commands /\ request'.current = payload'
        /\ request'.armed <=> request'.current.op = "SUBSCRIBE"
                                /\ request'.current.topic \in Channels
        /\ request'.contexts = request.contexts /\ request'.status = request.status
        /\ NoPings(request')
    BY <1>3, <2>1, TakenFacts DEF Steady, BaseInv, Main
  <2>3. /\ Asking(inbox) = 0 /\ connection # "connecting" /\ Len(wire) = 0
        /\ CountIn(uplink, Replies) = 0
    BY <1>0, <1>3 DEF Steady, OneCommand, Way, IsReady, Asking
  <2>4. Asking(inbox') = 1
    <3>1. Asking(inbox') = Asking(inbox) + 1
      BY <1>0, <2>1, CountInAppend DEF Asking
    <3> QED
      BY <2>3, <3>1
  <2>5. OneCommand'
    BY <1>2, <2>2, <2>3, <2>4, CommandFacts DEF OneCommand, Way, Asking
  <2>6. OnlyCurrent'
    BY <1>0, <1>2, <2>2, <2>3 DEF Steady, OnlyCurrent
  <2>7. ArmedWhileWaiting'
    BY <2>2 DEF ArmedWhileWaiting
  <2>8. StatusKnown'
    BY <1>2, <2>2 DEF Steady, StatusKnown
  <2> QED
    BY <1>1, <2>2, <2>5, <2>6, <2>7, <2>8 DEF Steady
<1>4. CASE ~ IsReady(request)
  <2>1. UNCHANGED <<request, payload, inbox>>
    BY <1>4 DEF Step
  <2> QED
    BY <1>1, <1>2, <2>1
       DEF Steady, OneCommand, Way, OnlyCurrent, ArmedWhileWaiting, StatusKnown
<1> QED
  BY <1>3, <1>4

\* A reply is the answer to the current command, and the last thing under way.
LEMMA SteadyReply ==
  ASSUME BaseInv, Steady, NEW c \in Commands, PublishReply(c)
  PROVE  /\ Steady' /\ IsExpected(request, c) /\ c = request.current
         /\ c.topic \in server <=> c.op = "SUBSCRIBE"
<1>0. /\ inbox \in Seq({"echo", "request"})
      /\ Asking(inbox) \in Nat /\ Len(wire) \in Nat
      /\ CountIn(uplink, Replies) \in Nat
      /\ Asking(inbox) = 0 <=> "request" \notin Range(inbox)
      /\ Len(wire) = 0 <=> Range(wire) = {}
  BY WayFacts
<1>1. Received(ReplyMessage(c)) /\ c.op # "PING" /\ c.topic \in Topics
      /\ c \in Commands /\ c # NoCommand
  BY CommandFacts DEF PublishReply, Ping
<1>2. /\ ReplyMessage(c) \in Range(uplink) /\ Range(uplink') \subseteq Range(uplink)
      /\ CountIn(uplink, Replies) = CountIn(uplink', Replies) + 1
      /\ CountIn(uplink', Replies) \in Nat
      /\ CountIn(uplink', Replies) = 0 => Range(uplink') \cap Replies = {}
      /\ UNCHANGED <<running, connection, wire, server, losses>>
  <2>1. /\ ReplyMessage(c) \in Range(uplink) /\ Range(uplink') \subseteq Range(uplink)
        /\ CountIn(uplink, Replies) = CountIn(uplink', Replies)
             + (IF ReplyMessage(c) \in Replies THEN 1 ELSE 0)
        /\ CountIn(uplink', Replies) \in Nat
        /\ CountIn(uplink', Replies) = 0 => Range(uplink') \cap Replies = {}
        /\ UNCHANGED <<running, connection, wire, server, losses>>
    BY <1>1, TakenMessage
  <2> QED
    BY <2>1, MessageKinds
<1>3. c = request.current /\ (c.topic \in server <=> c.op = "SUBSCRIBE")
  BY <1>2, MessageKinds DEF Steady, OnlyCurrent
<1>4. request.contexts[c.topic] > 0
  BY <1>1, <1>3, CurrentHasContext
<1>5. IsExpected(request, c)
  BY <1>1, <1>3, <1>4 DEF IsExpected
<1>6. PublishEnds(Answer(request, c), 0)
  BY <1>5 DEF PublishReply
<1>7. /\ request' = Answer(request, c) /\ UNCHANGED <<payload, timers, dead>>
      /\ \E k \in Nat : Commit(k)
  BY <1>6, PublishEndsFacts
<1>8. /\ request'.current = NoCommand /\ ~ request'.armed /\ NoPings(request')
      /\ \A t \in Topics :
           request'.contexts[t] = request.contexts[t] - (IF t = c.topic THEN 1 ELSE 0)
      /\ IF c.op = "SUBSCRIBE" THEN request'.status[c.topic] = "Subscribed"
         ELSE request'.status[c.topic] \in {"Unsubscribed", "NotSet"}
      /\ \A t \in Topics \ {c.topic} :
           \/ request'.status[t] = request.status[t]
           \/ request.status[t] = "Unsubscribed" /\ request'.status[t] = "NotSet"
  BY <1>5, <1>7, AnswerFacts DEF Steady, BaseInv, Main
<1>9. /\ Asking(inbox) = 0 /\ connection # "connecting" /\ Len(wire) = 0
      /\ CountIn(uplink', Replies) = 0
  <2>1. Asking(inbox) + (IF connection = "connecting" THEN 1 ELSE 0) + Len(wire)
          + CountIn(uplink, Replies) = 1
    BY <1>1, <1>3 DEF Steady, OneCommand, Way, Asking
  <2> QED
    BY <1>0, <1>2, <2>1
<1>10. Asking(inbox') = 0 /\ "request" \notin Range(inbox')
  <2>1. /\ Asking(inbox') = Asking(inbox)
        /\ "request" \in Range(inbox') => "request" \in Range(inbox)
    BY <1>0, <1>7, CommitFacts DEF Range
  <2> QED
    BY <1>0, <1>9, <2>1
<1>11. OneCommand'
  BY <1>2, <1>8, <1>9, <1>10 DEF OneCommand, Way, Asking
<1>12. OnlyCurrent'
  BY <1>0, <1>2, <1>9, <1>10 DEF Steady, OnlyCurrent
<1>13. ArmedWhileWaiting'
  BY <1>8 DEF ArmedWhileWaiting, NoCommand
<1>14. StatusKnown'
  <2>1. ASSUME NEW t \in Topics, request'.contexts[t] = 0
        PROVE  /\ request'.status[t] \in {"NotSet", "Subscribed", "Unsubscribed"}
               /\ request'.status[t] = "Subscribed" <=> t \in server
    <3>1. CASE t = c.topic
      BY <1>3, <1>8, <3>1
    <3>2. CASE t # c.topic
      <4>1. request.contexts[t] = 0
        <5>1. request.contexts[t] \in Nat
          BY DEF BaseInv, Main, Good, Requests
        <5> QED
          BY <1>8, <2>1, <3>2, <5>1
      <4>2. /\ request.status[t] \in {"NotSet", "Subscribed", "Unsubscribed"}
            /\ request.status[t] = "Subscribed" <=> t \in server
        BY <4>1 DEF Steady, StatusKnown
      <4> QED
        BY <1>8, <3>2, <4>2
    <3> QED
      BY <3>1, <3>2
  <2> QED
    BY <1>2, <2>1 DEF StatusKnown
<1> QED
  BY <1>3, <1>5, <1>7, <1>8, <1>11, <1>12, <1>13, <1>14 DEF Steady

\* The hub and the server pass the one command on.
LEMMA SteadyHub ==
  ASSUME BaseInv, Steady, HubStep(HubNext), losses' = 0
  PROVE  Steady'
<1>0. /\ inbox \in Seq({"echo", "request"}) /\ uplink \in Seq(Uplink)
      /\ wire \in Seq(Commands) /\ payload \in Commands
      /\ Asking(inbox) \in Nat /\ Len(wire) \in Nat
      /\ CountIn(uplink, Replies) \in Nat
      /\ Asking(inbox) = 0 <=> "request" \notin Range(inbox)
      /\ CountIn(uplink, Replies) = 0 <=> Range(uplink) \cap Replies = {}
  BY WayFacts
<1>1. UNCHANGED mainVars /\ HubNext
  BY DEF HubStep
<1>2. NoPings(request') /\ timers' = 0 /\ ArmedWhileWaiting'
  BY <1>1 DEF Steady, mainVars, ArmedWhileWaiting
<1>3. ASSUME OneCommand', OnlyCurrent', StatusKnown' PROVE Steady'
  BY <1>2, <1>3 DEF Steady
<1>4. \A m \in Uplink :
        /\ Range(Append(uplink, m)) = Range(uplink) \cup {m}
        /\ CountIn(Append(uplink, m), Replies)
             = CountIn(uplink, Replies) + (IF m \in Replies THEN 1 ELSE 0)
  BY <1>0, RangeOfAppend, CountInAppend
<1>5. /\ Len(Append(wire, payload)) = Len(wire) + 1
      /\ Range(Append(wire, payload)) = Range(wire) \cup {payload}
  BY <1>0, RangeOfAppend, AppendProperties
<1>6. inbox # <<>> =>
        /\ Range(Tail(inbox)) \subseteq Range(inbox) /\ Head(inbox) \in Range(inbox)
        /\ Asking(inbox) = Asking(Tail(inbox))
                             + (IF Head(inbox) = "request" THEN 1 ELSE 0)
        /\ Asking(Tail(inbox)) \in Nat
  <2>1. ASSUME inbox # <<>>
        PROVE  /\ Range(Tail(inbox)) \subseteq Range(inbox) /\ Head(inbox) \in Range(inbox)
               /\ Tail(inbox) \in Seq({"echo", "request"})
    BY <1>0, <2>1, RangeOfTail, HeadTailProperties
  <2>2. ASSUME inbox # <<>>
        PROVE  Asking(inbox) = Asking(Tail(inbox))
                 + (IF Head(inbox) \in {"request"} THEN 1 ELSE 0)
    BY <1>0, <2>2, CountInTail DEF Asking
  <2>3. inbox # <<>> => Asking(Tail(inbox)) \in Nat
    BY <2>1, CountInType DEF Asking
  <2> QED
    BY <2>1, <2>2, <2>3
<1>7. ASSUME Echo PROVE Steady'
  <2>1. /\ inbox # <<>> /\ Head(inbox) = "echo" /\ inbox' = Tail(inbox)
        /\ uplink' = Append(uplink, EchoMessage)
        /\ UNCHANGED <<payload, connection, wire, server>>
    BY <1>7 DEF Echo
  <2>2. /\ Range(inbox') \subseteq Range(inbox) /\ Asking(inbox') = Asking(inbox)
    BY <1>6, <2>1
  <2>3. /\ Range(uplink') = Range(uplink) \cup {EchoMessage}
        /\ CountIn(uplink', Replies) = CountIn(uplink, Replies)
        /\ EchoMessage \notin Replies /\ EchoMessage # DisconnectedMessage
    BY <1>0, <1>4, <2>1, MessageKinds
  <2>4. OneCommand'
    BY <1>1, <2>1, <2>2, <2>3 DEF Steady, OneCommand, Way, Asking, mainVars
  <2>5. OnlyCurrent'
    BY <1>1, <2>1, <2>2, <2>3 DEF Steady, OnlyCurrent, mainVars
  <2>6. StatusKnown'
    BY <1>1, <2>1 DEF Steady, StatusKnown, mainVars
  <2> QED
    BY <1>3, <2>4, <2>5, <2>6
<1>8. ASSUME Push PROVE Steady'
  <2>1. /\ inbox # <<>> /\ Head(inbox) = "request" /\ inbox' = Tail(inbox)
        /\ UNCHANGED <<uplink, payload, server>>
        /\ \/ connection = "down" /\ connection' = "connecting" /\ wire' = wire
           \/ /\ connection # "down" /\ connection' = connection
              /\ wire' = Append(wire, payload)
    BY <1>8 DEF Push
  <2>2. /\ Range(inbox') \subseteq Range(inbox) /\ Asking(inbox) = Asking(inbox') + 1
        /\ Asking(inbox') \in Nat /\ "request" \in Range(inbox)
    BY <1>6, <2>1
  <2>3. payload = request.current
    BY <2>2 DEF Steady, OnlyCurrent
  <2>4. OneCommand'
    BY <1>0, <1>1, <1>5, <2>1, <2>2 DEF Steady, OneCommand, Way, Asking, mainVars
  <2>5. OnlyCurrent'
    BY <1>1, <1>5, <2>1, <2>2, <2>3 DEF Steady, OnlyCurrent, mainVars
  <2>6. StatusKnown'
    BY <1>1, <2>1 DEF Steady, StatusKnown, mainVars
  <2> QED
    BY <1>3, <2>4, <2>5, <2>6
<1>9. ASSUME Connected PROVE Steady'
  <2>1. /\ connection = "connecting" /\ connection' = "up"
        /\ wire' = Append(wire, payload)
        /\ UNCHANGED <<inbox, uplink, payload, server>>
    BY <1>9 DEF Connected
  <2>2. payload = request.current
    BY <2>1 DEF Steady, OnlyCurrent
  <2>3. OneCommand'
    BY <1>0, <1>1, <1>5, <2>1 DEF Steady, OneCommand, Way, Asking, mainVars
  <2>4. OnlyCurrent'
    BY <1>1, <1>5, <2>1, <2>2 DEF Steady, OnlyCurrent, mainVars
  <2>5. StatusKnown'
    BY <1>1, <2>1 DEF Steady, StatusKnown, mainVars
  <2> QED
    BY <1>3, <2>3, <2>4, <2>5
<1>10. ASSUME Lost PROVE FALSE
  BY <1>10 DEF Lost, BaseInv, HubTypeOK
<1>11. ASSUME Answered PROVE Steady'
  <2> DEFINE c == Head(wire)
  <2>1. /\ connection = "up" /\ wire # <<>> /\ wire' = Tail(wire)
        /\ server' = CASE c.op = "SUBSCRIBE" -> server \cup {c.topic}
                       [] c.op = "UNSUBSCRIBE" -> server \ {c.topic}
                       [] OTHER -> server
        /\ uplink' = IF running THEN Append(uplink, ReplyMessage(c)) ELSE uplink
        /\ UNCHANGED <<inbox, payload, connection>>
    BY <1>11 DEF Answered
  <2>2. c \in Commands /\ c \in Range(wire) /\ Range(wire') \subseteq Range(wire)
        /\ Len(wire') = Len(wire) - 1
    BY <1>0, <2>1, HeadTailProperties, RangeOfTail
  <2>3. c = request.current /\ c # Ping
    BY <2>2 DEF Steady, OnlyCurrent, NoPings
  <2>4. c.op \in {"SUBSCRIBE", "UNSUBSCRIBE"} /\ c.topic \in Topics /\ c # NoCommand
    BY <2>2, <2>3, CommandFacts
  <2>5. running
    BY <2>1 DEF BaseInv, RunningMatches
  <2> HIDE DEF c
  <2>6. /\ c.topic \in server' <=> c.op = "SUBSCRIBE"
        /\ \A t \in Topics \ {c.topic} : t \in server' <=> t \in server
    BY <2>1, <2>4
  <2>7. /\ ReplyMessage(c) \in Replies /\ ReplyMessage(c) # DisconnectedMessage
        /\ ReplyMessage(c).command = c /\ ReplyMessage(c) \in Uplink
    BY <2>2, MessageKinds DEF Replies
  <2>8. /\ Range(uplink') = Range(uplink) \cup {ReplyMessage(c)}
        /\ CountIn(uplink', Replies) = CountIn(uplink, Replies) + 1
    BY <1>4, <2>1, <2>5, <2>7
  <2>9. Asking(inbox) + (IF connection = "connecting" THEN 1 ELSE 0) + Len(wire)
          + CountIn(uplink, Replies) = 1
    BY <2>3, <2>4 DEF Steady, OneCommand, Way, Asking
  <2>10. Range(uplink) \cap Replies = {}
    <3>1. Len(wire) > 0
      BY <1>0, <2>1, EmptySeq
    <3> QED
      BY <1>0, <2>9, <3>1
  <2>11. OneCommand'
    BY <1>0, <1>1, <2>1, <2>2, <2>8 DEF Steady, OneCommand, Way, Asking, mainVars
  <2>12. OnlyCurrent'
    BY <1>1, <2>1, <2>2, <2>3, <2>6, <2>7, <2>8, <2>10
       DEF Steady, OnlyCurrent, mainVars
  <2>13. StatusKnown'
    <3>1. request.contexts[c.topic] > 0
      BY <2>3, <2>4, CurrentHasContext
    <3> QED
      BY <1>1, <2>6, <3>1 DEF Steady, StatusKnown, mainVars
  <2> QED
    BY <1>3, <2>11, <2>12, <2>13
<1>12. ASSUME NEW t \in Topics, Published(t) PROVE Steady'
  <2>1. /\ uplink' = Append(uplink, PublishedMessage(t))
        /\ UNCHANGED <<inbox, payload, connection, wire, server>>
    BY <1>12 DEF Published
  <2>2. /\ Range(uplink') = Range(uplink) \cup {PublishedMessage(t)}
        /\ CountIn(uplink', Replies) = CountIn(uplink, Replies)
        /\ PublishedMessage(t) \notin Replies
        /\ PublishedMessage(t) # DisconnectedMessage
    BY <1>0, <1>4, <2>1, MessageKinds
  <2>3. OneCommand'
    BY <1>1, <2>1, <2>2 DEF Steady, OneCommand, Way, mainVars
  <2>4. OnlyCurrent'
    BY <1>1, <2>1, <2>2 DEF Steady, OnlyCurrent, mainVars
  <2>5. StatusKnown'
    BY <1>1, <2>1 DEF Steady, StatusKnown, mainVars
  <2> QED
    BY <1>3, <2>3, <2>4, <2>5
<1> QED
  BY <1>1, <1>7, <1>8, <1>9, <1>10, <1>11, <1>12 DEF HubNext, HubProgress

\* Nothing else happens to a connection that holds.
LEMMA NoDisconnection ==
  ASSUME BaseInv, Steady
  PROVE  ~ Disconnected /\ ~ PublishPong /\ ~ TimerNext
<1>1. ASSUME Disconnected PROVE FALSE
  <2>1. DisconnectedMessage \in Range(uplink)
    BY <1>1, TakenMessage DEF Disconnected
  <2> QED
    BY <2>1 DEF Steady, OnlyCurrent
<1>2. ASSUME PublishPong PROVE FALSE
  <2>1. ReplyMessage(Ping) \in Range(uplink)
    BY <1>2, TakenMessage DEF PublishPong
  <2>2. Ping = request.current
    BY <2>1, MessageKinds, CommandFacts DEF Steady, OnlyCurrent
  <2> QED
    BY <2>2 DEF Steady, NoPings
<1>3. ASSUME TimerNext PROVE FALSE
  BY <1>3 DEF TimerNext, GiveUp, SendPing, PingRefused, TimerFires, Steady
<1> QED
  BY <1>1, <1>2, <1>3

LEMMA UnbrokenStep == BaseInv /\ Unbroken /\ [Next]_vars => Unbroken'
<1> SUFFICES ASSUME BaseInv, Unbroken, [Next]_vars, losses' = 0 PROVE Steady'
  BY DEF Unbroken
<1>1. CASE ClientNext
  <2>1. Called
    BY <1>1, CallFacts
  <2>2. Steady
    BY <2>1 DEF Called, Unbroken
  <2> QED
    BY <2>1, <2>2, SteadyCalling DEF Called
<1>2. CASE MessageNext
  <2>1. Steady
    BY <1>2 DEF MessageNext, Step, PublishPong, Disconnected, PublishReply,
                PublishMessage, Received, Unbroken
  <2>2. ASSUME NEW t \in Topics, PublishMessage(t) PROVE Steady'
    <3>1. /\ Received(PublishedMessage(t)) /\ PublishEnds(request, 0)
          /\ PublishedMessage(t) \notin Replies
      BY <2>2, MessageKinds DEF PublishMessage
    <3>2. /\ request' = request /\ UNCHANGED <<payload, timers, dead>>
          /\ \E k \in Nat : Commit(k)
      BY <3>1, PublishEndsFacts
    <3>3. UNCHANGED <<connection, wire, server>>
      BY <3>1 DEF Received
    <3>4. Calling(request, request')
      BY <3>2, CallingSame DEF BaseInv, Main
    <3> QED
      BY <2>1, <3>1, <3>2, <3>3, <3>4, SteadyCalling
  <2> QED
    BY <1>2, <2>1, <2>2, SteadyStep, SteadyReply, NoDisconnection DEF MessageNext
<1>3. CASE TimerNext
  <2>1. losses = 0
    BY <1>3 DEF TimerNext, GiveUp, SendPing, PingRefused, TimerFires
  <2> QED
    BY <1>3, <2>1, NoDisconnection DEF Unbroken
<1>4. CASE HubStep(HubNext)
  <2>1. losses = 0
    BY <1>4 DEF HubStep, HubNext, HubProgress, Echo, Push, Connected, Lost,
                Answered, Published, BaseInv, HubTypeOK
  <2> QED
    BY <1>4, <2>1, SteadyHub DEF Unbroken
<1>5. CASE UNCHANGED vars
  BY <1>5 DEF vars, hubVars, mainVars, Unbroken, Steady, OneCommand, Way,
              OnlyCurrent, ArmedWhileWaiting, StatusKnown
<1> QED
  BY <1>1, <1>2, <1>3, <1>4, <1>5 DEF Next

LEMMA UnbrokenInit == Init => Unbroken
<1> SUFFICES ASSUME Init PROVE Steady
  BY DEF Unbroken
<1>1. /\ BaseInv /\ Calling(Fresh, request)
      /\ Asking(inbox) = 0 /\ \A i \in DOMAIN inbox : inbox[i] # "request"
  BY InitFacts
<1>2. /\ uplink = <<>> /\ wire = <<>> /\ connection = "down" /\ server = {}
      /\ timers = 0
  BY DEF Init, HubInit
<1>3. /\ CountIn(uplink, Replies) = 0 /\ Range(uplink) = {} /\ Range(wire) = {}
      /\ Len(wire) = 0
  <2>1. uplink = <<>> => CountIn(uplink, Replies) = 0
    BY CountInEmpty
  <2> QED
    BY <1>2, <2>1 DEF Range
<1>4. /\ Fresh.current = NoCommand /\ ~ Fresh.armed
      /\ \A t \in Topics : Fresh.status[t] = "NotSet"
  BY DEF Fresh
<1>5. request.current = NoCommand /\ ~ request.armed /\ NoPings(request)
  BY <1>1, <1>4, FreshFacts DEF Calling
<1>6. OneCommand
  BY <1>1, <1>2, <1>3, <1>5 DEF OneCommand, Way, Asking
<1>7. OnlyCurrent
  BY <1>1, <1>2, <1>3 DEF OnlyCurrent, Range
<1>8. ArmedWhileWaiting
  BY <1>5 DEF ArmedWhileWaiting, NoCommand
<1>9. StatusKnown
  BY <1>1, <1>2, <1>4 DEF StatusKnown, Calling
<1> QED
  BY <1>2, <1>5, <1>6, <1>7, <1>8, <1>9 DEF Steady

LEMMA UnbrokenHolds == Spec => [](BaseInv /\ Unbroken)
<1>1. Init => BaseInv /\ Unbroken
  BY InitFacts, UnbrokenInit
<1>2. BaseInv /\ Unbroken /\ [Next]_vars => (BaseInv /\ Unbroken)'
  BY BaseStep, UnbrokenStep
<1> QED
  BY <1>1, <1>2, PTL DEF Spec

\* Nothing waits: no name has a context.
LEMMA QuietFacts ==
  ASSUME BaseInv, Quiet
  PROVE  \A t \in Topics : request.contexts[t] = 0
<1> SUFFICES ASSUME NEW t \in Topics PROVE request.contexts[t] = 0
  OBVIOUS
<1>1. request.pending = <<>> /\ request.current = NoCommand /\ Tracked(request, t)
  BY DEF Quiet, BaseInv, Main, Good
<1>2. CountIn(<<>>, About(t)) = 0
  BY CountInEmpty
<1> QED
  BY <1>1, <1>2, CommandFacts DEF Tracked

\* While the connection holds, a command that was taken is in one place until
\* its reply is published, and there is no other.
THEOREM OneCommandUnderWay == Spec => [](losses = 0 => OneUnderWay)
<1>1. BaseInv /\ Unbroken => (losses = 0 => OneUnderWay)
  <2> SUFFICES ASSUME BaseInv, Steady PROVE OneUnderWay
    BY DEF Unbroken
  <2>1. inbox \in Seq({"echo", "request"}) /\ uplink \in Seq(Uplink)
    BY WayFacts
  <2>2. {i \in DOMAIN inbox : inbox[i] = "request"}
          = {i \in DOMAIN inbox : inbox[i] \in {"request"}}
    OBVIOUS
  <2>3. {i \in DOMAIN uplink : uplink[i].kind = "reply"}
          = {i \in DOMAIN uplink : uplink[i] \in Replies}
    BY <2>1 DEF Replies
  <2> QED
    BY <2>2, <2>3 DEF Steady, OneCommand, OneUnderWay, UnderWay, Way, CountIn
<1> QED
  BY <1>1, UnbrokenHolds, PTL

\* While the connection holds, the timeout runs exactly as long as the reply to
\* a SUBSCRIBE is awaited.
THEOREM TimeoutMatches == Spec => [](losses = 0 => ArmedWhileWaiting)
<1>1. BaseInv /\ Unbroken => (losses = 0 => ArmedWhileWaiting)
  BY DEF Unbroken, Steady
<1> QED
  BY <1>1, UnbrokenHolds, PTL

\* While the connection holds, the status maps are right about the server
\* whenever all commands are answered, whatever the clients called meanwhile.
THEOREM StatusIsRight == Spec => [](losses = 0 => StatusAgrees)
<1>1. BaseInv /\ Unbroken => (losses = 0 => StatusAgrees)
  <2> SUFFICES ASSUME BaseInv, Steady, Quiet, NEW t \in Topics
               PROVE  /\ request.status[t] \notin {"Subscribing", "Unsubscribing"}
                      /\ request.status[t] = "Subscribed" <=> t \in server
    BY DEF Unbroken, StatusAgrees
  <2>1. request.contexts[t] = 0
    BY QuietFacts
  <2> QED
    BY <2>1 DEF Steady, StatusKnown
<1> QED
  BY <1>1, UnbrokenHolds, PTL

-----------------------------------------------------------------------------
(* What the links of the manager promise.                                  *)

Unsubscribing(t) == [op |-> "UNSUBSCRIBE", topic |-> t]

\* The name is subscribed, or will be, and no command will end that.
Protected(q, t) ==
  /\ IsSubscribedOrPending(q, t) /\ q.current # Unsubscribing(t)
  /\ CountIn(q.pending, {Unsubscribing(t)}) = 0

\* What Startup subscribed stays, if clients unsubscribe only what they are
\* linked to: its entry with nullptr is never the last one to go.
DefaultsKept ==
  "foreign" \notin Calls =>
    \A t \in Defaults : Linked(manager, Nobody, t) /\ Protected(request, t)

\* A name that has clients is subscribed or waits for a command.
Served ==
  \A t \in Topics : manager.links[t] # <<>> /\ request.contexts[t] = 0 =>
    request.status[t] = "Subscribed"

Promised == losses = 0 => DefaultsKept /\ Served

\* Clients that subscribe without names are linked to the names of Startup,
\* whether these are still subscribed or not.
DefaultsAreSafe == Defaults = {} \/ "defaults" \notin Calls \/ "foreign" \notin Calls

\* No name has more clients than Notify unlinks.
FewClients == \A t \in Topics : Len(manager.links[t]) <= 2

LEMMA EndingBuild ==
  ASSUME NEW q, Good(q), NEW op \in {"SUBSCRIBE", "UNSUBSCRIBE"},
         NEW names \in SUBSET Topics, NEW t \in Topics,
         op = "SUBSCRIBE" \/ t \notin names
  PROVE  CountIn(Build(q, op, names).pending, {Unsubscribing(t)})
           = CountIn(q.pending, {Unsubscribing(t)})
<1> DEFINE S == {[op |-> op, topic |-> n] : n \in names}
           s == SetToSeq(S)
           r == Build(q, op, names)
<1>1. q \in Requests /\ q.pending \in Seq(Commands)
  BY DEF Good, Requests
<1>2. r.pending = q.pending \o s
  BY <1>1 DEF Build, Requests
<1>3. s \in Seq(Commands)
  BY ListedCommands
<1>4. CountIn(s, {Unsubscribing(t)}) = 0
  <2>1. IsFiniteSet(names)
    BY KeepAliveAssumption, FS_Subset
  <2>2. IsFiniteSet(S)
    <3> DEFINE f == [n \in names |-> [op |-> op, topic |-> n]]
    <3>1. f \in [names -> S] /\ \A c \in S : \E n \in names : f[n] = c
      OBVIOUS
    <3>2. f \in Surjection(names, S)
      BY <3>1, Zenon DEF Surjection
    <3> QED
      BY <2>1, <3>2, FS_Surjection
  <2>3. S \cap {Unsubscribing(t)} = {}
    BY DEF Unsubscribing
  <2>4. CountIn(s, {Unsubscribing(t)}) = Cardinality(S \cap {Unsubscribing(t)})
    BY <2>2, CountInSetToSeq
  <2> QED
    BY <2>3, <2>4, FS_EmptySet
<1> HIDE DEF s, r
<1>5. CountIn(r.pending, {Unsubscribing(t)})
        = CountIn(q.pending, {Unsubscribing(t)}) + CountIn(s, {Unsubscribing(t)})
  BY <1>1, <1>2, <1>3, CountInConcat
<1>6. CountIn(q.pending, {Unsubscribing(t)}) \in Nat
  BY <1>1, CountInType
<1> QED
  BY <1>4, <1>5, <1>6 DEF r

LEMMA ProtectedBuild ==
  ASSUME NEW q, Good(q), NEW op \in {"SUBSCRIBE", "UNSUBSCRIBE"},
         NEW names \in SUBSET Topics, NEW t \in Topics, Protected(q, t),
         op = "SUBSCRIBE" \/ t \notin names
  PROVE  Protected(Build(q, op, names), t)
<1> DEFINE r == Build(q, op, names)
<1>1. q \in Requests /\ q.status \in [Topics -> Statuses]
  BY DEF Good, Requests
<1>2. r.current = q.current /\ \A n \in Topics \ names : r.status[n] = q.status[n]
  BY BuildFacts
<1>3. t \in names => r.status[t] = "Subscribing"
  BY <1>1 DEF Build, Requests
<1> HIDE DEF r
<1>4. IsSubscribedOrPending(r, t)
  BY <1>2, <1>3 DEF IsSubscribedOrPending, Protected
<1>5. CountIn(r.pending, {Unsubscribing(t)}) = 0
  BY EndingBuild DEF Protected, r
<1> QED
  BY <1>2, <1>4, <1>5 DEF Protected, r

\* A client and nullptr are two.
LEMMA NotTheLast ==
  ASSUME manager \in Managers, NEW t \in Topics, NEW client \in Clients,
         Linked(manager, Nobody, t), Linked(manager, client, t)
  PROVE  ~ Len(manager.links[t]) <= 1
<1>1. manager.links[t] \in Seq(Clients \cup {Nobody}) /\ client # Nobody
  BY SubscriptionsAssumption DEF Managers
<1>2. PICK i, j \in DOMAIN manager.links[t] :
        manager.links[t][i] = Nobody /\ manager.links[t][j] = client
  BY DEF Linked, Range
<1>3. /\ i \in 1 .. Len(manager.links[t]) /\ j \in 1 .. Len(manager.links[t])
      /\ i # j /\ Len(manager.links[t]) \in Nat
  BY <1>1, <1>2, LenProperties
<1> QED
  BY <1>3

\* The calls of clients keep what Startup subscribed.
LEMMA KeptCall ==
  ASSUME BaseInv, DefaultsKept, ClientNext
  PROVE  DefaultsKept'
<1> SUFFICES ASSUME "foreign" \notin Calls, NEW t \in Defaults
             PROVE  Linked(manager', Nobody, t) /\ Protected(request', t)
  BY DEF DefaultsKept
<1>0. /\ Good(request) /\ manager \in Managers /\ t \in Topics
      /\ manager.links \in [Topics -> Seq(Clients \cup {Nobody})]
      /\ Linked(manager, Nobody, t) /\ Protected(request, t)
      /\ Nobody \notin Clients
  BY SubscriptionsAssumption DEF BaseInv, Main, Managers, DefaultsKept
<1>1. ASSUME NEW client \in Clients, NEW names \in SUBSET Topics,
             manager' = Link(manager, client, names)
      PROVE  Linked(manager', Nobody, t)
  BY <1>0, <1>1, LinkFacts DEF Linked
<1>2. ASSUME NEW client \in Clients, NEW topic \in Topics,
             manager' = manager \/ manager' = Unlink(manager, client, topic)
      PROVE  Linked(manager', Nobody, t)
  BY <1>0, <1>2, UnlinkFacts DEF Linked
<1>3. ASSUME NEW client \in Clients, NEW topic \in Topics, Subscribe(client, topic)
      PROVE  Linked(manager', Nobody, t) /\ Protected(request', t)
  BY <1>0, <1>1, <1>3, ProtectedBuild DEF Subscribe
<1>4. ASSUME NEW client \in Clients, SubscribeDefaults(client)
      PROVE  Linked(manager', Nobody, t) /\ Protected(request', t)
  BY <1>0, <1>1, <1>4, SubscriptionsAssumption DEF SubscribeDefaults
<1>5. ASSUME NEW client \in Clients, NEW topic \in Topics, Unsubscribe(client, topic)
      PROVE  Linked(manager', Nobody, t) /\ Protected(request', t)
  <2>1. Linked(manager', Nobody, t)
    BY <1>2, <1>5 DEF Unsubscribe
  <2>2. CASE topic = t
    <3>1. /\ Linked(manager, client, t) /\ IsSubscribedOrPending(request, t)
          /\ ~ Len(manager.links[t]) <= 1
      <4>1. Linked(manager, client, t) /\ IsSubscribedOrPending(request, t)
        BY <1>0, <1>5, <2>2 DEF Unsubscribe, Protected
      <4> QED
        BY <1>0, <4>1, NotTheLast
    <3>2. UNCHANGED request
      BY <1>5, <2>2, <3>1 DEF Unsubscribe
    <3> QED
      BY <1>0, <2>1, <3>2
  <2>3. CASE topic # t
    <3>1. request' = request \/ request' = Build(request, "UNSUBSCRIBE", {topic})
      BY <1>5 DEF Unsubscribe
    <3>2. Protected(Build(request, "UNSUBSCRIBE", {topic}), t)
      BY <1>0, <2>3, ProtectedBuild
    <3> QED
      BY <1>0, <2>1, <3>1, <3>2
  <2> QED
    BY <2>2, <2>3
<1>6. ASSUME NEW client \in Clients, Leave(client)
      PROVE  Linked(manager', Nobody, t) /\ Protected(request', t)
  <2> DEFINE links == [n \in Topics |-> RemoveFirst(manager.links[n], client)]
             unused == {n \in manager.tracked : links[n] = <<>>}
             ended == {n \in unused : IsSubscribedOrPending(request, n)}
             first == Build(request, "UNSUBSCRIBE", ended \cap Channels)
  <2>1. /\ manager' = [manager EXCEPT !.links = links, !.tracked = @ \ unused]
        /\ request' = Build(first, "UNSUBSCRIBE", ended \cap Patterns)
    BY <1>6 DEF Leave
  <2>2. Nobody \in Range(links[t]) /\ links[t] # <<>>
    <3>1. Nobody \in Range(links[t])
      BY <1>0, RangeOfRemoveFirst DEF Linked
    <3> QED
      BY <3>1 DEF Range
  <2>3. manager'.links = links
    <3> HIDE DEF links, unused
    <3> QED
      BY <1>0, <2>1 DEF Managers
  <2>4. /\ t \notin ended /\ ended \cap Channels \in SUBSET Topics
        /\ ended \cap Patterns \in SUBSET Topics
    BY <2>2 DEF Topics
  <2> HIDE DEF links, unused, ended
  <2>5. Good(first) /\ Protected(first, t)
    BY <1>0, <2>4, BuildFacts, ProtectedBuild
  <2> HIDE DEF first
  <2>6. Protected(request', t)
    BY <1>0, <2>1, <2>4, <2>5, ProtectedBuild
  <2> QED
    BY <2>2, <2>3, <2>6 DEF Linked
<1> QED
  BY <1>3, <1>4, <1>5, <1>6 DEF ClientNext

\* A client is linked to what is subscribed, or asks for it.
LEMMA ServedCall ==
  ASSUME BaseInv, Steady, DefaultsKept, Served, DefaultsAreSafe, ClientNext
  PROVE  Served'
<1> SUFFICES ASSUME NEW t \in Topics, manager'.links[t] # <<>>, request'.contexts[t] = 0
             PROVE  request'.status[t] = "Subscribed"
  BY DEF Served
<1>0. /\ Good(request) /\ manager \in Managers
      /\ manager.links \in [Topics -> Seq(Clients \cup {Nobody})]
      /\ \A n \in Topics : request.contexts[n] \in Nat
  BY DEF BaseInv, Main, Managers, Good, Requests
<1>1. request.contexts[t] = 0 /\ request'.status[t] = request.status[t]
  BY CallFacts DEF Called, Calling
<1>2. IsSubscribedOrPending(request, t) => request.status[t] = "Subscribed"
  BY <1>1 DEF Steady, StatusKnown, IsSubscribedOrPending
<1>3. manager.links[t] # <<>> => request.status[t] = "Subscribed"
  BY <1>1 DEF Served
<1>4. ASSUME NEW client \in Clients, NEW topic \in Topics, Subscribe(client, topic)
      PROVE  request'.status[t] = "Subscribed"
  <2>1. CASE topic = t
    <3>1. CASE IsSubscribedOrPending(request, t)
      BY <1>1, <1>2, <3>1
    <3>2. CASE ~ IsSubscribedOrPending(request, t)
      <4>1. request' = Build(request, "SUBSCRIBE", {t})
        BY <1>4, <2>1, <3>2 DEF Subscribe
      <4>2. request'.contexts[t] = request.contexts[t] + 1
        BY <1>0, <4>1, BuildFacts
      <4> QED
        BY <1>1, <4>2
    <3> QED
      BY <3>1, <3>2
  <2>2. CASE topic # t
    <3>1. manager'.links[t] = manager.links[t]
      BY <1>0, <1>4, <2>2, LinkFacts DEF Subscribe
    <3> QED
      BY <1>1, <1>3, <3>1
  <2> QED
    BY <2>1, <2>2
<1>5. ASSUME NEW client \in Clients, SubscribeDefaults(client)
      PROVE  request'.status[t] = "Subscribed"
  <2>1. CASE t \in Defaults
    <3>1. "defaults" \in Calls
      BY <1>5 DEF SubscribeDefaults, Call
    <3>2. IsSubscribedOrPending(request, t)
      BY <2>1, <3>1 DEF DefaultsAreSafe, DefaultsKept, Protected
    <3> QED
      BY <1>1, <1>2, <3>2
  <2>2. CASE t \notin Defaults
    <3>1. manager'.links[t] = manager.links[t]
      BY <1>0, <1>5, <2>2, LinkFacts, SubscriptionsAssumption DEF SubscribeDefaults
    <3> QED
      BY <1>1, <1>3, <3>1
  <2> QED
    BY <2>1, <2>2
<1>6. ASSUME NEW client \in Clients, NEW topic \in Topics, Unsubscribe(client, topic)
      PROVE  request'.status[t] = "Subscribed"
  <2>1. manager.links[t] # <<>>
    BY <1>0, <1>6, UnlinkFacts DEF Unsubscribe
  <2> QED
    BY <1>1, <1>3, <2>1
<1>7. ASSUME NEW client \in Clients, Leave(client)
      PROVE  request'.status[t] = "Subscribed"
  <2> DEFINE links == [n \in Topics |-> RemoveFirst(manager.links[n], client)]
  <2>1. manager'.links = links
    BY <1>0, <1>7 DEF Leave, Managers
  <2>2. manager.links[t] # <<>>
    BY <1>0, <2>1, RangeOfRemoveFirst
  <2> QED
    BY <1>1, <1>3, <2>2
<1> QED
  BY <1>4, <1>5, <1>6, <1>7 DEF ClientNext

\* The reply to SUBSCRIBE makes a name subscribed, that to UNSUBSCRIBE takes
\* its clients from it if they are one or two.
LEMMA PromisedReply ==
  ASSUME BaseInv, Steady, DefaultsKept, Served, FewClients, NEW c \in Commands, PublishReply(c)
  PROVE  DefaultsKept' /\ Served'
<1>0. /\ Good(request) /\ manager \in Managers /\ LinksTracked
      /\ manager.links \in [Topics -> Seq(Clients \cup {Nobody})]
      /\ Defaults \subseteq Topics
      /\ \A t \in Topics : request.contexts[t] \in Nat
  BY SubscriptionsAssumption DEF BaseInv, Main, Managers, Good, Requests
<1>1. IsExpected(request, c) /\ c = request.current
  BY SteadyReply
<1>2. /\ request' = Answer(request, c)
      /\ manager' = IF c.op = "UNSUBSCRIBE" /\ c.topic \in manager.tracked
                    THEN NotifyUnsubscribed(manager, c.topic) ELSE manager
  BY <1>1 DEF PublishReply, PublishEnds
<1>3. /\ c.topic \in Topics /\ request'.pending = request.pending
      /\ request'.current = NoCommand
      /\ \A t \in Topics :
           request'.contexts[t] = request.contexts[t] - (IF t = c.topic THEN 1 ELSE 0)
      /\ c.op = "SUBSCRIBE" => request'.status[c.topic] = "Subscribed"
      /\ \A t \in Topics \ {c.topic} :
           \/ request'.status[t] = request.status[t]
           \/ request.status[t] = "Unsubscribed" /\ request'.status[t] = "NotSet"
  BY <1>0, <1>1, <1>2, AnswerFacts
<1>4. c.op \in {"SUBSCRIBE", "UNSUBSCRIBE"} /\ c = [op |-> c.op, topic |-> c.topic]
  BY <1>3, CommandFacts DEF Commands, Ping
<1>5. /\ manager' \in Managers
      /\ \A t \in Topics \ {c.topic} : manager'.links[t] = manager.links[t]
      /\ c.op = "SUBSCRIBE" => manager' = manager
      /\ c.op = "UNSUBSCRIBE" => manager'.links[c.topic] = <<>>
  BY <1>0, <1>2, <1>3, <1>4, NotifyFacts DEF LinksTracked, FewClients
<1>6. ASSUME NEW t \in Defaults, "foreign" \notin Calls
      PROVE  Linked(manager', Nobody, t) /\ Protected(request', t)
  <2>1. Linked(manager, Nobody, t) /\ Protected(request, t) /\ t \in Topics
    BY <1>0, <1>6 DEF DefaultsKept
  <2>2. NoCommand # Unsubscribing(t)
    BY DEF NoCommand, Unsubscribing
  <2>3. CASE c.topic = t
    <3>1. c.op = "SUBSCRIBE"
      BY <1>1, <1>4, <2>1, <2>3 DEF Protected, Unsubscribing
    <3> QED
      BY <1>3, <1>5, <2>1, <2>2, <2>3, <3>1 DEF Protected, IsSubscribedOrPending, Linked
  <2>4. CASE c.topic # t
    BY <1>3, <1>5, <2>1, <2>2, <2>4 DEF Protected, IsSubscribedOrPending, Linked
  <2> QED
    BY <2>3, <2>4
<1>7. ASSUME NEW t \in Topics, manager'.links[t] # <<>>, request'.contexts[t] = 0
      PROVE  request'.status[t] = "Subscribed"
  <2>1. CASE c.topic = t
    BY <1>3, <1>4, <1>5, <1>7, <2>1
  <2>2. CASE c.topic # t
    <3>1. manager.links[t] # <<>> /\ request.contexts[t] = 0
      BY <1>0, <1>3, <1>5, <1>7, <2>2
    <3>2. request.status[t] = "Subscribed"
      BY <3>1 DEF Served
    <3> QED
      BY <1>3, <2>2, <3>2
  <2> QED
    BY <2>1, <2>2
<1> QED
  BY <1>6, <1>7 DEF DefaultsKept, Served

\* Step moves a command from those that wait.
LEMMA PromisedStep ==
  ASSUME BaseInv, DefaultsKept, Served, Step
  PROVE  DefaultsKept' /\ Served'
<1>0. Good(request) /\ UNCHANGED manager
  BY DEF BaseInv, Main, Step
<1>1. CASE ~ IsReady(request)
  <2>1. UNCHANGED request
    BY <1>1 DEF Step
  <2> QED
    BY <1>0, <2>1 DEF DefaultsKept, Served, Protected
<1>2. CASE IsReady(request)
  <2>1. request' = Taken(request)
    BY <1>2 DEF Step
  <2>2. /\ request'.contexts = request.contexts /\ request'.status = request.status
        /\ \A P : CountIn(request.pending, P)
                    = CountIn(request'.pending, P)
                        + (IF request'.current \in P THEN 1 ELSE 0)
        /\ request'.pending \in Seq(Commands)
    BY <1>0, <1>2, <2>1, TakenFacts DEF Good, Requests
  <2>3. ASSUME NEW t \in Defaults, Protected(request, t)
        PROVE  Protected(request', t)
    <3>1. /\ CountIn(request.pending, {Unsubscribing(t)})
               = CountIn(request'.pending, {Unsubscribing(t)})
                   + (IF request'.current \in {Unsubscribing(t)} THEN 1 ELSE 0)
          /\ CountIn(request'.pending, {Unsubscribing(t)}) \in Nat
      BY <2>2, CountInType
    <3>2. /\ CountIn(request'.pending, {Unsubscribing(t)}) = 0
          /\ request'.current # Unsubscribing(t)
      BY <2>3, <3>1 DEF Protected
    <3> QED
      BY <2>2, <2>3, <3>2 DEF Protected, IsSubscribedOrPending
  <2> QED
    BY <1>0, <2>2, <2>3 DEF DefaultsKept, Served
<1> QED
  BY <1>1, <1>2

LEMMA PromisedKept ==
  BaseInv /\ Unbroken /\ Promised /\ FewClients /\ DefaultsAreSafe /\ [Next]_vars
    => Promised'
<1> SUFFICES ASSUME BaseInv, Unbroken, Promised, FewClients, DefaultsAreSafe,
                    [Next]_vars, losses' = 0
             PROVE  DefaultsKept' /\ Served'
  BY DEF Promised
<1>1. ASSUME losses = 0 PROVE Steady /\ DefaultsKept /\ Served
  BY <1>1 DEF Unbroken, Promised
<1>2. ASSUME losses = 0, UNCHANGED <<request, manager>> PROVE DefaultsKept' /\ Served'
  BY <1>1, <1>2 DEF DefaultsKept, Served, Protected
<1>3. CASE ClientNext
  <2>1. losses = 0
    BY <1>3, CallFacts DEF Called
  <2> QED
    BY <1>1, <1>3, <2>1, KeptCall, ServedCall
<1>4. CASE MessageNext
  <2>1. losses = 0
    BY <1>4 DEF MessageNext, Step, PublishPong, Disconnected, PublishReply,
                PublishMessage, Received
  <2>2. ASSUME NEW t \in Topics, PublishMessage(t) PROVE UNCHANGED <<request, manager>>
    BY <2>2 DEF PublishMessage, PublishEnds
  <2> QED
    BY <1>1, <1>2, <1>4, <2>1, <2>2, PromisedStep, PromisedReply, NoDisconnection
       DEF MessageNext
<1>5. CASE TimerNext
  <2>1. losses = 0
    BY <1>5 DEF TimerNext, GiveUp, SendPing, PingRefused, TimerFires
  <2> QED
    BY <1>1, <1>5, <2>1, NoDisconnection
<1>6. CASE HubStep(HubNext)
  <2>1. losses = 0
    BY <1>6 DEF HubStep, HubNext, HubProgress, Echo, Push, Connected, Lost,
                Answered, Published, BaseInv, HubTypeOK
  <2> QED
    BY <1>2, <1>6, <2>1 DEF HubStep, mainVars
<1>7. CASE UNCHANGED vars
  BY <1>2, <1>7 DEF vars, hubVars, mainVars
<1> QED
  BY <1>3, <1>4, <1>5, <1>6, <1>7 DEF Next

LEMMA PromisedInit == Init => Promised
<1> SUFFICES ASSUME Init PROVE DefaultsKept /\ Served
  BY DEF Promised
<1> DEFINE first == Build(Fresh, "SUBSCRIBE", Defaults \cap Channels)
<1>1. /\ request = Build(first, "SUBSCRIBE", Defaults \cap Patterns)
      /\ manager.links = [t \in Topics |-> IF t \in Defaults THEN <<Nobody>> ELSE <<>>]
  BY DEF Init, Fresh
<1>2. /\ Defaults \cap Channels \in SUBSET Topics
      /\ Defaults \cap Patterns \in SUBSET Topics
      /\ Defaults \subseteq Topics
  BY SubscriptionsAssumption DEF Topics
<1>3. /\ Good(first)
      /\ \A t \in Topics :
           first.contexts[t] = Fresh.contexts[t]
                                 + (IF t \in Defaults \cap Channels THEN 1 ELSE 0)
      /\ first.current = Fresh.current
  BY <1>2, FreshFacts, BuildFacts
<1>4. \A t \in Topics :
        first.contexts[t] = IF t \in Defaults \cap Channels THEN 1 ELSE 0
  <2>1. \A t \in Topics : Fresh.contexts[t] = 0
    BY DEF Fresh
  <2> HIDE DEF first
  <2> QED
    BY <1>3, <2>1
<1>5. ASSUME NEW op \in {"SUBSCRIBE"}, NEW q, Good(q), NEW names \in SUBSET Topics,
             NEW t \in names
      PROVE  Build(q, op, names).status[t] = "Subscribing"
  BY <1>5 DEF Build, Good, Requests
<1>6. ASSUME NEW t \in Defaults
      PROVE  request.contexts[t] > 0 /\ request.status[t] = "Subscribing"
  <2> HIDE DEF first
  <2>1. /\ request.contexts[t] = first.contexts[t]
                                   + (IF t \in Defaults \cap Patterns THEN 1 ELSE 0)
        /\ t \notin Defaults \cap Patterns => request.status[t] = first.status[t]
    BY <1>1, <1>2, <1>3, BuildFacts
  <2>2. t \in Defaults \cap Patterns => request.status[t] = "Subscribing"
    BY <1>1, <1>2, <1>3, <1>5
  <2>3. t \in Defaults \cap Channels => first.status[t] = "Subscribing"
    BY <1>2, <1>5, FreshFacts DEF first
  <2>4. t \in Topics /\ (t \in Channels \/ t \in Patterns)
    BY <1>2 DEF Topics
  <2> QED
    BY <1>4, <2>1, <2>2, <2>3, <2>4
<1>7. Served
  <2>1. \A t \in Topics : manager.links[t] # <<>> => t \in Defaults
    BY <1>1
  <2>2. \A t \in Defaults : request.contexts[t] # 0
    BY <1>6
  <2> QED
    BY <2>1, <2>2 DEF Served
<1>8. ASSUME NEW t \in Defaults PROVE Protected(request, t)
  <2>1. t \in Topics
    BY <1>2
  <2>2. request.current # Unsubscribing(t)
    BY InitFacts DEF Calling, Fresh, NoCommand, Unsubscribing
  <2>3. CountIn(request.pending, {Unsubscribing(t)}) = 0
    <3>1. CountIn(Fresh.pending, {Unsubscribing(t)}) = 0
      BY CountInEmpty DEF Fresh
    <3>2. CountIn(first.pending, {Unsubscribing(t)}) = 0
      BY <1>2, <2>1, <3>1, FreshFacts, EndingBuild
    <3> HIDE DEF first
    <3> QED
      BY <1>1, <1>2, <1>3, <2>1, <3>2, EndingBuild
  <2> QED
    BY <1>6, <2>2, <2>3 DEF Protected, IsSubscribedOrPending
<1>9. ASSUME NEW t \in Defaults PROVE Linked(manager, Nobody, t)
  BY <1>1, <1>2 DEF Linked, Range
<1> QED
  BY <1>7, <1>8, <1>9 DEF DefaultsKept

\* While the connection holds, a client that is linked to a name is served
\* whenever all commands are answered, for any number of clients, as long as no
\* name has more than two of them at a time (nullptr of Startup counts as one):
\* Notify erases from the vector that it iterates over and misses one of three
\* (manager.cc:537), which stays linked to a name that is not subscribed.  Of
\* what Startup subscribed it is so if clients do not unsubscribe names that
\* they are not linked to.
THEOREM LinksAreServed ==
  ASSUME DefaultsAreSafe
  PROVE  Spec /\ []FewClients => [](losses = 0 => LinkedIsServed)
<1>1. Init => BaseInv /\ Unbroken /\ Promised
  BY InitFacts, UnbrokenInit, PromisedInit
<1>2. BaseInv /\ Unbroken /\ Promised /\ FewClients /\ [Next]_vars
        => (BaseInv /\ Unbroken /\ Promised)'
  BY BaseStep, UnbrokenStep, PromisedKept
<1>3. BaseInv /\ Unbroken /\ Promised => (losses = 0 => LinkedIsServed)
  <2> SUFFICES ASSUME BaseInv, Steady, Served, Quiet, NEW t \in Topics,
                      manager.links[t] # <<>>
               PROVE  t \in server
    BY DEF Unbroken, Promised, LinkedIsServed
  <2>1. request.contexts[t] = 0
    BY QuietFacts
  <2> QED
    BY <2>1 DEF Served, Steady, StatusKnown
<1> QED
  BY <1>1, <1>2, <1>3, PTL DEF Spec

=============================================================================

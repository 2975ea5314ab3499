-------------------------- MODULE TaskClientsProofs --------------------------
(***************************************************************************)
(* Theorems about TaskClients, for any calls, tokens and bound.            *)
(***************************************************************************)
EXTENDS TaskClients, TLAPS

-----------------------------------------------------------------------------
(* Types.                                                                  *)

Typed == TypeOK /\ \A f \in Fetches : UnderWay(f) => asked[f] \in Tokens

LEMMA InitTypes == Init => Typed
  <1>. SUFFICES ASSUME Init PROVE Typed
    OBVIOUS
  <1>1. TypeOK
    <2>1. data \in [token : Tokens, valid : BOOLEAN, payload : SUBSET Tokens]
      <3>1. PICK t \in Tokens : data = Blank(t)
        BY DEF Init
      <3>. QED BY <3>1 DEF Blank
    <2>2. /\ asked \in [Fetches -> Tokens \cup {Nothing}]
          /\ reply \in [Calls -> Answers \cup {Nothing}]
          /\ stage \in [Calls -> Stages]
      BY DEF Init, Stages
    <2>3. telling \in Seq(Calls \X Verdicts)
      BY DEF Init
    <2>4. keys \subseteq Tokens /\ alive \subseteq Clients /\ mixed \in BOOLEAN
      BY DEF Init
    <2>. QED BY <2>1, <2>2, <2>3, <2>4 DEF TypeOK
  <1>2. \A f \in Fetches : ~UnderWay(f)
    BY DEF Init, UnderWay, Calls
  <1>. QED BY <1>1, <1>2 DEF Typed

\* What the steps of a task do to stages and frames.
LEMMA RaiseTypes ==
  ASSUME TypeOK, NEW c \in Calls, Raise(c)
  PROVE  /\ stage' \in [Calls -> Stages]
         /\ telling' \in Seq(Calls \X Verdicts)
  <1>1. CatchVerdicts(c) \subseteq Verdicts
    BY DEF CatchVerdicts, Verdicts
  <1>2. PICK what \in Verdicts : telling' = <<<<c, what>>>> \o telling
    BY <1>1 DEF Raise
  <1>3. <<<<c, what>>>> \in Seq(Calls \X Verdicts)
    OBVIOUS
  <1>. QED BY <1>2, <1>3 DEF Raise, TypeOK, Stages

LEMMA TellTypes ==
  ASSUME TypeOK, NEW c \in Calls, NEW what \in Verdicts, Tell(c, what)
  PROVE  /\ stage' \in [Calls -> Stages]
         /\ telling' \in Seq(Calls \X Verdicts)
  <1>1. <<<<c, what>>>> \in Seq(Calls \X Verdicts)
    OBVIOUS
  <1>. QED BY <1>1 DEF Tell, TypeOK, Stages

LEMMA ReplyTypes ==
  ASSUME TypeOK, NEW c \in Calls, NEW r, Step(c, r)
  PROVE  /\ reply' \in [Calls -> Answers \cup {Nothing}]
         /\ keys' = keys /\ alive' = alive /\ mixed' = mixed
  BY DEF Step, TypeOK

\* A call that is told its outcome asks no more, and the others as before.
LEMMA StopsAsking ==
  ASSUME Typed, NEW c \in Calls, stage' \in [Calls -> Stages],
         \A other \in Calls \ {c} : stage'[other] = stage[other],
         stage'[c] \notin {"first", "second"} \/ c \notin Fetches,
         asked' = asked
  PROVE  \A f \in Fetches : UnderWay(f)' => asked'[f] \in Tokens
  BY DEF Typed, UnderWay, Calls

\* Every step that ends in a callback, and changes data at most.
LEMMA AnswerTypes ==
  ASSUME Typed, NEW c \in Calls, NEW r, Step(c, r),
         Raise(c) \/ \E what \in Verdicts : Tell(c, what),
         data' \in [token : Tokens, valid : BOOLEAN, payload : SUBSET Tokens],
         asked' = asked
  PROVE  Typed'
  <1>1. TypeOK
    BY DEF Typed
  <1>2. stage' \in [Calls -> Stages] /\ telling' \in Seq(Calls \X Verdicts)
    BY <1>1, RaiseTypes, TellTypes
  <1>3. TypeOK'
    BY <1>1, <1>2, ReplyTypes DEF TypeOK
  <1>4. /\ \A other \in Calls \ {c} : stage'[other] = stage[other]
        /\ stage'[c] \notin {"first", "second"}
    BY <1>1 DEF TypeOK, Raise, Tell
  <1>. QED BY <1>2, <1>3, <1>4, StopsAsking DEF Typed

LEMMA FetchTypes ==
  ASSUME Typed, NEW f \in Fetches, FetchSteps(f)
  PROVE  Typed'
  <1>1. f \in Calls /\ TypeOK
    BY DEF Calls, Typed
  <1>2. CASE SessionExists(f)
    <2>1. Step(f, "one") /\ data' = data /\ telling' = telling
      BY <1>2 DEF SessionExists
    <2>2. /\ stage' = [stage EXCEPT ![f] = "second"]
          /\ asked' = [asked EXCEPT ![f] = data.token]
      BY <1>2 DEF SessionExists
    <2>3. data.token \in Tokens
      BY <1>1 DEF TypeOK
    <2>4. TypeOK'
      BY <1>1, <2>1, <2>2, <2>3, ReplyTypes DEF TypeOK, Stages
    <2>5. \A other \in Fetches : UnderWay(other)' => asked'[other] \in Tokens
      BY <1>1, <2>2, <2>3 DEF Typed, TypeOK, UnderWay, Calls
    <2>. QED BY <2>4, <2>5 DEF Typed
  <1>3. CASE SessionMissing(f)
    <2>1. PICK r \in {"zero", "bad"} : Step(f, r)
      BY <1>3 DEF SessionMissing
    <2>2. Raise(f) /\ UNCHANGED <<data, asked>>
      BY <1>3 DEF SessionMissing
    <2>. QED BY <1>1, <2>1, <2>2, AnswerTypes DEF TypeOK
  <1>4. CASE SessionRead(f)
    <2>1. asked' = asked /\ asked[f] \in Tokens
      BY <1>4 DEF SessionRead, Typed, UnderWay
    <2>2. PICK r \in {"fields", "empty", "error", "bad"} :
            /\ Step(f, r)
            /\ Raise(f) \/ \E what \in Verdicts : Tell(f, what)
            /\ \/ data' = [data EXCEPT !.valid = TRUE, !.payload = @ \cup {asked[f]}]
               \/ data' = [data EXCEPT !.valid = FALSE]
               \/ data' = data
      <3>1. CASE Step(f, "error") /\ data' = data
                 /\ Tell(f, IF data.valid THEN "success" ELSE "invalid")
        BY <3>1 DEF Verdicts
      <3>. QED BY <1>4, <3>1 DEF SessionRead, Verdicts
    <2>3. data' \in [token : Tokens, valid : BOOLEAN, payload : SUBSET Tokens]
      <3>1. data \in [token : Tokens, valid : BOOLEAN, payload : SUBSET Tokens]
        BY <1>1 DEF TypeOK
      <3>2. data.payload \cup {asked[f]} \in SUBSET Tokens
        BY <2>1, <3>1
      <3>3. CASE data' = [data EXCEPT !.valid = TRUE, !.payload = @ \cup {asked[f]}]
        BY <3>1, <3>2, <3>3
      <3>4. CASE data' = [data EXCEPT !.valid = FALSE]
        BY <3>1, <3>4
      <3>. QED BY <2>2, <3>1, <3>3, <3>4
    <2>. QED BY <1>1, <2>1, <2>2, <2>3, AnswerTypes
  <1>. QED BY <1>2, <1>3, <1>4 DEF FetchSteps

LEMMA OneCommandTypes ==
  ASSUME Typed, NEW c \in Calls,
         QueryAnswered(c) \/ DownloadAnswered(c)
  PROVE  Typed'
  <1>1. PICK r \in {"rows", "none", "bad", "page"} :
          /\ Step(c, r)
          /\ Raise(c) \/ \E what \in Verdicts : Tell(c, what)
    BY DEF QueryAnswered, DownloadAnswered, Verdicts
  <1>2. data' = data /\ asked' = asked
    BY DEF QueryAnswered, DownloadAnswered
  <1>. QED BY <1>1, <1>2, AnswerTypes DEF Typed, TypeOK

LEMMA ApplicationTypes ==
  ASSUME Typed, Application
  PROVE  Typed'
  <1>1. TypeOK
    BY DEF Typed
  <1>2. ASSUME NEW c \in Calls, NEW refused \in Verdicts, Call(c, refused) PROVE Typed'
    <2>1. telling' \in Seq(Calls \X Verdicts)
      <3>1. CASE telling' = telling
        BY <1>1, <3>1 DEF TypeOK
      <3>2. CASE telling' # telling
        <4>1. PICK what \in Verdicts : telling' = <<<<c, what>>>> \o telling
          BY <1>2, <3>2 DEF Call
        <4>2. <<<<c, what>>>> \in Seq(Calls \X Verdicts)
          OBVIOUS
        <4>. QED BY <1>1, <4>1, <4>2 DEF TypeOK
      <3>. QED BY <3>1, <3>2
    <2>2. stage' \in [Calls -> Stages] /\ UNCHANGED <<keys, data, alive, asked, reply, mixed>>
      BY <1>1, <1>2 DEF Call, TypeOK, Stages
    <2>3. /\ \A other \in Calls \ {c} : stage'[other] = stage[other]
          /\ stage'[c] \notin {"first", "second"}
      BY <1>1, <1>2 DEF Call, TypeOK
    <2>4. TypeOK'
      BY <1>1, <2>1, <2>2 DEF TypeOK
    <2>. QED BY <2>2, <2>3, <2>4, StopsAsking DEF Typed
  <1>3. CASE Return \/ Throw
    <2>1. PICK c \in Calls, old \in Verdicts : Head(telling) = <<c, old>>
      BY <1>1, <1>3 DEF Return, Throw, TypeOK
    <2>2. Tail(telling) \in Seq(Calls \X Verdicts)
      BY <1>1, <1>3 DEF Return, Throw, TypeOK
    <2>3. telling' \in Seq(Calls \X Verdicts)
      <3>1. CASE telling' = Tail(telling)
        BY <2>2, <3>1
      <3>2. CASE telling' # Tail(telling)
        <4>1. CASE Return
          BY <3>2, <4>1 DEF Return
        <4>2. CASE Throw
          <5>1. Head(telling)[1] = c
            BY <2>1
          <5>2. PICK what \in CatchVerdicts(c) :
                  telling' = <<<<c, what>>>> \o Tail(telling)
            BY <3>2, <4>2, <5>1, Zenon DEF Throw
          <5>3. what \in Verdicts
            BY <5>2 DEF CatchVerdicts, Verdicts
          <5>4. <<<<c, what>>>> \in Seq(Calls \X Verdicts)
            BY <5>3
          <5>. QED BY <2>2, <5>2, <5>4
        <4>. QED BY <1>3, <4>1, <4>2
      <3>. QED BY <3>1, <3>2
    <2>4. /\ stage' = [stage EXCEPT ![c] = "settled"] \/ stage' = [stage EXCEPT ![c] = "catch"]
          /\ UNCHANGED <<keys, data, alive, asked, reply, mixed>>
      BY <1>3, <2>1 DEF Return, Throw
    <2>5. /\ stage' \in [Calls -> Stages]
          /\ \A other \in Calls \ {c} : stage'[other] = stage[other]
          /\ stage'[c] \notin {"first", "second"}
      BY <1>1, <2>4 DEF TypeOK, Stages
    <2>6. TypeOK'
      BY <1>1, <2>3, <2>4, <2>5 DEF TypeOK
    <2>. QED BY <2>4, <2>5, <2>6, StopsAsking DEF Typed
  <1>4. ASSUME NEW t \in Tokens, SetToken(t) PROVE Typed'
    <2>1. TypeOK'
      BY <1>1, <1>4 DEF TypeOK, SetToken, Blank
    <2>. QED BY <1>4, <2>1 DEF Typed, SetToken, UnderWay
  <1>5. ASSUME NEW client \in Clients, Destroy(client) PROVE Typed'
    <2>1. TypeOK'
      BY <1>1, <1>5 DEF TypeOK, Destroy, Stages
    <2>2. \A c \in Calls : UnderWay(c)' => UnderWay(c)
      BY <1>1, <1>5 DEF Destroy, UnderWay, TypeOK
    <2>. QED BY <1>5, <2>1, <2>2 DEF Typed, Destroy, Calls
  <1>6. ASSUME NEW c \in Calls, Fetch(c) \/ Query(c) \/ Download(c)
        PROVE  Typed'
    BY <1>2, <1>6 DEF Fetch, Query, Download, Verdicts
  <1>. QED BY <1>3, <1>4, <1>5, <1>6 DEF Application, Calls

LEMMA StepTypes ==
  ASSUME Typed, [Next]_vars
  PROVE  Typed'
  <1>1. TypeOK
    BY DEF Typed
  <1>2. ASSUME NEW c \in Calls, Begin(c) PROVE Typed'
    <2>1. data.token \in Tokens
      BY <1>1 DEF TypeOK
    <2>2. TypeOK'
      BY <1>1, <1>2, <2>1 DEF TypeOK, Begin, Stages
    <2>3. \A f \in Fetches : UnderWay(f)' => asked'[f] \in Tokens
      BY <1>1, <1>2, <2>1 DEF Typed, TypeOK, Begin, UnderWay, Calls
    <2>. QED BY <2>2, <2>3 DEF Typed
  <1>3. ASSUME NEW c \in Calls, Execute(c) PROVE Typed'
    <2>1. Replies(c) \subseteq Answers
      BY DEF Replies, QueryReplies, DownloadReplies, FetchReplies, Answers
    <2>2. reply' \in [Calls -> Answers \cup {Nothing}]
      BY <1>1, <1>3, <2>1 DEF Execute, TypeOK
    <2>. QED BY <1>1, <1>3, <2>2 DEF Typed, TypeOK, Execute, UnderWay
  <1>4. ASSUME NEW t \in Tokens, Expire(t) PROVE Typed'
    BY <1>1, <1>4 DEF Typed, TypeOK, Expire, UnderWay
  <1>5. CASE UNCHANGED vars
    BY <1>1, <1>5 DEF Typed, TypeOK, vars, UnderWay
  <1>. QED BY <1>2, <1>3, <1>4, <1>5, ApplicationTypes, FetchTypes, OneCommandTypes
           DEF Next, Calls

\* Every variable keeps its type, and every command of a Fetch that is under
\* way has a token.
THEOREM ClientTypes == Spec => []TypeOK
  <1>1. Typed => TypeOK
    BY DEF Typed
  <1>. QED BY <1>1, InitTypes, StepTypes, PTL DEF Spec

-----------------------------------------------------------------------------
(* Sessions.                                                               *)

\* Inductive: unless a token came in between, an HGETALL asks for the values
\* of the token that the session has.
Own ==
  /\ Typed
  /\ OwnPayload
  /\ mixed \/ \A f \in Fetches : stage[f] = "second" => asked[f] = data.token

\* Most steps leave the session alone and send no HGETALL.
LEMMA OwnStays ==
  ASSUME Own, Typed', data' = data, mixed' = mixed,
         \A f \in Fetches : stage'[f] = "second" =>
                              stage[f] = "second" /\ asked'[f] = asked[f]
  PROVE  Own'
  BY DEF Own, OwnPayload

\* Steps that move one call, to somewhere else than its second command.
LEMMA OneMoves ==
  ASSUME Own, Typed', NEW c \in Calls, NEW to \in Stages \ {"second"},
         stage' = [stage EXCEPT ![c] = to], UNCHANGED <<data, asked, mixed>>
  PROVE  Own'
  <1>1. stage \in [Calls -> Stages] /\ Fetches \subseteq Calls
    BY DEF Own, Typed, TypeOK, Calls
  <1>2. \A f \in Fetches : stage'[f] = "second" =>
                             stage[f] = "second" /\ asked'[f] = asked[f]
    BY <1>1
  <1>. QED BY <1>2, OwnStays

LEMMA FetchOwn ==
  ASSUME Own, Typed', NEW f \in Fetches, FetchSteps(f)
  PROVE  Own'
  <1>1. /\ f \in Calls /\ stage \in [Calls -> Stages] /\ Fetches \subseteq Calls
        /\ data \in [token : Tokens, valid : BOOLEAN, payload : SUBSET Tokens]
        /\ asked \in [Fetches -> Tokens \cup {Nothing}]
    BY DEF Own, Typed, TypeOK, Calls
  <1>2. CASE SessionExists(f)
    <2>1. data' = data /\ mixed' = mixed
      BY <1>2 DEF SessionExists, Step
    <2>2. mixed \/ \A other \in Fetches : stage'[other] = "second" =>
                                            asked'[other] = data.token
      BY <1>1, <1>2 DEF SessionExists, Own
    <2>. QED BY <2>1, <2>2 DEF Own, OwnPayload
  <1>3. CASE SessionMissing(f)
    <2>1. stage' = [stage EXCEPT ![f] = "catch"] /\ UNCHANGED <<data, asked, mixed>>
      BY <1>3 DEF SessionMissing, Raise, Step
    <2>. QED BY <1>1, <2>1, OneMoves DEF Stages
  <1>4. CASE SessionRead(f)
    <2>1. /\ asked' = asked /\ mixed' = mixed
          /\ stage[f] = "second"
      BY <1>4 DEF SessionRead, Step
    <2>2. PICK to \in {"finally", "catch"} : stage' = [stage EXCEPT ![f] = to]
      BY <1>4 DEF SessionRead, Raise, Tell
    <2>3. CASE data' = data
      BY <1>1, <2>1, <2>2, <2>3, OneMoves DEF Stages
    <2>4. CASE data' # data
      <3>1. \/ data' = [data EXCEPT !.valid = TRUE, !.payload = @ \cup {asked[f]}]
            \/ data' = [data EXCEPT !.valid = FALSE]
        BY <1>4, <2>4 DEF SessionRead
      <3>2. data'.token = data.token
        BY <1>1, <3>1
      <3>3. mixed \/ asked[f] = data.token
        BY <2>1 DEF Own
      <3>4. mixed \/ (data.payload \subseteq {data.token})
        BY DEF Own, OwnPayload
      <3>5. mixed \/ (data'.payload \subseteq {data.token}
                      /\ (data'.valid => data'.payload = {data.token}))
        <4>1. CASE data' = [data EXCEPT !.valid = TRUE, !.payload = @ \cup {asked[f]}]
          BY <1>1, <3>3, <3>4, <4>1
        <4>2. CASE data' = [data EXCEPT !.valid = FALSE]
          BY <1>1, <3>4, <4>2
        <4>. QED BY <3>1, <4>1, <4>2
      <3>6. mixed \/ \A other \in Fetches : stage'[other] = "second" =>
                                              asked'[other] = data'.token
        BY <1>1, <2>1, <2>2, <3>2 DEF Own
      <3>. QED BY <2>1, <3>2, <3>5, <3>6 DEF Own, OwnPayload
    <2>. QED BY <2>3, <2>4
  <1>. QED BY <1>2, <1>3, <1>4 DEF FetchSteps

LEMMA ApplicationOwn ==
  ASSUME Own, Typed', Application
  PROVE  Own'
  <1>1. /\ TypeOK
        /\ stage \in [Calls -> Stages] /\ Fetches \subseteq Calls
    BY DEF Own, Typed, TypeOK, Calls
  <1>2. ASSUME NEW c \in Calls, NEW refused \in Verdicts, Call(c, refused) PROVE Own'
    <2>1. PICK to \in {"pushed", "catch"} : stage' = [stage EXCEPT ![c] = to]
      BY <1>2 DEF Call
    <2>. QED BY <1>2, <2>1, OneMoves DEF Call, Stages
  <1>3. CASE Return \/ Throw
    <2>1. PICK c \in Calls : Head(telling)[1] = c
      BY <1>1, <1>3 DEF Return, Throw, TypeOK
    <2>2. PICK to \in {"settled", "catch"} : stage' = [stage EXCEPT ![c] = to]
      BY <1>3, <2>1 DEF Return, Throw
    <2>. QED BY <1>3, <2>2, OneMoves DEF Return, Throw, Stages
  <1>4. ASSUME NEW t \in Tokens, SetToken(t) PROVE Own'
    <2>1. data'.payload = {} /\ data'.valid = FALSE
      BY <1>4 DEF SetToken, Blank
    <2>2. mixed' \/ \A f \in Fetches : stage'[f] # "second"
      BY <1>4 DEF SetToken, ReadsFields
    <2>. QED BY <2>1, <2>2 DEF Own, OwnPayload
  <1>5. ASSUME NEW client \in Clients, Destroy(client) PROVE Own'
    <2>1. \A f \in Fetches : stage'[f] = "second" => stage[f] = "second"
      BY <1>1, <1>5 DEF Destroy
    <2>. QED BY <1>5, <2>1, OwnStays DEF Destroy
  <1>6. ASSUME NEW c \in Calls, Fetch(c) \/ Query(c) \/ Download(c)
        PROVE  Own'
    BY <1>2, <1>6 DEF Fetch, Query, Download, Verdicts
  <1>. QED BY <1>3, <1>4, <1>5, <1>6 DEF Application, Calls

LEMMA StepOwn ==
  ASSUME Own, [Next]_vars
  PROVE  Own'
  <1>1. Typed' /\ stage \in [Calls -> Stages] /\ Fetches \subseteq Calls
        /\ asked \in [Fetches -> Tokens \cup {Nothing}]
    BY StepTypes DEF Own, Typed, TypeOK, Calls
  <1>2. ASSUME NEW c \in Calls, Begin(c) PROVE Own'
    <2>1. \A f \in Fetches : stage'[f] = "second" =>
                               stage[f] = "second" /\ asked'[f] = asked[f]
      BY <1>1, <1>2 DEF Begin
    <2>. QED BY <1>1, <1>2, <2>1, OwnStays DEF Begin
  <1>3. ASSUME NEW c \in Calls, Execute(c) PROVE Own'
    BY <1>1, <1>3, OwnStays DEF Execute
  <1>4. ASSUME NEW c \in Calls, QueryAnswered(c) \/ DownloadAnswered(c) PROVE Own'
    <2>1. PICK to \in {"finally", "catch"} : stage' = [stage EXCEPT ![c] = to]
      BY <1>4 DEF QueryAnswered, DownloadAnswered, Raise, Tell
    <2>2. UNCHANGED <<data, asked, mixed>>
      BY <1>4 DEF QueryAnswered, DownloadAnswered, Step
    <2>. QED BY <1>1, <2>1, <2>2, OneMoves DEF Stages
  <1>5. ASSUME NEW t \in Tokens, Expire(t) PROVE Own'
    BY <1>1, <1>5, OwnStays DEF Expire
  <1>6. CASE UNCHANGED vars
    BY <1>1, <1>6, OwnStays DEF vars
  <1>. QED BY <1>1, <1>2, <1>3, <1>4, <1>5, <1>6, ApplicationOwn, FetchOwn
           DEF Next, Calls

\* Values of a session are of its own token, and are there when it is said to
\* be valid, unless a token was set while an HGETALL was under way: however
\* Fetches overlap, fail and end, and whatever expires (redis/session.cc
\* 389-468).
THEOREM SessionKeepsOwn == Spec => []OwnPayload
  <1>1. Init => Own
    <2>. SUFFICES ASSUME Init PROVE Own
      OBVIOUS
    <2>1. PICK t \in Tokens : data = Blank(t)
      BY DEF Init
    <2>2. \A f \in Fetches : stage[f] = "none"
      BY DEF Init, Calls
    <2>. QED BY <2>1, <2>2, InitTypes DEF Own, OwnPayload, Blank
  <1>2. Own => OwnPayload
    BY DEF Own
  <1>. QED BY <1>1, <1>2, StepOwn, PTL DEF Spec

-----------------------------------------------------------------------------
(* What the calls are told.                                                *)

\* Callbacks that run are of different calls, which their callers are telling.
Frames ==
  /\ \A i \in 1..Len(telling) : stage[telling[i][1]] \in {"finally", "catch"}
  /\ \A i, j \in 1..Len(telling) : telling[i][1] = telling[j][1] => i = j

Kept == Typed /\ Frames

LEMMA FramesStay ==
  ASSUME Kept, telling' = telling,
         \A c \in Calls : stage[c] \in {"finally", "catch"} => stage'[c] = stage[c]
  PROVE  Frames'
  <1>1. telling \in Seq(Calls \X Verdicts)
    BY DEF Kept, Typed, TypeOK
  <1>2. \A i \in 1..Len(telling) : telling[i][1] \in Calls
    BY <1>1
  <1>. QED BY <1>2 DEF Kept, Frames

\* A callback is entered.
LEMMA FramesPush ==
  ASSUME Kept, NEW c \in Calls, stage[c] \notin {"finally", "catch"},
         NEW what \in Verdicts, NEW to \in {"finally", "catch"},
         stage' = [stage EXCEPT ![c] = to],
         telling' = <<<<c, what>>>> \o telling
  PROVE  Frames'
  <1>1. telling \in Seq(Calls \X Verdicts) /\ stage \in [Calls -> Stages]
    BY DEF Kept, Typed, TypeOK
  <1>2. /\ Len(telling') = Len(telling) + 1
        /\ telling'[1] = <<c, what>>
        /\ \A i \in 2..Len(telling') : /\ telling'[i] = telling[i - 1]
                                       /\ i - 1 \in 1..Len(telling)
    BY <1>1
  <1>3. \A i \in 1..Len(telling) :
          telling[i][1] \in Calls \ {c} /\ stage'[telling[i][1]] = stage[telling[i][1]]
    BY <1>1 DEF Kept, Frames
  <1>4. \A i \in 1..Len(telling') : i = 1 \/ i \in 2..Len(telling')
    BY <1>1, <1>2
  <1>5. \A i \in 1..Len(telling') : stage'[telling'[i][1]] \in {"finally", "catch"}
    BY <1>1, <1>2, <1>3, <1>4 DEF Kept, Frames
  <1>6. \A i, j \in 1..Len(telling') : telling'[i][1] = telling'[j][1] => i = j
    <2>. SUFFICES ASSUME NEW i \in 1..Len(telling'), NEW j \in 1..Len(telling'),
                         telling'[i][1] = telling'[j][1]
                  PROVE  i = j
      OBVIOUS
    <2>1. CASE i = 1 \/ j = 1
      BY <1>2, <1>3, <1>4, <2>1
    <2>2. CASE i # 1 /\ j # 1
      BY <1>2, <1>4, <2>2 DEF Kept, Frames
    <2>. QED BY <2>1, <2>2
  <1>. QED BY <1>5, <1>6 DEF Frames

\* The innermost callback is left.
LEMMA FramesPop ==
  ASSUME Kept, telling # <<>>, NEW to,
         stage' = [stage EXCEPT ![Head(telling)[1]] = to],
         telling' = Tail(telling)
  PROVE  Frames'
  <1>1. telling \in Seq(Calls \X Verdicts) /\ stage \in [Calls -> Stages]
    BY DEF Kept, Typed, TypeOK
  <1>2. /\ Len(telling') = Len(telling) - 1 /\ Len(telling) \in Nat \ {0}
        /\ \A i \in 1..Len(telling') : /\ telling'[i] = telling[i + 1]
                                       /\ i + 1 \in 2..Len(telling)
        /\ Head(telling) = telling[1]
    BY <1>1
  <1>3. \A i \in 2..Len(telling) :
          telling[i][1] \in Calls \ {Head(telling)[1]}
    BY <1>1, <1>2 DEF Kept, Frames
  <1>4. \A i \in 2..Len(telling) :
          i \in 1..Len(telling) /\ stage'[telling[i][1]] = stage[telling[i][1]]
    BY <1>1, <1>3
  <1>. QED BY <1>2, <1>4 DEF Kept, Frames

\* Catch is called in the place of the callback that threw.
LEMMA FramesSwap ==
  ASSUME Kept, telling # <<>>, NEW what \in Verdicts, NEW to \in {"finally", "catch"},
         stage' = [stage EXCEPT ![Head(telling)[1]] = to],
         telling' = <<<<Head(telling)[1], what>>>> \o Tail(telling)
  PROVE  Frames'
  <1>1. telling \in Seq(Calls \X Verdicts) /\ stage \in [Calls -> Stages]
    BY DEF Kept, Typed, TypeOK
  <1>2. Head(telling)[1] \in Calls /\ Tail(telling) \in Seq(Calls \X Verdicts)
    BY <1>1
  <1>3. /\ Len(telling') = Len(telling)
        /\ \A i \in 1..Len(telling) : telling'[i][1] = telling[i][1]
    BY <1>1, <1>2
  <1>4. \A i \in 1..Len(telling) :
          telling[i][1] \in Calls /\ stage'[telling[i][1]] \in {"finally", "catch"}
    BY <1>1 DEF Kept, Frames
  <1>. QED BY <1>3, <1>4 DEF Kept, Frames

\* The stage that CallPromise sees.
Seen(s) ==
  CASE s \in {"pushed", "first", "second"} -> "due"
    [] s = "finally" -> "telling"
    [] s = "catch" -> "failing"
    [] OTHER -> s

LEMMA SeenStage == CallStage = [c \in Calls |-> Seen(stage[c])]
  BY DEF CallStage, UnderWay, Seen

LEMMA SeenStageNext == CallStage' = [c \in Calls |-> Seen(stage'[c])]
  BY DEF CallStage, UnderWay, Seen

\* A call that goes from one stage to another moves in the promise, if the
\* promise sees a difference.
LEMMA OneMovesSeen ==
  ASSUME TypeOK, NEW c \in Calls, NEW to \in Stages,
         stage' = [stage EXCEPT ![c] = to],
         \/ stage[c] = "none" /\ to \in {"pushed", "catch"}
         \/ /\ stage[c] \in {"pushed", "first", "second"}
            /\ to \in {"first", "second", "finally", "catch"}
         \/ stage[c] = "finally" /\ to \in {"catch", "settled"}
         \/ stage[c] = "catch" /\ to = "settled"
  PROVE  [Promise!Next]_CallStage
  <1>1. /\ CallStage' = [CallStage EXCEPT ![c] = Seen(to)]
        /\ CallStage[c] = Seen(stage[c])
        /\ CallStage[c] = Seen(to) => CallStage' = CallStage
    <2>1. \A x \in Calls : stage'[x] = IF x = c THEN to ELSE stage[x]
      BY DEF TypeOK
    <2>. HIDE DEF Seen
    <2>. QED BY <2>1, SeenStage, SeenStageNext
  <1>2. CASE stage[c] = "none" /\ to \in {"pushed", "catch"}
    <2>1. Promise!Ask(c) \/ Promise!Refuse(c)
      BY <1>1, <1>2 DEF Promise!Ask, Promise!Refuse, Promise!Move, Seen
    <2>. QED BY <2>1 DEF Promise!Next
  <1>3. CASE /\ stage[c] \in {"pushed", "first", "second"}
             /\ to \in {"first", "second", "finally", "catch"}
    <2>1. CASE to \in {"first", "second"}
      BY <1>1, <1>3, <2>1 DEF Seen
    <2>2. CASE to \in {"finally", "catch"}
      <3>1. Promise!Tell(c) \/ Promise!Fail(c)
        BY <1>1, <1>3, <2>2 DEF Promise!Tell, Promise!Fail, Promise!Move, Seen
      <3>. QED BY <3>1 DEF Promise!Next
    <2>. QED BY <1>3, <2>1, <2>2
  <1>4. CASE stage[c] = "finally" /\ to \in {"catch", "settled"}
    <2>1. Promise!Fail(c) \/ Promise!End(c)
      BY <1>1, <1>4 DEF Promise!Fail, Promise!End, Promise!Move, Seen
    <2>. QED BY <2>1 DEF Promise!Next
  <1>5. CASE stage[c] = "catch" /\ to = "settled"
    <2>1. Promise!End(c)
      BY <1>1, <1>5 DEF Promise!End, Promise!Move, Seen
    <2>. QED BY <2>1 DEF Promise!Next
  <1>. QED BY <1>2, <1>3, <1>4, <1>5

\* Answers: all they do to a call that was under way.
LEMMA AnswerKept ==
  ASSUME Kept, NEW c \in Calls, NEW r, Step(c, r),
         Raise(c) \/ \E what \in Verdicts : Tell(c, what)
  PROVE  Frames' /\ [Promise!Next]_CallStage
  <1>1. stage[c] \in {"first", "second"} /\ TypeOK
    BY DEF Step, UnderWay, Kept, Typed
  <1>2. PICK what \in Verdicts, to \in {"finally", "catch"} :
          /\ stage' = [stage EXCEPT ![c] = to]
          /\ telling' = <<<<c, what>>>> \o telling
    BY DEF Raise, Tell, CatchVerdicts, Verdicts
  <1>3. Frames'
    BY <1>1, <1>2, FramesPush
  <1>4. [Promise!Next]_CallStage
    BY <1>1, <1>2, OneMovesSeen DEF Stages
  <1>. QED BY <1>3, <1>4

LEMMA FetchKept ==
  ASSUME Kept, NEW f \in Fetches, FetchSteps(f)
  PROVE  Frames' /\ [Promise!Next]_CallStage
  <1>1. f \in Calls /\ TypeOK /\ stage \in [Calls -> Stages]
    BY DEF Calls, Kept, Typed, TypeOK
  <1>2. CASE SessionExists(f)
    <2>1. /\ stage[f] = "first" /\ telling' = telling
          /\ stage' = [stage EXCEPT ![f] = "second"]
      BY <1>2 DEF SessionExists
    <2>2. Frames'
      BY <1>1, <2>1, FramesStay
    <2>3. [Promise!Next]_CallStage
      BY <1>1, <2>1, OneMovesSeen DEF Stages
    <2>. QED BY <2>2, <2>3
  <1>3. CASE SessionMissing(f)
    <2>1. PICK r \in {"zero", "bad"} : Step(f, r)
      BY <1>3 DEF SessionMissing
    <2>. QED BY <1>1, <1>3, <2>1, AnswerKept DEF SessionMissing
  <1>4. CASE SessionRead(f)
    <2>1. PICK r \in {"fields", "empty", "error", "bad"} :
            /\ Step(f, r)
            /\ Raise(f) \/ \E what \in Verdicts : Tell(f, what)
      <3>1. CASE /\ Step(f, "error")
                 /\ Tell(f, IF data.valid THEN "success" ELSE "invalid")
        BY <3>1 DEF Verdicts
      <3>. QED BY <1>4, <3>1 DEF SessionRead, Verdicts
    <2>. QED BY <1>1, <2>1, AnswerKept
  <1>. QED BY <1>2, <1>3, <1>4 DEF FetchSteps

LEMMA LeaveKept ==
  ASSUME Kept, Return \/ Throw
  PROVE  Frames' /\ [Promise!Next]_CallStage
  <1>1. /\ TypeOK /\ telling # <<>>
        /\ telling \in Seq(Calls \X Verdicts)
    BY DEF Kept, Typed, TypeOK, Return, Throw
  <1>2. PICK c \in Calls : Head(telling)[1] = c
    BY <1>1
  <1>3. Head(telling) = telling[1] /\ 1 \in 1..Len(telling)
    BY <1>1
  <1>4. stage[c] \in {"finally", "catch"}
    BY <1>2, <1>3 DEF Kept, Frames
  <1>5. CASE stage' = [stage EXCEPT ![c] = "settled"] /\ telling' = Tail(telling)
    <2>1. Frames'
      BY <1>1, <1>2, <1>5, FramesPop
    <2>2. [Promise!Next]_CallStage
      BY <1>1, <1>4, <1>5, OneMovesSeen DEF Stages
    <2>. QED BY <2>1, <2>2
  <1>6. CASE /\ stage[c] = "finally"
             /\ stage' = [stage EXCEPT ![c] = "catch"]
             /\ \E what \in CatchVerdicts(c) :
                  telling' = <<<<c, what>>>> \o Tail(telling)
    <2>1. PICK what \in Verdicts : telling' = <<<<c, what>>>> \o Tail(telling)
      BY <1>6 DEF CatchVerdicts, Verdicts
    <2>2. Frames'
      BY <1>1, <1>2, <1>6, <2>1, FramesSwap
    <2>3. [Promise!Next]_CallStage
      BY <1>1, <1>6, OneMovesSeen DEF Stages
    <2>. QED BY <2>2, <2>3
  <1>7. CASE Return
    BY <1>2, <1>5, <1>7 DEF Return
  <1>8. CASE Throw
    BY <1>2, <1>5, <1>6, <1>8, Zenon DEF Throw
  <1>. QED BY <1>7, <1>8

LEMMA DestroyKept ==
  ASSUME Kept, NEW client \in Clients, Destroy(client)
  PROVE  Frames' /\ [Promise!Next]_CallStage
  <1>1. stage \in [Calls -> Stages]
    BY DEF Kept, Typed, TypeOK
  <1>2. Frames'
    BY <1>1, FramesStay DEF Destroy
  <1>3. [Promise!Next]_CallStage
    <2>. DEFINE gone == {c \in Calls : /\ Client(c) = client
                                       /\ stage[c] \in {"pushed", "first", "second"}}
    <2>1. \A c \in Calls : stage'[c] = IF c \in gone THEN "lost" ELSE stage[c]
      BY DEF Destroy
    <2>2. \A c \in gone : c \in Calls /\ Seen(stage[c]) = "due"
      BY DEF Seen
    <2>3. Seen("lost") = "lost"
      BY DEF Seen
    <2>. HIDE DEF gone, Seen
    <2>4. CallStage' = [c \in Calls |-> IF c \in gone THEN "lost" ELSE CallStage[c]]
      BY <2>1, <2>3, SeenStage, SeenStageNext
    <2>5. CASE gone = {}
      <3>1. CallStage' = CallStage
        BY <2>4, <2>5, SeenStage
      <3>. QED BY <3>1
    <2>6. CASE gone # {}
      <3>1. \A c \in gone : CallStage[c] = "due"
        BY <2>2, SeenStage
      <3>2. Promise!Lose(gone)
        BY <2>4, <2>6, <3>1 DEF Promise!Lose
      <3>3. gone \in SUBSET Calls
        BY <2>2
      <3>. QED BY <3>2, <3>3 DEF Promise!Next
    <2>. QED BY <2>5, <2>6
  <1>. QED BY <1>2, <1>3

LEMMA StepKept ==
  ASSUME Kept, [Next]_vars
  PROVE  Frames' /\ [Promise!Next]_CallStage
  <1>1. TypeOK /\ stage \in [Calls -> Stages]
    BY DEF Kept, Typed, TypeOK
  <1>2. CASE stage' = stage /\ telling' = telling
    BY <1>1, <1>2, FramesStay, SeenStage, SeenStageNext DEF Promise!Next
  <1>3. ASSUME NEW c \in Calls, NEW refused \in Verdicts, Call(c, refused)
        PROVE  Frames' /\ [Promise!Next]_CallStage
    <2>1. PICK to \in {"pushed", "catch"} : stage' = [stage EXCEPT ![c] = to]
      BY <1>3 DEF Call
    <2>2. Frames'
      <3>1. CASE telling' = telling
        BY <1>1, <1>3, <2>1, <3>1, FramesStay DEF Call
      <3>2. CASE telling' # telling
        <4>1. /\ stage' = [stage EXCEPT ![c] = "catch"] /\ stage[c] = "none"
              /\ telling' = <<<<c, refused>>>> \o telling
          BY <1>3, <3>2 DEF Call
        <4>. QED BY <4>1, FramesPush
      <3>. QED BY <3>1, <3>2
    <2>3. [Promise!Next]_CallStage
      BY <1>1, <1>3, <2>1, OneMovesSeen DEF Call, Stages
    <2>. QED BY <2>2, <2>3
  <1>4. CASE Application
    <2>1. CASE \E t \in Tokens : SetToken(t)
      BY <1>2, <2>1 DEF SetToken
    <2>2. ASSUME NEW c \in Calls, Fetch(c) \/ Query(c) \/ Download(c)
          PROVE  Frames' /\ [Promise!Next]_CallStage
      BY <1>3, <2>2 DEF Fetch, Query, Download, Verdicts
    <2>. QED BY <1>4, <2>1, <2>2, LeaveKept, DestroyKept DEF Application, Calls
  <1>5. ASSUME NEW c \in Calls, Begin(c)
        PROVE  Frames' /\ [Promise!Next]_CallStage
    <2>1. /\ stage[c] = "pushed" /\ telling' = telling
          /\ stage' = [stage EXCEPT ![c] = "first"]
      BY <1>5 DEF Begin
    <2>2. Frames'
      BY <1>1, <2>1, FramesStay
    <2>3. [Promise!Next]_CallStage
      BY <1>1, <2>1, OneMovesSeen DEF Stages
    <2>. QED BY <2>2, <2>3
  <1>6. ASSUME NEW c \in Calls, QueryAnswered(c) \/ DownloadAnswered(c)
        PROVE  Frames' /\ [Promise!Next]_CallStage
    <2>1. PICK r \in {"rows", "none", "bad", "page"} :
            /\ Step(c, r)
            /\ Raise(c) \/ \E what \in Verdicts : Tell(c, what)
      BY <1>6 DEF QueryAnswered, DownloadAnswered, Verdicts
    <2>. QED BY <2>1, AnswerKept
  <1>7. CASE \/ \E c \in Calls : Execute(c)
             \/ \E t \in Tokens : Expire(t)
             \/ UNCHANGED vars
    BY <1>2, <1>7 DEF Execute, Expire, vars
  <1>. QED BY <1>4, <1>5, <1>6, <1>7, FetchKept DEF Next, Calls

\* Every behaviour of the clients is one that CallPromise allows: whichever
\* callbacks throw, call again or delete their client, no call is told twice,
\* but for a failure after a callback that threw (task.cc 73-160).
THEOREM ToldOnce == Spec => Promise!Spec
  <1>1. Init => Kept /\ Promise!Init
    <2>. SUFFICES ASSUME Init PROVE Kept /\ Promise!Init
      OBVIOUS
    <2>1. Frames
      BY DEF Init, Frames
    <2>2. Promise!Init
      BY DEF Init, Promise!Init, CallStage, UnderWay
    <2>. QED BY <2>1, <2>2, InitTypes DEF Kept
  <1>2. Kept /\ [Next]_vars => Kept' /\ [Promise!Next]_CallStage
    BY StepTypes, StepKept DEF Kept
  <1>. QED BY <1>1, <1>2, PTL DEF Spec, Promise!Spec

=============================================================================

--------------------------- MODULE AlarmSyncProofs ---------------------------
(* The copies of the alarms, for every number of alarms and of calls, however *)
(* many calls are in flight and whatever each of them may be.                 *)
EXTENDS AlarmSync, FiniteSetTheorems, SequenceTheorems, TLAPS

-----------------------------------------------------------------------------
(* What the properties need of a reachable state.                           *)

Working(c) == calls[c].stage \in {"waiting", "native"}
Writes(c, a) == InFlight(c) /\ requests[c].op \notin Reads /\ requests[c].alarm = a
Settled(a) == \A c \in Calls : ~Writes(c, a)

\* Where the handler of an operation can be.
PcsOf(op) ==
  CASE op = "list" -> {"sent", "find", "set", "ok"}
    [] op = "get" -> {"sent", "ok", "refused"}
    [] op = "create" -> {"sent", "insert", "invalidate", "reread", "ok", "refused"}
    [] op \in {"update", "toggle"} -> {"sent", "save", "invalidate", "reread", "ok", "refused"}
    [] OTHER -> {"sent", "softRemove", "invalidate", "ok", "refused"}

\* A request is at a place of its own operation, and has the alarm it is about; a creation has one
\* once it was inserted.
RequestFits(r) ==
  /\ r.pc \in PcsOf(r.op)
  /\ r.op = "list" => r.alarm = NoAlarm
  /\ r.op \notin {"list", "create"} => r.alarm \in Alarms
  /\ r.op = "create" /\ r.pc \in {"sent", "insert"} => r.alarm = NoAlarm
  /\ r.op = "create" /\ r.pc \notin {"sent", "insert", "refused"} => r.alarm \in Alarms

\* The app and the server agree on how far a call is.
Fits(c) ==
  /\ calls[c].stage = "idle" => requests[c].pc = "closed"
  /\ calls[c].stage = "waiting" => requests[c].heard /\ requests[c].pc # "closed"
  /\ calls[c].stage = "native" => requests[c].heard /\ requests[c].pc = "ok" /\ requests[c].op # "get"
  /\ calls[c].stage = "done" => requests[c].pc = "closed" \/ ~requests[c].heard
  /\ requests[c].pc # "closed" => RequestFits(requests[c])
CallsFit == \A c \in Calls : Fits(c)

\* Nobody has heard of an identifier that no row has had yet.
Nowhere(a) ==
  /\ a \notin triggers /\ cache[a] = "absent" /\ ui.list[a] = <<>>
  /\ listCache # NoList => listCache[a] = "absent"
NotIn(c, a) == /\ requests[c].alarm # a /\ requests[c].list[a] = "absent"
               /\ calls[c].previous[a] = <<>> /\ a \notin calls[c].todo
UnusedUnknown ==
  \A a \in Alarms : db[a] = "unused" => Nowhere(a) /\ \A c \in Calls : NotIn(c, a)

\* While the list on the screen is loading somebody is about to fill it.
LoadingEnds ==
  ui.phase = "loading" => \E c \in Calls : Working(c) /\ requests[c].op = "list"

\* A refresh that is clean has been alone since it began, and what it was told is in Redis, in the
\* cache and, as far as it got, in the operating system.
RefreshedBy(c) ==
  /\ Working(c) /\ requests[c].op = "list" /\ Alone(c)
  /\ requests[c].pc = "ok" => listCache = requests[c].list
  /\ calls[c].stage = "native" =>
       /\ cache = requests[c].list
       /\ \A a \in Alarms \ calls[c].todo :
            requests[c].list[a] # "absent" => (a \in triggers <=> requests[c].list[a] = "on")
CleanRefresh == \A c \in Calls : calls[c].clean => RefreshedBy(c)

\* Where nothing has set the copies apart: nobody has stopped listening, but to a list; calls in
\* flight do not conflict; a list that was read is what the rows are; and an alarm that nobody is
\* writing has the same copy everywhere, while the writer of one knows what it has left to do.
HeardOut ==
  \A c \in Calls : InFlight(c) => (requests[c].heard \/ requests[c].op = "list") /\ ~calls[c].left
Apart ==
  \A c, d \in Calls : c # d /\ InFlight(c) /\ InFlight(d) =>
    ~Conflict(requests[c].op, requests[c].alarm, requests[d].op, requests[d].alarm)
ListKept ==
  listCache \in {NoList, AllLive} \/ \E c \in Calls : requests[c].pc = "invalidate"
CopiesOf(a) ==
  /\ cache[a] = AllLive[a]
  /\ ui.phase = "data" => ui.list[a] = Tiles(AllLive)[a]
  /\ a \in Live => (a \in triggers <=> db[a] = "on")
  /\ trouble = "none" /\ a \in triggers => a \in Live
WriteOf(c, a) ==
  /\ requests[c].pc # "refused"
  /\ requests[c].op = "delete" /\ requests[c].pc \notin {"sent", "softRemove"} <=> a \notin Live
  /\ requests[c].op \in {"create", "delete"} => ui.list[a] = <<>>
  /\ requests[c].op = "toggle" => \E s \in Switch : ui.list[a] = <<s>>
  /\ requests[c].op # "delete" /\ requests[c].pc = "ok" => requests[c].row = db[a]
  /\ calls[c].stage = "native" => cache[a] = AllLive[a]
ReadOf(c) ==
  /\ requests[c].op = "list" /\ requests[c].pc \in {"set", "ok"} => requests[c].list = AllLive
  /\ requests[c].op = "get" /\ requests[c].pc = "ok" =>
       requests[c].alarm \in Live /\ requests[c].row = db[requests[c].alarm]

Copied  == \A a \in Alarms : Settled(a) => CopiesOf(a)
Writing == \A a \in Alarms, c \in Calls : Writes(c, a) => WriteOf(c, a)
Reading == \A c \in Calls : ReadOf(c)
Agreed  == HeardOut /\ Apart /\ ListKept /\ Copied /\ Writing /\ Reading
InStep  == trouble # "open" => Agreed

Inv == TypeOK /\ CallsFit /\ UnusedUnknown /\ LoadingEnds /\ CleanRefresh /\ InStep

-----------------------------------------------------------------------------
(* Requests and calls                                                       *)

\* The fields of a request that its handler never changes.
SameCall(q, r) == q.op = r.op /\ q.premium = r.premium /\ q.heard = r.heard

\* A handler that goes on.
LEMMA PcFields ==
  ASSUME NEW q \in Request, NEW p \in Pcs
  PROVE  LET r == [q EXCEPT !.pc = p]
         IN  /\ r \in Request /\ SameCall(r, q) /\ r.pc = p
             /\ r.alarm = q.alarm /\ r.row = q.row /\ r.list = q.list
  BY DEF Request, SameCall

\* A request whose answer nobody waits for.
LEMMA UnheardFields ==
  ASSUME NEW q \in Request
  PROVE  LET r == [q EXCEPT !.heard = FALSE]
         IN  /\ r \in Request /\ r.op = q.op /\ r.pc = q.pc /\ ~r.heard
             /\ r.alarm = q.alarm /\ r.row = q.row /\ r.list = q.list
  BY DEF Request

\* A list as tiles has one for each alarm of it.
LEMMA TilesFields ==
  ASSUME NEW l \in List
  PROVE  /\ Tiles(l) \in Shown
         /\ \A a \in Alarms : /\ l[a] = "absent" => Tiles(l)[a] = <<>>
                              /\ l[a] # "absent" => l[a] \in Switch /\ Tiles(l)[a] = <<l[a]>>
<1>1. \A a \in Alarms : l[a] \in Switch \cup {"absent"}
  BY DEF List
<1>2. \A s \in Switch : <<s>> \in Seq(Switch)
  BY SMT
<1>3. <<>> \in Seq(Switch)
  BY SMT
<1>4. QED
  BY <1>1, <1>2, <1>3 DEF Tiles, Shown

\* The list without alarms.
LEMMA EmptyFields ==
  /\ EmptyList \in List /\ NoTiles \in Shown
  /\ \A a \in Alarms : EmptyList[a] = "absent" /\ NoTiles[a] = <<>>
<1>1. EmptyList \in List /\ \A a \in Alarms : EmptyList[a] = "absent"
  BY DEF EmptyList, List
<1>2. QED
  BY <1>1, TilesFields DEF NoTiles

\* A request as it is sent, ...
LEMMA SentFields ==
  ASSUME NEW o \in Ops, NEW a \in Alarms \cup {NoAlarm}, NEW s \in Switch, NEW p \in BOOLEAN
  PROVE  LET r == Sent(o, a, s, p)
         IN  /\ r \in Request /\ r.op = o /\ r.alarm = a /\ r.list = EmptyList
             /\ r.premium = p /\ r.heard /\ r.pc = "sent"
  BY EmptyFields DEF Sent, Request, Pcs

\* ... and one that is over.
LEMMA ClosedFields ==
  /\ Closed \in Request /\ Closed.op = "list" /\ Closed.alarm = NoAlarm /\ Closed.list = EmptyList
  /\ Closed.heard /\ Closed.pc = "closed"
  BY EmptyFields DEF Closed, Sent, Request, Pcs, Ops, Switch

\* A call that is over, ...
LEMMA EndedFields ==
  /\ Ended \in Call /\ Ended.stage = "done" /\ Ended.previous = NoTiles /\ Ended.todo = {}
  /\ ~Ended.clean /\ ~Ended.left
  BY EmptyFields DEF Ended, Call, Stages

\* ... one that has not begun, ...
LEMMA UnusedFields ==
  /\ Unused \in Call /\ Unused.stage = "idle" /\ Unused.previous = NoTiles /\ Unused.todo = {}
  /\ ~Unused.clean /\ ~Unused.left
  BY EmptyFields DEF Unused, Ended, Call, Stages

\* ... and one that begins.
LEMMA BegunFields ==
  ASSUME NEW v \in Shown, NEW b \in BOOLEAN
  PROVE  LET k == [Ended EXCEPT !.stage = "waiting", !.clean = b, !.previous = v]
         IN  k \in Call /\ k.stage = "waiting" /\ k.previous = v /\ k.todo = {} /\ k.clean = b /\ ~k.left
  BY EmptyFields DEF Ended, Call, Stages

\* The refresh after an edit.
LEMMA AfterEditFields ==
  ASSUME NEW b \in BOOLEAN
  PROVE  LET k == [Ended EXCEPT !.stage = "waiting", !.clean = b]
         IN  k \in Call /\ k.stage = "waiting" /\ k.previous = NoTiles /\ k.todo = {} /\ k.clean = b /\ ~k.left
  BY EmptyFields DEF Ended, Call, Stages

\* A call that goes on to the operating system, ...
LEMMA StageFields ==
  ASSUME NEW k \in Call, NEW s \in Stages
  PROVE  LET e == [k EXCEPT !.stage = s]
         IN  e \in Call /\ e.stage = s /\ e.previous = k.previous /\ e.todo = k.todo /\ e.clean = k.clean /\ e.left = k.left
  BY DEF Call

\* ... one that has company, ...
LEMMA CompanyFields ==
  ASSUME NEW k \in Call
  PROVE  LET e == [k EXCEPT !.clean = FALSE]
         IN  e \in Call /\ e.stage = k.stage /\ e.previous = k.previous /\ e.todo = k.todo /\ ~e.clean /\ e.left = k.left
  BY DEF Call

\* ... and one whose form was left.
LEMMA LeftFields ==
  ASSUME NEW k \in Call
  PROVE  LET e == [k EXCEPT !.left = TRUE]
         IN  e \in Call /\ e.stage = k.stage /\ e.previous = k.previous /\ e.todo = k.todo /\ e.clean = k.clean /\ e.left
  BY DEF Call

\* The rows that are not deleted, as a list.
LEMMA AllLiveFields ==
  ASSUME TypeOK
  PROVE  /\ AllLive \in List
         /\ \A a \in Alarms : /\ a \in Live <=> db[a] \in Switch
                              /\ a \in Live => AllLive[a] = db[a] /\ AllLive[a] # "absent"
                              /\ a \notin Live => AllLive[a] = "absent"
  BY DEF TypeOK, ServiceTypeOK, AllLive, Live, List, Row, Switch

\* What the list on the screen makes of an alarm's tile.
LEMMA TileFields ==
  ASSUME NEW t \in Seq(Switch), NEW s \in Switch
  PROVE  /\ Flip(s) \in Switch /\ <<>> \in Seq(Switch)
         /\ Flipped(t) \in Seq(Switch) /\ Replaced(t, s) \in Seq(Switch) /\ Append(t, s) \in Seq(Switch)
         /\ t = <<>> => Append(t, s) = <<s>>
         /\ \A r \in Switch : t = <<r>> => Flipped(t) = <<Flip(r)>> /\ Replaced(t, s) = <<s>>
<1>1. \A r \in Switch : Flip(r) \in Switch
  BY DEF Flip, Switch
<1>2. Flipped(t) \in Seq(Switch) /\ Replaced(t, s) \in Seq(Switch)
  <2>1. DOMAIN t = 1 .. Len(t) /\ Len(t) \in Nat /\ \A i \in 1 .. Len(t) : t[i] \in Switch
    BY LenProperties, ElementOfSeq
  <2>2. \A i \in 1 .. Len(t) : Flip(t[i]) \in Switch
    BY <1>1, <2>1
  <2>3. [i \in 1 .. Len(t) |-> Flip(t[i])] \in Seq(Switch) /\ [i \in 1 .. Len(t) |-> s] \in Seq(Switch)
    BY <2>1, <2>2
  <2>4. QED
    BY <2>1, <2>3 DEF Flipped, Replaced
<1>3. Append(t, s) \in Seq(Switch) /\ <<>> \in Seq(Switch)
  BY AppendProperties
<1>4. Append(<<>>, s) = <<s>>
  OBVIOUS
<1>5. ASSUME NEW r \in Switch, t = <<r>>
      PROVE  Flipped(t) = <<Flip(r)>> /\ Replaced(t, s) = <<s>>
  <2>1. DOMAIN t = 1 .. 1 /\ t[1] = r
    BY <1>5
  <2>2. Flipped(t) = [i \in 1 .. 1 |-> Flip(t[i])] /\ Replaced(t, s) = [i \in 1 .. 1 |-> s]
    BY <2>1 DEF Flipped, Replaced
  <2>3. Flipped(t) = [i \in 1 .. 1 |-> Flip(r)]
    BY <2>1, <2>2
  <2>4. \A x : [i \in 1 .. 1 |-> x] = <<x>>
    OBVIOUS
  <2>5. QED
    BY <2>2, <2>3, <2>4
<1>6. QED
  BY <1>1, <1>2, <1>3, <1>4, <1>5

\* Changing one tile of the screen.
LEMMA UiFields ==
  ASSUME NEW u \in [phase : {"data", "loading"}, list : Shown], NEW a \in Alarms, NEW t \in Seq(Switch)
  PROVE  /\ LET v == [u EXCEPT !.list[a] = t]
            IN  /\ v \in [phase : {"data", "loading"}, list : Shown] /\ v.phase = u.phase
                /\ \A b \in Alarms : v.list[b] = IF b = a THEN t ELSE u.list[b]
         /\ LET v == [phase |-> "data", list |-> [u.list EXCEPT ![a] = t]]
            IN  /\ v \in [phase : {"data", "loading"}, list : Shown] /\ v.phase = "data"
                /\ \A b \in Alarms : v.list[b] = IF b = a THEN t ELSE u.list[b]
  BY DEF Shown

-----------------------------------------------------------------------------
(* One call's turn                                                          *)

\* A step of one call leaves the others as they are; it may keep them company.
Turn(c) ==
  /\ requests' \in [Calls -> Request] /\ calls' \in [Calls -> Call]
  /\ \A d \in Calls \ {c} :
       /\ requests'[d] = requests[d]
       /\ calls'[d].stage = calls[d].stage /\ calls'[d].previous = calls[d].previous
       /\ calls'[d].todo = calls[d].todo /\ calls'[d].left = calls[d].left
       /\ calls'[d].clean => calls[d].clean

\* A step of a handler, ...
LEMMA ServeTurn ==
  ASSUME TypeOK, NEW c \in Calls, NEW q \in Request,
         requests' = [requests EXCEPT ![c] = q], calls' = calls
  PROVE  Turn(c) /\ requests'[c] = q /\ calls'[c] = calls[c]
  BY DEF TypeOK, ServiceTypeOK, Turn

\* ... a step of the app, ...
LEMMA AppTurn ==
  ASSUME TypeOK, NEW c \in Calls, NEW k \in Call,
         calls' = [calls EXCEPT ![c] = k], requests' = requests
  PROVE  Turn(c) /\ requests'[c] = requests[c] /\ calls'[c] = k
  BY DEF TypeOK, ServiceTypeOK, Turn

\* ... a step of both, ...
LEMMA BothTurn ==
  ASSUME TypeOK, NEW c \in Calls, NEW q \in Request, NEW k \in Call,
         requests' = [requests EXCEPT ![c] = q], calls' = [calls EXCEPT ![c] = k]
  PROVE  Turn(c) /\ requests'[c] = q /\ calls'[c] = k
  BY DEF TypeOK, ServiceTypeOK, Turn

\* ... one that ends a call, ...
LEMMA EndTurn ==
  ASSUME TypeOK, NEW c \in Calls,
         requests' = [requests EXCEPT ![c] = Closed], calls' = [calls EXCEPT ![c] = Ended]
  PROVE  Turn(c) /\ requests'[c] = Closed /\ calls'[c] = Ended
<1>1. Closed \in Request /\ Ended \in Call
  BY ClosedFields, EndedFields
<1>2. QED
  BY <1>1, BothTurn

\* ... and one that starts a call.
LEMMA StartTurn ==
  ASSUME TypeOK, NEW c \in Calls, NEW q \in Request, NEW k \in Call,
         requests' = [requests EXCEPT ![c] = q],
         calls' = [d \in Calls |-> IF d = c THEN k ELSE [calls[d] EXCEPT !.clean = FALSE]]
  PROVE  /\ Turn(c) /\ requests'[c] = q /\ calls'[c] = k
         /\ \A d \in Calls \ {c} : ~calls'[d].clean
<1>1. /\ requests' \in [Calls -> Request] /\ requests'[c] = q
      /\ \A d \in Calls \ {c} : requests'[d] = requests[d]
  BY DEF TypeOK, ServiceTypeOK
<1>2. calls'[c] = k /\ \A d \in Calls \ {c} : calls'[d] = [calls[d] EXCEPT !.clean = FALSE]
  OBVIOUS
<1>3. ASSUME NEW d \in Calls \ {c}
      PROVE  /\ calls'[d] \in Call /\ ~calls'[d].clean
             /\ calls'[d].stage = calls[d].stage /\ calls'[d].previous = calls[d].previous
             /\ calls'[d].todo = calls[d].todo /\ calls'[d].left = calls[d].left
  <2>1. calls[d] \in Call
    BY DEF TypeOK
  <2>2. QED
    BY <1>2, <2>1, CompanyFields
<1>4. calls' \in [Calls -> Call]
  BY <1>2, <1>3
<1>5. QED
  BY <1>1, <1>2, <1>3, <1>4 DEF Turn

\* A handler goes on, ...
LEMMA GotoTurn ==
  ASSUME TypeOK, NEW c \in Calls, NEW p \in Pcs, Goto(c, p), calls' = calls
  PROVE  /\ Turn(c) /\ calls'[c] = calls[c]
         /\ SameCall(requests'[c], requests[c]) /\ requests'[c].pc = p
         /\ requests'[c].alarm = requests[c].alarm /\ requests'[c].row = requests[c].row
         /\ requests'[c].list = requests[c].list
<1> DEFINE q == [requests[c] EXCEPT !.pc = p]
<1>1. requests[c] \in Request
  BY DEF TypeOK, ServiceTypeOK
<1>2. /\ q \in Request /\ SameCall(q, requests[c]) /\ q.pc = p
      /\ q.alarm = requests[c].alarm /\ q.row = requests[c].row /\ q.list = requests[c].list
  BY <1>1, PcFields
<1>3. requests' = [requests EXCEPT ![c] = q]
  BY DEF Goto
<1> HIDE DEF q
<1>4. Turn(c) /\ requests'[c] = q /\ calls'[c] = calls[c]
  BY <1>2, <1>3, ServeTurn
<1>5. QED
  BY <1>2, <1>4

\* ... or answers whoever still listens.
LEMMA AnswerTurn ==
  ASSUME TypeOK, NEW c \in Calls, NEW r \in Request, Answer(c, r), calls' = calls
  PROVE  /\ Turn(c) /\ calls'[c] = calls[c]
         /\ requests[c].heard => requests'[c] = r
         /\ ~requests[c].heard => requests'[c] = Closed
<1> DEFINE q == IF requests[c].heard THEN r ELSE Closed
<1>1. q \in Request
  BY ClosedFields
<1>2. requests' = [requests EXCEPT ![c] = q]
  BY DEF Answer
<1>3. (requests[c].heard => q = r) /\ (~requests[c].heard => q = Closed)
  OBVIOUS
<1> HIDE DEF q
<1>4. Turn(c) /\ requests'[c] = q /\ calls'[c] = calls[c]
  BY <1>1, <1>2, ServeTurn
<1>5. QED
  BY <1>3, <1>4

-----------------------------------------------------------------------------
(* What one call's turn preserves                                           *)

\* The other calls are in flight, and write, what they did.
LEMMA OtherCalls ==
  ASSUME NEW c \in Calls, Turn(c)
  PROVE  /\ \A d \in Calls \ {c} : InFlight(d)' <=> InFlight(d)
         /\ \A d \in Calls \ {c}, a \in Alarms : Writes(d, a)' <=> Writes(d, a)
         /\ Alone(c)' <=> Alone(c)
<1>1. \A d \in Calls \ {c} : InFlight(d)' <=> InFlight(d)
  BY DEF Turn, InFlight
<1>2. \A d \in Calls \ {c}, a \in Alarms : Writes(d, a)' <=> Writes(d, a)
  BY <1>1 DEF Turn, Writes
<1>3. Alone(c)' <=> Alone(c)
  BY <1>1 DEF Alone
<1>4. QED
  BY <1>1, <1>2, <1>3

\* Two calls conflict with each other.
LEMMA ConflictIsMutual == \A o, a, p, b : Conflict(o, a, p, b) <=> Conflict(p, b, o, a)
<1>1. \A o, p : {o, p} = {p, o}
  OBVIOUS
<1>2. QED
  BY <1>1 DEF Conflict

\* App and server still agree on the call whose turn it was not.
LEMMA FitsStep ==
  ASSUME CallsFit, NEW c \in Calls, Turn(c), Fits(c)'
  PROVE  CallsFit'
<1>1. ASSUME NEW d \in Calls \ {c}
      PROVE  Fits(d)'
  BY DEF CallsFit, Fits, Turn
<1>2. QED
  BY <1>1 DEF CallsFit

\* No step brings an unused identifier back, so what is unknown stays so.
LEMMA KnownStep ==
  ASSUME UnusedUnknown, NEW c \in Calls, Turn(c),
         \A a \in Alarms : db'[a] = "unused" => db[a] = "unused" /\ Nowhere(a)' /\ NotIn(c, a)'
  PROVE  UnusedUnknown'
<1>1. ASSUME NEW a \in Alarms, db'[a] = "unused", NEW d \in Calls
      PROVE  NotIn(d, a)'
  <2>1. CASE d = c
    BY <1>1, <2>1
  <2>2. CASE d # c
    BY <1>1, <2>2 DEF UnusedUnknown, NotIn, Turn
  <2>3. QED
    BY <2>1, <2>2
<1>2. QED
  BY <1>1 DEF UnusedUnknown

\* A list that loads is still awaited, unless by the call whose turn it was.
LEMMA LoadingStep ==
  ASSUME LoadingEnds, NEW c \in Calls, Turn(c),
         ui'.phase = "loading" =>
           \/ Working(c)' /\ requests'[c].op = "list"
           \/ ui.phase = "loading" /\ ~(Working(c) /\ requests[c].op = "list")
  PROVE  LoadingEnds'
<1>1. SUFFICES ASSUME ui'.phase = "loading"
               PROVE  \E d \in Calls : Working(d)' /\ requests'[d].op = "list"
  BY DEF LoadingEnds
<1>2. CASE Working(c)' /\ requests'[c].op = "list"
  BY <1>2
<1>3. CASE ui.phase = "loading" /\ ~(Working(c) /\ requests[c].op = "list")
  <2>1. PICK d \in Calls : Working(d) /\ requests[d].op = "list"
    BY <1>3 DEF LoadingEnds
  <2>2. d # c /\ Working(d)' /\ requests'[d].op = "list"
    BY <1>3, <2>1 DEF Turn, Working
  <2>3. QED
    BY <2>2
<1>4. QED
  BY <1>1, <1>2, <1>3

\* A clean refresh has company when another call takes a turn, or loses its cleanness.
LEMMA CleanStep ==
  ASSUME CleanRefresh, NEW c \in Calls, Turn(c),
         InFlight(c) \/ \A d \in Calls \ {c} : ~calls'[d].clean,
         calls'[c].clean => RefreshedBy(c)'
  PROVE  CleanRefresh'
<1>1. ASSUME NEW d \in Calls \ {c}
      PROVE  ~calls'[d].clean
  <2>1. SUFFICES ASSUME calls'[d].clean
                 PROVE  FALSE
    OBVIOUS
  <2>2. Alone(d)
    BY <2>1 DEF Turn, CleanRefresh, RefreshedBy
  <2>3. QED
    BY <2>1, <2>2 DEF Alone
<1>2. QED
  BY <1>1 DEF CleanRefresh

-----------------------------------------------------------------------------
(* ... where nothing has set the copies apart                               *)

\* Everyone is still listened to.
LEMMA HeardStep ==
  ASSUME HeardOut, NEW c \in Calls, Turn(c),
         InFlight(c)' => (requests'[c].heard \/ requests'[c].op = "list") /\ ~calls'[c].left
  PROVE  HeardOut'
<1>1. ASSUME NEW d \in Calls \ {c}
      PROVE  InFlight(d)' => (requests'[d].heard \/ requests'[d].op = "list") /\ ~calls'[d].left
  BY OtherCalls DEF HeardOut, Turn
<1>2. QED
  BY <1>1 DEF HeardOut

\* A call that stays about the same alarm, or overlaps none, conflicts with none.
LEMMA ApartStep ==
  ASSUME Apart, NEW c \in Calls, Turn(c),
         InFlight(c)' =>
           \/ InFlight(c) /\ requests'[c].op = requests[c].op /\ requests'[c].alarm = requests[c].alarm
           \/ ~Overlaps(c, requests'[c].op, requests'[c].alarm)
  PROVE  Apart'
<1> DEFINE Clash(d, e) == Conflict(requests[d].op, requests[d].alarm, requests[e].op, requests[e].alarm)
<1>1. ASSUME NEW d \in Calls \ {c}, InFlight(c)', InFlight(d)'
      PROVE  ~Conflict(requests'[c].op, requests'[c].alarm, requests'[d].op, requests'[d].alarm)
  <2>1. InFlight(d) /\ requests'[d] = requests[d]
    BY <1>1, OtherCalls DEF Turn
  <2>2. CASE InFlight(c) /\ requests'[c].op = requests[c].op /\ requests'[c].alarm = requests[c].alarm
    BY <2>1, <2>2 DEF Apart
  <2>3. CASE ~Overlaps(c, requests'[c].op, requests'[c].alarm)
    BY <2>1, <2>3 DEF Overlaps
  <2>4. QED
    BY <1>1, <2>2, <2>3
<1>2. ASSUME NEW d \in Calls \ {c}, NEW e \in Calls \ {c}, d # e, InFlight(d)', InFlight(e)'
      PROVE  ~Conflict(requests'[d].op, requests'[d].alarm, requests'[e].op, requests'[e].alarm)
  <2>1. InFlight(d) /\ InFlight(e) /\ requests'[d] = requests[d] /\ requests'[e] = requests[e]
    BY <1>2, OtherCalls DEF Turn
  <2>2. QED
    BY <1>2, <2>1 DEF Apart
<1>3. ASSUME NEW d \in Calls, NEW e \in Calls, d # e, InFlight(d)', InFlight(e)'
      PROVE  ~Conflict(requests'[d].op, requests'[d].alarm, requests'[e].op, requests'[e].alarm)
  <2>1. CASE d = c
    BY <1>1, <1>3, <2>1
  <2>2. CASE e = c
    <3>1. ~Conflict(requests'[e].op, requests'[e].alarm, requests'[d].op, requests'[d].alarm)
      BY <1>1, <1>3, <2>2
    <3>2. QED
      BY <3>1, ConflictIsMutual
  <2>3. CASE d # c /\ e # c
    BY <1>2, <1>3, <2>3
  <2>4. QED
    BY <2>1, <2>2, <2>3
<1>4. QED
  BY <1>3 DEF Apart

\* The list in Redis changes only with an invalidation.
LEMMA KeptStep ==
  ASSUME ListKept, NEW c \in Calls, Turn(c),
         db' = db, listCache' = listCache, requests[c].pc # "invalidate"
  PROVE  ListKept'
<1>1. AllLive' = AllLive
  BY DEF AllLive, Live
<1>2. CASE listCache \in {NoList, AllLive}
  BY <1>1, <1>2 DEF ListKept
<1>3. ASSUME NEW d \in Calls, requests[d].pc = "invalidate"
      PROVE  ListKept'
  <2>1. requests'[d].pc = "invalidate"
    BY <1>3 DEF Turn
  <2>2. QED
    BY <2>1 DEF ListKept
<1>4. QED
  BY <1>2, <1>3 DEF ListKept

\* A call that touches one alarm at most, which nobody else writes, keeps the copies in step, when
\* it does so for that alarm.
LEMMA WriteStep ==
  ASSUME TypeOK, TypeOK', Copied, Writing, Reading, NEW c \in Calls, Turn(c), NEW b,
         trouble' = trouble,
         ui'.phase = "data" => ui.phase = "data",
         \A a \in Alarms \ {b} :
           /\ db'[a] = db[a] /\ cache'[a] = cache[a] /\ ui'.list[a] = ui.list[a]
           /\ a \in triggers' <=> a \in triggers
           /\ ~Writes(c, a) /\ ~Writes(c, a)',
         b \in Alarms => \A d \in Calls \ {c} : ~Writes(d, b),
         db' = db \/ \A d \in Calls \ {c} : InFlight(d) => requests[d].op # "list" /\ requests[d].alarm # b,
         b \in Alarms => (Settled(b)' => CopiesOf(b)') /\ (Writes(c, b)' => WriteOf(c, b)'),
         ReadOf(c)'
  PROVE  Copied' /\ Writing' /\ Reading'
<1>1. ASSUME NEW a \in Alarms \ {b}, Settled(a)'
      PROVE  CopiesOf(a)'
  <2>1. Settled(a)
    BY <1>1, OtherCalls DEF Settled
  <2>2. CopiesOf(a)
    BY <2>1 DEF Copied
  <2>3. /\ a \in Live' <=> a \in Live
        /\ AllLive'[a] = AllLive[a] /\ Tiles(AllLive)'[a] = Tiles(AllLive)[a]
    BY DEF AllLive, Live, Tiles
  <2>4. QED
    BY <2>2, <2>3 DEF CopiesOf
<1>2. ASSUME NEW a \in Alarms \ {b}, NEW d \in Calls, Writes(d, a)'
      PROVE  WriteOf(d, a)'
  <2>1. d # c /\ Writes(d, a)
    BY <1>2, OtherCalls
  <2>2. WriteOf(d, a)
    BY <2>1 DEF Writing
  <2>3. /\ a \in Live' <=> a \in Live
        /\ AllLive'[a] = AllLive[a]
    BY DEF AllLive, Live
  <2>4. requests'[d] = requests[d] /\ calls'[d].stage = calls[d].stage
    BY <2>1 DEF Turn
  <2>5. QED
    BY <2>2, <2>3, <2>4 DEF WriteOf
<1>3. ASSUME b \in Alarms, NEW d \in Calls, Writes(d, b)'
      PROVE  WriteOf(d, b)'
  BY <1>3, OtherCalls
<1>4. ASSUME NEW d \in Calls \ {c}
      PROVE  ReadOf(d)'
  <2>1. ReadOf(d) /\ requests'[d] = requests[d]
    BY DEF Reading, Turn
  <2>2. CASE db' = db
    <3>1. AllLive' = AllLive /\ Live' = Live
      BY <2>2 DEF AllLive, Live
    <3>2. QED
      BY <2>1, <2>2, <3>1 DEF ReadOf
  <2>3. CASE InFlight(d) => requests[d].op # "list" /\ requests[d].alarm # b
    <3>1. SUFFICES ASSUME requests[d].pc \in {"set", "ok"}
                   PROVE  ReadOf(d)'
      BY <2>1 DEF ReadOf
    <3>2. requests[d].op # "list" /\ requests[d].alarm # b
      BY <2>3, <3>1 DEF InFlight
    <3>3. requests[d].alarm \in Live => requests[d].alarm \in Live'
      BY <3>2 DEF Live
    <3>4. requests[d].alarm \in Live => requests[d].alarm \in Alarms
      BY DEF Live
    <3>5. QED
      BY <2>1, <3>2, <3>3, <3>4 DEF ReadOf
  <2>4. QED
    BY <2>2, <2>3
<1>5. Copied'
  BY <1>1 DEF Copied
<1>6. Writing'
  BY <1>2, <1>3 DEF Writing
<1>7. Reading'
  BY <1>4 DEF Reading
<1>8. QED
  BY <1>5, <1>6, <1>7

\* Where nobody writes afterwards, all copies have to be right.
LEMMA ReadStep ==
  ASSUME Reading, NEW c \in Calls, Turn(c), db' = db,
         \A d \in Calls \ {c}, a \in Alarms : ~Writes(d, a),
         requests'[c].op \in Reads,
         \A a \in Alarms : CopiesOf(a)',
         ReadOf(c)'
  PROVE  Copied' /\ Writing' /\ Reading'
<1>1. \A d \in Calls, a \in Alarms : ~Writes(d, a)'
  BY OtherCalls DEF Writes
<1>2. AllLive' = AllLive /\ Live' = Live
  BY DEF AllLive, Live
<1>3. ASSUME NEW d \in Calls \ {c}
      PROVE  ReadOf(d)'
  BY <1>2 DEF Reading, ReadOf, Turn
<1>4. QED
  BY <1>1, <1>3 DEF Copied, Writing, Reading

\* Who reads the list meets no writer ...
LEMMA ListMeetsNoWriter ==
  ASSUME TypeOK, Apart, Copied, NEW c \in Calls, InFlight(c), requests[c].op = "list"
  PROVE  /\ \A d \in Calls, a \in Alarms : ~Writes(d, a)
         /\ \A a \in Alarms : Settled(a) /\ CopiesOf(a)
         /\ cache = AllLive
<1>1. ASSUME NEW d \in Calls, NEW a \in Alarms
      PROVE  ~Writes(d, a)
  <2>1. CASE d = c
    BY <2>1 DEF Writes, Reads
  <2>2. CASE d # c
    BY <2>2 DEF Writes, Apart, Conflict
  <2>3. QED
    BY <2>1, <2>2
<1>2. \A a \in Alarms : Settled(a) /\ CopiesOf(a)
  BY <1>1 DEF Settled, Copied
<1>3. AllLive \in List /\ cache \in List
  BY AllLiveFields DEF TypeOK
<1>4. cache = AllLive
  BY <1>2, <1>3 DEF CopiesOf, List
<1>5. QED
  BY <1>1, <1>2, <1>4

\* ... and who writes meets no reader and no writer of the same alarm.
LEMMA WriterIsAlone ==
  ASSUME Apart, NEW c \in Calls, InFlight(c), requests[c].op \notin Reads
  PROVE  \A d \in Calls \ {c} : InFlight(d) =>
           /\ requests[d].op # "list"
           /\ requests[c].alarm # NoAlarm => requests[d].alarm # requests[c].alarm
  BY DEF Apart, Conflict

\* While somebody writes the screen is not loading.
LEMMA WriterSeesList ==
  ASSUME TypeOK, LoadingEnds, Apart, NEW c \in Calls, InFlight(c), requests[c].op \notin Reads
  PROVE  ui.phase = "data"
<1>1. ui.phase \in {"data", "loading"}
  BY DEF TypeOK
<1>2. ASSUME NEW d \in Calls, Working(d), requests[d].op = "list"
      PROVE  FALSE
  BY <1>2, WriterIsAlone DEF Working, InFlight, Reads
<1>3. QED
  BY <1>1, <1>2 DEF LoadingEnds

-----------------------------------------------------------------------------
(* Calls begin                                                              *)

\* What a call is when it has begun, and that it began after whoever conflicts with it had ended.
LEMMA BeginTurn ==
  ASSUME TypeOK, CallsFit, NEW c \in Calls, NEW o \in Ops, NEW a \in Alarms \cup {NoAlarm},
         NEW s \in Switch, NEW p \in BOOLEAN, NEW v \in Shown, Begin(c, o, a, s, p, v)
  PROVE  /\ Turn(c) /\ ~InFlight(c)
         /\ \A d \in Calls \ {c} : ~calls'[d].clean
         /\ requests'[c].op = o /\ requests'[c].alarm = a /\ requests'[c].list = EmptyList
         /\ requests'[c].heard /\ requests'[c].pc = "sent"
         /\ calls'[c].stage = "waiting" /\ calls'[c].previous = v /\ calls'[c].todo = {} /\ ~calls'[c].left
         /\ calls'[c].clean => o = "list" /\ Alone(c)
         /\ trouble' \in Troubles /\ faults' \in 0..MaxFaults
         /\ trouble' # "open" => trouble' = trouble /\ ~Overlaps(c, o, a)
<1> DEFINE q == Sent(o, a, s, p)
           k == [Ended EXCEPT !.stage = "waiting", !.clean = o = "list" /\ Alone(c), !.previous = v]
<1>1. q \in Request /\ q.op = o /\ q.alarm = a /\ q.list = EmptyList /\ q.heard /\ q.pc = "sent"
  BY SentFields
<1>2. (o = "list" /\ Alone(c)) \in BOOLEAN
  OBVIOUS
<1>3. /\ k \in Call /\ k.stage = "waiting" /\ k.previous = v /\ k.todo = {} /\ ~k.left
      /\ k.clean = (o = "list" /\ Alone(c))
  BY <1>2, BegunFields
<1>4. /\ requests' = [requests EXCEPT ![c] = q]
      /\ calls' = [d \in Calls |-> IF d = c THEN k ELSE [calls[d] EXCEPT !.clean = FALSE]]
      /\ calls[c].stage = "idle" /\ Record(TRUE, Overlaps(c, o, a))
  BY DEF Begin
<1> HIDE DEF q, k
<1>5. Turn(c) /\ requests'[c] = q /\ calls'[c] = k /\ \A d \in Calls \ {c} : ~calls'[d].clean
  BY <1>1, <1>3, <1>4, StartTurn
<1>6. ~InFlight(c)
  BY <1>4 DEF CallsFit, Fits, InFlight
<1>7. /\ trouble' \in Troubles /\ faults' \in 0..MaxFaults
      /\ trouble' # "open" => trouble' = trouble /\ ~Overlaps(c, o, a)
  BY <1>4 DEF Record, TypeOK, Troubles
<1>8. QED
  BY <1>1, <1>3, <1>5, <1>6, <1>7

\* A call that begins about an alarm the app knows leaves everything in order but, perhaps, the copy
\* of that alarm on the screen.
LEMMA BeginStep ==
  ASSUME Inv, NEW c \in Calls, NEW o \in Ops, NEW a \in Alarms \cup {NoAlarm},
         NEW s \in Switch, NEW p \in BOOLEAN, NEW v \in Shown, Begin(c, o, a, s, p, v),
         db' = db, listCache' = listCache, cache' = cache, triggers' = triggers,
         o \in {"list", "create"} <=> a = NoAlarm,
         ui' \in [phase : {"data", "loading"}, list : Shown],
         ui'.phase = "loading" => o = "list" \/ ui.phase = "loading",
         \A x \in Alarms : db[x] = "unused" => x # a /\ v[x] = <<>> /\ ui'.list[x] = <<>>
  PROVE  /\ TypeOK' /\ CallsFit' /\ UnusedUnknown' /\ LoadingEnds' /\ CleanRefresh'
         /\ trouble # "open" /\ trouble' # "open" => HeardOut' /\ Apart' /\ ListKept'
         /\ ReadOf(c)'
<1>1. TypeOK /\ CallsFit /\ UnusedUnknown /\ LoadingEnds /\ CleanRefresh /\ InStep
  BY DEF Inv
<1>2. /\ Turn(c) /\ ~InFlight(c)
      /\ \A d \in Calls \ {c} : ~calls'[d].clean
      /\ requests'[c].op = o /\ requests'[c].alarm = a /\ requests'[c].list = EmptyList
      /\ requests'[c].heard /\ requests'[c].pc = "sent"
      /\ calls'[c].stage = "waiting" /\ calls'[c].previous = v /\ calls'[c].todo = {} /\ ~calls'[c].left
      /\ calls'[c].clean => o = "list" /\ Alone(c)
      /\ trouble' \in Troubles /\ faults' \in 0..MaxFaults
      /\ trouble' # "open" => trouble' = trouble /\ ~Overlaps(c, o, a)
  BY <1>1, BeginTurn
<1>3. TypeOK'
  BY <1>1, <1>2 DEF TypeOK, ServiceTypeOK, Turn
<1>4. CallsFit'
  <2>1. requests'[c].pc \in PcsOf(requests'[c].op)
    BY <1>2 DEF PcsOf, Ops
  <2>2. RequestFits(requests'[c])
    BY <1>2, <2>1 DEF RequestFits, Ops
  <2>3. Fits(c)'
    BY <1>2, <2>2 DEF Fits
  <2>4. QED
    BY <1>1, <1>2, <2>3, FitsStep
<1>5. UnusedUnknown'
  <2>1. ASSUME NEW x \in Alarms, db'[x] = "unused"
        PROVE  db[x] = "unused" /\ Nowhere(x)' /\ NotIn(c, x)'
    <3>1. db[x] = "unused" /\ Nowhere(x) /\ NotIn(c, x)
      BY <1>1, <2>1 DEF UnusedUnknown
    <3>2. Nowhere(x)'
      BY <3>1 DEF Nowhere
    <3>3. NotIn(c, x)'
      BY <1>2, <3>1, EmptyFields DEF NotIn
    <3>4. QED
      BY <3>1, <3>2, <3>3
  <2>2. QED
    BY <1>1, <1>2, <2>1, KnownStep
<1>6. LoadingEnds'
  <2>1. Working(c)'
    BY <1>2 DEF Working
  <2>2. ~Working(c)
    BY <1>2 DEF Working, InFlight
  <2>3. QED
    BY <1>1, <1>2, <2>1, <2>2, LoadingStep
<1>7. CleanRefresh'
  <2>1. ASSUME calls'[c].clean
        PROVE  RefreshedBy(c)'
    BY <1>2, <2>1, OtherCalls DEF RefreshedBy, Working
  <2>2. QED
    BY <1>1, <1>2, <2>1, CleanStep
<1>8. ASSUME trouble # "open", trouble' # "open"
      PROVE  HeardOut' /\ Apart' /\ ListKept'
  <2>1. HeardOut /\ Apart /\ ListKept
    BY <1>1, <1>8 DEF InStep, Agreed
  <2>2. HeardOut'
    BY <1>2, <2>1, HeardStep
  <2>3. Apart'
    BY <1>2, <1>8, <2>1, ApartStep
  <2>4. requests[c].pc = "closed"
    BY <1>2 DEF InFlight
  <2>5. ListKept'
    BY <1>2, <2>1, <2>4, KeptStep
  <2>6. QED
    BY <2>2, <2>3, <2>5
<1>9. ReadOf(c)'
  BY <1>2 DEF ReadOf
<1>10. QED
  BY <1>3, <1>4, <1>5, <1>6, <1>7, <1>8, <1>9

\* An alarm that is shown, and that nobody writes, is live, and shown as it is.
LEMMA ShownIsLive ==
  ASSUME TypeOK, Copied, NEW a \in Alarms, Settled(a), ui.phase = "data", ui.list[a] # <<>>
  PROVE  a \in Live /\ db[a] \in Switch /\ ui.list[a] = <<db[a]>>
<1>1. ui.list[a] = Tiles(AllLive)[a]
  BY DEF Copied, CopiesOf
<1>2. AllLive \in List
  BY AllLiveFields
<1>3. AllLive[a] # "absent"
  BY <1>1, <1>2, TilesFields
<1>4. a \in Live /\ AllLive[a] = db[a]
  BY <1>3, AllLiveFields
<1>5. QED
  BY <1>1, <1>2, <1>3, <1>4, AllLiveFields, TilesFields

\* Who is not in flight writes nothing.
LEMMA IdleWritesNothing ==
  ASSUME NEW c \in Calls, ~InFlight(c)
  PROVE  \A a : ~Writes(c, a)
  BY DEF Writes

\* A write that overlaps nothing starts on an alarm that nobody writes, from a screen that is loaded.
LEMMA NoOverlap ==
  ASSUME TypeOK, CallsFit, LoadingEnds, NEW c \in Calls, ~InFlight(c),
         NEW o \in {"update", "toggle", "delete"}, NEW a \in Alarms, ~Overlaps(c, o, a)
  PROVE  Settled(a) /\ ui.phase = "data"
<1>1. {o, "list"} \ Reads # {} /\ \A p : {o, p} \ Reads # {}
  BY DEF Reads
<1>2. \A d \in Calls \ {c} : InFlight(d) => requests[d].op # "list" /\ requests[d].alarm # a
  BY <1>1, ServiceAssumption DEF Overlaps, Conflict
<1>3. Settled(a)
  BY <1>2, IdleWritesNothing DEF Settled, Writes
<1>4. \A d \in Calls : ~(Working(d) /\ requests[d].op = "list")
  BY <1>2 DEF Working, InFlight
<1>5. QED
  BY <1>3, <1>4 DEF LoadingEnds, TypeOK

\* A refresh: the screen loads, and no alarm is being written.
LEMMA RefreshStep ==
  ASSUME Inv, NEW c \in Calls, Refresh(c)
  PROVE  Inv'
<1>1. TypeOK /\ CallsFit /\ UnusedUnknown /\ LoadingEnds /\ CleanRefresh /\ InStep
  BY DEF Inv
<1>2. /\ ui \in [phase : {"data", "loading"}, list : Shown] /\ ui.list \in Shown
      /\ "on" \in Switch /\ "list" \in Ops
      /\ NoTiles \in Shown
  BY <1>1, EmptyFields DEF TypeOK, Switch, Ops
<1>3. \E p \in BOOLEAN : Begin(c, "list", NoAlarm, "on", p, NoTiles)
  BY Zenon DEF Refresh
<1>4. PICK p \in BOOLEAN : Begin(c, "list", NoAlarm, "on", p, NoTiles)
  BY <1>3
<1>5. /\ db' = db /\ listCache' = listCache /\ cache' = cache /\ triggers' = triggers
  BY DEF Refresh, phoneVars
<1>6. /\ Turn(c) /\ ~InFlight(c)
      /\ requests'[c].op = "list" /\ requests'[c].alarm = NoAlarm /\ requests'[c].pc = "sent"
      /\ calls'[c].stage = "waiting"
      /\ trouble' # "open" => trouble' = trouble /\ ~Overlaps(c, "list", NoAlarm)
  BY <1>1, <1>2, <1>4, BeginTurn
<1>7. /\ ui' \in [phase : {"data", "loading"}, list : Shown]
      /\ ui'.phase = "loading" /\ ui'.list = ui.list
      /\ \A x \in Alarms : db[x] = "unused" => x # NoAlarm /\ NoTiles[x] = <<>> /\ ui'.list[x] = <<>>
  BY <1>1, <1>2, EmptyFields, ServiceAssumption DEF Refresh, UnusedUnknown, Nowhere
<1>8. /\ TypeOK' /\ CallsFit' /\ UnusedUnknown' /\ LoadingEnds' /\ CleanRefresh'
      /\ trouble # "open" /\ trouble' # "open" => HeardOut' /\ Apart' /\ ListKept'
      /\ ReadOf(c)'
  BY <1>1, <1>2, <1>4, <1>5, <1>7, ServiceAssumption, BeginStep
<1>9. SUFFICES ASSUME trouble' # "open"
               PROVE  Copied' /\ Writing' /\ Reading'
  <2>1. trouble' # "open" => trouble # "open"
    BY <1>6
  <2>2. QED
    BY Zenon, <1>8, <2>1 DEF Inv, InStep, Agreed
<1>10. trouble' = trouble /\ Copied /\ Writing /\ Reading
  BY <1>1, <1>6, <1>9 DEF InStep, Agreed
<1>11. ASSUME NEW d \in Calls, NEW a \in Alarms
       PROVE  ~Writes(d, a)
  <2>1. CASE d = c
    BY <1>6, <2>1, IdleWritesNothing
  <2>2. CASE d # c
    BY <1>6, <1>9, <2>2 DEF Overlaps, Conflict, Writes
  <2>3. QED
    BY <2>1, <2>2
<1>12. AllLive' = AllLive /\ Live' = Live
  BY <1>5 DEF AllLive, Live
<1>13. ASSUME NEW a \in Alarms
       PROVE  CopiesOf(a)'
  <2>1. CopiesOf(a)
    BY <1>10, <1>11 DEF Copied, Settled
  <2>2. QED
    BY <1>5, <1>7, <1>10, <1>12, <2>1 DEF CopiesOf
<1>14. requests'[c].op \in Reads
  BY <1>6 DEF Reads
<1>15. QED
  BY <1>5, <1>6, <1>8, <1>10, <1>11, <1>13, <1>14, ReadStep

\* The ring screen asks for an alarm, which nobody writes; its copies stay what they are.
LEMMA GetAlarmStep ==
  ASSUME Inv, NEW c \in Calls, NEW a \in Alarms, GetAlarm(c, a)
  PROVE  Inv'
<1>1. TypeOK /\ CallsFit /\ UnusedUnknown /\ LoadingEnds /\ CleanRefresh /\ InStep
  BY DEF Inv
<1>2. /\ ui \in [phase : {"data", "loading"}, list : Shown] /\ ui.list \in Shown
      /\ "on" \in Switch /\ "get" \in Ops
      /\ NoTiles \in Shown
  BY <1>1, EmptyFields DEF TypeOK, Switch, Ops
<1>3. \E p \in BOOLEAN : Begin(c, "get", a, "on", p, NoTiles)
  BY Zenon DEF GetAlarm
<1>4. PICK p \in BOOLEAN : Begin(c, "get", a, "on", p, NoTiles)
  BY <1>3
<1>5. /\ db' = db /\ listCache' = listCache /\ cache' = cache /\ triggers' = triggers
  BY DEF GetAlarm, phoneVars
<1>6. /\ Turn(c) /\ ~InFlight(c)
      /\ requests'[c].op = "get" /\ requests'[c].alarm = a /\ requests'[c].pc = "sent"
      /\ calls'[c].stage = "waiting"
      /\ trouble' # "open" => trouble' = trouble /\ ~Overlaps(c, "get", a)
  BY <1>1, <1>2, <1>4, BeginTurn
<1>7. /\ ui' = ui
      /\ \A x \in Alarms : db[x] = "unused" => x # a /\ NoTiles[x] = <<>> /\ ui'.list[x] = <<>>
  BY <1>1, EmptyFields DEF GetAlarm, phoneVars, UnusedUnknown, Nowhere
<1>8. /\ TypeOK' /\ CallsFit' /\ UnusedUnknown' /\ LoadingEnds' /\ CleanRefresh'
      /\ trouble # "open" /\ trouble' # "open" => HeardOut' /\ Apart' /\ ListKept'
      /\ ReadOf(c)'
  BY <1>1, <1>2, <1>4, <1>5, <1>7, ServiceAssumption, BeginStep
<1>9. SUFFICES ASSUME trouble' # "open"
               PROVE  Copied' /\ Writing' /\ Reading'
  <2>1. trouble' # "open" => trouble # "open"
    BY <1>6
  <2>2. QED
    BY Zenon, <1>8, <2>1 DEF Inv, InStep, Agreed
<1>10. trouble' = trouble /\ Copied /\ Writing /\ Reading
  BY <1>1, <1>6, <1>9 DEF InStep, Agreed
<1>11. \A d \in Calls \ {c} : ~Writes(d, a)
  BY <1>6, <1>9, ServiceAssumption DEF Overlaps, Conflict, Writes
<1>12. ~Writes(c, a) /\ ~Writes(c, a)'
  BY <1>6, IdleWritesNothing DEF Writes, Reads
<1>13. Settled(a)
  BY <1>11, <1>12 DEF Settled
<1>14. AllLive' = AllLive /\ Live' = Live
  BY <1>5 DEF AllLive, Live
<1>15. CopiesOf(a)'
  BY <1>5, <1>7, <1>10, <1>13, <1>14 DEF CopiesOf, Copied
<1>16. ASSUME NEW x \in Alarms \ {a}
       PROVE  /\ db'[x] = db[x] /\ cache'[x] = cache[x] /\ ui'.list[x] = ui.list[x]
              /\ x \in triggers' <=> x \in triggers
              /\ ~Writes(c, x) /\ ~Writes(c, x)'
  BY <1>5, <1>6, <1>7, IdleWritesNothing DEF Writes
<1>17. QED
  BY <1>1, <1>5, <1>6, <1>7, <1>8, <1>10, <1>16, <1>11, <1>12, <1>15, WriteStep

\* A creation has no alarm yet.
LEMMA CreateStep ==
  ASSUME Inv, NEW c \in Calls, NEW s \in Switch, NEW p \in BOOLEAN, Create(c, s, p)
  PROVE  Inv'
<1>1. TypeOK /\ CallsFit /\ UnusedUnknown /\ LoadingEnds /\ CleanRefresh /\ InStep
  BY DEF Inv
<1>2. /\ ui \in [phase : {"data", "loading"}, list : Shown] /\ ui.list \in Shown
      /\ "on" \in Switch /\ "create" \in Ops
      /\ NoTiles \in Shown
  BY <1>1, EmptyFields DEF TypeOK, Switch, Ops
<1>3. Begin(c, "create", NoAlarm, s, p, NoTiles)
  BY DEF Create
<1>4. /\ db' = db /\ listCache' = listCache /\ cache' = cache /\ triggers' = triggers
  BY DEF Create, phoneVars
<1>5. /\ Turn(c) /\ ~InFlight(c)
      /\ requests'[c].op = "create" /\ requests'[c].alarm = NoAlarm /\ requests'[c].pc = "sent"
      /\ calls'[c].stage = "waiting"
      /\ trouble' # "open" => trouble' = trouble /\ ~Overlaps(c, "create", NoAlarm)
  BY <1>1, <1>2, <1>3, BeginTurn
<1>6. /\ ui' = ui
      /\ \A x \in Alarms : db[x] = "unused" => x # NoAlarm /\ NoTiles[x] = <<>> /\ ui'.list[x] = <<>>
  BY <1>1, EmptyFields, ServiceAssumption DEF Create, phoneVars, UnusedUnknown, Nowhere
<1>7. /\ TypeOK' /\ CallsFit' /\ UnusedUnknown' /\ LoadingEnds' /\ CleanRefresh'
      /\ trouble # "open" /\ trouble' # "open" => HeardOut' /\ Apart' /\ ListKept'
      /\ ReadOf(c)'
  BY <1>1, <1>2, <1>3, <1>4, <1>6, ServiceAssumption, BeginStep
<1>8. SUFFICES ASSUME trouble' # "open"
               PROVE  Copied' /\ Writing' /\ Reading'
  <2>1. trouble' # "open" => trouble # "open"
    BY <1>5
  <2>2. QED
    BY Zenon, <1>7, <2>1 DEF Inv, InStep, Agreed
<1>9. trouble' = trouble /\ Copied /\ Writing /\ Reading
  BY <1>1, <1>5, <1>8 DEF InStep, Agreed
<1>10. NoAlarm \notin Alarms
  BY ServiceAssumption
<1>11. ASSUME NEW x \in Alarms \ {NoAlarm}
       PROVE  /\ db'[x] = db[x] /\ cache'[x] = cache[x] /\ ui'.list[x] = ui.list[x]
              /\ x \in triggers' <=> x \in triggers
              /\ ~Writes(c, x) /\ ~Writes(c, x)'
  BY <1>4, <1>5, <1>6, IdleWritesNothing DEF Writes
<1>12. QED
  BY <1>1, <1>4, <1>5, <1>6, <1>7, <1>9, <1>11, <1>10, WriteStep

\* An edit that overlaps nothing is of an alarm that is live.
LEMMA UpdateStep ==
  ASSUME Inv, NEW c \in Calls, NEW a \in Alarms, NEW s \in Switch, Update(c, a, s)
  PROVE  Inv'
<1>1. TypeOK /\ CallsFit /\ UnusedUnknown /\ LoadingEnds /\ CleanRefresh /\ InStep
  BY DEF Inv
<1>2. /\ ui \in [phase : {"data", "loading"}, list : Shown] /\ ui.list \in Shown
      /\ "on" \in Switch /\ "update" \in Ops
      /\ NoTiles \in Shown
  BY <1>1, EmptyFields DEF TypeOK, Switch, Ops
<1>3. \E p \in BOOLEAN : Begin(c, "update", a, s, p, NoTiles)
  BY Zenon DEF Update
<1>4. PICK p \in BOOLEAN : Begin(c, "update", a, s, p, NoTiles)
  BY <1>3
<1>5. /\ db' = db /\ listCache' = listCache /\ cache' = cache /\ triggers' = triggers
  BY DEF Update, phoneVars
<1>6. /\ Turn(c) /\ ~InFlight(c)
      /\ requests'[c].op = "update" /\ requests'[c].alarm = a /\ requests'[c].pc = "sent"
      /\ calls'[c].stage = "waiting"
      /\ trouble' # "open" => trouble' = trouble /\ ~Overlaps(c, "update", a)
  BY <1>1, <1>2, <1>4, BeginTurn
<1>7. /\ ui' = ui /\ ui.list[a] # <<>>
      /\ \A x \in Alarms : db[x] = "unused" => x # a /\ NoTiles[x] = <<>> /\ ui'.list[x] = <<>>
  BY <1>1, EmptyFields DEF Update, phoneVars, UnusedUnknown, Nowhere
<1>8. /\ TypeOK' /\ CallsFit' /\ UnusedUnknown' /\ LoadingEnds' /\ CleanRefresh'
      /\ trouble # "open" /\ trouble' # "open" => HeardOut' /\ Apart' /\ ListKept'
      /\ ReadOf(c)'
  BY <1>1, <1>2, <1>4, <1>5, <1>7, ServiceAssumption, BeginStep
<1>9. SUFFICES ASSUME trouble' # "open"
               PROVE  Copied' /\ Writing' /\ Reading'
  <2>1. trouble' # "open" => trouble # "open"
    BY <1>6
  <2>2. QED
    BY Zenon, <1>8, <2>1 DEF Inv, InStep, Agreed
<1>10. trouble' = trouble /\ Copied /\ Writing /\ Reading
  BY <1>1, <1>6, <1>9 DEF InStep, Agreed
<1>11. Settled(a) /\ ui.phase = "data"
  BY <1>1, <1>6, <1>9, NoOverlap
<1>12. a \in Live
  BY <1>1, <1>7, <1>10, <1>11, ShownIsLive
<1>13. Live' = Live
  BY <1>5 DEF Live
<1>14. WriteOf(c, a)'
  BY <1>6, <1>12, <1>13 DEF WriteOf
<1>15. ~Settled(a)'
  BY <1>6 DEF Settled, Writes, InFlight, Reads
<1>16. \A d \in Calls \ {c} : ~Writes(d, a)
  BY <1>11 DEF Settled
<1>17. ASSUME NEW x \in Alarms \ {a}
       PROVE  /\ db'[x] = db[x] /\ cache'[x] = cache[x] /\ ui'.list[x] = ui.list[x]
              /\ x \in triggers' <=> x \in triggers
              /\ ~Writes(c, x) /\ ~Writes(c, x)'
  BY <1>5, <1>6, <1>7, IdleWritesNothing DEF Writes
<1>18. QED
  BY <1>1, <1>5, <1>6, <1>7, <1>8, <1>10, <1>17, <1>14, <1>15, <1>16, WriteStep

\* A toggle that overlaps nothing turns the tile of a live alarm.
LEMMA ToggleStep ==
  ASSUME Inv, NEW c \in Calls, NEW a \in Alarms, Toggle(c, a)
  PROVE  Inv'
<1>1. TypeOK /\ CallsFit /\ UnusedUnknown /\ LoadingEnds /\ CleanRefresh /\ InStep
  BY DEF Inv
<1>2. /\ ui \in [phase : {"data", "loading"}, list : Shown] /\ ui.list \in Shown
      /\ "on" \in Switch /\ "toggle" \in Ops
      /\ NoTiles \in Shown
  BY <1>1, EmptyFields DEF TypeOK, Switch, Ops
<1>3. \E p \in BOOLEAN : Begin(c, "toggle", a, "on", p, ui.list)
  BY Zenon DEF Toggle
<1>4. PICK p \in BOOLEAN : Begin(c, "toggle", a, "on", p, ui.list)
  BY <1>3
<1>5. /\ db' = db /\ listCache' = listCache /\ cache' = cache /\ triggers' = triggers
  BY DEF Toggle, phoneVars
<1>6. /\ Turn(c) /\ ~InFlight(c)
      /\ requests'[c].op = "toggle" /\ requests'[c].alarm = a /\ requests'[c].pc = "sent"
      /\ calls'[c].stage = "waiting"
      /\ trouble' # "open" => trouble' = trouble /\ ~Overlaps(c, "toggle", a)
  BY <1>1, <1>2, <1>4, BeginTurn
<1>7. ui.phase = "data" /\ ui.list[a] # <<>> /\ ui' = [ui EXCEPT !.list[a] = Flipped(ui.list[a])]
  BY DEF Toggle, OnScreen
<1>8. ui.list[a] \in Seq(Switch) /\ Flipped(ui.list[a]) \in Seq(Switch)
  BY <1>2, TileFields DEF Shown
<1>9. /\ ui' \in [phase : {"data", "loading"}, list : Shown] /\ ui'.phase = "data"
      /\ \A x \in Alarms : ui'.list[x] = IF x = a THEN Flipped(ui.list[a]) ELSE ui.list[x]
      /\ \A x \in Alarms : db[x] = "unused" => x # a /\ ui.list[x] = <<>> /\ ui'.list[x] = <<>>
  <2>1. \A x \in Alarms : db[x] = "unused" => x # a /\ ui.list[x] = <<>>
    BY <1>1, <1>7 DEF UnusedUnknown, Nowhere
  <2>2. QED
    BY <1>2, <1>7, <1>8, <2>1, UiFields
<1>10. /\ TypeOK' /\ CallsFit' /\ UnusedUnknown' /\ LoadingEnds' /\ CleanRefresh'
       /\ trouble # "open" /\ trouble' # "open" => HeardOut' /\ Apart' /\ ListKept'
       /\ ReadOf(c)'
  BY <1>1, <1>2, <1>4, <1>5, <1>9, ServiceAssumption, BeginStep
<1>11. SUFFICES ASSUME trouble' # "open"
                PROVE  Copied' /\ Writing' /\ Reading'
  <2>1. trouble' # "open" => trouble # "open"
    BY <1>6
  <2>2. QED
    BY Zenon, <1>10, <2>1 DEF Inv, InStep, Agreed
<1>12. trouble' = trouble /\ Copied /\ Writing /\ Reading
  BY <1>1, <1>6, <1>11 DEF InStep, Agreed
<1>13. Settled(a)
  BY <1>1, <1>6, <1>11, NoOverlap
<1>14. a \in Live /\ db[a] \in Switch /\ ui.list[a] = <<db[a]>>
  BY <1>1, <1>12, <1>13, <1>7, ShownIsLive
<1>15. Live' = Live
  BY <1>5 DEF Live
<1>16. Flip(db[a]) \in Switch /\ ui'.list[a] = <<Flip(db[a])>>
  BY <1>9, <1>14, <1>8, TileFields
<1>17. WriteOf(c, a)'
  BY <1>6, <1>14, <1>15, <1>16 DEF WriteOf
<1>18. ~Settled(a)'
  BY <1>6 DEF Settled, Writes, InFlight, Reads
<1>19. \A d \in Calls \ {c} : ~Writes(d, a)
  BY <1>13 DEF Settled
<1>20. ui'.phase = "data" => ui.phase = "data"
  BY <1>7
<1>21. ASSUME NEW x \in Alarms \ {a}
       PROVE  /\ db'[x] = db[x] /\ cache'[x] = cache[x] /\ ui'.list[x] = ui.list[x]
              /\ x \in triggers' <=> x \in triggers
              /\ ~Writes(c, x) /\ ~Writes(c, x)'
  BY <1>5, <1>6, <1>9, IdleWritesNothing DEF Writes
<1>22. QED
  BY <1>1, <1>5, <1>6, <1>9, <1>10, <1>12, <1>21, <1>17, <1>18, <1>19, <1>20, WriteStep

\* A deletion that overlaps nothing takes the tile of a live alarm off the screen.
LEMMA DeleteStep ==
  ASSUME Inv, NEW c \in Calls, NEW a \in Alarms, Delete(c, a)
  PROVE  Inv'
<1>1. TypeOK /\ CallsFit /\ UnusedUnknown /\ LoadingEnds /\ CleanRefresh /\ InStep
  BY DEF Inv
<1>2. /\ ui \in [phase : {"data", "loading"}, list : Shown] /\ ui.list \in Shown
      /\ "on" \in Switch /\ "delete" \in Ops
      /\ NoTiles \in Shown
  BY <1>1, EmptyFields DEF TypeOK, Switch, Ops
<1>3. \E p \in BOOLEAN : Begin(c, "delete", a, "on", p, ui.list)
  BY Zenon DEF Delete
<1>4. PICK p \in BOOLEAN : Begin(c, "delete", a, "on", p, ui.list)
  BY <1>3
<1>5. /\ db' = db /\ listCache' = listCache /\ cache' = cache /\ triggers' = triggers
  BY DEF Delete, phoneVars
<1>6. /\ Turn(c) /\ ~InFlight(c)
      /\ requests'[c].op = "delete" /\ requests'[c].alarm = a /\ requests'[c].pc = "sent"
      /\ calls'[c].stage = "waiting"
      /\ trouble' # "open" => trouble' = trouble /\ ~Overlaps(c, "delete", a)
  BY <1>1, <1>2, <1>4, BeginTurn
<1>7. ui.phase = "data" /\ ui.list[a] # <<>> /\ ui' = [ui EXCEPT !.list[a] = <<>>]
  BY DEF Delete, OnScreen
<1>8. <<>> \in Seq(Switch)
  BY SMT
<1>9. /\ ui' \in [phase : {"data", "loading"}, list : Shown] /\ ui'.phase = "data"
      /\ \A x \in Alarms : ui'.list[x] = IF x = a THEN <<>> ELSE ui.list[x]
      /\ \A x \in Alarms : db[x] = "unused" => x # a /\ ui.list[x] = <<>> /\ ui'.list[x] = <<>>
  <2>1. \A x \in Alarms : db[x] = "unused" => x # a /\ ui.list[x] = <<>>
    BY <1>1, <1>7 DEF UnusedUnknown, Nowhere
  <2>2. QED
    <3> DEFINE t == <<>>
    <3>1. t \in Seq(Switch) /\ ui' = [ui EXCEPT !.list[a] = t]
      BY <1>7, <1>8
    <3>2. t = <<>>
      OBVIOUS
    <3> HIDE DEF t
    <3>3. /\ ui' \in [phase : {"data", "loading"}, list : Shown] /\ ui'.phase = ui.phase
          /\ \A x \in Alarms : ui'.list[x] = IF x = a THEN t ELSE ui.list[x]
      BY <1>2, <3>1, UiFields
    <3>4. QED
      BY <1>7, <2>1, <3>2, <3>3
<1>10. /\ TypeOK' /\ CallsFit' /\ UnusedUnknown' /\ LoadingEnds' /\ CleanRefresh'
       /\ trouble # "open" /\ trouble' # "open" => HeardOut' /\ Apart' /\ ListKept'
       /\ ReadOf(c)'
  BY <1>1, <1>2, <1>4, <1>5, <1>9, ServiceAssumption, BeginStep
<1>11. SUFFICES ASSUME trouble' # "open"
                PROVE  Copied' /\ Writing' /\ Reading'
  <2>1. trouble' # "open" => trouble # "open"
    BY <1>6
  <2>2. QED
    BY Zenon, <1>10, <2>1 DEF Inv, InStep, Agreed
<1>12. trouble' = trouble /\ Copied /\ Writing /\ Reading
  BY <1>1, <1>6, <1>11 DEF InStep, Agreed
<1>13. Settled(a)
  BY <1>1, <1>6, <1>11, NoOverlap
<1>14. a \in Live
  BY <1>1, <1>12, <1>13, <1>7, ShownIsLive
<1>15. Live' = Live
  BY <1>5 DEF Live
<1>16. ui'.list[a] = <<>>
  BY <1>9
<1>17. WriteOf(c, a)'
  BY <1>6, <1>14, <1>15, <1>16 DEF WriteOf
<1>18. ~Settled(a)'
  BY <1>6 DEF Settled, Writes, InFlight, Reads
<1>19. \A d \in Calls \ {c} : ~Writes(d, a)
  BY <1>13 DEF Settled
<1>20. ui'.phase = "data" => ui.phase = "data"
  BY <1>7
<1>21. ASSUME NEW x \in Alarms \ {a}
       PROVE  /\ db'[x] = db[x] /\ cache'[x] = cache[x] /\ ui'.list[x] = ui.list[x]
              /\ x \in triggers' <=> x \in triggers
              /\ ~Writes(c, x) /\ ~Writes(c, x)'
  BY <1>5, <1>6, <1>9, IdleWritesNothing DEF Writes
<1>22. QED
  BY <1>1, <1>5, <1>6, <1>9, <1>10, <1>12, <1>21, <1>17, <1>18, <1>19, <1>20, WriteStep

\* A form that is left sets its call apart.
LEMMA LeaveFormStep ==
  ASSUME Inv, NEW c \in Calls, LeaveForm(c)
  PROVE  Inv'
<1>1. TypeOK /\ CallsFit /\ UnusedUnknown /\ LoadingEnds /\ CleanRefresh
  BY DEF Inv
<1> DEFINE k == [calls[c] EXCEPT !.left = TRUE]
<1>2. /\ k \in Call /\ k.stage = calls[c].stage /\ k.previous = calls[c].previous
      /\ k.todo = calls[c].todo /\ k.clean = calls[c].clean
  BY <1>1, LeftFields DEF TypeOK
<1>3. /\ calls' = [calls EXCEPT ![c] = k] /\ requests' = requests /\ InFlight(c)
      /\ db' = db /\ listCache' = listCache /\ cache' = cache /\ triggers' = triggers /\ ui' = ui
      /\ trouble' = "open" /\ faults' = faults + 1 /\ faults' <= MaxFaults
      /\ requests[c].op # "list"
  BY DEF LeaveForm, Saving, Try, Record, serviceVars, phoneVars, InFlight
<1> HIDE DEF k
<1>4. Turn(c) /\ requests'[c] = requests[c] /\ calls'[c] = k
  BY <1>1, <1>2, <1>3, AppTurn
<1>5. TypeOK'
  <2>1. faults' \in 0 .. MaxFaults /\ trouble' \in Troubles
    BY <1>1, <1>3, BoundAssumption DEF TypeOK, Troubles
  <2>2. QED
    BY <1>1, <1>3, <1>4, <2>1 DEF TypeOK, ServiceTypeOK, Turn
<1>6. CallsFit'
  BY <1>1, <1>2, <1>4, FitsStep DEF CallsFit, Fits
<1>7. UnusedUnknown'
  <2>1. ASSUME NEW x \in Alarms, db'[x] = "unused"
        PROVE  db[x] = "unused" /\ Nowhere(x)' /\ NotIn(c, x)'
    BY <1>1, <1>2, <1>3, <1>4, <2>1 DEF UnusedUnknown, Nowhere, NotIn
  <2>2. QED
    BY <1>1, <1>4, <2>1, KnownStep
<1>8. LoadingEnds'
  BY <1>1, <1>3, <1>4, LoadingStep
<1>9. CleanRefresh'
  <2>1. ~calls[c].clean
    BY <1>1, <1>3 DEF CleanRefresh, RefreshedBy
  <2>2. QED
    BY <1>1, <1>2, <1>3, <1>4, <2>1, CleanStep
<1>10. QED
  BY <1>3, <1>5, <1>6, <1>7, <1>8, <1>9 DEF Inv, InStep

-----------------------------------------------------------------------------
(* The server's handlers                                                    *)

\* A handler goes on as its request allows, or ends because nobody listens.
Handled(c) ==
  \/ ~requests[c].heard /\ requests'[c] = Closed
  \/ /\ SameCall(requests'[c], requests[c]) /\ RequestFits(requests'[c]) /\ requests'[c].pc # "closed"
     /\ (requests'[c].op = "list" /\ requests'[c].pc = "ok") => listCache' = requests'[c].list
     /\ \A x \in Alarms : db'[x] = "unused" => requests'[c].alarm # x /\ requests'[c].list[x] = "absent"

\* Only what the app holds is left to compare when a handler has taken a step.
LEMMA HandlerStep ==
  ASSUME Inv, NEW c \in Calls, Turn(c), calls'[c] = calls[c],
         requests[c].pc \notin {"closed", "ok", "refused"}, Handled(c),
         cache' = cache, triggers' = triggers, ui' = ui,
         db' \in [Alarms -> Row], listCache' \in List \cup {NoList},
         trouble' \in Troubles, faults' \in 0..MaxFaults,
         \A x \in Alarms : db'[x] = "unused" =>
           db[x] = "unused" /\ (listCache' # NoList => listCache'[x] = "absent")
  PROVE  /\ TypeOK' /\ CallsFit' /\ UnusedUnknown' /\ LoadingEnds' /\ CleanRefresh'
         /\ trouble # "open" => HeardOut'
         /\ (trouble # "open" /\ (\/ requests'[c].alarm = requests[c].alarm
                                  \/ requests'[c] = Closed
                                  \/ ~Overlaps(c, requests'[c].op, requests'[c].alarm))) => Apart'
<1>1. TypeOK /\ CallsFit /\ UnusedUnknown /\ LoadingEnds /\ CleanRefresh /\ InStep
  BY DEF Inv
<1>2. /\ Closed.pc = "closed" /\ Closed.op = "list" /\ Closed.list = EmptyList /\ Closed.alarm = NoAlarm
      /\ \A x \in Alarms : EmptyList[x] = "absent" /\ NoAlarm # x
  BY ClosedFields, EmptyFields, ServiceAssumption
<1>3. /\ calls[c].stage \in {"waiting", "done"} /\ InFlight(c)
      /\ calls[c].stage = "waiting" => requests[c].heard
      /\ calls[c].stage = "done" => ~requests[c].heard
  <2>1. calls[c].stage \in Stages
    BY <1>1 DEF TypeOK, Call
  <2>2. QED
    BY <1>1, <2>1 DEF CallsFit, Fits, Stages, InFlight
<1>4. TypeOK'
  BY <1>1 DEF TypeOK, ServiceTypeOK, Turn
<1>5. CallsFit'
  <2>1. Fits(c)'
    BY <1>2, <1>3 DEF Fits, Handled, SameCall
  <2>2. QED
    BY <1>1, <2>1, FitsStep
<1>6. UnusedUnknown'
  <2>1. ASSUME NEW x \in Alarms, db'[x] = "unused"
        PROVE  db[x] = "unused" /\ Nowhere(x)' /\ NotIn(c, x)'
    <3>1. db[x] = "unused" /\ Nowhere(x) /\ NotIn(c, x)
      BY <1>1, <2>1 DEF UnusedUnknown
    <3>2. Nowhere(x)'
      BY <2>1, <3>1 DEF Nowhere
    <3>3. requests'[c].alarm # x /\ requests'[c].list[x] = "absent"
      BY <1>2, <2>1 DEF Handled
    <3>4. QED
      BY <3>1, <3>2, <3>3 DEF NotIn
  <2>2. QED
    BY <1>1, <2>1, KnownStep
<1>7. LoadingEnds'
  <2>1. Working(c) /\ requests[c].op = "list" => Working(c)' /\ requests'[c].op = "list"
    BY <1>3 DEF Working, Handled, SameCall
  <2>2. QED
    BY <1>1, <2>1, LoadingStep
<1>8. CleanRefresh'
  <2>1. ASSUME calls'[c].clean
        PROVE  RefreshedBy(c)'
    <3>1. Working(c) /\ requests[c].op = "list" /\ Alone(c)
      BY <1>1, <2>1 DEF CleanRefresh, RefreshedBy
    <3>2. calls[c].stage = "waiting" /\ requests[c].heard
      BY <1>3, <3>1 DEF Working
    <3>3. requests'[c].op = "list" /\ (requests'[c].pc = "ok" => listCache' = requests'[c].list)
      BY <3>1, <3>2 DEF Handled, SameCall
    <3>4. Alone(c)'
      BY <3>1, OtherCalls
    <3>5. QED
      BY <3>2, <3>3, <3>4 DEF RefreshedBy, Working
  <2>2. QED
    BY <1>1, <1>3, <2>1, CleanStep
<1>9. ASSUME trouble # "open"
      PROVE  HeardOut'
  <2>1. HeardOut
    BY <1>1, <1>9 DEF InStep, Agreed
  <2>2. (requests[c].heard \/ requests[c].op = "list") /\ ~calls[c].left
    BY <1>3, <2>1 DEF HeardOut
  <2>3. requests'[c].heard \/ requests'[c].op = "list"
    BY <1>2, <2>2 DEF Handled, SameCall
  <2>4. QED
    BY <2>1, <2>2, <2>3, HeardStep
<1>10. ASSUME trouble # "open",
              \/ requests'[c].alarm = requests[c].alarm
              \/ requests'[c] = Closed
              \/ ~Overlaps(c, requests'[c].op, requests'[c].alarm)
       PROVE  Apart'
  <2>1. Apart
    BY <1>1, <1>10 DEF InStep, Agreed
  <2>2. requests'[c] = Closed /\ ~requests[c].heard => ~InFlight(c)'
    BY <1>2, <1>3 DEF InFlight
  <2>3. (~requests[c].heard /\ requests'[c] = Closed) \/ requests'[c].op = requests[c].op
    BY DEF Handled, SameCall
  <2>4. requests'[c].pc # "closed" => requests'[c] # Closed
    BY <1>2
  <2>5. requests'[c] = Closed => ~requests[c].heard
    BY <1>2 DEF Handled
  <2>6. QED
    BY <1>3, <1>10, <2>1, <2>2, <2>3, <2>5, ApartStep
<1>11. QED
  BY <1>4, <1>5, <1>6, <1>7, <1>8, <1>9, <1>10

\* A handler that only reads the rows and answers a list keeps the copies in step.
LEMMA ListHandlerStep ==
  ASSUME Inv, trouble # "open", trouble' = trouble, NEW c \in Calls, Turn(c), InFlight(c),
         requests[c].op = "list", requests'[c].op = "list",
         db' = db, cache' = cache, triggers' = triggers, ui' = ui, ReadOf(c)'
  PROVE  Copied' /\ Writing' /\ Reading'
<1>1. TypeOK /\ Apart /\ Copied /\ Reading
  BY DEF Inv, InStep, Agreed
<1>2. (\A d \in Calls, a \in Alarms : ~Writes(d, a)) /\ \A a \in Alarms : CopiesOf(a)
  BY <1>1, ListMeetsNoWriter
<1>3. AllLive' = AllLive /\ Live' = Live
  BY DEF AllLive, Live
<1>4. \A a \in Alarms : CopiesOf(a)'
  BY <1>2, <1>3 DEF CopiesOf
<1>5. requests'[c].op \in Reads
  BY DEF Reads
<1>6. QED
  BY <1>1, <1>2, <1>4, <1>5, ReadStep

\* A handler that does not write the rows, of a request about one alarm, keeps them in step as well.
LEMMA RowHandlerStep ==
  ASSUME Inv, trouble # "open", trouble' = trouble, NEW c \in Calls, Turn(c), InFlight(c),
         requests[c].op # "list", requests[c].heard,
         requests'[c].op = requests[c].op, requests'[c].alarm = requests[c].alarm, calls'[c] = calls[c],
         calls[c].stage # "native", requests'[c].pc # "closed",
         db' = db, cache' = cache, triggers' = triggers, ui' = ui, ReadOf(c)',
         \A a \in Alarms : (Writes(c, a) /\ WriteOf(c, a)) => WriteOf(c, a)'
  PROVE  TypeOK' => Copied' /\ Writing' /\ Reading'
<1> SUFFICES ASSUME TypeOK'
             PROVE  Copied' /\ Writing' /\ Reading'
  OBVIOUS
<1>1. TypeOK /\ Apart /\ Copied /\ Writing /\ Reading
  BY DEF Inv, InStep, Agreed
<1>2. PICK b : b = requests[c].alarm
  OBVIOUS
<1>3. ASSUME NEW a \in Alarms \ {b}
      PROVE  ~Writes(c, a) /\ ~Writes(c, a)'
  BY <1>2 DEF Writes
<1>4. InFlight(c)'
  BY DEF InFlight
<1>5. CASE requests[c].op = "get"
  <2>1. \A a \in Alarms : ~Writes(c, a) /\ ~Writes(c, a)'
    BY <1>5 DEF Writes, Reads
  <2>2. AllLive' = AllLive /\ Live' = Live
    BY DEF AllLive, Live
  <2>3. ASSUME NEW a \in Alarms, Settled(a)'
        PROVE  CopiesOf(a)'
    <3>1. Settled(a)
      BY <2>1, <2>3, OtherCalls DEF Settled
    <3>2. QED
      BY <1>1, <2>2, <3>1 DEF Copied, CopiesOf
  <2>4. ASSUME NEW a \in Alarms, NEW d \in Calls, Writes(d, a)'
        PROVE  WriteOf(d, a)'
    <3>1. d # c /\ Writes(d, a)
      BY <2>1, <2>4, OtherCalls
    <3>2. QED
      BY <1>1, <2>2, <3>1 DEF Writing, WriteOf, Turn
  <2>5. ASSUME NEW d \in Calls
        PROVE  ReadOf(d)'
    BY <1>1, <2>2 DEF Reading, ReadOf, Turn
  <2>6. QED
    BY <2>3, <2>4, <2>5 DEF Copied, Writing, Reading
<1>6. CASE requests[c].op # "get"
  <2>1. requests[c].op \notin Reads
    BY <1>6 DEF Reads
  <2>2. ASSUME b \in Alarms
        PROVE  Writes(c, b) /\ Writes(c, b)' /\ WriteOf(c, b)' /\ \A d \in Calls \ {c} : ~Writes(d, b)
    <3>1. Writes(c, b) /\ Writes(c, b)'
      BY <1>4, <1>2, <2>1 DEF Writes
    <3>2. WriteOf(c, b)'
      BY <1>1, <2>2, <3>1 DEF Writing
    <3>3. b # NoAlarm
      BY <2>2, ServiceAssumption
    <3>4. \A d \in Calls \ {c} : ~Writes(d, b)
      BY <1>1, <1>2, <2>1, <3>3, WriterIsAlone DEF Writes
    <3>5. QED
      BY <3>1, <3>2, <3>4
  <2>3. b \in Alarms => ~Settled(b)'
    BY <2>2 DEF Settled
  <2>4. \A a \in Alarms \ {b} :
           /\ db'[a] = db[a] /\ cache'[a] = cache[a] /\ ui'.list[a] = ui.list[a]
           /\ a \in triggers' <=> a \in triggers
           /\ ~Writes(c, a) /\ ~Writes(c, a)'
    BY <1>3
  <2>5. ui'.phase = "data" => ui.phase = "data"
    OBVIOUS
  <2>6. QED
    BY <1>1, <2>2, <2>3, <2>4, <2>5, WriteStep
<1>7. QED
  BY <1>5, <1>6

\* What is left to show of a handler that worked.
LEMMA HandlerKeeps ==
  ASSUME Inv, NEW c \in Calls, Turn(c), calls'[c] = calls[c],
         requests[c].pc \notin {"closed", "ok", "refused"}, Handled(c),
         cache' = cache, triggers' = triggers, ui' = ui,
         db' \in [Alarms -> Row], listCache' \in List \cup {NoList},
         trouble' = trouble, faults' = faults,
         \A x \in Alarms : db'[x] = "unused" =>
           db[x] = "unused" /\ (listCache' # NoList => listCache'[x] = "absent"),
         trouble # "open" =>
           /\ \/ requests'[c].alarm = requests[c].alarm
              \/ requests'[c] = Closed
              \/ ~Overlaps(c, requests'[c].op, requests'[c].alarm)
           /\ ListKept'
           /\ TypeOK' => Copied' /\ Writing' /\ Reading'
  PROVE  Inv'
<1>1. trouble' \in Troubles /\ faults' \in 0..MaxFaults
  BY DEF Inv, TypeOK
<1>2. /\ TypeOK' /\ CallsFit' /\ UnusedUnknown' /\ LoadingEnds' /\ CleanRefresh'
      /\ trouble # "open" => HeardOut' /\ Apart'
  BY <1>1, HandlerStep
<1>3. QED
  BY <1>2 DEF Inv, InStep, Agreed

\* A request that keeps its alarm, and has a list that knows no unused alarm, is handled.
LEMMA HandledFields ==
  ASSUME Inv, NEW c \in Calls, \A x \in Alarms : db'[x] = "unused" => db[x] = "unused",
         requests[c].heard =>
           /\ SameCall(requests'[c], requests[c]) /\ requests'[c].alarm = requests[c].alarm
           /\ RequestFits(requests'[c]) /\ requests'[c].pc # "closed"
           /\ (requests'[c].op = "list" /\ requests'[c].pc = "ok") => listCache' = requests'[c].list
           /\ \A x \in Alarms : db'[x] = "unused" => requests'[c].list[x] = "absent",
         ~requests[c].heard => requests'[c] = Closed
  PROVE  Handled(c)
<1>1. \A x \in Alarms : db[x] = "unused" => requests[c].alarm # x
  BY DEF Inv, UnusedUnknown, NotIn
<1>2. QED
  BY <1>1 DEF Handled

\* findAllForUser answers the list it found in Redis: it is the rows, or a write is about to be ended.
LEMMA ListCachedStep ==
  ASSUME Inv, NEW c \in Calls, ListCached(c), UNCHANGED <<phoneVars, calls, history>>
  PROVE  Inv'
<1> DEFINE r == [requests[c] EXCEPT !.list = listCache, !.pc = "ok"]
<1>1. TypeOK /\ UnusedUnknown /\ InStep /\ CallsFit /\ requests[c] \in Request /\ listCache \in List
  BY DEF Inv, ListCached, TypeOK, ServiceTypeOK
<1>2. "ok" \in Pcs
  BY DEF Pcs
<1>3. /\ r \in Request /\ SameCall(r, requests[c]) /\ r.pc = "ok"
      /\ r.alarm = requests[c].alarm /\ r.list = listCache
  BY <1>1, <1>2 DEF Request, SameCall
<1>4. /\ Answer(c, r) /\ calls' = calls /\ db' = db /\ listCache' = listCache /\ listCache # NoList
      /\ requests[c].op = "list" /\ requests[c].pc = "sent"
      /\ cache' = cache /\ triggers' = triggers /\ ui' = ui /\ trouble' = trouble /\ faults' = faults
  BY DEF ListCached, At, phoneVars, history
<1> HIDE DEF r
<1>5. /\ Turn(c) /\ calls'[c] = calls[c]
      /\ requests[c].heard => requests'[c] = r
      /\ ~requests[c].heard => requests'[c] = Closed
  BY <1>1, <1>3, <1>4, AnswerTurn
<1>6. InFlight(c) /\ RequestFits(requests[c])
  BY <1>1, <1>4 DEF InFlight, CallsFit, Fits
<1>7. RequestFits(r)
  BY <1>3, <1>4, <1>6 DEF RequestFits, PcsOf, SameCall
<1>8. Handled(c)
  BY <1>1, <1>3, <1>4, <1>5, <1>7, HandledFields DEF UnusedUnknown, Nowhere
<1>9. ASSUME trouble # "open"
      PROVE  ListKept' /\ Copied' /\ Writing' /\ Reading'
  <2>1. Apart /\ ListKept /\ Copied
    BY <1>1, <1>9 DEF InStep, Agreed
  <2>2. ListKept'
    BY <1>4, <1>5, <2>1, KeptStep
  <2>3. ASSUME NEW d \in Calls
        PROVE  requests[d].pc # "invalidate"
    <3>1. SUFFICES ASSUME requests[d].pc = "invalidate"
                   PROVE  FALSE
      OBVIOUS
    <3>2. InFlight(d) /\ RequestFits(requests[d])
      BY <1>1, <3>1 DEF InFlight, CallsFit, Fits
    <3>3. requests[d].op \notin Reads
      BY <3>1, <3>2 DEF RequestFits, PcsOf, Reads
    <3>4. d # c
      BY <1>4, <3>1
    <3>5. QED
      BY <1>4, <1>6, <2>1, <3>2, <3>3, <3>4, WriterIsAlone
  <2>4. listCache = AllLive
    BY <1>4, <2>1, <2>3 DEF ListKept
  <2>5. AllLive' = AllLive
    BY <1>4 DEF AllLive, Live
  <2>6. ReadOf(c)' /\ requests'[c].op = "list"
    BY <1>3, <1>4, <1>5, <2>4, <2>5, ClosedFields DEF ReadOf, SameCall
  <2>7. QED
    BY <1>4, <1>5, <1>6, <1>9, <2>2, <2>6, ListHandlerStep
<1>10. requests'[c].alarm = requests[c].alarm \/ requests'[c] = Closed
  BY <1>3, <1>5
<1>11. /\ db' \in [Alarms -> Row] /\ listCache' \in List \cup {NoList}
       /\ \A x \in Alarms : db'[x] = "unused" =>
            db[x] = "unused" /\ (listCache' # NoList => listCache'[x] = "absent")
  BY <1>1, <1>4 DEF TypeOK, ServiceTypeOK, UnusedUnknown, Nowhere
<1>12. QED
  BY <1>4, <1>5, <1>8, <1>9, <1>10, <1>11, HandlerKeeps

\* findAllForUser finds nothing in Redis.
LEMMA ListMissedStep ==
  ASSUME Inv, NEW c \in Calls, ListMissed(c), UNCHANGED <<phoneVars, calls, history>>
  PROVE  Inv'
<1>1. TypeOK /\ UnusedUnknown /\ InStep /\ CallsFit
  BY DEF Inv
<1>2. /\ Goto(c, "find") /\ calls' = calls /\ db' = db /\ listCache' = NoList
      /\ requests[c].op = "list" /\ requests[c].pc = "sent" /\ "find" \in Pcs
      /\ cache' = cache /\ triggers' = triggers /\ ui' = ui /\ trouble' = trouble /\ faults' = faults
  BY DEF ListMissed, At, phoneVars, history, Pcs
<1>3. /\ Turn(c) /\ calls'[c] = calls[c] /\ SameCall(requests'[c], requests[c]) /\ requests'[c].pc = "find"
      /\ requests'[c].alarm = requests[c].alarm /\ requests'[c].list = requests[c].list
  BY <1>1, <1>2, GotoTurn
<1>4. InFlight(c) /\ RequestFits(requests[c])
  BY <1>1, <1>2 DEF InFlight, CallsFit, Fits
<1>5. RequestFits(requests'[c])
  BY <1>2, <1>3, <1>4 DEF RequestFits, PcsOf, SameCall
<1>6. Handled(c)
  BY <1>1, <1>2, <1>3, <1>5 DEF Handled, UnusedUnknown, NotIn
<1>7. ASSUME trouble # "open"
      PROVE  ListKept' /\ Copied' /\ Writing' /\ Reading'
  <2>1. ReadOf(c)' /\ requests'[c].op = "list"
    BY <1>2, <1>3 DEF ReadOf, SameCall
  <2>2. ListKept'
    BY <1>2 DEF ListKept
  <2>3. QED
    BY <1>2, <1>3, <1>4, <1>7, <2>1, <2>2, ListHandlerStep
<1>8. /\ db' \in [Alarms -> Row] /\ listCache' \in List \cup {NoList}
      /\ \A x \in Alarms : db'[x] = "unused" =>
           db[x] = "unused" /\ (listCache' # NoList => listCache'[x] = "absent")
  BY <1>1, <1>2 DEF TypeOK, ServiceTypeOK
<1>9. QED
  BY <1>2, <1>3, <1>6, <1>7, <1>8, HandlerKeeps

\* findAllForUser reads the rows.
LEMMA ListFindStep ==
  ASSUME Inv, NEW c \in Calls, ListFind(c), UNCHANGED <<phoneVars, calls, history>>
  PROVE  Inv'
<1> DEFINE q == [requests[c] EXCEPT !.list = AllLive, !.pc = "set"]
<1>1. TypeOK /\ UnusedUnknown /\ InStep /\ CallsFit /\ requests[c] \in Request
  BY DEF Inv, TypeOK, ServiceTypeOK
<1>2. "set" \in Pcs /\ AllLive \in List
  BY <1>1, AllLiveFields DEF Pcs
<1>3. /\ q \in Request /\ SameCall(q, requests[c]) /\ q.pc = "set"
      /\ q.alarm = requests[c].alarm /\ q.list = AllLive
  BY <1>1, <1>2 DEF Request, SameCall
<1>4. /\ requests' = [requests EXCEPT ![c] = q] /\ calls' = calls /\ db' = db /\ listCache' = listCache
      /\ requests[c].op = "list" /\ requests[c].pc = "find"
      /\ cache' = cache /\ triggers' = triggers /\ ui' = ui /\ trouble' = trouble /\ faults' = faults
  BY DEF ListFind, At, phoneVars, history
<1> HIDE DEF q
<1>5. Turn(c) /\ calls'[c] = calls[c] /\ requests'[c] = q
  BY <1>1, <1>3, <1>4, ServeTurn
<1>6. InFlight(c) /\ RequestFits(requests[c])
  BY <1>1, <1>4 DEF InFlight, CallsFit, Fits
<1>7. RequestFits(q)
  BY <1>3, <1>4, <1>6 DEF RequestFits, PcsOf, SameCall
<1>8. \A x \in Alarms : db[x] = "unused" => AllLive[x] = "absent"
  BY <1>1, AllLiveFields DEF Switch
<1>9. Handled(c)
  BY <1>1, <1>3, <1>4, <1>5, <1>7, <1>8 DEF Handled, UnusedUnknown, NotIn
<1>10. ASSUME trouble # "open"
       PROVE  ListKept' /\ Copied' /\ Writing' /\ Reading'
  <2>1. ListKept
    BY <1>1, <1>10 DEF InStep, Agreed
  <2>2. ListKept'
    BY <1>4, <1>5, <2>1, KeptStep
  <2>3. AllLive' = AllLive
    BY <1>4 DEF AllLive, Live
  <2>4. ReadOf(c)' /\ requests'[c].op = "list"
    BY <1>3, <1>4, <1>5, <2>3 DEF ReadOf, SameCall
  <2>5. QED
    BY <1>4, <1>5, <1>6, <1>10, <2>2, <2>4, ListHandlerStep
<1>11. /\ db' \in [Alarms -> Row] /\ listCache' \in List \cup {NoList}
       /\ \A x \in Alarms : db'[x] = "unused" =>
            db[x] = "unused" /\ (listCache' # NoList => listCache'[x] = "absent")
  BY <1>1, <1>4 DEF TypeOK, ServiceTypeOK, UnusedUnknown, Nowhere
<1>12. QED
  BY <1>3, <1>4, <1>5, <1>9, <1>10, <1>11, HandlerKeeps

\* findAllForUser leaves the list in Redis, and answers it.
LEMMA ListSetStep ==
  ASSUME Inv, NEW c \in Calls, ListSet(c), UNCHANGED <<phoneVars, calls, history>>
  PROVE  Inv'
<1> DEFINE r == [requests[c] EXCEPT !.pc = "ok"]
<1>1. TypeOK /\ UnusedUnknown /\ InStep /\ CallsFit /\ requests[c] \in Request /\ requests[c].list \in List
  BY DEF Inv, TypeOK, ServiceTypeOK, Request
<1>2. "ok" \in Pcs
  BY DEF Pcs
<1>3. /\ r \in Request /\ SameCall(r, requests[c]) /\ r.pc = "ok"
      /\ r.alarm = requests[c].alarm /\ r.list = requests[c].list
  BY <1>1, <1>2, PcFields
<1>4. /\ Answer(c, r) /\ calls' = calls /\ db' = db /\ listCache' = requests[c].list
      /\ requests[c].op = "list" /\ requests[c].pc = "set"
      /\ cache' = cache /\ triggers' = triggers /\ ui' = ui /\ trouble' = trouble /\ faults' = faults
  BY DEF ListSet, At, phoneVars, history
<1> HIDE DEF r
<1>5. /\ Turn(c) /\ calls'[c] = calls[c]
      /\ requests[c].heard => requests'[c] = r
      /\ ~requests[c].heard => requests'[c] = Closed
  BY <1>1, <1>3, <1>4, AnswerTurn
<1>6. InFlight(c) /\ RequestFits(requests[c])
  BY <1>1, <1>4 DEF InFlight, CallsFit, Fits
<1>7. RequestFits(r)
  BY <1>3, <1>4, <1>6 DEF RequestFits, PcsOf, SameCall
<1>8. \A x \in Alarms : db[x] = "unused" => requests[c].list[x] = "absent"
  BY <1>1 DEF UnusedUnknown, NotIn
<1>9. Handled(c)
  BY <1>1, <1>3, <1>4, <1>5, <1>7, <1>8, HandledFields
<1>10. ASSUME trouble # "open"
       PROVE  ListKept' /\ Copied' /\ Writing' /\ Reading'
  <2>1. requests[c].list = AllLive
    BY <1>1, <1>4, <1>10 DEF InStep, Agreed, Reading, ReadOf
  <2>2. AllLive' = AllLive
    BY <1>4 DEF AllLive, Live
  <2>3. ListKept'
    BY <1>4, <2>1, <2>2 DEF ListKept
  <2>4. ReadOf(c)' /\ requests'[c].op = "list"
    BY <1>3, <1>4, <1>5, <2>1, <2>2, ClosedFields DEF ReadOf, SameCall
  <2>5. QED
    BY <1>4, <1>5, <1>6, <1>10, <2>3, <2>4, ListHandlerStep
<1>11. requests'[c].alarm = requests[c].alarm \/ requests'[c] = Closed
  BY <1>3, <1>5
<1>12. /\ db' \in [Alarms -> Row] /\ listCache' \in List \cup {NoList}
       /\ \A x \in Alarms : db'[x] = "unused" =>
            db[x] = "unused" /\ (listCache' # NoList => listCache'[x] = "absent")
  BY <1>1, <1>4, <1>8 DEF TypeOK, ServiceTypeOK
<1>13. QED
  BY <1>4, <1>5, <1>9, <1>10, <1>11, <1>12, HandlerKeeps

\* findOneForUser answers the row of an alarm; who writes in step finds it.
LEMMA GetOneStep ==
  ASSUME Inv, NEW c \in Calls, GetOne(c), UNCHANGED <<phoneVars, calls, history>>
  PROVE  Inv'
<1>1. TypeOK /\ UnusedUnknown /\ InStep /\ CallsFit /\ requests[c] \in Request
  BY DEF Inv, TypeOK, ServiceTypeOK
<1>2. PICK a : a = requests[c].alarm
  OBVIOUS
<1>3. /\ calls' = calls /\ db' = db /\ listCache' = listCache
      /\ \/ requests[c].op = "get" /\ requests[c].pc = "sent"
         \/ requests[c].op \in {"create", "update", "toggle"} /\ requests[c].pc = "reread"
      /\ cache' = cache /\ triggers' = triggers /\ ui' = ui /\ trouble' = trouble /\ faults' = faults
  BY DEF GetOne, At, phoneVars, history
<1>4. PICK r \in Request :
        /\ Answer(c, r) /\ SameCall(r, requests[c]) /\ r.alarm = a /\ r.list = requests[c].list
        /\ a \in Live => r.pc = "ok" /\ r.row = db[a]
        /\ a \notin Live => r.pc = "refused"
  <2>1. CASE a \in Live
    <3> DEFINE r == [requests[c] EXCEPT !.row = db[a], !.pc = "ok"]
    <3>1. db[a] \in Switch /\ "ok" \in Pcs
      BY <2>1 DEF Live, Pcs
    <3>2. /\ r \in Request /\ SameCall(r, requests[c]) /\ r.pc = "ok" /\ r.row = db[a]
          /\ r.alarm = requests[c].alarm /\ r.list = requests[c].list
      BY <1>1, <3>1 DEF Request, SameCall
    <3>3. Answer(c, r)
      BY <1>2, <2>1 DEF GetOne
    <3> HIDE DEF r
    <3>4. QED
      BY <1>2, <2>1, <3>2, <3>3
  <2>2. CASE a \notin Live
    <3> DEFINE r == [requests[c] EXCEPT !.pc = "refused"]
    <3>1. "refused" \in Pcs
      BY DEF Pcs
    <3>2. /\ r \in Request /\ SameCall(r, requests[c]) /\ r.pc = "refused"
          /\ r.alarm = requests[c].alarm /\ r.list = requests[c].list
      BY <1>1, <3>1, PcFields
    <3>3. Answer(c, r)
      BY <1>2, <2>2 DEF GetOne, Refuse
    <3> HIDE DEF r
    <3>4. QED
      BY <1>2, <2>2, <3>2, <3>3
  <2>3. QED
    BY <2>1, <2>2
<1>5. /\ Turn(c) /\ calls'[c] = calls[c]
      /\ requests[c].heard => requests'[c] = r
      /\ ~requests[c].heard => requests'[c] = Closed
  BY <1>1, <1>3, <1>4, AnswerTurn
<1>6. InFlight(c) /\ RequestFits(requests[c]) /\ calls[c].stage # "native"
  BY <1>1, <1>3 DEF InFlight, CallsFit, Fits
<1>7. r.pc \in {"ok", "refused"} /\ r.op = requests[c].op /\ r.op # "list"
  BY <1>3, <1>4 DEF SameCall
<1>8. RequestFits(r)
  BY <1>2, <1>3, <1>4, <1>6, <1>7 DEF RequestFits, PcsOf
<1>9. \A x \in Alarms : db[x] = "unused" => requests[c].list[x] = "absent"
  BY <1>1 DEF UnusedUnknown, NotIn
<1>10. Handled(c)
  BY <1>2, <1>3, <1>4, <1>5, <1>7, <1>8, <1>9, HandledFields
<1>11. ASSUME trouble # "open"
       PROVE  ListKept' /\ (TypeOK' => Copied' /\ Writing' /\ Reading')
  <2>1. ListKept /\ HeardOut
    BY <1>1, <1>11 DEF InStep, Agreed
  <2>2. ListKept'
    BY <1>3, <1>5, <2>1, KeptStep
  <2>3. requests[c].heard /\ requests'[c] = r
    BY <1>3, <1>5, <1>6, <2>1 DEF HeardOut
  <2>4. Live' = Live
    BY <1>3 DEF Live
  <2>5. ReadOf(c)'
    BY <1>3, <1>4, <1>7, <2>3, <2>4 DEF ReadOf
  <2>6. ASSUME NEW x \in Alarms, Writes(c, x), WriteOf(c, x)
        PROVE  WriteOf(c, x)'
    <3>1. x = a /\ a \in Live
      BY <1>2, <1>3, <2>6 DEF Writes, WriteOf, Reads
    <3>2. r.pc = "ok" /\ r.row = db[x] /\ r.op = requests[c].op /\ r.op # "delete"
      BY <1>3, <1>4, <1>7, <3>1
    <3>3. QED
      BY <1>3, <1>6, <2>3, <2>4, <2>6, <3>1, <3>2 DEF WriteOf
  <2>7. TypeOK' => Copied' /\ Writing' /\ Reading'
    BY <1>2, <1>3, <1>4, <1>5, <1>6, <1>7, <1>11, <2>3, <2>5, <2>6, RowHandlerStep
  <2>8. QED
    BY <2>2, <2>7
<1>12. requests'[c].alarm = requests[c].alarm \/ requests'[c] = Closed
  BY <1>2, <1>4, <1>5
<1>13. /\ db' \in [Alarms -> Row] /\ listCache' \in List \cup {NoList}
       /\ \A x \in Alarms : db'[x] = "unused" =>
            db[x] = "unused" /\ (listCache' # NoList => listCache'[x] = "absent")
  BY <1>1, <1>3 DEF TypeOK, ServiceTypeOK, UnusedUnknown, Nowhere
<1>14. requests[c].pc \notin {"closed", "ok", "refused"}
  BY <1>3
<1>15. QED
  BY <1>3, <1>5, <1>10, <1>11, <1>12, <1>13, <1>14, HandlerKeeps

\* findOneForUser opens a write: who is in step finds the alarm.
LEMMA FindOneStep ==
  ASSUME Inv, NEW c \in Calls, FindOne(c), UNCHANGED <<phoneVars, calls, history>>
  PROVE  Inv'
<1>1. TypeOK /\ UnusedUnknown /\ InStep /\ CallsFit /\ requests[c] \in Request
  BY DEF Inv, TypeOK, ServiceTypeOK
<1>2. PICK a : a = requests[c].alarm
  OBVIOUS
<1>3. /\ calls' = calls /\ db' = db /\ listCache' = listCache
      /\ requests[c].op \in {"update", "toggle", "delete"} /\ requests[c].pc = "sent"
      /\ cache' = cache /\ triggers' = triggers /\ ui' = ui /\ trouble' = trouble /\ faults' = faults
  BY DEF FindOne, At, phoneVars, history
<1>4. /\ Turn(c) /\ calls'[c] = calls[c]
      /\ \/ ~requests[c].heard /\ requests'[c] = Closed
         \/ /\ SameCall(requests'[c], requests[c]) /\ requests'[c].alarm = a
            /\ requests'[c].list = requests[c].list
            /\ a \notin Live => requests'[c].pc = "refused"
            /\ a \in Live => requests'[c].pc = IF requests[c].op = "delete" THEN "softRemove" ELSE "save"
  <2>1. CASE a \notin Live
    <3> DEFINE r == [requests[c] EXCEPT !.pc = "refused"]
    <3>1. "refused" \in Pcs
      BY DEF Pcs
    <3>2. /\ r \in Request /\ SameCall(r, requests[c]) /\ r.pc = "refused"
          /\ r.alarm = requests[c].alarm /\ r.list = requests[c].list
      BY <1>1, <3>1, PcFields
    <3>3. Answer(c, r)
      BY <1>2, <2>1 DEF FindOne, Refuse
    <3> HIDE DEF r
    <3>4. /\ Turn(c) /\ calls'[c] = calls[c]
          /\ requests[c].heard => requests'[c] = r
          /\ ~requests[c].heard => requests'[c] = Closed
      BY <1>1, <1>3, <3>2, <3>3, AnswerTurn
    <3>5. QED
      BY <1>2, <2>1, <3>2, <3>4
  <2>2. CASE a \in Live /\ requests[c].op = "delete"
    <3>1. Goto(c, "softRemove") /\ "softRemove" \in Pcs
      BY <1>2, <1>3, <2>2 DEF FindOne, At, Pcs
    <3>2. QED
      BY <1>1, <1>2, <1>3, <2>2, <3>1, GotoTurn
  <2>3. CASE a \in Live /\ requests[c].op = "update"
    <3>1. Goto(c, "save") /\ "save" \in Pcs
      BY <1>2, <1>3, <2>3 DEF FindOne, At, Pcs
    <3>2. QED
      BY <1>1, <1>2, <1>3, <2>3, <3>1, GotoTurn
  <2>4. CASE a \in Live /\ requests[c].op = "toggle"
    <3> DEFINE q == [requests[c] EXCEPT !.row = Flip(db[a]), !.pc = "save"]
    <3>1. Flip(db[a]) \in Switch /\ "save" \in Pcs
      BY DEF Flip, Switch, Pcs
    <3>2. /\ q \in Request /\ SameCall(q, requests[c]) /\ q.pc = "save"
          /\ q.alarm = requests[c].alarm /\ q.list = requests[c].list
      BY <1>1, <3>1 DEF Request, SameCall
    <3>3. requests' = [requests EXCEPT ![c] = q]
      BY <1>2, <1>3, <2>4 DEF FindOne, At
    <3> HIDE DEF q
    <3>4. Turn(c) /\ calls'[c] = calls[c] /\ requests'[c] = q
      BY <1>1, <1>3, <3>2, <3>3, ServeTurn
    <3>5. QED
      BY <1>2, <2>4, <3>2, <3>4
  <2>5. QED
    BY <1>3, <2>1, <2>2, <2>3, <2>4
<1>5. InFlight(c) /\ RequestFits(requests[c]) /\ calls[c].stage # "native"
  BY <1>1, <1>3 DEF InFlight, CallsFit, Fits
<1>6. requests'[c] # Closed \/ ~requests[c].heard
  BY <1>4, ClosedFields
<1>7. requests'[c] # Closed => RequestFits(requests'[c]) /\ requests'[c].pc # "closed"
  <2>1. SUFFICES ASSUME requests'[c] # Closed
                 PROVE  RequestFits(requests'[c]) /\ requests'[c].pc # "closed"
    OBVIOUS
  <2>2. requests'[c].pc = "refused" \/ requests'[c].pc = IF requests[c].op = "delete" THEN "softRemove" ELSE "save"
    BY <1>4, <2>1
  <2>3. requests'[c].op = requests[c].op /\ requests'[c].alarm \in Alarms
    BY <1>2, <1>3, <1>4, <1>5, <2>1 DEF SameCall, RequestFits
  <2>4. requests'[c].pc \in PcsOf(requests'[c].op)
    BY <1>3, <2>2, <2>3 DEF PcsOf
  <2>5. QED
    BY <1>3, <2>2, <2>3, <2>4 DEF RequestFits
<1>8. \A x \in Alarms : db[x] = "unused" => requests[c].list[x] = "absent" /\ requests[c].alarm # x
  BY <1>1 DEF UnusedUnknown, NotIn
<1>9. Handled(c)
  BY <1>2, <1>3, <1>4, <1>6, <1>7, <1>8 DEF Handled, SameCall
<1>10. ASSUME trouble # "open"
       PROVE  ListKept' /\ (TypeOK' => Copied' /\ Writing' /\ Reading')
  <2>1. ListKept /\ HeardOut
    BY <1>1, <1>10 DEF InStep, Agreed
  <2>2. ListKept'
    BY <1>3, <1>4, <2>1, KeptStep
  <2>3. requests[c].heard
    BY <1>3, <1>5, <2>1 DEF HeardOut
  <2>4. Live' = Live
    BY <1>3 DEF Live
  <2>5. /\ requests'[c].op = requests[c].op /\ requests'[c].alarm = requests[c].alarm
        /\ requests'[c].pc \in {"refused", "softRemove", "save"}
        /\ a \in Live => requests'[c].pc = IF requests[c].op = "delete" THEN "softRemove" ELSE "save"
    BY <1>2, <1>4, <2>3 DEF SameCall
  <2>6. ReadOf(c)'
    BY <2>5 DEF ReadOf
  <2>7. ASSUME NEW x \in Alarms, Writes(c, x), WriteOf(c, x)
        PROVE  WriteOf(c, x)'
    <3>1. x = a /\ a \in Live
      BY <1>2, <1>3, <2>7 DEF Writes, WriteOf
    <3>2. QED
      BY <1>3, <1>4, <1>5, <2>4, <2>5, <2>7, <3>1 DEF WriteOf
  <2>8. requests[c].op # "list" /\ requests'[c].pc # "closed"
    BY <1>3, <2>5
  <2>9. TypeOK' => Copied' /\ Writing' /\ Reading'
    BY <1>3, <1>4, <1>5, <1>10, <2>3, <2>5, <2>6, <2>7, <2>8, RowHandlerStep
  <2>10. QED
    BY <2>2, <2>9
<1>11. requests'[c].alarm = requests[c].alarm \/ requests'[c] = Closed
  BY <1>2, <1>4
<1>12. /\ db' \in [Alarms -> Row] /\ listCache' \in List \cup {NoList}
       /\ \A x \in Alarms : db'[x] = "unused" =>
            db[x] = "unused" /\ (listCache' # NoList => listCache'[x] = "absent")
  BY <1>1, <1>3 DEF TypeOK, ServiceTypeOK, UnusedUnknown, Nowhere
<1>13. QED
  BY <1>3, <1>4, <1>9, <1>10, <1>11, <1>12, HandlerKeeps

\* A creation is counted against the limit, or refused.
LEMMA CountStep ==
  ASSUME Inv, NEW c \in Calls, Count(c), UNCHANGED <<phoneVars, calls, history>>
  PROVE  Inv'
<1>1. TypeOK /\ UnusedUnknown /\ InStep /\ CallsFit /\ requests[c] \in Request
  BY DEF Inv, TypeOK, ServiceTypeOK
<1>2. /\ calls' = calls /\ db' = db /\ listCache' = listCache
      /\ requests[c].op = "create" /\ requests[c].pc = "sent"
      /\ cache' = cache /\ triggers' = triggers /\ ui' = ui /\ trouble' = trouble /\ faults' = faults
  BY DEF Count, At, phoneVars, history
<1>3. /\ Turn(c) /\ calls'[c] = calls[c]
      /\ \/ ~requests[c].heard /\ requests'[c] = Closed
         \/ /\ SameCall(requests'[c], requests[c]) /\ requests'[c].alarm = requests[c].alarm
            /\ requests'[c].list = requests[c].list
            /\ requests'[c].pc \in {"refused", "insert"}
  <2>1. CASE Goto(c, "insert")
    <3>1. "insert" \in Pcs
      BY DEF Pcs
    <3>2. QED
      BY <1>1, <1>2, <2>1, <3>1, GotoTurn
  <2>2. CASE Refuse(c)
    <3> DEFINE r == [requests[c] EXCEPT !.pc = "refused"]
    <3>1. "refused" \in Pcs
      BY DEF Pcs
    <3>2. /\ r \in Request /\ SameCall(r, requests[c]) /\ r.pc = "refused"
          /\ r.alarm = requests[c].alarm /\ r.list = requests[c].list
      BY <1>1, <3>1, PcFields
    <3>3. Answer(c, r)
      BY <2>2 DEF Refuse
    <3> HIDE DEF r
    <3>4. /\ Turn(c) /\ calls'[c] = calls[c]
          /\ requests[c].heard => requests'[c] = r
          /\ ~requests[c].heard => requests'[c] = Closed
      BY <1>1, <1>2, <3>2, <3>3, AnswerTurn
    <3>5. QED
      BY <3>2, <3>4
  <2>3. QED
    BY <2>1, <2>2 DEF Count
<1>4. InFlight(c) /\ RequestFits(requests[c]) /\ calls[c].stage # "native"
  BY <1>1, <1>2 DEF InFlight, CallsFit, Fits
<1>5. requests[c].alarm = NoAlarm /\ NoAlarm \notin Alarms
  BY <1>2, <1>4, ServiceAssumption DEF RequestFits
<1>6. requests'[c] # Closed => RequestFits(requests'[c]) /\ requests'[c].pc # "closed"
  BY <1>2, <1>3, <1>5 DEF RequestFits, PcsOf, SameCall
<1>7. \A x \in Alarms : db[x] = "unused" => requests[c].list[x] = "absent" /\ requests[c].alarm # x
  BY <1>1 DEF UnusedUnknown, NotIn
<1>8. requests'[c] # Closed \/ ~requests[c].heard
  BY <1>3, ClosedFields
<1>9. Handled(c)
  BY <1>2, <1>3, <1>6, <1>7, <1>8 DEF Handled, SameCall
<1>10. ASSUME trouble # "open"
       PROVE  ListKept' /\ (TypeOK' => Copied' /\ Writing' /\ Reading')
  <2>1. ListKept /\ HeardOut
    BY <1>1, <1>10 DEF InStep, Agreed
  <2>2. ListKept'
    BY <1>2, <1>3, <2>1, KeptStep
  <2>3. requests[c].heard
    BY <1>2, <1>4, <2>1 DEF HeardOut
  <2>4. /\ requests'[c].op = requests[c].op /\ requests'[c].alarm = requests[c].alarm
        /\ requests'[c].pc # "closed" /\ requests[c].op # "list"
    BY <1>2, <1>3, <2>3 DEF SameCall
  <2>5. ReadOf(c)'
    BY <1>2, <2>4 DEF ReadOf
  <2>6. \A x \in Alarms : ~Writes(c, x)
    BY <1>5 DEF Writes
  <2>7. TypeOK' => Copied' /\ Writing' /\ Reading'
    BY <1>2, <1>3, <1>4, <1>10, <2>3, <2>4, <2>5, <2>6, RowHandlerStep
  <2>8. QED
    BY <2>2, <2>7
<1>11. requests'[c].alarm = requests[c].alarm \/ requests'[c] = Closed
  BY <1>3
<1>12. /\ db' \in [Alarms -> Row] /\ listCache' \in List \cup {NoList}
       /\ \A x \in Alarms : db'[x] = "unused" =>
            db[x] = "unused" /\ (listCache' # NoList => listCache'[x] = "absent")
  BY <1>1, <1>2 DEF TypeOK, ServiceTypeOK, UnusedUnknown, Nowhere
<1>13. QED
  BY <1>2, <1>3, <1>9, <1>10, <1>11, <1>12, HandlerKeeps

\* A handler that writes a row, which it alone is about, keeps the other alarms' copies in step.
LEMMA RowWritten ==
  ASSUME Inv, trouble # "open", trouble' = trouble, NEW c \in Calls, Turn(c), InFlight(c),
         requests[c].op \notin Reads, requests'[c].op = requests[c].op,
         NEW a \in Alarms, requests'[c].alarm = a, requests'[c].pc = "invalidate",
         requests[c].alarm = a \/ (requests[c].alarm = NoAlarm /\ db[a] = "unused"),
         NEW v \in Row, db' = [db EXCEPT ![a] = v],
         cache' = cache, triggers' = triggers, ui' = ui, TypeOK', WriteOf(c, a)'
  PROVE  Copied' /\ Writing' /\ Reading'
<1>1. TypeOK /\ Apart /\ Copied /\ Writing /\ Reading /\ UnusedUnknown
  BY DEF Inv, InStep, Agreed
<1>2. a # NoAlarm /\ NoAlarm \notin Alarms
  BY ServiceAssumption
<1>3. \A d \in Calls \ {c} : InFlight(d) => requests[d].op # "list" /\ requests[d].alarm # a
  <2>1. \A d \in Calls : db[a] = "unused" => requests[d].alarm # a
    BY <1>1 DEF UnusedUnknown, NotIn
  <2>2. QED
    BY <1>1, <1>2, <2>1, WriterIsAlone
<1>4. \A d \in Calls \ {c} : ~Writes(d, a)
  BY <1>3 DEF Writes
<1>5. Writes(c, a)' /\ ~Settled(a)'
  BY DEF Writes, Settled, InFlight
<1>6. ReadOf(c)'
  BY DEF ReadOf
<1>7. \A x \in Alarms \ {a} :
        /\ db'[x] = db[x] /\ cache'[x] = cache[x] /\ ui'.list[x] = ui.list[x]
        /\ x \in triggers' <=> x \in triggers
        /\ ~Writes(c, x) /\ ~Writes(c, x)'
  <2>1. \A x \in Alarms \ {a} : db'[x] = db[x]
    BY <1>1 DEF TypeOK, ServiceTypeOK
  <2>2. \A x \in Alarms \ {a} : ~Writes(c, x) /\ ~Writes(c, x)'
    BY <1>2 DEF Writes
  <2>3. QED
    BY <2>1, <2>2
<1>8. ui'.phase = "data" => ui.phase = "data"
  OBVIOUS
<1>9. QED
  BY <1>1, <1>3, <1>4, <1>5, <1>6, <1>7, <1>8, WriteStep

\* save: the alarm is live, as it was.
LEMMA SaveStep ==
  ASSUME Inv, NEW c \in Calls, Save(c), UNCHANGED <<phoneVars, calls, history>>
  PROVE  Inv'
<1>1. TypeOK /\ UnusedUnknown /\ InStep /\ CallsFit /\ requests[c] \in Request
  BY DEF Inv, TypeOK, ServiceTypeOK
<1>2. PICK a : a = requests[c].alarm
  OBVIOUS
<1>3. PICK v : v = requests[c].row
  OBVIOUS
<1>4. /\ Goto(c, "invalidate") /\ calls' = calls /\ db' = [db EXCEPT ![a] = v] /\ listCache' = listCache
      /\ requests[c].op \in {"update", "toggle"} /\ requests[c].pc = "save" /\ "invalidate" \in Pcs
      /\ cache' = cache /\ triggers' = triggers /\ ui' = ui /\ trouble' = trouble /\ faults' = faults
  BY <1>2, <1>3 DEF Save, At, phoneVars, history, Pcs
<1>5. InFlight(c) /\ RequestFits(requests[c]) /\ calls[c].stage # "native"
  BY <1>1, <1>4 DEF InFlight, CallsFit, Fits
<1>6. a \in Alarms /\ v \in Switch /\ v \in Row /\ v # "unused"
  BY <1>1, <1>2, <1>3, <1>4, <1>5 DEF RequestFits, Request, Row, Switch
<1>7. /\ Turn(c) /\ calls'[c] = calls[c] /\ SameCall(requests'[c], requests[c])
      /\ requests'[c].pc = "invalidate" /\ requests'[c].alarm = a /\ requests'[c].list = requests[c].list
  BY <1>1, <1>2, <1>4, GotoTurn
<1>8. RequestFits(requests'[c])
  BY <1>4, <1>6, <1>7 DEF RequestFits, PcsOf, SameCall
<1>9. /\ db' \in [Alarms -> Row] /\ listCache' \in List \cup {NoList}
      /\ \A x \in Alarms : db'[x] = "unused" =>
           db[x] = "unused" /\ (listCache' # NoList => listCache'[x] = "absent")
  BY <1>1, <1>4, <1>6 DEF TypeOK, ServiceTypeOK, UnusedUnknown, Nowhere
<1>10. \A x \in Alarms : db[x] = "unused" => requests[c].list[x] = "absent" /\ requests[c].alarm # x
  BY <1>1 DEF UnusedUnknown, NotIn
<1>11. Handled(c)
  BY <1>2, <1>4, <1>7, <1>8, <1>9, <1>10 DEF Handled
<1>12. ASSUME trouble # "open"
       PROVE  ListKept' /\ (TypeOK' => Copied' /\ Writing' /\ Reading')
  <2>1. ListKept'
    BY <1>7 DEF ListKept
  <2>2. requests[c].op \notin Reads /\ requests'[c].op = requests[c].op
    BY <1>4, <1>7 DEF Reads, SameCall
  <2>3. WriteOf(c, a)
    BY <1>1, <1>2, <1>5, <1>6, <1>12, <2>2 DEF InStep, Agreed, Writing, Writes
  <2>4. a \in Live'
    BY <1>1, <1>4, <1>6 DEF Live, TypeOK, ServiceTypeOK
  <2>5. WriteOf(c, a)'
    BY <1>4, <1>5, <1>7, <2>2, <2>3, <2>4 DEF WriteOf
  <2>6. TypeOK' => Copied' /\ Writing' /\ Reading'
    BY <1>2, <1>4, <1>5, <1>6, <1>7, <1>12, <2>2, <2>5, RowWritten
  <2>7. QED
    BY <2>1, <2>6
<1>13. QED
  BY <1>2, <1>4, <1>7, <1>9, <1>11, <1>12, HandlerKeeps

\* softRemove: the row stays, the alarm is no longer live.
LEMMA SoftRemoveStep ==
  ASSUME Inv, NEW c \in Calls, SoftRemove(c), UNCHANGED <<phoneVars, calls, history>>
  PROVE  Inv'
<1>1. TypeOK /\ UnusedUnknown /\ InStep /\ CallsFit /\ requests[c] \in Request
  BY DEF Inv, TypeOK, ServiceTypeOK
<1>2. PICK a : a = requests[c].alarm
  OBVIOUS
<1>3. /\ Goto(c, "invalidate") /\ calls' = calls /\ db' = [db EXCEPT ![a] = "deleted"] /\ listCache' = listCache
      /\ requests[c].op = "delete" /\ requests[c].pc = "softRemove" /\ "invalidate" \in Pcs
      /\ cache' = cache /\ triggers' = triggers /\ ui' = ui /\ trouble' = trouble /\ faults' = faults
  BY <1>2 DEF SoftRemove, At, phoneVars, history, Pcs
<1>4. InFlight(c) /\ RequestFits(requests[c]) /\ calls[c].stage # "native"
  BY <1>1, <1>3 DEF InFlight, CallsFit, Fits
<1>5. a \in Alarms /\ "deleted" \in Row /\ "deleted" \notin Switch
  BY <1>2, <1>3, <1>4 DEF RequestFits, Row, Switch
<1>6. /\ Turn(c) /\ calls'[c] = calls[c] /\ SameCall(requests'[c], requests[c])
      /\ requests'[c].pc = "invalidate" /\ requests'[c].alarm = a /\ requests'[c].list = requests[c].list
  BY <1>1, <1>2, <1>3, GotoTurn
<1>7. RequestFits(requests'[c])
  BY <1>3, <1>5, <1>6 DEF RequestFits, PcsOf, SameCall
<1>8. /\ db' \in [Alarms -> Row] /\ listCache' \in List \cup {NoList}
      /\ \A x \in Alarms : db'[x] = "unused" =>
           db[x] = "unused" /\ (listCache' # NoList => listCache'[x] = "absent")
  BY <1>1, <1>3, <1>5 DEF TypeOK, ServiceTypeOK, UnusedUnknown, Nowhere
<1>9. \A x \in Alarms : db[x] = "unused" => requests[c].list[x] = "absent" /\ requests[c].alarm # x
  BY <1>1 DEF UnusedUnknown, NotIn
<1>10. Handled(c)
  BY <1>2, <1>3, <1>6, <1>7, <1>8, <1>9 DEF Handled
<1>11. ASSUME trouble # "open"
       PROVE  ListKept' /\ (TypeOK' => Copied' /\ Writing' /\ Reading')
  <2>1. ListKept'
    BY <1>6 DEF ListKept
  <2>2. requests[c].op \notin Reads /\ requests'[c].op = requests[c].op
    BY <1>3, <1>6 DEF Reads, SameCall
  <2>3. WriteOf(c, a)
    BY <1>1, <1>2, <1>4, <1>5, <1>11, <2>2 DEF InStep, Agreed, Writing, Writes
  <2>4. a \notin Live'
    BY <1>1, <1>3, <1>5 DEF Live, TypeOK, ServiceTypeOK
  <2>5. WriteOf(c, a)'
    BY <1>3, <1>4, <1>6, <2>2, <2>3, <2>4 DEF WriteOf
  <2>6. TypeOK' => Copied' /\ Writing' /\ Reading'
    BY <1>2, <1>3, <1>4, <1>5, <1>6, <1>11, <2>2, <2>5, RowWritten
  <2>7. QED
    BY <2>1, <2>6
<1>12. QED
  BY <1>2, <1>3, <1>6, <1>8, <1>10, <1>11, HandlerKeeps

\* An insertion takes an identifier that nobody has heard of.
LEMMA InsertStep ==
  ASSUME Inv, NEW c \in Calls, Insert(c), UNCHANGED <<phoneVars, calls, history>>
  PROVE  Inv'
<1>1. TypeOK /\ UnusedUnknown /\ InStep /\ CallsFit /\ requests[c] \in Request
  BY DEF Inv, TypeOK, ServiceTypeOK
<1>2. PICK v : v = requests[c].row
  OBVIOUS
<1>3. PICK a \in Alarms : /\ db[a] = "unused" /\ db' = [db EXCEPT ![a] = v]
                          /\ requests' = [requests EXCEPT ![c].alarm = a, ![c].pc = "invalidate"]
  BY <1>2 DEF Insert
<1> DEFINE q == [requests[c] EXCEPT !.alarm = a, !.pc = "invalidate"]
<1>4. /\ requests' = [requests EXCEPT ![c] = q]
      /\ calls' = calls /\ listCache' = listCache
      /\ requests[c].op = "create" /\ requests[c].pc = "insert" /\ "invalidate" \in Pcs
      /\ cache' = cache /\ triggers' = triggers /\ ui' = ui /\ trouble' = trouble /\ faults' = faults
  BY <1>3 DEF Insert, At, phoneVars, history, Pcs
<1>5. /\ q \in Request /\ SameCall(q, requests[c]) /\ q.pc = "invalidate"
      /\ q.alarm = a /\ q.list = requests[c].list
  BY <1>1, <1>4 DEF Request, SameCall
<1> HIDE DEF q
<1>6. Turn(c) /\ calls'[c] = calls[c] /\ requests'[c] = q
  BY <1>1, <1>4, <1>5, ServeTurn
<1>7. InFlight(c) /\ RequestFits(requests[c]) /\ calls[c].stage # "native"
  BY <1>1, <1>4 DEF InFlight, CallsFit, Fits
<1>8. requests[c].alarm = NoAlarm /\ v \in Switch /\ v \in Row /\ v # "unused"
  BY <1>1, <1>2, <1>4, <1>7 DEF RequestFits, Request, Row, Switch
<1>9. RequestFits(q)
  BY <1>4, <1>5 DEF RequestFits, PcsOf, SameCall
<1>10. /\ db' \in [Alarms -> Row] /\ listCache' \in List \cup {NoList}
       /\ \A x \in Alarms : db'[x] = "unused" => x # a /\
            db[x] = "unused" /\ (listCache' # NoList => listCache'[x] = "absent")
  BY <1>1, <1>3, <1>4, <1>8 DEF TypeOK, ServiceTypeOK, UnusedUnknown, Nowhere
<1>11. \A x \in Alarms : db[x] = "unused" => requests[c].list[x] = "absent"
  BY <1>1 DEF UnusedUnknown, NotIn
<1>12. Handled(c)
  BY <1>4, <1>5, <1>6, <1>9, <1>10, <1>11 DEF Handled, SameCall
<1>13. ASSUME trouble # "open"
       PROVE  /\ ListKept' /\ (TypeOK' => Copied' /\ Writing' /\ Reading')
              /\ ~Overlaps(c, requests'[c].op, requests'[c].alarm)
  <2>1. ListKept'
    BY <1>5, <1>6 DEF ListKept
  <2>2. requests[c].op \notin Reads /\ requests'[c].op = requests[c].op
    BY <1>4, <1>5, <1>6 DEF Reads, SameCall
  <2>3. a \in Live'
    BY <1>1, <1>3, <1>8 DEF Live, TypeOK, ServiceTypeOK
  <2>4. ui'.list[a] = <<>>
    BY <1>1, <1>3, <1>4 DEF UnusedUnknown, Nowhere
  <2>5. WriteOf(c, a)'
    BY <1>4, <1>5, <1>6, <1>7, <2>2, <2>3, <2>4 DEF WriteOf
  <2>6. TypeOK' => Copied' /\ Writing' /\ Reading'
    BY <1>3, <1>4, <1>5, <1>6, <1>7, <1>8, <1>13, <2>2, <2>5, RowWritten
  <2>7. \A d \in Calls \ {c} : InFlight(d) => requests[d].op # "list"
    BY <1>1, <1>7, <1>13, <2>2, WriterIsAlone DEF InStep, Agreed
  <2>8. \A d \in Calls : requests[d].alarm # a
    BY <1>1, <1>3 DEF UnusedUnknown, NotIn
  <2>9. ~Overlaps(c, requests'[c].op, requests'[c].alarm)
    BY <1>4, <1>5, <1>6, <2>2, <2>7, <2>8 DEF Overlaps, Conflict
  <2>10. QED
    BY <2>1, <2>6, <2>9
<1>14. QED
  BY <1>4, <1>6, <1>10, <1>12, <1>13, HandlerKeeps

\* invalidateList: while Redis answers, the list that was cached goes; while it does not, trouble is open.
LEMMA InvalidateStep ==
  ASSUME Inv, NEW c \in Calls, NEW ok \in BOOLEAN, ServeInvalidate(c, ok)
  PROVE  Inv'
<1>1. TypeOK /\ UnusedUnknown /\ InStep /\ CallsFit /\ requests[c] \in Request
  BY DEF Inv, TypeOK, ServiceTypeOK
<1>2. /\ calls' = calls /\ db' = db /\ listCache' \in {listCache, NoList} /\ (ok => listCache' = NoList)
      /\ requests[c].pc = "invalidate"
      /\ cache' = cache /\ triggers' = triggers /\ ui' = ui
  BY DEF ServeInvalidate, Invalidate, At, phoneVars
<1>3. /\ trouble' \in Troubles /\ faults' \in 0..MaxFaults
      /\ trouble' # "open" => ok /\ trouble' = trouble
  BY <1>1, BoundAssumption DEF ServeInvalidate, Try, Record, TypeOK, Troubles
<1>4. InFlight(c) /\ RequestFits(requests[c]) /\ calls[c].stage # "native"
  BY <1>1, <1>2 DEF InFlight, CallsFit, Fits
<1>5. requests[c].op \in {"create", "update", "toggle", "delete"} /\ requests[c].alarm \in Alarms
  <2>1. requests[c].op \in Ops
    BY <1>1 DEF Request
  <2>2. QED
    BY <1>2, <1>4, <2>1 DEF RequestFits, PcsOf, Ops
<1>6. /\ Turn(c) /\ calls'[c] = calls[c]
      /\ \/ ~requests[c].heard /\ requests'[c] = Closed
         \/ /\ SameCall(requests'[c], requests[c]) /\ requests'[c].alarm = requests[c].alarm
            /\ requests'[c].list = requests[c].list
            /\ requests'[c].pc = IF requests[c].op = "delete" THEN "ok" ELSE "reread"
  <2>1. CASE requests[c].op = "delete"
    <3> DEFINE r == [requests[c] EXCEPT !.pc = "ok"]
    <3>1. "ok" \in Pcs
      BY DEF Pcs
    <3>2. /\ r \in Request /\ SameCall(r, requests[c]) /\ r.pc = "ok"
          /\ r.alarm = requests[c].alarm /\ r.list = requests[c].list
      BY <1>1, <3>1, PcFields
    <3>3. Answer(c, r)
      BY <2>1 DEF ServeInvalidate, Invalidate
    <3> HIDE DEF r
    <3>4. /\ Turn(c) /\ calls'[c] = calls[c]
          /\ requests[c].heard => requests'[c] = r
          /\ ~requests[c].heard => requests'[c] = Closed
      BY <1>1, <1>2, <3>2, <3>3, AnswerTurn
    <3>5. QED
      BY <2>1, <3>2, <3>4
  <2>2. CASE requests[c].op # "delete"
    <3> DEFINE q == [requests[c] EXCEPT !.row = "on", !.pc = "reread"]
    <3>1. "on" \in Switch /\ "reread" \in Pcs
      BY DEF Switch, Pcs
    <3>2. /\ q \in Request /\ SameCall(q, requests[c]) /\ q.pc = "reread"
          /\ q.alarm = requests[c].alarm /\ q.list = requests[c].list
      BY <1>1, <3>1 DEF Request, SameCall
    <3>3. requests' = [requests EXCEPT ![c] = q]
      BY <2>2 DEF ServeInvalidate, Invalidate
    <3> HIDE DEF q
    <3>4. Turn(c) /\ calls'[c] = calls[c] /\ requests'[c] = q
      BY <1>1, <1>2, <3>2, <3>3, ServeTurn
    <3>5. QED
      BY <2>2, <3>2, <3>4
  <2>3. QED
    BY <2>1, <2>2
<1>7. requests'[c] # Closed => RequestFits(requests'[c]) /\ requests'[c].pc # "closed"
  BY <1>5, <1>6 DEF RequestFits, PcsOf, SameCall
<1>8. \A x \in Alarms : db[x] = "unused" => requests[c].list[x] = "absent" /\ requests[c].alarm # x
  BY <1>1 DEF UnusedUnknown, NotIn
<1>9. requests'[c] # Closed \/ ~requests[c].heard
  BY <1>6, ClosedFields
<1>10. Handled(c)
  BY <1>2, <1>5, <1>6, <1>7, <1>8, <1>9 DEF Handled, SameCall
<1>11. /\ db' \in [Alarms -> Row] /\ listCache' \in List \cup {NoList}
       /\ \A x \in Alarms : db'[x] = "unused" =>
            db[x] = "unused" /\ (listCache' # NoList => listCache'[x] = "absent")
  BY <1>1, <1>2 DEF TypeOK, ServiceTypeOK, UnusedUnknown, Nowhere
<1>12. requests'[c].alarm = requests[c].alarm \/ requests'[c] = Closed
  BY <1>6
<1>13. /\ TypeOK' /\ CallsFit' /\ UnusedUnknown' /\ LoadingEnds' /\ CleanRefresh'
       /\ trouble # "open" => HeardOut' /\ Apart'
  BY <1>2, <1>3, <1>6, <1>10, <1>11, <1>12, HandlerStep
<1>14. ASSUME trouble' # "open"
       PROVE  HeardOut' /\ Apart' /\ ListKept' /\ Copied' /\ Writing' /\ Reading'
  <2>1. trouble # "open" /\ trouble' = trouble /\ listCache' = NoList
    BY <1>2, <1>3, <1>14
  <2>2. ListKept'
    BY <2>1 DEF ListKept
  <2>3. requests[c].heard
    BY <1>1, <1>4, <1>5, <2>1 DEF InStep, Agreed, HeardOut
  <2>4. Live' = Live
    BY <1>2 DEF Live
  <2>5. /\ requests'[c].op = requests[c].op /\ requests'[c].alarm = requests[c].alarm
        /\ requests'[c].pc = IF requests[c].op = "delete" THEN "ok" ELSE "reread"
        /\ requests'[c].pc # "closed" /\ requests[c].op # "list"
    BY <1>5, <1>6, <2>3 DEF SameCall
  <2>6. ReadOf(c)'
    BY <1>5, <2>5 DEF ReadOf
  <2>7. ASSUME NEW x \in Alarms, Writes(c, x), WriteOf(c, x)
        PROVE  WriteOf(c, x)'
    BY <1>2, <1>4, <1>6, <2>4, <2>5, <2>7 DEF WriteOf
  <2>8. Copied' /\ Writing' /\ Reading'
    BY <1>2, <1>4, <1>6, <1>13, <2>1, <2>3, <2>5, <2>6, <2>7, RowHandlerStep
  <2>9. QED
    BY <1>13, <2>1, <2>2, <2>8
<1>15. QED
  BY <1>13, <1>14 DEF Inv, InStep, Agreed

\* Whatever the server does next.
LEMMA ServeStep ==
  ASSUME Inv, NEW c \in Calls, Serve(c)
  PROVE  Inv'
BY ListCachedStep, ListMissedStep, ListFindStep, ListSetStep, GetOneStep, FindOneStep, SaveStep,
   SoftRemoveStep, CountStep, InsertStep DEF Serve

-----------------------------------------------------------------------------
(* Answers reach the app                                                    *)

\* A call that is over keeps nobody waiting, whatever became of its request.
LEMMA EndStep ==
  ASSUME Inv, NEW c \in Calls, Turn(c), calls[c].stage \in {"waiting", "native"}, calls'[c] = Ended,
         \/ requests'[c] = Closed
         \/ /\ requests'[c].op = requests[c].op /\ requests'[c].alarm = requests[c].alarm
            /\ requests'[c].list = requests[c].list /\ requests'[c].pc = requests[c].pc
            /\ ~requests'[c].heard,
         db' = db, listCache' = listCache,
         cache' \in List, triggers' \subseteq Alarms, ui' \in [phase : {"data", "loading"}, list : Shown],
         trouble' \in Troubles, faults' \in 0..MaxFaults,
         ui'.phase = "data" \/ (ui'.phase = ui.phase /\ requests[c].op # "list"),
         \A x \in Alarms : db[x] = "unused" => x \notin triggers' /\ cache'[x] = "absent" /\ ui'.list[x] = <<>>
  PROVE  /\ TypeOK' /\ CallsFit' /\ UnusedUnknown' /\ LoadingEnds' /\ CleanRefresh'
         /\ (trouble # "open" /\ (requests'[c] = Closed \/ requests[c].op = "list")) =>
              /\ HeardOut' /\ Apart'
              /\ requests[c].pc # "invalidate" => ListKept'
<1>1. TypeOK /\ CallsFit /\ UnusedUnknown /\ LoadingEnds /\ CleanRefresh /\ InStep
  BY DEF Inv
<1>2. /\ Closed.pc = "closed" /\ Closed.op = "list" /\ Closed.list = EmptyList /\ Closed.alarm = NoAlarm
      /\ \A x \in Alarms : EmptyList[x] = "absent" /\ NoTiles[x] = <<>> /\ NoAlarm # x
  BY ClosedFields, EmptyFields, ServiceAssumption
<1>3. /\ Ended.stage = "done" /\ Ended.previous = NoTiles /\ Ended.todo = {}
      /\ ~Ended.clean /\ ~Ended.left
  BY EndedFields
<1>4. InFlight(c) /\ Working(c) /\ ~Working(c)'
  BY <1>3 DEF InFlight, Working
<1>5. TypeOK'
  BY <1>1 DEF TypeOK, ServiceTypeOK, Turn
<1>6. CallsFit'
  <2>1. Fits(c)'
    BY <1>1, <1>2, <1>3 DEF Fits, CallsFit, RequestFits
  <2>2. QED
    BY <1>1, <2>1, FitsStep
<1>7. UnusedUnknown'
  <2>1. ASSUME NEW x \in Alarms, db'[x] = "unused"
        PROVE  db[x] = "unused" /\ Nowhere(x)' /\ NotIn(c, x)'
    <3>1. db[x] = "unused" /\ Nowhere(x) /\ NotIn(c, x)
      BY <1>1, <2>1 DEF UnusedUnknown
    <3>2. Nowhere(x)'
      BY <2>1, <3>1 DEF Nowhere
    <3>3. requests'[c].alarm # x /\ requests'[c].list[x] = "absent"
      BY <1>2, <3>1 DEF NotIn
    <3>4. QED
      BY <1>2, <1>3, <3>1, <3>2, <3>3 DEF NotIn
  <2>2. QED
    BY <1>1, <2>1, KnownStep
<1>8. LoadingEnds'
  BY <1>1, <1>4, LoadingStep
<1>9. CleanRefresh'
  BY <1>1, <1>3, <1>4, CleanStep
<1>10. ASSUME trouble # "open", requests'[c] = Closed \/ requests[c].op = "list"
       PROVE  HeardOut' /\ Apart' /\ (requests[c].pc # "invalidate" => ListKept')
  <2>1. HeardOut /\ Apart /\ ListKept
    BY <1>1, <1>10 DEF InStep, Agreed
  <2>2. requests'[c].op = "list"
    BY <1>2, <1>10
  <2>3. HeardOut'
    BY <1>3, <2>1, <2>2, HeardStep
  <2>4. InFlight(c)' => requests'[c].op = requests[c].op /\ requests'[c].alarm = requests[c].alarm
    BY <1>2, <1>3 DEF InFlight
  <2>5. Apart'
    BY <1>4, <2>1, <2>4, ApartStep
  <2>6. requests[c].pc # "invalidate" => ListKept'
    BY <2>1, KeptStep
  <2>7. QED
    BY <2>3, <2>5, <2>6
<1>11. QED
  BY <1>5, <1>6, <1>7, <1>8, <1>9, <1>10

\* A call that goes on in the app has been answered, and is.
LEMMA GoOnStep ==
  ASSUME Inv, NEW c \in Calls, Turn(c), calls[c].stage \in {"waiting", "native"},
         requests[c].pc = "ok", requests[c].op # "get",
         requests'[c] = requests[c], calls'[c].stage = "native",
         calls'[c].previous = calls[c].previous, calls'[c].left = calls[c].left,
         db' = db, listCache' = listCache, ui' = ui,
         cache' \in List, triggers' \subseteq Alarms,
         trouble' \in Troubles, faults' \in 0..MaxFaults,
         \A x \in Alarms : db[x] = "unused" =>
           x \notin triggers' /\ cache'[x] = "absent" /\ x \notin calls'[c].todo,
         calls'[c].clean => RefreshedBy(c)'
  PROVE  /\ TypeOK' /\ CallsFit' /\ UnusedUnknown' /\ LoadingEnds' /\ CleanRefresh'
         /\ trouble # "open" => HeardOut' /\ Apart' /\ ListKept'
<1>1. TypeOK /\ CallsFit /\ UnusedUnknown /\ LoadingEnds /\ CleanRefresh /\ InStep
  BY DEF Inv
<1>2. InFlight(c) /\ Working(c) /\ Working(c)'
  BY DEF InFlight, Working
<1>3. TypeOK'
  BY <1>1 DEF TypeOK, ServiceTypeOK, Turn
<1>4. CallsFit'
  <2>1. Fits(c)'
    BY <1>1 DEF Fits, CallsFit
  <2>2. QED
    BY <1>1, <2>1, FitsStep
<1>5. UnusedUnknown'
  <2>1. ASSUME NEW x \in Alarms, db'[x] = "unused"
        PROVE  db[x] = "unused" /\ Nowhere(x)' /\ NotIn(c, x)'
    BY <1>1, <2>1 DEF UnusedUnknown, Nowhere, NotIn
  <2>2. QED
    BY <1>1, <2>1, KnownStep
<1>6. LoadingEnds'
  BY <1>1, <1>2, LoadingStep
<1>7. CleanRefresh'
  BY <1>1, <1>2, CleanStep
<1>8. ASSUME trouble # "open"
      PROVE  HeardOut' /\ Apart' /\ ListKept'
  <2>1. HeardOut /\ Apart /\ ListKept
    BY <1>1, <1>8 DEF InStep, Agreed
  <2>2. (requests[c].heard \/ requests[c].op = "list") /\ ~calls[c].left
    BY <1>2, <2>1 DEF HeardOut
  <2>3. HeardOut'
    BY <2>1, <2>2, HeardStep
  <2>4. Apart'
    BY <1>2, <2>1, ApartStep
  <2>5. ListKept'
    BY <2>1, KeptStep
  <2>6. QED
    BY <2>3, <2>4, <2>5
<1>9. QED
  BY <1>3, <1>4, <1>5, <1>6, <1>7, <1>8

\* A call that ends without having written anything leaves the copies in step.
LEMMA FadeStep ==
  ASSUME Inv, trouble # "open", trouble' = trouble, NEW c \in Calls, Turn(c),
         \A x \in Alarms : ~Writes(c, x), requests'[c] = Closed,
         db' = db, cache' = cache, triggers' = triggers, ui' = ui, TypeOK'
  PROVE  Copied' /\ Writing' /\ Reading'
<1>1. TypeOK /\ Copied /\ Writing /\ Reading
  BY DEF Inv, InStep, Agreed
<1>2. NoAlarm \notin Alarms
  BY ServiceAssumption
<1>3. ReadOf(c)' /\ \A x \in Alarms : ~Writes(c, x)'
  BY ClosedFields DEF ReadOf, Writes, Reads
<1>4. \A x \in Alarms \ {NoAlarm} :
        /\ db'[x] = db[x] /\ cache'[x] = cache[x] /\ ui'.list[x] = ui.list[x]
        /\ x \in triggers' <=> x \in triggers
        /\ ~Writes(c, x) /\ ~Writes(c, x)'
  BY <1>3
<1>5. ui'.phase = "data" => ui.phase = "data"
  OBVIOUS
<1>6. QED
  BY <1>1, <1>2, <1>3, <1>4, <1>5, WriteStep

\* What a failure shows on the screen is of the right type, and of no unused identifier.
LEMMA FailShows ==
  ASSUME Inv, NEW c \in Calls, Fail(c)
  PROVE  /\ calls' = [calls EXCEPT ![c] = Ended]
         /\ db' = db /\ listCache' = listCache /\ cache' = cache /\ triggers' = triggers
         /\ ui' \in [phase : {"data", "loading"}, list : Shown]
         /\ requests[c].op \in {"list", "toggle", "delete"} => ui'.phase = "data"
         /\ requests[c].op = "list" => ui'.list = Tiles(cache)
         /\ requests[c].op \notin {"list", "toggle", "delete"} => ui' = ui
         /\ \A x \in Alarms : db[x] = "unused" => ui'.list[x] = <<>>
<1>1. TypeOK /\ UnusedUnknown
  BY DEF Inv
<1>2. /\ calls' = [calls EXCEPT ![c] = Ended]
      /\ db' = db /\ listCache' = listCache /\ cache' = cache /\ triggers' = triggers
  BY DEF Fail
<1>3. /\ ui \in [phase : {"data", "loading"}, list : Shown] /\ cache \in List
      /\ calls[c].previous \in Shown
  BY <1>1 DEF TypeOK, Call
<1>4. \A x \in Alarms : db[x] = "unused" =>
        cache[x] = "absent" /\ ui.list[x] = <<>> /\ calls[c].previous[x] = <<>>
  BY <1>1 DEF UnusedUnknown, Nowhere, NotIn
<1>5. CASE requests[c].op = "list"
  <2>1. ui' = [phase |-> "data", list |-> Tiles(cache)]
    BY <1>5 DEF Fail
  <2>2. Tiles(cache) \in Shown /\ \A x \in Alarms : db[x] = "unused" => Tiles(cache)[x] = <<>>
    BY <1>3, <1>4, TilesFields
  <2>3. QED
    BY <1>2, <1>5, <2>1, <2>2
<1>6. CASE requests[c].op \in {"toggle", "delete"}
  <2>1. ui' = [phase |-> "data", list |-> calls[c].previous]
    BY <1>6 DEF Fail
  <2>2. QED
    BY <1>2, <1>3, <1>4, <1>6, <2>1
<1>7. CASE requests[c].op \notin {"list", "toggle", "delete"}
  <2>1. ui' = ui
    BY <1>7 DEF Fail
  <2>2. QED
    BY <1>2, <1>3, <1>4, <1>7, <2>1
<1>8. QED
  BY <1>5, <1>6, <1>7

\* A call that is given up: who only read loses nothing by it.
LEMMA GiveUpStep ==
  ASSUME Inv, NEW c \in Calls, GiveUp(c)
  PROVE  Inv'
<1>1. TypeOK /\ CallsFit /\ UnusedUnknown /\ InStep /\ requests[c] \in Request
  BY DEF Inv, TypeOK, ServiceTypeOK
<1>2. calls[c].stage = "waiting" /\ Fail(c)
  BY DEF GiveUp
<1>3. /\ calls' = [calls EXCEPT ![c] = Ended]
      /\ db' = db /\ listCache' = listCache /\ cache' = cache /\ triggers' = triggers
      /\ ui' \in [phase : {"data", "loading"}, list : Shown]
      /\ requests[c].op \in {"list", "toggle", "delete"} => ui'.phase = "data"
      /\ requests[c].op = "list" => ui'.list = Tiles(cache)
      /\ requests[c].op \notin {"list", "toggle", "delete"} => ui' = ui
      /\ \A x \in Alarms : db[x] = "unused" => ui'.list[x] = <<>>
  BY <1>2, FailShows
<1>4. /\ trouble' \in Troubles /\ faults' \in 0..MaxFaults
      /\ trouble' # "open" => requests[c].op \in Reads /\ trouble' = trouble
  BY <1>1, BoundAssumption DEF GiveUp, Try, Record, TypeOK, Troubles
<1>5. PICK q \in Request :
        /\ requests' = [requests EXCEPT ![c] = q]
        /\ \/ q = Closed
           \/ /\ q.op = requests[c].op /\ q.alarm = requests[c].alarm /\ requests[c].op # "get"
              /\ q.list = requests[c].list /\ q.pc = requests[c].pc /\ ~q.heard
  <2>1. CASE requests[c].op = "get" \/ requests[c].pc \in {"ok", "refused"}
    <3>1. requests' = [requests EXCEPT ![c] = Closed]
      BY <2>1 DEF GiveUp
    <3>2. QED
      BY <3>1, ClosedFields
  <2>2. CASE ~(requests[c].op = "get" \/ requests[c].pc \in {"ok", "refused"})
    <3> DEFINE q == [requests[c] EXCEPT !.heard = FALSE]
    <3>1. requests' = [requests EXCEPT ![c] = q]
      BY <2>2 DEF GiveUp
    <3>2. /\ q \in Request /\ q.op = requests[c].op /\ q.pc = requests[c].pc /\ ~q.heard
          /\ q.alarm = requests[c].alarm /\ q.row = requests[c].row /\ q.list = requests[c].list
      BY <1>1, UnheardFields
    <3> HIDE DEF q
    <3>3. QED
      BY <2>2, <3>1, <3>2
  <2>3. QED
    BY <2>1, <2>2
<1>6. Turn(c) /\ requests'[c] = q /\ calls'[c] = Ended
  BY <1>1, <1>3, <1>5, EndedFields, BothTurn
<1>7. /\ cache' \in List /\ triggers' \subseteq Alarms
      /\ \A x \in Alarms : db[x] = "unused" => x \notin triggers' /\ cache'[x] = "absent" /\ ui'.list[x] = <<>>
      /\ ui'.phase = "data" \/ (ui'.phase = ui.phase /\ requests[c].op # "list")
  BY <1>1, <1>3 DEF TypeOK, UnusedUnknown, Nowhere
<1>8. /\ TypeOK' /\ CallsFit' /\ UnusedUnknown' /\ LoadingEnds' /\ CleanRefresh'
      /\ (trouble # "open" /\ (requests'[c] = Closed \/ requests[c].op = "list")) =>
           /\ HeardOut' /\ Apart'
           /\ requests[c].pc # "invalidate" => ListKept'
  BY <1>2, <1>3, <1>4, <1>5, <1>6, <1>7, EndStep
<1>9. ASSUME trouble' # "open"
      PROVE  HeardOut' /\ Apart' /\ ListKept' /\ Copied' /\ Writing' /\ Reading'
  <2>1. trouble # "open" /\ trouble' = trouble /\ requests[c].op \in {"list", "get"}
    BY <1>4, <1>9 DEF Reads
  <2>2. Apart /\ Copied /\ Writing /\ Reading
    BY <1>1, <2>1 DEF InStep, Agreed
  <2>3. InFlight(c) /\ RequestFits(requests[c])
    BY <1>1, <1>2 DEF InFlight, CallsFit, Fits
  <2>4. requests[c].pc # "invalidate"
    BY <2>1, <2>3 DEF RequestFits, PcsOf
  <2>5. requests'[c] = Closed \/ requests[c].op = "list"
    BY <1>5, <1>6, <2>1
  <2>6. HeardOut' /\ Apart' /\ ListKept'
    BY <1>8, <2>1, <2>4, <2>5
  <2>7. CASE requests[c].op = "list"
    <3>1. /\ \A d \in Calls, a \in Alarms : ~Writes(d, a)
          /\ \A a \in Alarms : Settled(a) /\ CopiesOf(a)
          /\ cache = AllLive
      BY <1>1, <2>2, <2>3, <2>7, ListMeetsNoWriter
    <3>2. AllLive' = AllLive /\ Live' = Live
      BY <1>3 DEF AllLive, Live
    <3>3. \A a \in Alarms : CopiesOf(a)'
      <4>1. Tiles(AllLive)' = Tiles(AllLive)
        BY <3>2 DEF Tiles
      <4>2. ui'.list = Tiles(AllLive)
        BY <1>3, <2>7, <3>1
      <4>3. QED
        BY <1>3, <2>1, <3>1, <3>2, <4>1, <4>2 DEF CopiesOf
    <3>4. requests'[c].op \in Reads
      BY <1>5, <1>6, <2>7, ClosedFields DEF Reads
    <3>5. ReadOf(c)'
      BY <1>5, <1>6, <2>2, <2>7, <3>2, ClosedFields DEF Reading, ReadOf
    <3>6. QED
      BY <1>3, <1>6, <2>2, <2>6, <3>1, <3>3, <3>4, <3>5, ReadStep
  <2>8. CASE requests[c].op = "get"
    <3>1. \A x \in Alarms : ~Writes(c, x)
      BY <2>8 DEF Writes, Reads
    <3>2. ui' = ui /\ requests'[c] = Closed
      BY <1>3, <1>5, <1>6, <2>8
    <3>3. QED
      BY <1>3, <1>6, <1>8, <2>1, <2>6, <3>1, <3>2, FadeStep
  <2>9. QED
    BY <2>1, <2>7, <2>8
<1>10. QED
  BY <1>8, <1>9 DEF Inv, InStep, Agreed

\* A request that nobody waits for never reaches the server.
LEMMA LoseStep ==
  ASSUME Inv, NEW c \in Calls, Lose(c)
  PROVE  Inv'
<1>1. TypeOK /\ CallsFit /\ UnusedUnknown /\ InStep
  BY DEF Inv
<1>2. /\ requests[c].pc = "sent" /\ ~requests[c].heard /\ requests' = [requests EXCEPT ![c] = Closed]
      /\ db' = db /\ listCache' = listCache /\ cache' = cache /\ triggers' = triggers /\ ui' = ui
      /\ calls' = calls /\ trouble' = trouble /\ faults' = faults
  BY DEF Lose, phoneVars, history
<1>3. Turn(c) /\ requests'[c] = Closed /\ calls'[c] = calls[c]
  BY <1>1, <1>2, ClosedFields, ServeTurn
<1>4. Handled(c) /\ InFlight(c)
  BY <1>2, <1>3 DEF Handled, InFlight
<1>5. ASSUME trouble # "open"
      PROVE  ListKept' /\ Copied' /\ Writing' /\ Reading'
  <2>1. HeardOut /\ ListKept
    BY <1>1, <1>5 DEF InStep, Agreed
  <2>2. requests[c].op = "list"
    BY <1>2, <1>4, <2>1 DEF HeardOut
  <2>3. ListKept'
    BY <1>2, <1>3, <2>1, KeptStep
  <2>4. ReadOf(c)' /\ requests'[c].op = "list"
    BY <1>3, ClosedFields DEF ReadOf
  <2>5. QED
    BY <1>2, <1>3, <1>4, <1>5, <2>2, <2>3, <2>4, ListHandlerStep
<1>6. /\ db' \in [Alarms -> Row] /\ listCache' \in List \cup {NoList}
      /\ \A x \in Alarms : db'[x] = "unused" =>
           db[x] = "unused" /\ (listCache' # NoList => listCache'[x] = "absent")
  BY <1>1, <1>2 DEF TypeOK, ServiceTypeOK, UnusedUnknown, Nowhere
<1>7. QED
  BY <1>2, <1>3, <1>4, <1>5, <1>6, HandlerKeeps

\* A refusal: who is in step is refused a creation, or an alarm that it only wanted to read.
LEMMA RefusedStep ==
  ASSUME Inv, NEW c \in Calls, Refused(c)
  PROVE  Inv'
<1>1. TypeOK /\ CallsFit /\ UnusedUnknown /\ InStep /\ requests[c] \in Request
  BY DEF Inv, TypeOK, ServiceTypeOK
<1>2. /\ calls[c].stage = "waiting" /\ requests[c].pc = "refused" /\ Fail(c)
      /\ requests' = [requests EXCEPT ![c] = Closed] /\ trouble' = trouble /\ faults' = faults
  BY DEF Refused, history
<1>3. /\ calls' = [calls EXCEPT ![c] = Ended]
      /\ db' = db /\ listCache' = listCache /\ cache' = cache /\ triggers' = triggers
      /\ ui' \in [phase : {"data", "loading"}, list : Shown]
      /\ requests[c].op \in {"list", "toggle", "delete"} => ui'.phase = "data"
      /\ requests[c].op \notin {"list", "toggle", "delete"} => ui' = ui
      /\ \A x \in Alarms : db[x] = "unused" => ui'.list[x] = <<>>
  BY <1>2, FailShows
<1>4. Turn(c) /\ requests'[c] = Closed /\ calls'[c] = Ended
  BY <1>1, <1>2, <1>3, EndTurn
<1>5. /\ cache' \in List /\ triggers' \subseteq Alarms /\ trouble' \in Troubles /\ faults' \in 0..MaxFaults
      /\ \A x \in Alarms : db[x] = "unused" => x \notin triggers' /\ cache'[x] = "absent" /\ ui'.list[x] = <<>>
      /\ ui'.phase = "data" \/ (ui'.phase = ui.phase /\ requests[c].op # "list")
  BY <1>1, <1>2, <1>3 DEF TypeOK, UnusedUnknown, Nowhere
<1>6. /\ TypeOK' /\ CallsFit' /\ UnusedUnknown' /\ LoadingEnds' /\ CleanRefresh'
      /\ trouble # "open" => HeardOut' /\ Apart' /\ ListKept'
  BY <1>2, <1>3, <1>4, <1>5, EndStep
<1>7. ASSUME trouble # "open"
      PROVE  Copied' /\ Writing' /\ Reading'
  <2>1. InFlight(c) /\ RequestFits(requests[c])
    BY <1>1, <1>2 DEF InFlight, CallsFit, Fits
  <2>2. ASSUME NEW x \in Alarms
        PROVE  ~Writes(c, x)
    BY <1>1, <1>2, <1>7 DEF InStep, Agreed, Writing, WriteOf
  <2>3. requests[c].op \notin {"list", "toggle", "delete"}
    <3>1. requests[c].op # "list"
      BY <1>2, <2>1 DEF RequestFits, PcsOf
    <3>2. ASSUME requests[c].op \in {"toggle", "delete"}
          PROVE  FALSE
      <4>1. requests[c].alarm \in Alarms /\ Writes(c, requests[c].alarm)
        BY <2>1, <3>2 DEF RequestFits, Writes, Reads
      <4>2. QED
        BY <2>2, <4>1 DEF Writes
    <3>3. QED
      BY <3>1, <3>2
  <2>4. QED
    BY <1>2, <1>3, <1>4, <1>6, <1>7, <2>2, <2>3, FadeStep
<1>8. QED
  BY <1>2, <1>6, <1>7 DEF Inv, InStep, Agreed

\* The list goes to the cache: in step, it is what the cache holds.
LEMMA CacheAlarmsStep ==
  ASSUME Inv, NEW c \in Calls, CacheAlarms(c)
  PROVE  Inv'
<1>1. TypeOK /\ CallsFit /\ UnusedUnknown /\ CleanRefresh /\ InStep
  BY DEF Inv
<1>2. requests[c].list \in List /\ calls[c] \in Call
  BY <1>1 DEF TypeOK, ServiceTypeOK, Request
<1> DEFINE t == {a \in Alarms : requests[c].list[a] # "absent"}
           k == [calls[c] EXCEPT !.stage = "native", !.todo = t]
<1>3. /\ k \in Call /\ k.stage = "native" /\ k.previous = calls[c].previous /\ k.todo = t
      /\ k.clean = calls[c].clean /\ k.left = calls[c].left
  BY <1>2 DEF Call, Stages
<1>4. /\ calls' = [calls EXCEPT ![c] = k] /\ requests' = requests /\ cache' = requests[c].list
      /\ calls[c].stage = "waiting" /\ requests[c].op = "list" /\ requests[c].pc = "ok"
      /\ db' = db /\ listCache' = listCache /\ triggers' = triggers /\ ui' = ui
      /\ trouble' = trouble /\ faults' = faults
  BY DEF CacheAlarms, Answered, At, serviceVars, history
<1>5. \A x \in Alarms : x \notin t => requests[c].list[x] = "absent"
  OBVIOUS
<1>6. \A x \in Alarms : requests[c].list[x] = "absent" => x \notin t
  OBVIOUS
<1> HIDE DEF k, t
<1>7. Turn(c) /\ requests'[c] = requests[c] /\ calls'[c] = k
  BY <1>1, <1>3, <1>4, AppTurn
<1>8. /\ cache' \in List /\ triggers' \subseteq Alarms /\ trouble' \in Troubles /\ faults' \in 0..MaxFaults
      /\ \A x \in Alarms : db[x] = "unused" =>
           x \notin triggers' /\ cache'[x] = "absent" /\ x \notin calls'[c].todo
  BY <1>1, <1>2, <1>3, <1>4, <1>6, <1>7 DEF TypeOK, UnusedUnknown, Nowhere, NotIn
<1>9. ASSUME calls'[c].clean
      PROVE  RefreshedBy(c)'
  <2>1. RefreshedBy(c)
    BY <1>1, <1>3, <1>7, <1>9 DEF CleanRefresh
  <2>2. Alone(c)'
    BY <1>7, <2>1, OtherCalls DEF RefreshedBy
  <2>3. QED
    BY <1>3, <1>4, <1>5, <1>7, <2>1, <2>2 DEF RefreshedBy, Working
<1>10. /\ TypeOK' /\ CallsFit' /\ UnusedUnknown' /\ LoadingEnds' /\ CleanRefresh'
       /\ trouble # "open" => HeardOut' /\ Apart' /\ ListKept'
  BY <1>3, <1>4, <1>7, <1>8, <1>9, GoOnStep
<1>11. ASSUME trouble # "open"
       PROVE  Copied' /\ Writing' /\ Reading'
  <2>1. Apart /\ Copied /\ Reading
    BY <1>1, <1>11 DEF InStep, Agreed
  <2>2. InFlight(c)
    BY <1>4 DEF InFlight
  <2>3. /\ \A d \in Calls, a \in Alarms : ~Writes(d, a)
        /\ \A a \in Alarms : Settled(a) /\ CopiesOf(a)
        /\ cache = AllLive
    BY <1>1, <1>4, <2>1, <2>2, ListMeetsNoWriter
  <2>4. cache' = cache
    BY <1>4, <2>1, <2>3 DEF Reading, ReadOf
  <2>5. ReadOf(c)' /\ requests'[c].op = "list"
    <3>1. AllLive' = AllLive
      BY <1>4 DEF AllLive, Live
    <3>2. QED
      BY <1>4, <1>7, <2>1, <3>1 DEF Reading, ReadOf
  <2>6. QED
    BY <1>4, <1>7, <1>11, <2>2, <2>4, <2>5, ListHandlerStep
<1>12. QED
  BY <1>4, <1>10, <1>11 DEF Inv, InStep, Agreed

\* What a write was answered goes to the cache.
LEMMA WriteCached ==
  ASSUME Inv, NEW c \in Calls, NEW a \in Alarms, requests[c].alarm = a,
         requests[c].op \in {"create", "update", "toggle", "delete"}, requests[c].pc = "ok",
         calls[c].stage = "waiting", calls' = [calls EXCEPT ![c].stage = "native"],
         NEW v \in Switch \cup {"absent"}, cache' = [cache EXCEPT ![a] = v],
         WriteOf(c, a) => v = AllLive[a],
         UNCHANGED <<serviceVars, triggers, ui, history>>
  PROVE  Inv'
<1>1. TypeOK /\ CallsFit /\ UnusedUnknown /\ CleanRefresh /\ InStep
  BY DEF Inv
<1> DEFINE k == [calls[c] EXCEPT !.stage = "native"]
<1>2. calls[c] \in Call /\ "native" \in Stages
  BY <1>1 DEF TypeOK, Stages
<1>3. /\ k \in Call /\ k.stage = "native" /\ k.previous = calls[c].previous /\ k.todo = calls[c].todo
      /\ k.clean = calls[c].clean /\ k.left = calls[c].left
  BY <1>2, StageFields
<1>4. /\ calls' = [calls EXCEPT ![c] = k] /\ requests' = requests
      /\ db' = db /\ listCache' = listCache /\ triggers' = triggers /\ ui' = ui
      /\ trouble' = trouble /\ faults' = faults
  BY DEF serviceVars, history
<1> HIDE DEF k
<1>5. Turn(c) /\ requests'[c] = requests[c] /\ calls'[c] = k
  BY <1>1, <1>3, <1>4, AppTurn
<1>6. cache' \in List /\ cache'[a] = v /\ \A x \in Alarms \ {a} : cache'[x] = cache[x]
  BY <1>1 DEF TypeOK, List
<1>7. /\ triggers' \subseteq Alarms /\ trouble' \in Troubles /\ faults' \in 0..MaxFaults
      /\ \A x \in Alarms : db[x] = "unused" =>
           x \notin triggers' /\ cache'[x] = "absent" /\ x \notin calls'[c].todo
  BY <1>1, <1>3, <1>4, <1>5, <1>6 DEF TypeOK, UnusedUnknown, Nowhere, NotIn
<1>8. ~calls'[c].clean
  BY <1>1, <1>3, <1>5 DEF CleanRefresh, RefreshedBy
<1>9. /\ TypeOK' /\ CallsFit' /\ UnusedUnknown' /\ LoadingEnds' /\ CleanRefresh'
      /\ trouble # "open" => HeardOut' /\ Apart' /\ ListKept'
  BY <1>3, <1>4, <1>5, <1>6, <1>7, <1>8, GoOnStep
<1>10. ASSUME trouble # "open"
       PROVE  Copied' /\ Writing' /\ Reading'
  <2>1. Apart /\ Copied /\ Writing /\ Reading
    BY <1>1, <1>10 DEF InStep, Agreed
  <2>2. InFlight(c) /\ requests[c].op \notin Reads /\ Writes(c, a) /\ a # NoAlarm
    BY ServiceAssumption DEF InFlight, Reads, Writes
  <2>3. \A d \in Calls \ {c} : ~Writes(d, a)
    BY <2>1, <2>2, WriterIsAlone DEF Writes
  <2>4. Writes(c, a)' /\ ~Settled(a)'
    BY <1>3, <1>5, <2>2 DEF Writes, InFlight, Settled
  <2>5. WriteOf(c, a)'
    <3>1. AllLive' = AllLive /\ Live' = Live
      BY <1>4 DEF AllLive, Live
    <3>2. WriteOf(c, a)
      BY <2>1, <2>2 DEF Writing
    <3>3. QED
      BY <1>4, <1>5, <1>6, <3>1, <3>2 DEF WriteOf
  <2>6. ReadOf(c)'
    BY <1>5 DEF ReadOf
  <2>7. \A x \in Alarms \ {a} :
          /\ db'[x] = db[x] /\ cache'[x] = cache[x] /\ ui'.list[x] = ui.list[x]
          /\ x \in triggers' <=> x \in triggers
          /\ ~Writes(c, x) /\ ~Writes(c, x)'
    BY <1>4, <1>5, <1>6 DEF Writes
  <2>8. ui'.phase = "data" => ui.phase = "data"
    BY <1>4
  <2>9. Copied' /\ Writing' /\ Reading'
    BY <1>1, <1>4, <1>5, <1>9, <2>1, <2>3, <2>4, <2>5, <2>6, <2>7, <2>8, WriteStep
  <2>10. QED
    BY <2>9
<1>11. QED
  BY <1>4, <1>9, <1>10 DEF Inv, InStep, Agreed

\* The row that was created, edited or switched, ...
LEMMA UpsertAlarmStep ==
  ASSUME Inv, NEW c \in Calls, UpsertAlarm(c)
  PROVE  Inv'
<1>1. TypeOK /\ CallsFit
  BY DEF Inv
<1>2. PICK a : a = requests[c].alarm
  OBVIOUS
<1>3. PICK v : v = requests[c].row
  OBVIOUS
<1>4. /\ calls[c].stage = "waiting" /\ requests[c].op \in {"create", "update", "toggle"} /\ requests[c].pc = "ok"
      /\ cache' = [cache EXCEPT ![a] = v] /\ calls' = [calls EXCEPT ![c].stage = "native"]
      /\ UNCHANGED <<serviceVars, triggers, ui, history>>
  BY <1>2, <1>3 DEF UpsertAlarm, Answered, At
<1>5. a \in Alarms /\ v \in Switch
  BY <1>1, <1>2, <1>3, <1>4 DEF CallsFit, Fits, RequestFits, TypeOK, ServiceTypeOK, Request
<1>6. WriteOf(c, a) => v = AllLive[a]
  BY <1>1, <1>3, <1>4, <1>5, AllLiveFields DEF WriteOf
<1>7. QED
  BY <1>2, <1>4, <1>5, <1>6, WriteCached

\* ... and the absence of the one that was deleted.
LEMMA RemoveAlarmStep ==
  ASSUME Inv, NEW c \in Calls, RemoveAlarm(c)
  PROVE  Inv'
<1>1. TypeOK /\ CallsFit
  BY DEF Inv
<1>2. PICK a : a = requests[c].alarm
  OBVIOUS
<1>3. /\ calls[c].stage = "waiting" /\ requests[c].op = "delete" /\ requests[c].pc = "ok"
      /\ cache' = [cache EXCEPT ![a] = "absent"] /\ calls' = [calls EXCEPT ![c].stage = "native"]
      /\ UNCHANGED <<serviceVars, triggers, ui, history>>
  BY <1>2 DEF RemoveAlarm, Answered, At
<1>4. a \in Alarms
  BY <1>1, <1>2, <1>3 DEF CallsFit, Fits, RequestFits
<1>5. WriteOf(c, a) => "absent" = AllLive[a]
  BY <1>1, <1>3, <1>4, AllLiveFields DEF WriteOf
<1>6. QED
  BY <1>2, <1>3, <1>4, <1>5, WriteCached

\* The ring screen's alarm goes to the cache, which in step had it so.
LEMMA GotAlarmStep ==
  ASSUME Inv, NEW c \in Calls, GotAlarm(c)
  PROVE  Inv'
<1>1. TypeOK /\ CallsFit /\ UnusedUnknown /\ InStep
  BY DEF Inv
<1>2. PICK a : a = requests[c].alarm
  OBVIOUS
<1>3. PICK v : v = requests[c].row
  OBVIOUS
<1>4. /\ calls[c].stage = "waiting" /\ requests[c].op = "get" /\ requests[c].pc = "ok"
      /\ cache' = [cache EXCEPT ![a] = v]
      /\ calls' = [calls EXCEPT ![c] = Ended] /\ requests' = [requests EXCEPT ![c] = Closed]
      /\ db' = db /\ listCache' = listCache /\ triggers' = triggers /\ ui' = ui
      /\ trouble' = trouble /\ faults' = faults
  BY <1>2, <1>3 DEF GotAlarm, Answered, At, history
<1>5. a \in Alarms /\ v \in Switch /\ InFlight(c) /\ a # NoAlarm
  BY <1>1, <1>2, <1>3, <1>4, ServiceAssumption
     DEF CallsFit, Fits, RequestFits, TypeOK, ServiceTypeOK, Request, InFlight
<1>6. Turn(c) /\ requests'[c] = Closed /\ calls'[c] = Ended
  BY <1>1, <1>4, EndTurn
<1>7. cache' \in List /\ cache'[a] = v /\ \A x \in Alarms \ {a} : cache'[x] = cache[x]
  BY <1>1, <1>4, <1>5 DEF TypeOK, List
<1>8. /\ triggers' \subseteq Alarms /\ trouble' \in Troubles /\ faults' \in 0..MaxFaults
      /\ \A x \in Alarms : db[x] = "unused" => x \notin triggers' /\ cache'[x] = "absent" /\ ui'.list[x] = <<>>
      /\ ui' \in [phase : {"data", "loading"}, list : Shown]
  BY <1>1, <1>2, <1>4, <1>7 DEF TypeOK, UnusedUnknown, Nowhere, NotIn
<1>9. /\ TypeOK' /\ CallsFit' /\ UnusedUnknown' /\ LoadingEnds' /\ CleanRefresh'
      /\ trouble # "open" => HeardOut' /\ Apart' /\ ListKept'
  <2>1. ui'.phase = "data" \/ (ui'.phase = ui.phase /\ requests[c].op # "list")
    BY <1>4
  <2>2. QED
    BY <1>4, <1>6, <1>7, <1>8, <2>1, EndStep
<1>10. ASSUME trouble # "open"
       PROVE  Copied' /\ Writing' /\ Reading'
  <2>1. Apart /\ Copied /\ Writing /\ Reading
    BY <1>1, <1>10 DEF InStep, Agreed
  <2>2. \A d \in Calls \ {c} : ~Writes(d, a)
    BY <1>2, <1>5, <2>1 DEF Writes, Apart, Conflict
  <2>3. \A x \in Alarms : ~Writes(c, x) /\ ~Writes(c, x)'
    BY <1>4, <1>6, ClosedFields DEF Writes, Reads
  <2>4. Settled(a) /\ CopiesOf(a)
    BY <1>5, <2>1, <2>2, <2>3 DEF Settled, Copied
  <2>5. a \in Live /\ v = db[a]
    BY <1>2, <1>3, <1>4, <2>1 DEF Reading, ReadOf
  <2>6. cache'[a] = cache[a]
    BY <1>1, <1>5, <1>7, <2>4, <2>5, AllLiveFields DEF CopiesOf
  <2>7. CopiesOf(a)'
    <3>1. AllLive' = AllLive /\ Live' = Live
      BY <1>4 DEF AllLive, Live
    <3>2. QED
      BY <1>4, <2>4, <2>6, <3>1 DEF CopiesOf
  <2>8. ReadOf(c)'
    BY <1>6, ClosedFields DEF ReadOf
  <2>9. \A x \in Alarms \ {a} :
          /\ db'[x] = db[x] /\ cache'[x] = cache[x] /\ ui'.list[x] = ui.list[x]
          /\ x \in triggers' <=> x \in triggers
          /\ ~Writes(c, x) /\ ~Writes(c, x)'
    BY <1>4, <1>7, <2>3
  <2>10. ui'.phase = "data" => ui.phase = "data"
    BY <1>4
  <2>11. Copied' /\ Writing' /\ Reading'
    BY <1>1, <1>4, <1>5, <1>6, <1>9, <2>1, <2>2, <2>3, <2>7, <2>8, <2>9, <2>10, WriteStep
  <2>12. QED
    BY <2>11
<1>11. QED
  BY <1>4, <1>9, <1>10 DEF Inv, InStep, Agreed

\* Arming or cancelling an alarm.
LEMMA ScheduleFields ==
  ASSUME TypeOK, NEW a \in Alarms, NEW s, NEW ok \in BOOLEAN, Schedule(a, s, ok)
  PROVE  /\ triggers' \subseteq Alarms
         /\ \A x \in Alarms \ {a} : x \in triggers' <=> x \in triggers
         /\ ok => (a \in triggers' <=> s = "on")
  BY DEF Schedule, TypeOK

\* One alarm of the list that was read is armed or cancelled: in step it was that already.
LEMMA RescheduleStep ==
  ASSUME Inv, NEW c \in Calls, NEW ok \in BOOLEAN, Reschedule(c, ok)
  PROVE  Inv'
<1>1. TypeOK /\ CallsFit /\ UnusedUnknown /\ CleanRefresh /\ InStep
  BY DEF Inv
<1>2. calls[c] \in Call /\ calls[c].todo \subseteq Alarms
  BY <1>1 DEF TypeOK, Call
<1>3. PICK a \in calls[c].todo :
        /\ Schedule(a, requests[c].list[a], ok)
        /\ calls' = [calls EXCEPT ![c].todo = @ \ {a}, ![c].clean = @ /\ ok]
  BY DEF Reschedule
<1>4. a \in Alarms
  BY <1>2, <1>3
<1> DEFINE t == calls[c].todo \ {a}
           k == [calls[c] EXCEPT !.todo = t, !.clean = calls[c].clean /\ ok]
<1>5. /\ k \in Call /\ k.stage = calls[c].stage /\ k.previous = calls[c].previous /\ k.todo = t
      /\ k.left = calls[c].left /\ k.clean = (calls[c].clean /\ ok)
  <2>1. t \in SUBSET Alarms /\ (calls[c].clean /\ ok) \in BOOLEAN
    BY <1>2
  <2>2. QED
    BY <1>2, <2>1 DEF Call
<1>6. calls' = [calls EXCEPT ![c] = k]
  BY <1>3
<1>7. \A x : x \in t <=> x \in calls[c].todo /\ x # a
  OBVIOUS
<1> HIDE DEF k, t
<1>8. /\ requests' = requests /\ calls[c].stage = "native" /\ requests[c].op = "list"
      /\ db' = db /\ listCache' = listCache /\ cache' = cache /\ ui' = ui
  BY DEF Reschedule, serviceVars
<1>9. /\ trouble' \in Troubles /\ faults' \in 0..MaxFaults
      /\ trouble' # "open" => ok /\ trouble' = trouble
  BY <1>1, BoundAssumption DEF Reschedule, Try, Record, TypeOK, Troubles
<1>10. Turn(c) /\ requests'[c] = requests[c] /\ calls'[c] = k
  BY <1>1, <1>5, <1>6, <1>8, AppTurn
<1>11. /\ triggers' \subseteq Alarms
       /\ \A x \in Alarms \ {a} : x \in triggers' <=> x \in triggers
       /\ ok => (a \in triggers' <=> requests[c].list[a] = "on")
  BY <1>1, <1>3, <1>4, ScheduleFields
<1>12. requests[c].pc = "ok" /\ InFlight(c)
  BY <1>1, <1>8 DEF CallsFit, Fits, InFlight
<1>13. /\ cache' \in List
       /\ \A x \in Alarms : db[x] = "unused" =>
            x \notin triggers' /\ cache'[x] = "absent" /\ x \notin calls'[c].todo
  BY <1>1, <1>3, <1>5, <1>7, <1>8, <1>10, <1>11 DEF TypeOK, UnusedUnknown, Nowhere, NotIn
<1>14. ASSUME calls'[c].clean
       PROVE  RefreshedBy(c)'
  <2>1. calls[c].clean /\ ok
    BY <1>5, <1>10, <1>14
  <2>2. RefreshedBy(c)
    BY <1>1, <2>1 DEF CleanRefresh
  <2>3. Alone(c)'
    BY <1>10, <2>2, OtherCalls DEF RefreshedBy
  <2>4. \A x \in Alarms \ calls'[c].todo :
          requests'[c].list[x] # "absent" => (x \in triggers' <=> requests'[c].list[x] = "on")
    BY <1>5, <1>7, <1>8, <1>10, <1>11, <2>1, <2>2 DEF RefreshedBy
  <2>5. QED
    BY <1>5, <1>8, <1>10, <2>2, <2>3, <2>4 DEF RefreshedBy, Working
<1>15. /\ TypeOK' /\ CallsFit' /\ UnusedUnknown' /\ LoadingEnds' /\ CleanRefresh'
       /\ trouble # "open" => HeardOut' /\ Apart' /\ ListKept'
  BY <1>5, <1>8, <1>9, <1>10, <1>11, <1>12, <1>13, <1>14, GoOnStep
<1>16. ASSUME trouble' # "open"
       PROVE  HeardOut' /\ Apart' /\ ListKept' /\ Copied' /\ Writing' /\ Reading'
  <2>1. trouble # "open" /\ trouble' = trouble /\ ok
    BY <1>9, <1>16
  <2>2. Apart /\ Copied /\ Reading
    BY <1>1, <2>1 DEF InStep, Agreed
  <2>3. /\ \A d \in Calls, x \in Alarms : ~Writes(d, x)
        /\ \A x \in Alarms : Settled(x) /\ CopiesOf(x)
    BY <1>1, <1>8, <1>12, <2>2, ListMeetsNoWriter
  <2>4. requests[c].list = AllLive
    BY <1>8, <1>12, <2>2 DEF Reading, ReadOf
  <2>5. AllLive' = AllLive /\ Live' = Live
    BY <1>8 DEF AllLive, Live
  <2>6. ASSUME NEW x \in Alarms
        PROVE  CopiesOf(x)'
    <3>1. CopiesOf(x)
      BY <2>3
    <3>2. Tiles(AllLive)' = Tiles(AllLive)
      BY <2>5 DEF Tiles
    <3>3. CASE x # a
      BY <1>8, <1>11, <2>1, <2>5, <3>1, <3>2, <3>3 DEF CopiesOf
    <3>4. CASE x = a
      <4>1. /\ x \in Live => requests[c].list[x] = db[x]
            /\ x \notin Live => requests[c].list[x] = "absent"
        BY <1>1, <2>4, AllLiveFields
      <4>2. (x \in Live => (x \in triggers' <=> db[x] = "on")) /\ (x \notin Live => x \notin triggers')
        BY <1>11, <2>1, <3>4, <4>1
      <4>3. QED
        BY <1>8, <2>1, <2>5, <3>1, <3>2, <4>2 DEF CopiesOf
    <3>5. QED
      BY <3>3, <3>4
  <2>7. requests'[c].op \in Reads /\ ReadOf(c)'
    BY <1>8, <1>10, <2>2, <2>4, <2>5 DEF Reads, ReadOf
  <2>8. QED
    BY <1>8, <1>10, <1>15, <2>1, <2>2, <2>3, <2>6, <2>7, ReadStep
<1>17. QED
  BY <1>15, <1>16 DEF Inv, InStep, Agreed

\* The list that was read is shown.  In step it is the rows; and the list of a refresh that was clean
\* and is the rows has brought the copies in step.
LEMMA ListShownStep ==
  ASSUME Inv, NEW c \in Calls, ListShown(c)
  PROVE  Inv'
<1>1. TypeOK /\ CallsFit /\ UnusedUnknown /\ CleanRefresh /\ InStep
  BY DEF Inv
<1>2. /\ calls[c].stage = "native" /\ requests[c].op = "list" /\ calls[c].todo = {}
      /\ ui' = [phase |-> "data", list |-> Tiles(requests[c].list)]
      /\ calls' = [calls EXCEPT ![c] = Ended] /\ requests' = [requests EXCEPT ![c] = Closed]
      /\ trouble' = IF trouble = "open" /\ calls[c].clean /\ requests[c].list = AllLive
                    THEN "past" ELSE trouble
      /\ faults' = faults /\ db' = db /\ listCache' = listCache /\ cache' = cache /\ triggers' = triggers
  BY DEF ListShown
<1>3. requests[c].pc = "ok" /\ InFlight(c) /\ requests[c].list \in List
  BY <1>1, <1>2 DEF CallsFit, Fits, InFlight, TypeOK, ServiceTypeOK, Request
<1>4. Turn(c) /\ requests'[c] = Closed /\ calls'[c] = Ended
  BY <1>1, <1>2, EndTurn
<1>5. ui' \in [phase : {"data", "loading"}, list : Shown] /\ ui'.phase = "data"
  BY <1>2, <1>3, TilesFields
<1>6. \A x \in Alarms : db[x] = "unused" => x \notin triggers' /\ cache'[x] = "absent" /\ ui'.list[x] = <<>>
  <2>1. ASSUME NEW x \in Alarms, db[x] = "unused"
        PROVE  x \notin triggers' /\ cache'[x] = "absent" /\ ui'.list[x] = <<>>
    <3>1. Nowhere(x) /\ requests[c].list[x] = "absent"
      BY <1>1, <2>1 DEF UnusedUnknown, NotIn
    <3>2. Tiles(requests[c].list)[x] = <<>>
      BY <1>3, <3>1, TilesFields
    <3>3. QED
      BY <1>2, <3>1, <3>2 DEF Nowhere
  <2>2. QED
    BY <2>1
<1>7. cache' \in List /\ triggers' \subseteq Alarms /\ trouble' \in Troubles /\ faults' \in 0..MaxFaults
  BY <1>1, <1>2 DEF TypeOK, Troubles
<1>8. /\ TypeOK' /\ CallsFit' /\ UnusedUnknown' /\ LoadingEnds' /\ CleanRefresh'
      /\ trouble # "open" => HeardOut' /\ Apart' /\ ListKept'
  BY <1>2, <1>3, <1>4, <1>5, <1>6, <1>7, EndStep
<1>9. AllLive' = AllLive /\ Live' = Live /\ Tiles(AllLive)' = Tiles(AllLive)
  BY <1>2 DEF AllLive, Live, Tiles
<1>10. requests'[c].op \in Reads /\ ReadOf(c)'
  BY <1>4, ClosedFields DEF Reads, ReadOf
<1>11. CASE trouble # "open"
  <2>1. Apart /\ Copied /\ Reading
    BY <1>1, <1>11 DEF InStep, Agreed
  <2>2. /\ \A d \in Calls, x \in Alarms : ~Writes(d, x)
        /\ \A x \in Alarms : Settled(x) /\ CopiesOf(x)
    BY <1>1, <1>2, <1>3, <2>1, ListMeetsNoWriter
  <2>3. requests[c].list = AllLive /\ trouble' = trouble
    BY <1>2, <1>3, <1>11, <2>1 DEF Reading, ReadOf
  <2>4. ui'.list = Tiles(AllLive)
    BY <1>2, <2>3
  <2>5. \A x \in Alarms : CopiesOf(x)'
    BY <1>2, <1>9, <2>2, <2>3, <2>4 DEF CopiesOf
  <2>6. Copied' /\ Writing' /\ Reading'
    BY <1>2, <1>4, <1>10, <2>1, <2>2, <2>5, ReadStep
  <2>7. QED
    BY <1>8, <1>11, <2>6 DEF Inv, InStep, Agreed
<1>12. CASE trouble' = "open"
  BY <1>8, <1>12 DEF Inv, InStep
<1>13. CASE trouble = "open" /\ trouble' # "open"
  <2>1. calls[c].clean /\ requests[c].list = AllLive /\ trouble' = "past"
    BY <1>2, <1>13
  <2>2. RefreshedBy(c)
    BY <1>1, <2>1 DEF CleanRefresh
  <2>3. \A d \in Calls : ~InFlight(d)'
    <3>1. ~InFlight(c)'
      BY <1>4, ClosedFields, EndedFields DEF InFlight
    <3>2. \A d \in Calls \ {c} : ~InFlight(d)'
      BY <1>4, <2>2, OtherCalls DEF RefreshedBy, Alone
    <3>3. QED
      BY <3>1, <3>2
  <2>4. HeardOut' /\ Apart'
    BY <2>3 DEF HeardOut, Apart
  <2>5. ListKept'
    BY <1>2, <1>3, <1>9, <2>1, <2>2 DEF ListKept, RefreshedBy
  <2>6. \A x \in Alarms : CopiesOf(x)'
    <3>1. cache = AllLive
      BY <1>2, <2>1, <2>2 DEF RefreshedBy
    <3>2. ui'.list = Tiles(AllLive)
      BY <1>2, <2>1
    <3>3. ASSUME NEW x \in Alarms, x \in Live
          PROVE  x \in triggers <=> db[x] = "on"
      <4>1. AllLive[x] # "absent" /\ AllLive[x] = db[x]
        BY <1>1, <3>3, AllLiveFields
      <4>2. QED
        BY <1>2, <2>1, <2>2, <3>3, <4>1 DEF RefreshedBy
    <3>4. QED
      BY <1>2, <1>9, <2>1, <3>1, <3>2, <3>3 DEF CopiesOf
  <2>7. Writing'
    BY <2>3 DEF Writing, Writes
  <2>8. Reading'
    <3>1. \A d \in Calls : requests'[d].pc = "closed"
      BY <2>3 DEF InFlight
    <3>2. QED
      BY <3>1 DEF Reading, ReadOf
  <2>9. QED
    BY <1>8, <2>4, <2>5, <2>6, <2>7, <2>8 DEF Inv, InStep, Agreed, Copied
<1>14. QED
  BY <1>11, <1>12, <1>13

\* A write that ends with its alarm's trigger and tile as they should be ends with all copies in step.
LEMMA WriteEnded ==
  ASSUME Inv, NEW c \in Calls, NEW a \in Alarms, requests[c].alarm = a, requests[c].op \notin Reads,
         calls[c].stage = "native", calls' = [calls EXCEPT ![c] = Ended],
         requests' = [requests EXCEPT ![c] = Closed],
         db' = db, listCache' = listCache, cache' = cache,
         NEW ok \in BOOLEAN, Try(ok), triggers' \subseteq Alarms,
         \A x \in Alarms \ {a} : x \in triggers' <=> x \in triggers,
         ui' \in [phase : {"data", "loading"}, list : Shown], ui'.phase = "data" \/ ui'.phase = ui.phase,
         \A x \in Alarms \ {a} : ui'.list[x] = ui.list[x],
         WriteOf(c, a) /\ ~calls[c].left =>
           /\ a \in Live => ui'.list[a] = <<db[a]>> /\ (ok => (a \in triggers' <=> db[a] = "on"))
           /\ a \notin Live => ui'.list[a] = <<>> /\ (ok => a \notin triggers')
  PROVE  Inv'
<1>1. TypeOK /\ CallsFit /\ UnusedUnknown /\ LoadingEnds /\ InStep
  BY DEF Inv
<1>2. Turn(c) /\ requests'[c] = Closed /\ calls'[c] = Ended
  BY <1>1, EndTurn
<1>3. /\ trouble' \in Troubles /\ faults' \in 0..MaxFaults
      /\ trouble' # "open" => ok /\ trouble' = trouble
  BY <1>1, BoundAssumption DEF Try, Record, TypeOK, Troubles
<1>4. requests[c].pc = "ok" /\ InFlight(c)
  BY <1>1 DEF CallsFit, Fits, InFlight
<1>5. \A x \in Alarms : db[x] = "unused" => x \notin triggers' /\ cache'[x] = "absent" /\ ui'.list[x] = <<>>
  <2>1. \A x \in Alarms : db[x] = "unused" =>
          x # a /\ x \notin triggers /\ cache[x] = "absent" /\ ui.list[x] = <<>>
    BY <1>1 DEF UnusedUnknown, Nowhere, NotIn
  <2>2. QED
    BY <2>1
<1>6. /\ TypeOK' /\ CallsFit' /\ UnusedUnknown' /\ LoadingEnds' /\ CleanRefresh'
      /\ trouble # "open" => HeardOut' /\ Apart' /\ ListKept'
  <2>1. cache' \in List
    BY <1>1 DEF TypeOK
  <2>2. ui'.phase = "data" \/ (ui'.phase = ui.phase /\ requests[c].op # "list")
    BY DEF Reads
  <2>3. QED
    BY <1>2, <1>3, <1>4, <1>5, <2>1, <2>2, EndStep
<1>7. ASSUME trouble' # "open"
      PROVE  HeardOut' /\ Apart' /\ ListKept' /\ Copied' /\ Writing' /\ Reading'
  <2>1. trouble # "open" /\ trouble' = trouble /\ ok
    BY <1>3, <1>7
  <2>2. HeardOut /\ Apart /\ Copied /\ Writing /\ Reading
    BY <1>1, <2>1 DEF InStep, Agreed
  <2>3. Writes(c, a) /\ a # NoAlarm
    BY <1>4, ServiceAssumption DEF Writes
  <2>4. WriteOf(c, a) /\ ~calls[c].left
    BY <1>4, <2>2, <2>3 DEF Writing, HeardOut
  <2>5. ui.phase = "data"
    BY <1>1, <1>4, <2>2, WriterSeesList
  <2>6. \A d \in Calls \ {c} : ~Writes(d, a)
    BY <1>4, <2>2, <2>3, WriterIsAlone DEF Writes
  <2>7. CopiesOf(a)'
    <3>1. AllLive' = AllLive /\ Live' = Live /\ AllLive \in List
      BY <1>1, AllLiveFields DEF AllLive, Live
    <3>2. Tiles(AllLive)' = Tiles(AllLive)
      BY <3>1 DEF Tiles
    <3>3. cache[a] = AllLive[a]
      BY <2>4 DEF WriteOf
    <3>4. ui'.list[a] = Tiles(AllLive)[a]
      BY <1>1, <2>4, <3>1, AllLiveFields, TilesFields
    <3>5. (a \in Live => (a \in triggers' <=> db[a] = "on")) /\ (a \notin Live => a \notin triggers')
      BY <2>1, <2>4
    <3>6. QED
      BY <3>1, <3>2, <3>3, <3>4, <3>5 DEF CopiesOf
  <2>8. ReadOf(c)' /\ \A x \in Alarms : ~Writes(c, x)'
    BY <1>2, ClosedFields DEF ReadOf, Writes, Reads
  <2>9. \A x \in Alarms \ {a} :
          /\ db'[x] = db[x] /\ cache'[x] = cache[x] /\ ui'.list[x] = ui.list[x]
          /\ x \in triggers' <=> x \in triggers
          /\ ~Writes(c, x) /\ ~Writes(c, x)'
    BY <2>8 DEF Writes
  <2>10. Copied' /\ Writing' /\ Reading'
    BY <1>1, <1>2, <1>6, <2>1, <2>2, <2>5, <2>6, <2>7, <2>8, <2>9, WriteStep
  <2>11. QED
    BY <1>6, <2>1, <2>10
<1>8. QED
  BY <1>6, <1>7 DEF Inv, InStep, Agreed

\* A creation or a toggle ends.
LEMMA ScheduleAlarmStep ==
  ASSUME Inv, NEW c \in Calls, NEW ok \in BOOLEAN, ScheduleAlarm(c, ok)
  PROVE  Inv'
<1>1. TypeOK /\ CallsFit
  BY DEF Inv
<1>2. PICK a : a = requests[c].alarm
  OBVIOUS
<1>3. PICK s : s = requests[c].row
  OBVIOUS
<1>4. /\ calls[c].stage = "native" /\ requests[c].op \in {"create", "toggle"} /\ Schedule(a, s, ok) /\ Try(ok)
      /\ calls' = [calls EXCEPT ![c] = Ended] /\ requests' = [requests EXCEPT ![c] = Closed]
      /\ db' = db /\ listCache' = listCache /\ cache' = cache
  BY <1>2, <1>3 DEF ScheduleAlarm, NativeStage
<1>5. a \in Alarms /\ s \in Switch /\ requests[c].pc = "ok"
  BY <1>1, <1>2, <1>3, <1>4 DEF CallsFit, Fits, RequestFits, TypeOK, ServiceTypeOK, Request
<1>6. ui \in [phase : {"data", "loading"}, list : Shown] /\ ui.list[a] \in Seq(Switch)
  BY <1>1, <1>5 DEF TypeOK, Shown
<1>7. /\ Replaced(ui.list[a], s) \in Seq(Switch) /\ Append(ui.list[a], s) \in Seq(Switch)
      /\ ui.list[a] = <<>> => Append(ui.list[a], s) = <<s>>
      /\ \A r \in Switch : ui.list[a] = <<r>> => Replaced(ui.list[a], s) = <<s>>
  BY <1>5, <1>6, TileFields
<1>8. PICK t \in Seq(Switch) :
        /\ \/ ui' = [phase |-> "data", list |-> [ui.list EXCEPT ![a] = t]]
           \/ ui' = ui /\ t = ui.list[a]
        /\ requests[c].op = "toggle" => t = Replaced(ui.list[a], s)
        /\ requests[c].op = "create" => t = Append(ui.list[a], s) \/ calls[c].left
  <2>1. CASE requests[c].op = "toggle"
    <3>1. ui' = [phase |-> "data", list |-> [ui.list EXCEPT ![a] = Replaced(ui.list[a], s)]]
      BY <1>2, <1>3, <2>1 DEF ScheduleAlarm
    <3>2. QED
      BY <1>7, <2>1, <3>1
  <2>2. CASE requests[c].op = "create" /\ calls[c].left
    <3>1. ui' = ui
      BY <2>2 DEF ScheduleAlarm
    <3>2. QED
      BY <1>6, <2>2, <3>1
  <2>3. CASE requests[c].op = "create" /\ ~calls[c].left
    <3>1. ui' = [phase |-> "data", list |-> [ui.list EXCEPT ![a] = Append(ui.list[a], s)]]
      BY <1>2, <1>3, <2>3 DEF ScheduleAlarm
    <3>2. QED
      BY <1>7, <2>3, <3>1
  <2>4. QED
    BY <1>4, <2>1, <2>2, <2>3
<1>9. /\ ui' \in [phase : {"data", "loading"}, list : Shown] /\ (ui'.phase = "data" \/ ui'.phase = ui.phase)
      /\ ui'.list[a] = t /\ \A x \in Alarms \ {a} : ui'.list[x] = ui.list[x]
  <2>1. CASE ui' = [phase |-> "data", list |-> [ui.list EXCEPT ![a] = t]]
    <3>1. ui.list \in Shown /\ t \in Seq(Switch)
      BY <1>6, <1>8
    <3>2. PICK l : l = [ui.list EXCEPT ![a] = t]
      OBVIOUS
    <3>3. l \in Shown /\ l[a] = t /\ \A x \in Alarms \ {a} : l[x] = ui.list[x]
      BY <1>5, <3>1, <3>2 DEF Shown
    <3>4. ui' = [phase |-> "data", list |-> l]
      BY <2>1, <3>2
    <3>5. QED
      BY <3>3, <3>4
  <2>2. CASE ui' = ui /\ t = ui.list[a]
    BY <1>6, <2>2
  <2>3. QED
    BY <1>8, <2>1, <2>2
<1>10. ASSUME WriteOf(c, a), ~calls[c].left
       PROVE  a \in Live /\ s = db[a] /\ ui'.list[a] = <<db[a]>>
  <2>1. a \in Live /\ s = db[a]
    BY <1>3, <1>4, <1>5, <1>10 DEF WriteOf
  <2>2. t = <<s>>
    BY <1>4, <1>7, <1>8, <1>10 DEF WriteOf
  <2>3. QED
    BY <1>9, <2>1, <2>2
<1>11. requests[c].op \notin Reads
  BY <1>4 DEF Reads
<1>12. /\ ui' \in [phase : {"data", "loading"}, list : Shown] /\ (ui'.phase = "data" \/ ui'.phase = ui.phase)
       /\ \A x \in Alarms \ {a} : ui'.list[x] = ui.list[x]
  BY <1>9
<1>13. /\ calls[c].stage = "native"
       /\ calls' = [calls EXCEPT ![c] = Ended] /\ requests' = [requests EXCEPT ![c] = Closed]
       /\ db' = db /\ listCache' = listCache /\ cache' = cache
  BY <1>4
<1>14. /\ triggers' \subseteq Alarms
       /\ \A x \in Alarms \ {a} : x \in triggers' <=> x \in triggers
       /\ ok => (a \in triggers' <=> s = "on")
  BY <1>1, <1>4, <1>5, ScheduleFields
<1>15. WriteOf(c, a) /\ ~calls[c].left =>
         /\ a \in Live => ui'.list[a] = <<db[a]>> /\ (ok => (a \in triggers' <=> db[a] = "on"))
         /\ a \notin Live => ui'.list[a] = <<>> /\ (ok => a \notin triggers')
  BY <1>10, <1>14
<1>16. a \in Alarms /\ requests[c].alarm = a /\ Try(ok)
  BY <1>2, <1>4, <1>5
<1>17. QED
  BY <1>11, <1>12, <1>13, <1>14, <1>15, <1>16, WriteEnded

\* A deletion ends.
LEMMA CancelAlarmStep ==
  ASSUME Inv, NEW c \in Calls, NEW ok \in BOOLEAN, CancelAlarm(c, ok)
  PROVE  Inv'
<1>1. TypeOK /\ CallsFit
  BY DEF Inv
<1>2. PICK a : a = requests[c].alarm
  OBVIOUS
<1>3. /\ calls[c].stage = "native" /\ requests[c].op = "delete" /\ Schedule(a, "off", ok) /\ Try(ok)
      /\ calls' = [calls EXCEPT ![c] = Ended] /\ requests' = [requests EXCEPT ![c] = Closed]
      /\ db' = db /\ listCache' = listCache /\ cache' = cache /\ ui' = ui
  BY <1>2 DEF CancelAlarm, NativeStage
<1>4. a \in Alarms /\ requests[c].pc = "ok"
  BY <1>1, <1>2, <1>3 DEF CallsFit, Fits, RequestFits
<1>5. ui' \in [phase : {"data", "loading"}, list : Shown]
  BY <1>1, <1>3 DEF TypeOK
<1>6. /\ triggers' \subseteq Alarms
      /\ \A x \in Alarms \ {a} : x \in triggers' <=> x \in triggers
      /\ ok => (a \in triggers' <=> "off" = "on")
  BY <1>1, <1>3, <1>4, ScheduleFields
<1>7. WriteOf(c, a) => a \notin Live /\ ui'.list[a] = <<>> /\ (ok => a \notin triggers')
  BY <1>3, <1>4, <1>6 DEF WriteOf
<1>8. requests[c].op \notin Reads
  BY <1>3 DEF Reads
<1>9. QED
  BY <1>2, <1>3, <1>4, <1>5, <1>6, <1>7, <1>8, WriteEnded

\* An edit ends with a refresh that overlaps nothing, or with the form left.
LEMMA ScheduleUpdatedStep ==
  ASSUME Inv, NEW c \in Calls, NEW ok \in BOOLEAN, ScheduleUpdated(c, ok)
  PROVE  Inv'
<1>1. TypeOK /\ CallsFit /\ UnusedUnknown /\ LoadingEnds /\ CleanRefresh /\ InStep
  BY DEF Inv
<1>2. PICK a : a = requests[c].alarm
  OBVIOUS
<1>3. PICK s : s = requests[c].row
  OBVIOUS
<1>4. /\ calls[c].stage = "native" /\ requests[c].op = "update" /\ Schedule(a, s, ok)
      /\ db' = db /\ listCache' = listCache /\ cache' = cache
  BY <1>2, <1>3 DEF ScheduleUpdated, NativeStage
<1>5. a \in Alarms /\ requests[c].pc = "ok" /\ InFlight(c) /\ requests[c].op \notin Reads
  BY <1>1, <1>2, <1>4 DEF CallsFit, Fits, RequestFits, InFlight, Reads
<1>6. /\ triggers' \subseteq Alarms
      /\ \A x \in Alarms \ {a} : x \in triggers' <=> x \in triggers
      /\ ok => (a \in triggers' <=> s = "on")
  BY <1>1, <1>4, <1>5, ScheduleFields
<1>7. \A x \in Alarms : db[x] = "unused" =>
        x # a /\ x \notin triggers' /\ cache'[x] = "absent" /\ ui.list[x] = <<>>
  <2>1. \A x \in Alarms : db[x] = "unused" =>
          x # a /\ x \notin triggers /\ cache[x] = "absent" /\ ui.list[x] = <<>>
    BY <1>1, <1>2 DEF UnusedUnknown, Nowhere, NotIn
  <2>2. QED
    BY <1>4, <1>6, <2>1
<1>8. CASE calls[c].left
  <2>1. /\ calls' = [calls EXCEPT ![c] = Ended] /\ requests' = [requests EXCEPT ![c] = Closed]
        /\ Try(ok) /\ ui' = ui
    BY <1>8 DEF ScheduleUpdated
  <2>2. Turn(c) /\ requests'[c] = Closed /\ calls'[c] = Ended
    BY <1>1, <2>1, EndTurn
  <2>3. /\ trouble' \in Troubles /\ faults' \in 0..MaxFaults /\ cache' \in List
        /\ trouble' # "open" => trouble # "open"
        /\ ui' \in [phase : {"data", "loading"}, list : Shown]
    BY <1>1, <1>4, <2>1, BoundAssumption DEF Try, Record, TypeOK, Troubles
  <2>4. trouble = "open"
    BY <1>1, <1>5, <1>8 DEF InStep, Agreed, HeardOut
  <2>5. ui'.phase = ui.phase /\ requests[c].op # "list"
    BY <1>4, <2>1
  <2>6. \A x \in Alarms : db[x] = "unused" => x \notin triggers' /\ cache'[x] = "absent" /\ ui'.list[x] = <<>>
    BY <1>7, <2>1
  <2>7. TypeOK' /\ CallsFit' /\ UnusedUnknown' /\ LoadingEnds' /\ CleanRefresh'
    BY <1>4, <1>6, <2>2, <2>3, <2>5, <2>6, EndStep
  <2>8. QED
    BY <2>3, <2>4, <2>7 DEF Inv, InStep
<1>9. CASE ~calls[c].left
  <2> DEFINE q == Sent("list", NoAlarm, "on", FALSE)
             k == [Ended EXCEPT !.stage = "waiting", !.clean = Alone(c)]
  <2>1. q \in Request /\ q.op = "list" /\ q.alarm = NoAlarm /\ q.list = EmptyList /\ q.heard /\ q.pc = "sent"
    BY EmptyFields DEF Sent, Request, Pcs, Ops, Switch
  <2>2. Alone(c) \in BOOLEAN
    BY DEF Alone
  <2>3. /\ k \in Call /\ k.stage = "waiting" /\ k.previous = NoTiles /\ k.todo = {} /\ ~k.left
        /\ k.clean = Alone(c)
    BY <2>2, AfterEditFields
  <2>4. /\ requests' = [requests EXCEPT ![c] = q]
        /\ calls' = [d \in Calls |-> IF d = c THEN k ELSE [calls[d] EXCEPT !.clean = FALSE]]
        /\ Record(ok, Overlaps(c, "list", NoAlarm)) /\ ui' = [ui EXCEPT !.phase = "loading"]
    BY <1>9 DEF ScheduleUpdated
  <2> HIDE DEF q, k
  <2>5. Turn(c) /\ requests'[c] = q /\ calls'[c] = k /\ \A d \in Calls \ {c} : ~calls'[d].clean
    BY <1>1, <2>1, <2>3, <2>4, StartTurn
  <2>6. /\ trouble' \in Troubles /\ faults' \in 0..MaxFaults
        /\ trouble' # "open" => ok /\ trouble' = trouble /\ ~Overlaps(c, "list", NoAlarm)
    BY <1>1, <2>4, BoundAssumption DEF Record, TypeOK, Troubles
  <2>7. ui' \in [phase : {"data", "loading"}, list : Shown] /\ ui'.phase = "loading" /\ ui'.list = ui.list
    BY <1>1, <2>4 DEF TypeOK
  <2>8. TypeOK'
    BY <1>1, <1>4, <1>6, <2>5, <2>6, <2>7 DEF TypeOK, ServiceTypeOK, Turn
  <2>9. CallsFit'
    <3>1. RequestFits(q)
      BY <2>1 DEF RequestFits, PcsOf
    <3>2. Fits(c)'
      BY <2>1, <2>3, <2>5, <3>1 DEF Fits
    <3>3. QED
      BY <1>1, <2>5, <3>2, FitsStep
  <2>10. UnusedUnknown'
    <3>1. ASSUME NEW x \in Alarms, db'[x] = "unused"
          PROVE  db[x] = "unused" /\ Nowhere(x)' /\ NotIn(c, x)'
      <4>1. db[x] = "unused" /\ Nowhere(x) /\ x # a
        BY <1>1, <1>4, <1>7, <3>1 DEF UnusedUnknown
      <4>2. Nowhere(x)'
        BY <1>4, <1>7, <2>7, <4>1 DEF Nowhere
      <4>3. NotIn(c, x)'
        BY <2>1, <2>3, <2>5, EmptyFields, ServiceAssumption DEF NotIn
      <4>4. QED
        BY <4>1, <4>2, <4>3
    <3>2. QED
      BY <1>1, <2>5, <3>1, KnownStep
  <2>11. LoadingEnds'
    BY <2>1, <2>3, <2>5 DEF LoadingEnds, Working
  <2>12. CleanRefresh'
    <3>1. ASSUME calls'[c].clean
          PROVE  RefreshedBy(c)'
      <4>1. Alone(c)'
        BY <2>3, <2>5, <3>1, OtherCalls
      <4>2. QED
        BY <2>1, <2>3, <2>5, <4>1 DEF RefreshedBy, Working
    <3>2. QED
      BY <1>1, <1>5, <2>5, <3>1, CleanStep
  <2>13. ASSUME trouble' # "open"
         PROVE  HeardOut' /\ Apart' /\ ListKept' /\ Copied' /\ Writing' /\ Reading'
    <3>1. ok /\ trouble' = trouble /\ trouble # "open" /\ ~Overlaps(c, "list", NoAlarm)
      BY <2>6, <2>13
    <3>2. HeardOut /\ Apart /\ ListKept /\ Copied /\ Writing /\ Reading
      BY <1>1, <3>1 DEF InStep, Agreed
    <3>3. HeardOut'
      BY <2>1, <2>3, <2>5, <3>2, HeardStep
    <3>4. Apart'
      BY <2>1, <2>5, <3>1, <3>2, ApartStep
    <3>5. ListKept'
      BY <1>4, <1>5, <2>5, <3>2, KeptStep
    <3>6. \A d \in Calls \ {c}, x \in Alarms : ~Writes(d, x)
      BY <3>1 DEF Overlaps, Conflict, Writes
    <3>7. WriteOf(c, a)
      BY <1>2, <1>5, <3>2 DEF Writing, Writes
    <3>8. AllLive' = AllLive /\ Live' = Live
      BY <1>4 DEF AllLive, Live
    <3>9. ASSUME NEW x \in Alarms
          PROVE  CopiesOf(x)'
      <4>1. CASE x = a
        <5>1. a \in Live /\ s = db[a] /\ cache[a] = AllLive[a]
          BY <1>3, <1>4, <1>5, <3>7 DEF WriteOf
        <5>2. QED
          BY <1>4, <1>6, <2>7, <3>1, <3>8, <4>1, <5>1 DEF CopiesOf
      <4>2. CASE x # a
        <5>1. Settled(x)
          BY <1>2, <3>6, <4>2 DEF Settled, Writes
        <5>2. CopiesOf(x)
          BY <3>2, <5>1 DEF Copied
        <5>3. QED
          BY <1>4, <1>6, <2>7, <3>1, <3>8, <4>2, <5>2 DEF CopiesOf
      <4>3. QED
        BY <4>1, <4>2
    <3>10. requests'[c].op \in Reads /\ ReadOf(c)'
      BY <2>1, <2>5 DEF Reads, ReadOf
    <3>11. Copied' /\ Writing' /\ Reading'
      BY <1>4, <2>5, <3>2, <3>6, <3>9, <3>10, ReadStep
    <3>12. QED
      BY <3>3, <3>4, <3>5, <3>11
  <2>14. QED
    BY <2>8, <2>9, <2>10, <2>11, <2>12, <2>13 DEF Inv, InStep, Agreed
<1>10. QED
  BY <1>8, <1>9


-----------------------------------------------------------------------------
(* The theorems                                                             *)

\* The app starts with the copies in step and nobody busy.
LEMMA InitInv == Init => Inv
<1> SUFFICES ASSUME Init
             PROVE  Inv
  OBVIOUS
<1>1. \A c \in Calls : /\ requests[c] = Closed /\ requests[c].pc = "closed" /\ requests[c].list = EmptyList
                       /\ requests[c].op = "list" /\ requests[c].alarm = NoAlarm
                       /\ calls[c] = Unused /\ calls[c].stage = "idle" /\ calls[c].previous = NoTiles
                       /\ calls[c].todo = {} /\ ~calls[c].clean
  BY ClosedFields, UnusedFields DEF Init
<1>2. \A a \in Alarms : db[a] \in Switch \cup {"unused"}
  BY DEF Init
<1>3. AllLive \in List /\ \A a \in Alarms : /\ a \in Live <=> db[a] \in Switch
                                            /\ a \in Live => AllLive[a] = db[a]
                                            /\ a \notin Live => AllLive[a] = "absent"
  BY <1>2 DEF AllLive, Live, List, Switch
<1>4. Tiles(AllLive) \in Shown /\ \A a \in Alarms : AllLive[a] = "absent" => Tiles(AllLive)[a] = <<>>
  BY <1>3, TilesFields
<1>5. /\ listCache \in {NoList, AllLive} /\ cache = AllLive /\ triggers = {a \in Alarms : db[a] = "on"}
      /\ ui.phase = "data" /\ ui.list = Tiles(AllLive) /\ trouble = "none" /\ faults = 0
  BY DEF Init
<1>6. TypeOK
  <2>1. ServiceTypeOK
    BY <1>3, <1>5, ClosedFields DEF Init, ServiceTypeOK, Row
  <2>2. ui \in [phase : {"data", "loading"}, list : Shown]
    BY <1>4 DEF Init
  <2>3. calls \in [Calls -> Call]
    BY UnusedFields DEF Init
  <2>4. QED
    BY <1>3, <1>5, <2>1, <2>2, <2>3, BoundAssumption DEF TypeOK, Troubles
<1>7. CallsFit
  BY <1>1 DEF CallsFit, Fits
<1>8. UnusedUnknown
  <2>1. ASSUME NEW a \in Alarms, db[a] = "unused"
        PROVE  Nowhere(a) /\ \A c \in Calls : NotIn(c, a)
    <3>1. AllLive[a] = "absent" /\ a \notin triggers /\ Tiles(AllLive)[a] = <<>>
      BY <1>3, <1>4, <1>5, <2>1 DEF Switch
    <3>2. Nowhere(a)
      BY <1>5, <3>1 DEF Nowhere
    <3>3. \A c \in Calls : NotIn(c, a)
      BY <1>1, EmptyFields, ServiceAssumption DEF NotIn
    <3>4. QED
      BY <3>2, <3>3
  <2>2. QED
    BY <2>1 DEF UnusedUnknown
<1>9. LoadingEnds /\ CleanRefresh
  BY <1>1, <1>5 DEF LoadingEnds, CleanRefresh
<1>10. Agreed
  <2>1. \A c \in Calls : ~InFlight(c)
    BY <1>1 DEF InFlight
  <2>2. HeardOut /\ Apart /\ ListKept
    BY <1>5, <2>1 DEF HeardOut, Apart, ListKept
  <2>3. Writing
    BY <2>1, IdleWritesNothing DEF Writing
  <2>4. Reading
    BY <1>1 DEF Reading, ReadOf
  <2>5. Copied
    BY <1>3, <1>5 DEF Copied, CopiesOf, Switch
  <2>6. QED
    BY <2>2, <2>3, <2>4, <2>5 DEF Agreed
<1>11. QED
  BY <1>6, <1>7, <1>8, <1>9, <1>10 DEF Inv, InStep

\* Every step of the app, of the server and of the user keeps it so.
LEMMA NextInv == Inv /\ [Next]_vars => Inv'
<1> SUFFICES ASSUME Inv, [Next]_vars
             PROVE  Inv'
  OBVIOUS
<1>1. CASE UNCHANGED vars
  <2>1. UNCHANGED <<db, listCache, requests, cache, triggers, ui, calls, trouble, faults>>
    BY <1>1 DEF vars, serviceVars, phoneVars, history
  <2>2. TypeOK' /\ CallsFit' /\ UnusedUnknown'
    BY <2>1 DEF Inv, TypeOK, ServiceTypeOK, CallsFit, Fits, UnusedUnknown, Nowhere, NotIn
  <2>3. AllLive' = AllLive /\ Live' = Live
    BY <2>1 DEF AllLive, Live
  <2>4. LoadingEnds' /\ CleanRefresh'
    BY <2>1 DEF Inv, LoadingEnds, CleanRefresh, RefreshedBy, Working, Alone, InFlight
  <2>5. \A c \in Calls : /\ InFlight(c)' <=> InFlight(c)
                         /\ ReadOf(c)' <=> ReadOf(c)
                         /\ \A a \in Alarms : (Writes(c, a)' <=> Writes(c, a)) /\ (WriteOf(c, a)' <=> WriteOf(c, a))
    BY <2>1, <2>3 DEF InFlight, ReadOf, Writes, WriteOf
  <2>6. \A a \in Alarms : (Settled(a)' <=> Settled(a)) /\ (CopiesOf(a)' <=> CopiesOf(a))
    BY <2>1, <2>3, <2>5 DEF Settled, CopiesOf, Tiles
  <2>7. InStep'
    BY <2>1, <2>3, <2>5, <2>6 DEF Inv, InStep, Agreed, HeardOut, Apart, ListKept, Copied, Writing, Reading
  <2>8. QED
    BY <2>2, <2>4, <2>7 DEF Inv
<1>2. ASSUME NEW c \in Calls,
             \/ Refresh(c) \/ \E s \in Switch, p \in BOOLEAN : Create(c, s, p)
             \/ LeaveForm(c) \/ GiveUp(c) \/ Lose(c) \/ Refused(c)
      PROVE  Inv'
  BY <1>2, RefreshStep, CreateStep, LeaveFormStep, GiveUpStep, LoseStep, RefusedStep
<1>3. ASSUME NEW c \in Calls,
             \/ CacheAlarms(c) \/ UpsertAlarm(c) \/ RemoveAlarm(c) \/ GotAlarm(c)
             \/ ListShown(c) \/ Serve(c)
      PROVE  Inv'
  BY <1>3, CacheAlarmsStep, UpsertAlarmStep, RemoveAlarmStep, GotAlarmStep, ListShownStep, ServeStep
<1>4. ASSUME NEW c \in Calls, NEW a \in Alarms,
             \/ GetAlarm(c, a) \/ Toggle(c, a) \/ Delete(c, a)
             \/ \E s \in Switch : Update(c, a, s)
      PROVE  Inv'
  BY <1>4, GetAlarmStep, ToggleStep, DeleteStep, UpdateStep
<1>5. ASSUME NEW c \in Calls, NEW ok \in BOOLEAN,
             \/ Reschedule(c, ok) \/ ScheduleAlarm(c, ok) \/ CancelAlarm(c, ok)
             \/ ScheduleUpdated(c, ok) \/ ServeInvalidate(c, ok)
      PROVE  Inv'
  BY <1>5, RescheduleStep, ScheduleAlarmStep, CancelAlarmStep, ScheduleUpdatedStep, InvalidateStep
<1>6. CASE Next
  BY <1>2, <1>3, <1>4, <1>5, <1>6 DEF Next
<1>7. QED
  BY <1>1, <1>6

\* The invariant holds of every reachable state.
LEMMA Invariance == Spec => []Inv
BY InitInv, NextInv, PTL DEF Spec

\* In a quiet moment that nothing is known to have upset, every alarm has the same copy everywhere.
LEMMA QuietIsSettled ==
  ASSUME Inv, Quiet, trouble # "open"
  PROVE  /\ \A a \in Alarms : CopiesOf(a)
         /\ listCache \in {NoList, AllLive} /\ ui.phase = "data"
<1>1. LoadingEnds /\ TypeOK /\ Copied /\ ListKept
  BY DEF Inv, InStep, Agreed
<1>2. \A c \in Calls : ~InFlight(c) /\ requests[c].pc # "invalidate" /\ ~Working(c)
  BY DEF Quiet, InFlight, Working
<1>3. \A a \in Alarms : Settled(a)
  BY <1>2, IdleWritesNothing DEF Settled
<1>4. ui.phase = "data"
  BY <1>1, <1>2 DEF LoadingEnds, TypeOK
<1>5. QED
  BY <1>1, <1>2, <1>3, <1>4 DEF Copied, ListKept

\* The rows, Redis, the requests, the phone's copies and the calls have their types.
THEOREM TypeCorrect == Spec => []TypeOK
<1>1. Inv => TypeOK
  BY DEF Inv
<1>2. QED
  BY <1>1, Invariance, PTL

\* Where nothing is known to have set the copies apart, the cache, the screen and the operating
\* system have what the server has, however many calls there were and whatever overlapped
\* (alarm_repository_impl.dart, AlarmsNotifier).
THEOREM CopiesStayTogether == Spec => []CopiesAgree
<1>1. Inv => CopiesAgree
  <2> SUFFICES ASSUME Inv, Quiet, trouble # "open"
               PROVE  /\ cache = AllLive
                      /\ ui = [phase |-> "data", list |-> Tiles(AllLive)]
                      /\ \A a \in Live : a \in triggers <=> db[a] = "on"
    BY DEF CopiesAgree
  <2>1. /\ \A a \in Alarms : CopiesOf(a)
        /\ ui.phase = "data"
    BY QuietIsSettled
  <2>2. TypeOK /\ AllLive \in List
    BY AllLiveFields DEF Inv
  <2>3. Tiles(AllLive) \in Shown
    BY <2>2, TilesFields
  <2>4. cache = AllLive
    BY <2>1, <2>2 DEF CopiesOf, TypeOK, List
  <2>5. ui.list = Tiles(AllLive)
    BY <2>1, <2>2, <2>3 DEF CopiesOf, TypeOK, Shown
  <2>6. ui = [phase |-> "data", list |-> Tiles(AllLive)]
    BY <2>1, <2>2, <2>5 DEF TypeOK
  <2>7. \A a \in Live : a \in triggers <=> db[a] = "on"
    BY <2>1 DEF CopiesOf, Live
  <2>8. QED
    BY <2>4, <2>6, <2>7
<1>2. QED
  BY <1>1, Invariance, PTL

\* As long as nothing has ever gone wrong no trigger is armed for an alarm the server does not have.
THEOREM GhostsNeedTrouble == Spec => []GhostNeedsTrouble
<1>1. Inv => GhostNeedsTrouble
  <2> SUFFICES ASSUME Inv, Quiet, trouble = "none", NEW a \in triggers
               PROVE  a \in Live
    BY DEF GhostNeedsTrouble
  <2>1. a \in Alarms
    BY DEF Inv, TypeOK
  <2>2. CopiesOf(a)
    BY <2>1, QuietIsSettled
  <2>3. QED
    BY <2>2 DEF CopiesOf
<1>2. QED
  BY <1>1, Invariance, PTL

\* What Redis has of the list is what the rows are, however reads and writes interleaved on the
\* server, as long as none conflicted (alarms.service.ts, invalidateList).
THEOREM RedisIsFresh == Spec => []CachedListIsFresh
<1>1. Inv => CachedListIsFresh
  BY QuietIsSettled DEF CachedListIsFresh
<1>2. QED
  BY <1>1, Invariance, PTL

-----------------------------------------------------------------------------
(* The free plan's limit                                                    *)

Creates(c) == InFlight(c) /\ requests[c].op = "create"

\* The form keeps creations apart, and none has been counted for a place that is not there.
OneCreates == \A c, d \in Calls : Creates(c) /\ Creates(d) => c = d
HasRoom(c) == requests[c].premium \/ Cardinality(Live) < FreeLimit
Counted    == \A c \in Calls : Creates(c) /\ requests[c].pc = "insert" => HasRoom(c)
OneByOne   == trouble = "none" => OneCreates /\ Counted

\* After a step of this call it creates only if it did, and was counted only if it was.
Lasts(c) ==
  requests'[c].op = "create" /\ InFlight(c)' =>
    /\ Creates(c) /\ requests'[c].premium = requests[c].premium
    /\ requests'[c].pc = "insert" => requests[c].pc = "insert"

\* There are finitely many alarms.
LEMMA LiveIsFinite == IsFiniteSet(Live) /\ Cardinality(Live) \in Nat
<1>1. Live \subseteq Alarms
  BY DEF Live
<1>2. IsFiniteSet(Live)
  BY <1>1, ServiceAssumption, FS_Subset
<1>3. QED
  BY <1>2, FS_CardinalityType

\* A step that starts no creation, counts none and adds no alarm.
LEMMA LastsStep ==
  ASSUME OneByOne, NEW c \in Calls, Turn(c), Lasts(c),
         trouble' = "none" => trouble = "none" /\ Live' \subseteq Live
  PROVE  OneByOne'
<1> SUFFICES ASSUME trouble' = "none"
             PROVE  OneCreates' /\ Counted'
  BY DEF OneByOne
<1>1. OneCreates /\ Counted
  BY DEF OneByOne
<1>2. \A d \in Calls : Creates(d)' =>
        /\ Creates(d) /\ requests'[d].premium = requests[d].premium
        /\ requests'[d].pc = "insert" => requests[d].pc = "insert"
  BY OtherCalls DEF Lasts, Creates, Turn
<1>3. Cardinality(Live') <= Cardinality(Live) /\ Cardinality(Live') \in Nat
  <2>1. IsFiniteSet(Live) /\ Cardinality(Live) \in Nat
    BY LiveIsFinite
  <2>2. IsFiniteSet(Live')
    BY <2>1, FS_Subset
  <2>3. QED
    BY <2>1, <2>2, FS_Subset, FS_CardinalityType
<1>4. OneCreates'
  BY <1>1, <1>2 DEF OneCreates
<1>5. Counted'
  BY <1>1, <1>2, <1>3, LiveIsFinite, ServiceAssumption DEF Counted, HasRoom
<1>6. QED
  BY <1>4, <1>5

\* A call that begins with another operation.
LEMMA BegunLasts ==
  ASSUME Inv, OneByOne, NEW c \in Calls, NEW o \in Ops \ {"create"}, NEW a \in Alarms \cup {NoAlarm},
         NEW s \in Switch, NEW p \in BOOLEAN, NEW v \in Shown, Begin(c, o, a, s, p, v), db' = db
  PROVE  OneByOne'
<1>1. TypeOK /\ CallsFit
  BY DEF Inv
<1>2. Turn(c) /\ requests'[c].op = o
  BY <1>1, BeginTurn
<1>3. trouble' = "none" => trouble = "none"
  BY DEF Begin, Record
<1>4. Lasts(c) /\ Live' = Live
  BY <1>2 DEF Lasts, Live
<1>5. QED
  BY <1>2, <1>3, <1>4, LastsStep

\* While the form is free nobody creates, where everybody is still listened to.
LEMMA FormFreeMeansNone ==
  ASSUME CallsFit, HeardOut, FormFree, TypeOK
  PROVE  \A c \in Calls : ~Creates(c)
<1> SUFFICES ASSUME NEW c \in Calls, Creates(c)
             PROVE  FALSE
  OBVIOUS
<1>1. InFlight(c) /\ requests[c].op = "create" /\ requests[c].heard /\ ~calls[c].left
  BY DEF Creates, HeardOut
<1>2. calls[c].stage \in Stages
  BY DEF TypeOK, Call
<1>3. calls[c].stage \in {"waiting", "native"}
  BY <1>1, <1>2 DEF CallsFit, Fits, InFlight, Stages
<1>4. QED
  BY <1>1, <1>3 DEF FormFree, Saving

\* A creation begins from a form that is free, ...
LEMMA CreateAlone ==
  ASSUME Inv, OneByOne, NEW c \in Calls, NEW s \in Switch, NEW p \in BOOLEAN, Create(c, s, p)
  PROVE  OneByOne'
<1> SUFFICES ASSUME trouble' = "none"
             PROVE  OneCreates' /\ Counted'
  BY DEF OneByOne
<1>1. TypeOK /\ CallsFit /\ InStep
  BY DEF Inv
<1>2. Begin(c, "create", NoAlarm, s, p, NoTiles) /\ "create" \in Ops /\ NoTiles \in Shown
  BY EmptyFields DEF Create, Ops
<1>3. Turn(c) /\ requests'[c].pc = "sent"
  BY <1>1, <1>2, BeginTurn
<1>4. trouble = "none"
  BY <1>2 DEF Begin, Record
<1>5. \A d \in Calls : ~Creates(d)
  BY <1>1, <1>4, FormFreeMeansNone DEF InStep, Agreed, Create
<1>6. \A d \in Calls \ {c} : ~Creates(d)'
  BY <1>3, <1>5, OtherCalls DEF Creates, Turn
<1>7. QED
  BY <1>3, <1>6 DEF OneCreates, Counted

\* ... is counted, ...
LEMMA CountAlone ==
  ASSUME Inv, OneByOne, NEW c \in Calls, Count(c), UNCHANGED <<phoneVars, calls, history>>
  PROVE  OneByOne'
<1>1. TypeOK /\ requests[c] \in Request
  BY DEF Inv, TypeOK, ServiceTypeOK
<1>2. /\ calls' = calls /\ trouble' = trouble /\ db' = db
      /\ requests[c].op = "create" /\ requests[c].pc = "sent" /\ "insert" \in Pcs /\ "refused" \in Pcs
  BY DEF Count, At, history, Pcs
<1>3. CASE Refuse(c)
  <2> DEFINE r == [requests[c] EXCEPT !.pc = "refused"]
  <2>1. r \in Request /\ SameCall(r, requests[c]) /\ r.pc = "refused"
    BY <1>1, <1>2, PcFields
  <2>2. Answer(c, r)
    BY <1>3 DEF Refuse
  <2> HIDE DEF r
  <2>3. Turn(c) /\ (requests'[c] = r \/ requests'[c] = Closed)
    BY <1>1, <1>2, <2>1, <2>2, AnswerTurn
  <2>4. Lasts(c) /\ Live' = Live
    BY <1>2, <2>1, <2>3, ClosedFields DEF Lasts, Creates, InFlight, SameCall, Live
  <2>5. QED
    BY <1>2, <2>3, <2>4, LastsStep
<1>4. CASE Goto(c, "insert") /\ (requests[c].premium \/ ~(Cardinality(Live) >= FreeLimit))
  <2>1. Turn(c) /\ SameCall(requests'[c], requests[c]) /\ Live' = Live
    BY <1>1, <1>2, <1>4, GotoTurn DEF Live
  <2>2. \A d \in Calls : Creates(d)' => Creates(d)
    BY <1>2, <2>1, OtherCalls DEF Creates, InFlight, SameCall, Turn
  <2>3. HasRoom(c)'
    BY <1>4, <2>1, LiveIsFinite, ServiceAssumption DEF HasRoom, SameCall
  <2>4. \A d \in Calls \ {c} : requests'[d] = requests[d]
    BY <2>1 DEF Turn
  <2>5. QED
    BY <1>2, <2>1, <2>2, <2>3, <2>4 DEF OneByOne, OneCreates, Counted, HasRoom
<1>5. QED
  BY <1>3, <1>4 DEF Count

\* ... and takes the place that was counted.
LEMMA InsertAlone ==
  ASSUME Inv, OneByOne, NEW c \in Calls, Insert(c), UNCHANGED <<phoneVars, calls, history>>
  PROVE  /\ OneByOne'
         /\ trouble = "none" /\ ~requests[c].premium => Cardinality(Live') <= FreeLimit
<1>1. TypeOK /\ requests[c] \in Request /\ requests \in [Calls -> Request] /\ db \in [Alarms -> Row]
  BY DEF Inv, TypeOK, ServiceTypeOK
<1>2. PICK v : v = requests[c].row
  OBVIOUS
<1>3. PICK a \in Alarms : /\ db[a] = "unused" /\ db' = [db EXCEPT ![a] = v]
                          /\ requests' = [requests EXCEPT ![c].alarm = a, ![c].pc = "invalidate"]
  BY <1>2 DEF Insert
<1> DEFINE q == [requests[c] EXCEPT !.alarm = a, !.pc = "invalidate"]
<1>4. /\ requests' = [requests EXCEPT ![c] = q] /\ calls' = calls /\ trouble' = trouble
      /\ requests[c].op = "create" /\ requests[c].pc = "insert" /\ "invalidate" \in Pcs
  BY <1>3 DEF Insert, At, history, Pcs
<1>5. q \in Request /\ q.pc = "invalidate" /\ q.op = "create"
  BY <1>1, <1>4 DEF Request
<1> HIDE DEF q
<1>6. Turn(c) /\ requests'[c] = q
  BY <1>1, <1>4, <1>5, ServeTurn
<1>7. Creates(c)
  BY <1>4 DEF Creates, InFlight
<1>8. ASSUME trouble = "none"
      PROVE  OneCreates' /\ Counted'
  <2>1. \A d \in Calls : Creates(d)' => Creates(d)
    BY <1>6, <1>7, OtherCalls DEF Creates, Turn
  <2>2. \A d \in Calls \ {c} : ~Creates(d)
    BY <1>7, <1>8 DEF OneByOne, OneCreates
  <2>3. QED
    BY <1>5, <1>6, <1>8, <2>1, <2>2 DEF OneByOne, OneCreates, Counted
<1>9. ASSUME trouble = "none", ~requests[c].premium
      PROVE  Cardinality(Live') <= FreeLimit
  <2>1. Live' \subseteq Live \cup {a}
    BY <1>1, <1>3 DEF Live
  <2>2. Cardinality(Live) < FreeLimit
    BY <1>4, <1>7, <1>9 DEF OneByOne, Counted, HasRoom
  <2>3. IsFiniteSet(Live \cup {a}) /\ Cardinality(Live \cup {a}) <= Cardinality(Live) + 1
    BY LiveIsFinite, FS_AddElement
  <2>4. Cardinality(Live') <= Cardinality(Live \cup {a}) /\ Cardinality(Live') \in Nat
    BY <2>1, <2>3, FS_Subset, FS_CardinalityType
  <2>5. Cardinality(Live \cup {a}) \in Nat
    BY <2>3, FS_CardinalityType
  <2>6. QED
    BY <2>2, <2>3, <2>4, <2>5, LiveIsFinite, ServiceAssumption
<1>10. QED
  BY <1>4, <1>8, <1>9 DEF OneByOne

\* What the server does with a list, ...
LEMMA ListLasts ==
  ASSUME Inv, OneByOne, NEW c \in Calls, ListCached(c) \/ ListMissed(c) \/ ListFind(c) \/ ListSet(c),
         UNCHANGED <<phoneVars, calls, history>>
  PROVE  OneByOne'
<1>1. TypeOK /\ requests \in [Calls -> Request] /\ requests[c] \in Request
  BY DEF Inv, TypeOK, ServiceTypeOK
<1>2. requests[c].op = "list" /\ calls' = calls /\ db' = db /\ trouble' = trouble
  BY DEF ListCached, ListMissed, ListFind, ListSet, At, history
<1>3. PICK q \in Request : q.op = "list" /\ requests' = [requests EXCEPT ![c] = q]
  <2>1. CASE ListCached(c)
    <3> DEFINE q == IF requests[c].heard THEN [requests[c] EXCEPT !.list = listCache, !.pc = "ok"] ELSE Closed
    <3>1. listCache \in List /\ "ok" \in Pcs
      BY <1>1, <2>1 DEF ListCached, TypeOK, ServiceTypeOK, Pcs
    <3>2. q \in Request /\ q.op = "list"
      BY <1>1, <1>2, <3>1, ClosedFields DEF Request
    <3>3. requests' = [requests EXCEPT ![c] = q]
      BY <2>1 DEF ListCached, Answer
    <3> HIDE DEF q
    <3>4. QED
      BY <3>2, <3>3
  <2>2. CASE ListMissed(c)
    <3> DEFINE q == [requests[c] EXCEPT !.pc = "find"]
    <3>1. q \in Request /\ q.op = "list"
      BY <1>1, <1>2 DEF Request, Pcs
    <3>2. requests' = [requests EXCEPT ![c] = q]
      BY <2>2 DEF ListMissed, Goto
    <3> HIDE DEF q
    <3>3. QED
      BY <3>1, <3>2
  <2>3. CASE ListFind(c)
    <3> DEFINE q == [requests[c] EXCEPT !.list = AllLive, !.pc = "set"]
    <3>1. AllLive \in List /\ "set" \in Pcs
      BY <1>1, AllLiveFields DEF Pcs
    <3>2. q \in Request /\ q.op = "list"
      BY <1>1, <1>2, <3>1 DEF Request
    <3>3. requests' = [requests EXCEPT ![c] = q]
      BY <2>3 DEF ListFind
    <3> HIDE DEF q
    <3>4. QED
      BY <3>2, <3>3
  <2>4. CASE ListSet(c)
    <3> DEFINE q == IF requests[c].heard THEN [requests[c] EXCEPT !.pc = "ok"] ELSE Closed
    <3>1. q \in Request /\ q.op = "list"
      BY <1>1, <1>2, ClosedFields DEF Request, Pcs
    <3>2. requests' = [requests EXCEPT ![c] = q]
      BY <2>4 DEF ListSet, Answer
    <3> HIDE DEF q
    <3>3. QED
      BY <3>1, <3>2
  <2>5. QED
    BY <2>1, <2>2, <2>3, <2>4
<1>4. Turn(c) /\ requests'[c] = q
  BY <1>1, <1>2, <1>3, ServeTurn
<1>5. Lasts(c) /\ Live' = Live
  BY <1>2, <1>3, <1>4 DEF Lasts, Live
<1>6. QED
  BY <1>2, <1>4, <1>5, LastsStep

\* ... with a row that is read ...
LEMMA GetOneLasts ==
  ASSUME Inv, OneByOne, NEW c \in Calls, GetOne(c), UNCHANGED <<phoneVars, calls, history>>
  PROVE  OneByOne'
<1>1. TypeOK /\ requests[c] \in Request
  BY DEF Inv, TypeOK, ServiceTypeOK
<1>2. requests[c].pc \in {"sent", "reread"} /\ calls' = calls /\ db' = db /\ trouble' = trouble
  BY DEF GetOne, At, history
<1>3. PICK r \in Request : SameCall(r, requests[c]) /\ r.pc \in {"ok", "refused"} /\ Answer(c, r)
  <2>1. CASE requests[c].alarm \in Live
    <3> DEFINE r == [requests[c] EXCEPT !.row = db[requests[c].alarm], !.pc = "ok"]
    <3>1. db[requests[c].alarm] \in Switch
      BY <2>1 DEF Live
    <3>2. r \in Request /\ SameCall(r, requests[c]) /\ r.pc = "ok"
      BY <1>1, <3>1 DEF Request, SameCall, Pcs
    <3>3. Answer(c, r)
      BY <2>1 DEF GetOne
    <3> HIDE DEF r
    <3>4. QED
      BY <3>2, <3>3
  <2>2. CASE requests[c].alarm \notin Live
    <3> DEFINE r == [requests[c] EXCEPT !.pc = "refused"]
    <3>1. r \in Request /\ SameCall(r, requests[c]) /\ r.pc = "refused"
      BY <1>1 DEF Request, SameCall, Pcs
    <3>2. Answer(c, r)
      BY <2>2 DEF GetOne, Refuse
    <3> HIDE DEF r
    <3>3. QED
      BY <3>1, <3>2
  <2>3. QED
    BY <2>1, <2>2
<1>4. Turn(c) /\ (requests'[c] = r \/ requests'[c] = Closed)
  BY <1>1, <1>2, <1>3, AnswerTurn
<1>5. Lasts(c) /\ Live' = Live
  BY <1>2, <1>3, <1>4, ClosedFields DEF Lasts, Creates, InFlight, SameCall, Live
<1>6. QED
  BY <1>2, <1>4, <1>5, LastsStep

\* ... or written, which must have been live where everybody is listened to, ...
LEMMA WritesLive ==
  ASSUME Inv, trouble = "none", NEW c \in Calls, FindOne(c) \/ Save(c) \/ SoftRemove(c)
  PROVE  Live' \subseteq Live
<1>1. TypeOK /\ CallsFit /\ InStep /\ requests[c] \in Request /\ db \in [Alarms -> Row]
  BY DEF Inv, TypeOK, ServiceTypeOK
<1>2. CASE FindOne(c)
  BY <1>2 DEF FindOne, Live
<1>3. CASE SoftRemove(c)
  BY <1>1, <1>3 DEF SoftRemove, Live, Switch
<1>4. CASE Save(c)
  <2>1. /\ requests[c].pc = "save" /\ requests[c].op \in {"update", "toggle"}
        /\ db' = [db EXCEPT ![requests[c].alarm] = requests[c].row]
    BY <1>4 DEF Save, At
  <2>2. requests[c].alarm \in Alarms /\ Writes(c, requests[c].alarm)
    BY <1>1, <2>1 DEF CallsFit, Fits, RequestFits, InFlight, Writes, Reads
  <2>3. requests[c].alarm \in Live
    BY <1>1, <2>1, <2>2 DEF InStep, Agreed, Writing, WriteOf
  <2>4. QED
    BY <1>1, <2>1, <2>3 DEF Live
<1>5. QED
  BY <1>2, <1>3, <1>4

\* ... so that no write makes one more.
LEMMA WriteLasts ==
  ASSUME Inv, OneByOne, NEW c \in Calls, FindOne(c) \/ Save(c) \/ SoftRemove(c),
         UNCHANGED <<phoneVars, calls, history>>
  PROVE  OneByOne'
<1>1. TypeOK /\ CallsFit /\ InStep /\ requests[c] \in Request /\ requests \in [Calls -> Request]
      /\ db \in [Alarms -> Row]
  BY DEF Inv, TypeOK, ServiceTypeOK
<1>2. requests[c].op \in {"update", "toggle", "delete"} /\ calls' = calls /\ trouble' = trouble
  BY DEF FindOne, Save, SoftRemove, At, history
<1>3. PICK q \in Request : q.op \in {requests[c].op, "list"} /\ requests' = [requests EXCEPT ![c] = q]
  <2>1. CASE \E p \in Pcs : Goto(c, p)
    <3>1. PICK p \in Pcs : Goto(c, p)
      BY <2>1
    <3> DEFINE q == [requests[c] EXCEPT !.pc = p]
    <3>2. q \in Request /\ q.op = requests[c].op
      BY <1>1, <3>1 DEF Request
    <3>3. requests' = [requests EXCEPT ![c] = q]
      BY <3>1 DEF Goto
    <3> HIDE DEF q
    <3>4. QED
      BY <3>2, <3>3
  <2>2. CASE Refuse(c)
    <3> DEFINE q == IF requests[c].heard THEN [requests[c] EXCEPT !.pc = "refused"] ELSE Closed
    <3>1. q \in Request /\ q.op \in {requests[c].op, "list"}
      BY <1>1, ClosedFields DEF Request, Pcs
    <3>2. requests' = [requests EXCEPT ![c] = q]
      BY <2>2 DEF Refuse, Answer
    <3> HIDE DEF q
    <3>3. QED
      BY <3>1, <3>2
  <2>3. CASE \E s \in Switch : requests' = [requests EXCEPT ![c].row = s, ![c].pc = "save"]
    <3>1. PICK s \in Switch : requests' = [requests EXCEPT ![c].row = s, ![c].pc = "save"]
      BY <2>3
    <3> DEFINE q == [requests[c] EXCEPT !.row = s, !.pc = "save"]
    <3>2. q \in Request /\ q.op = requests[c].op
      BY <1>1, <3>1 DEF Request, Pcs
    <3>3. requests' = [requests EXCEPT ![c] = q]
      BY <3>1
    <3> HIDE DEF q
    <3>4. QED
      BY <3>2, <3>3
  <2>4. Flip(db[requests[c].alarm]) \in Switch /\ {"softRemove", "save", "invalidate"} \subseteq Pcs
    BY DEF Flip, Switch, Pcs
  <2>5. CASE FindOne(c)
    BY <1>2, <2>1, <2>2, <2>3, <2>4, <2>5 DEF FindOne, At
  <2>6. CASE Save(c) \/ SoftRemove(c)
    BY <2>1, <2>4, <2>6 DEF Save, SoftRemove
  <2>7. QED
    BY <2>5, <2>6
<1>4. Turn(c) /\ requests'[c] = q
  BY <1>1, <1>2, <1>3, ServeTurn
<1>5. Lasts(c)
  BY <1>2, <1>3, <1>4 DEF Lasts
<1>6. trouble = "none" => Live' \subseteq Live
  BY WritesLive
<1>7. QED
  BY <1>2, <1>4, <1>5, <1>6, LastsStep

\* After the write a handler invalidates the list.
LEMMA InvalidateLasts ==
  ASSUME Inv, OneByOne, NEW c \in Calls, NEW ok \in BOOLEAN, ServeInvalidate(c, ok)
  PROVE  OneByOne'
<1>1. TypeOK /\ requests[c] \in Request /\ requests \in [Calls -> Request]
  BY DEF Inv, TypeOK, ServiceTypeOK
<1>2. /\ requests[c].pc = "invalidate" /\ calls' = calls /\ db' = db
      /\ trouble' = "none" => trouble = "none"
  BY DEF ServeInvalidate, Invalidate, At, Try, Record
<1>3. PICK q \in Request : /\ requests' = [requests EXCEPT ![c] = q]
                           /\ q.op = "list" \/ (SameCall(q, requests[c]) /\ q.pc # "insert")
  <2>1. CASE requests[c].op = "delete"
    <3> DEFINE q == IF requests[c].heard THEN [requests[c] EXCEPT !.pc = "ok"] ELSE Closed
    <3>1. q \in Request /\ (q.op = "list" \/ (SameCall(q, requests[c]) /\ q.pc # "insert"))
      BY <1>1, ClosedFields DEF Request, SameCall, Pcs
    <3>2. requests' = [requests EXCEPT ![c] = q]
      BY <2>1 DEF ServeInvalidate, Invalidate, Answer
    <3> HIDE DEF q
    <3>3. QED
      BY <3>1, <3>2
  <2>2. CASE requests[c].op # "delete"
    <3> DEFINE q == [requests[c] EXCEPT !.row = "on", !.pc = "reread"]
    <3>1. q \in Request /\ SameCall(q, requests[c]) /\ q.pc # "insert"
      BY <1>1 DEF Request, SameCall, Pcs, Switch
    <3>2. requests' = [requests EXCEPT ![c] = q]
      BY <2>2 DEF ServeInvalidate, Invalidate
    <3> HIDE DEF q
    <3>3. QED
      BY <3>1, <3>2
  <2>3. QED
    BY <2>1, <2>2
<1>4. Turn(c) /\ requests'[c] = q
  BY <1>1, <1>2, <1>3, ServeTurn
<1>5. Lasts(c) /\ Live' = Live
  BY <1>2, <1>3, <1>4 DEF Lasts, Creates, InFlight, SameCall, Live
<1>6. QED
  BY <1>2, <1>4, <1>5, LastsStep

\* A step of the app goes on with a call as it is, or turns to what is no creation.
LEMMA AppLasts ==
  ASSUME Inv, Inv', OneByOne, NEW c \in Calls,
         \A d \in Calls \ {c} : /\ requests'[d] = requests[d]
                                /\ calls'[d] \in {calls[d], [calls[d] EXCEPT !.clean = FALSE]},
         requests'[c].op = "list" \/ (requests' = requests /\ InFlight(c)) \/ trouble' = "open",
         db' = db, trouble' = "none" => trouble = "none"
  PROVE  OneByOne'
<1>1. TypeOK /\ TypeOK'
  BY DEF Inv
<1>2. Turn(c)
  <2>1. requests' \in [Calls -> Request] /\ calls' \in [Calls -> Call] /\ calls \in [Calls -> Call]
    BY <1>1 DEF TypeOK, ServiceTypeOK
  <2>2. ASSUME NEW d \in Calls \ {c}
        PROVE  /\ calls'[d].stage = calls[d].stage /\ calls'[d].previous = calls[d].previous
               /\ calls'[d].todo = calls[d].todo /\ calls'[d].left = calls[d].left
               /\ calls'[d].clean => calls[d].clean
    <3>1. calls[d] \in Call
      BY <2>1
    <3>2. QED
      BY <3>1, CompanyFields
  <2>3. QED
    BY <2>1, <2>2 DEF Turn
<1>3. Live' = Live
  BY DEF Live
<1>4. CASE trouble' = "open"
  BY <1>4 DEF OneByOne
<1>5. CASE requests'[c].op = "list" \/ (requests' = requests /\ InFlight(c))
  <2>1. Lasts(c)
    BY <1>5 DEF Lasts, Creates
  <2>2. QED
    BY <1>2, <1>3, <2>1, LastsStep
<1>6. QED
  BY <1>4, <1>5

\* The app's answers, failures and native steps.
LEMMA AppStepLasts ==
  ASSUME Inv, Inv', OneByOne, NEW c \in Calls, NEW ok \in BOOLEAN,
         \/ LeaveForm(c) \/ GiveUp(c) \/ Lose(c) \/ Refused(c)
         \/ CacheAlarms(c) \/ UpsertAlarm(c) \/ RemoveAlarm(c) \/ GotAlarm(c) \/ ListShown(c)
         \/ Reschedule(c, ok) \/ ScheduleAlarm(c, ok) \/ CancelAlarm(c, ok) \/ ScheduleUpdated(c, ok)
  PROVE  OneByOne'
<1>1. requests \in [Calls -> Request] /\ calls \in [Calls -> Call]
  BY DEF Inv, TypeOK, ServiceTypeOK
<1>2. CASE LeaveForm(c)
  <2>1. /\ requests' = requests /\ db' = db /\ trouble' = "open"
        /\ \A d \in Calls \ {c} : calls'[d] = calls[d]
    BY <1>1, <1>2 DEF LeaveForm, serviceVars, Try, Record
  <2>2. QED
    BY <2>1, AppLasts
<1>3. CASE CacheAlarms(c) \/ UpsertAlarm(c) \/ RemoveAlarm(c) \/ Reschedule(c, ok)
  <2>1. /\ requests' = requests /\ db' = db /\ InFlight(c)
        /\ trouble' = "none" => trouble = "none"
        /\ \A d \in Calls \ {c} : calls'[d] = calls[d]
    <3>1. CASE CacheAlarms(c)
      BY <1>1, <3>1 DEF CacheAlarms, Answered, InFlight, serviceVars, history
    <3>2. CASE UpsertAlarm(c)
      BY <1>1, <3>2 DEF UpsertAlarm, Answered, InFlight, serviceVars, history
    <3>3. CASE RemoveAlarm(c)
      BY <1>1, <3>3 DEF RemoveAlarm, Answered, InFlight, serviceVars, history
    <3>4. CASE Reschedule(c, ok)
      BY <1>1, <3>4 DEF Reschedule, InFlight, serviceVars, Try, Record
    <3>5. QED
      BY <1>3, <3>1, <3>2, <3>3, <3>4
  <2>2. QED
    BY <2>1, AppLasts
<1>4. CASE \/ Lose(c) \/ Refused(c) \/ GotAlarm(c) \/ ListShown(c) \/ ScheduleAlarm(c, ok) \/ CancelAlarm(c, ok)
           \/ (ScheduleUpdated(c, ok) /\ calls[c].left)
  <2>1. /\ requests' = [requests EXCEPT ![c] = Closed] /\ db' = db
        /\ trouble' = "none" => trouble = "none"
        /\ calls' = calls \/ calls' = [calls EXCEPT ![c] = Ended]
    <3>1. CASE Lose(c)
      BY <3>1 DEF Lose, history
    <3>2. CASE Refused(c)
      BY <3>2 DEF Refused, Fail, history
    <3>3. CASE GotAlarm(c)
      BY <3>3 DEF GotAlarm, history
    <3>4. CASE ListShown(c)
      BY <3>4 DEF ListShown
    <3>5. CASE ScheduleAlarm(c, ok)
      BY <3>5 DEF ScheduleAlarm, Try, Record
    <3>6. CASE CancelAlarm(c, ok)
      BY <3>6 DEF CancelAlarm, Try, Record
    <3>7. CASE ScheduleUpdated(c, ok) /\ calls[c].left
      BY <3>7 DEF ScheduleUpdated, Try, Record
    <3>8. QED
      BY <1>4, <3>1, <3>2, <3>3, <3>4, <3>5, <3>6, <3>7
  <2>2. /\ requests'[c].op = "list"
        /\ \A d \in Calls \ {c} : requests'[d] = requests[d] /\ calls'[d] = calls[d]
    BY <1>1, <2>1, ClosedFields
  <2>3. QED
    BY <2>1, <2>2, AppLasts
<1>5. CASE ScheduleUpdated(c, ok) /\ ~calls[c].left
  <2>1. /\ requests' = [requests EXCEPT ![c] = Sent("list", NoAlarm, "on", FALSE)] /\ db' = db
        /\ trouble' = "none" => trouble = "none"
        /\ \A d \in Calls \ {c} : calls'[d] = [calls[d] EXCEPT !.clean = FALSE]
    BY <1>5 DEF ScheduleUpdated, Record
  <2>2. Sent("list", NoAlarm, "on", FALSE).op = "list"
    BY DEF Sent
  <2>3. requests'[c].op = "list" /\ \A d \in Calls \ {c} : requests'[d] = requests[d]
    BY <1>1, <2>1, <2>2
  <2>4. QED
    BY <2>1, <2>3, AppLasts
<1>6. CASE GiveUp(c)
  <2>1. /\ calls' = [calls EXCEPT ![c] = Ended] /\ db' = db
        /\ trouble' = "none" => trouble = "none"
        /\ requests[c].op \notin Reads => trouble' = "open"
    BY <1>6 DEF GiveUp, Fail, Try, Record
  <2>2. /\ \A d \in Calls \ {c} : requests'[d] = requests[d] /\ calls'[d] = calls[d]
        /\ requests'[c] = Closed \/ (requests[c].op # "get" /\ requests'[c] = [requests[c] EXCEPT !.heard = FALSE])
    BY <1>1, <1>6, <2>1 DEF GiveUp
  <2>3. requests[c] \in Request
    BY <1>1
  <2>4. requests'[c].op = "list" \/ trouble' = "open"
    BY <2>1, <2>2, <2>3, ClosedFields, UnheardFields DEF Reads
  <2>5. QED
    BY <2>1, <2>2, <2>4, AppLasts
<1>7. QED
  BY <1>2, <1>3, <1>4, <1>5, <1>6

\* A refresh begins, ...
LEMMA RefreshLasts ==
  ASSUME Inv, OneByOne, NEW c \in Calls, Refresh(c)
  PROVE  OneByOne'
<1>1. NoTiles \in Shown /\ "on" \in Switch /\ "list" \in Ops \ {"create"} /\ db' = db
  BY EmptyFields DEF Switch, Ops, Refresh
<1>2. \E p \in BOOLEAN : Begin(c, "list", NoAlarm, "on", p, NoTiles)
  BY Zenon DEF Refresh
<1>3. QED
  BY <1>1, <1>2, BegunLasts

\* ... or another of the user's calls that is no creation.
LEMMA BeginLasts ==
  ASSUME Inv, OneByOne, NEW c \in Calls, NEW a \in Alarms, NEW s \in Switch,
         GetAlarm(c, a) \/ Update(c, a, s) \/ Toggle(c, a) \/ Delete(c, a)
  PROVE  OneByOne'
<1>1. NoTiles \in Shown /\ ui.list \in Shown /\ "on" \in Switch
  BY EmptyFields DEF Inv, TypeOK, Switch
<1>2. "get" \in Ops \ {"create"} /\ "update" \in Ops \ {"create"}
      /\ "toggle" \in Ops \ {"create"} /\ "delete" \in Ops \ {"create"}
  BY DEF Ops
<1>3. db' = db
  BY DEF GetAlarm, Update, Toggle, Delete
<1>4. CASE GetAlarm(c, a)
  <2>1. \E p \in BOOLEAN : Begin(c, "get", a, "on", p, NoTiles)
    BY Zenon, <1>4 DEF GetAlarm
  <2>2. QED
    BY <1>1, <1>2, <1>3, <2>1, BegunLasts
<1>5. CASE Update(c, a, s)
  <2>1. \E p \in BOOLEAN : Begin(c, "update", a, s, p, NoTiles)
    BY Zenon, <1>5 DEF Update
  <2>2. QED
    BY <1>1, <1>2, <1>3, <2>1, BegunLasts
<1>6. CASE Toggle(c, a)
  <2>1. \E p \in BOOLEAN : Begin(c, "toggle", a, "on", p, ui.list)
    BY Zenon, <1>6 DEF Toggle
  <2>2. QED
    BY <1>1, <1>2, <1>3, <2>1, BegunLasts
<1>7. CASE Delete(c, a)
  <2>1. \E p \in BOOLEAN : Begin(c, "delete", a, "on", p, ui.list)
    BY Zenon, <1>7 DEF Delete
  <2>2. QED
    BY <1>1, <1>2, <1>3, <2>1, BegunLasts
<1>8. QED
  BY <1>4, <1>5, <1>6, <1>7

\* The limit's invariant is kept by every step.
LEMMA NextOneByOne == Inv /\ OneByOne /\ [Next]_vars => OneByOne'
<1> SUFFICES ASSUME Inv, OneByOne, [Next]_vars
             PROVE  OneByOne'
  OBVIOUS
<1>1. Inv'
  BY NextInv
<1>2. CASE UNCHANGED vars
  <2>1. requests' = requests /\ calls' = calls /\ trouble' = trouble /\ db' = db
    BY <1>2 DEF vars, serviceVars, history
  <2>2. Live' = Live
    BY <2>1 DEF Live
  <2>3. QED
    BY <2>1, <2>2 DEF OneByOne, OneCreates, Counted, HasRoom, Creates, InFlight
<1>3. ASSUME NEW c \in Calls,
             \/ Refresh(c) \/ \E s \in Switch, p \in BOOLEAN : Create(c, s, p)
             \/ \E a \in Alarms : \/ GetAlarm(c, a) \/ Toggle(c, a) \/ Delete(c, a)
                                  \/ \E s \in Switch : Update(c, a, s)
      PROVE  OneByOne'
  <2>1. "on" \in Switch
    BY DEF Switch
  <2>2. QED
    BY <1>3, <2>1, RefreshLasts, CreateAlone, BeginLasts
<1>4. ASSUME NEW c \in Calls, NEW ok \in BOOLEAN,
             \/ LeaveForm(c) \/ GiveUp(c) \/ Lose(c) \/ Refused(c)
             \/ CacheAlarms(c) \/ UpsertAlarm(c) \/ RemoveAlarm(c) \/ GotAlarm(c) \/ ListShown(c)
             \/ Reschedule(c, ok) \/ ScheduleAlarm(c, ok) \/ CancelAlarm(c, ok) \/ ScheduleUpdated(c, ok)
      PROVE  OneByOne'
  BY <1>1, <1>4, AppStepLasts
<1>5. ASSUME NEW c \in Calls, Serve(c)
      PROVE  OneByOne'
  BY <1>5, ListLasts, GetOneLasts, WriteLasts, CountAlone, InsertAlone DEF Serve
<1>6. ASSUME NEW c \in Calls, NEW ok \in BOOLEAN, ServeInvalidate(c, ok)
      PROVE  OneByOne'
  BY <1>6, InvalidateLasts
<1>7. CASE Next
  <2>1. TRUE \in BOOLEAN
    OBVIOUS
  <2>2. QED
    BY <1>3, <1>4, <1>5, <1>6, <1>7, <2>1 DEF Next
<1>8. QED
  BY <1>2, <1>7

\* Only an insertion adds an alarm, where everybody is listened to.
LEMMA OnlyInsertAdds ==
  ASSUME Inv, trouble = "none", [Next]_vars
  PROVE  \/ Live' \subseteq Live
         \/ \E c \in Calls : Insert(c) /\ UNCHANGED <<phoneVars, calls, history>>
<1>1. db' = db => Live' = Live
  BY DEF Live
<1>2. CASE UNCHANGED vars
  BY <1>1, <1>2 DEF vars, serviceVars
<1>3. ASSUME NEW c \in Calls,
             \/ Refresh(c) \/ \E s \in Switch, p \in BOOLEAN : Create(c, s, p)
             \/ LeaveForm(c) \/ GiveUp(c) \/ Lose(c) \/ Refused(c)
             \/ CacheAlarms(c) \/ UpsertAlarm(c) \/ RemoveAlarm(c) \/ GotAlarm(c) \/ ListShown(c)
      PROVE  Live' = Live
  BY <1>1, <1>3 DEF Refresh, Create, LeaveForm, GiveUp, Lose, Refused, Fail, CacheAlarms, UpsertAlarm,
                    RemoveAlarm, GotAlarm, ListShown, serviceVars
<1>4. ASSUME NEW c \in Calls, NEW a \in Alarms,
             \/ GetAlarm(c, a) \/ Toggle(c, a) \/ Delete(c, a)
             \/ \E s \in Switch : Update(c, a, s)
      PROVE  Live' = Live
  BY <1>1, <1>4 DEF GetAlarm, Toggle, Delete, Update
<1>5. ASSUME NEW c \in Calls, NEW ok \in BOOLEAN,
             \/ Reschedule(c, ok) \/ ScheduleAlarm(c, ok) \/ CancelAlarm(c, ok)
             \/ ScheduleUpdated(c, ok) \/ ServeInvalidate(c, ok)
      PROVE  Live' = Live
  BY <1>1, <1>5 DEF Reschedule, ScheduleAlarm, CancelAlarm, ScheduleUpdated, ServeInvalidate, Invalidate, serviceVars
<1>6. ASSUME NEW c \in Calls, Serve(c), ~Insert(c)
      PROVE  Live' \subseteq Live
  <2>1. CASE FindOne(c) \/ Save(c) \/ SoftRemove(c)
    BY <2>1, WritesLive
  <2>2. CASE ListCached(c) \/ ListMissed(c) \/ ListFind(c) \/ ListSet(c) \/ GetOne(c) \/ Count(c)
    BY <1>1, <2>2 DEF ListCached, ListMissed, ListFind, ListSet, GetOne, Count
  <2>3. QED
    BY <1>6, <2>1, <2>2 DEF Serve
<1>7. ASSUME NEW c \in Calls, Serve(c)
      PROVE  Live' \subseteq Live \/ (Insert(c) /\ UNCHANGED <<phoneVars, calls, history>>)
  BY <1>6, <1>7 DEF Serve
<1>8. CASE Next
  BY <1>3, <1>4, <1>5, <1>7, <1>8 DEF Next
<1>9. QED
  BY <1>2, <1>8

\* The free plan's limit, however many creations there are and whoever lists, edits and deletes in the
\* meantime: what is counted before a creation is still true when its row is inserted, as long as
\* nothing has gone wrong (alarms.service.ts, assertWithinFreeLimit).
THEOREM FreeLimitIsKept == Spec => LimitHolds
<1> DEFINE Held(c) == /\ requests[c].pc = "insert" /\ requests'[c].pc = "invalidate"
                      /\ ~requests[c].premium /\ trouble = "none"
<1>1. Init => OneByOne
  <2>1. Init => \A c \in Calls : requests[c].pc = "closed" /\ calls[c].stage = "idle"
    BY ClosedFields, UnusedFields DEF Init
  <2>2. QED
    BY <2>1 DEF OneByOne, OneCreates, Counted, Creates, InFlight
<1>2. Inv /\ OneByOne /\ [Next]_vars => [\A c \in Calls : Held(c) => Cardinality(Live') <= FreeLimit]_vars
  <2> SUFFICES ASSUME Inv, OneByOne, [Next]_vars, NEW c \in Calls, Held(c)
               PROVE  Cardinality(Live') <= FreeLimit
    OBVIOUS
  <2>1. Creates(c)
    <3>1. requests[c].op \in Ops /\ RequestFits(requests[c])
      BY DEF Inv, TypeOK, ServiceTypeOK, Request, CallsFit, Fits
    <3>2. requests[c].op = "create"
      BY <3>1 DEF RequestFits, PcsOf, Ops
    <3>3. QED
      BY <3>2 DEF Creates, InFlight
  <2>2. Cardinality(Live) < FreeLimit
    BY <2>1 DEF OneByOne, Counted, HasRoom
  <2>3. CASE Live' \subseteq Live
    <3>1. Cardinality(Live') <= Cardinality(Live) /\ Cardinality(Live') \in Nat
      BY <2>3, LiveIsFinite, FS_Subset, FS_CardinalityType
    <3>2. QED
      BY <2>2, <3>1, LiveIsFinite, ServiceAssumption
  <2>4. ASSUME NEW d \in Calls, Insert(d), UNCHANGED <<phoneVars, calls, history>>
        PROVE  Cardinality(Live') <= FreeLimit
    <3>1. Creates(d)
      BY <2>4 DEF Insert, At, Creates, InFlight
    <3>2. d = c
      BY <2>1, <3>1 DEF OneByOne, OneCreates
    <3>3. QED
      BY <2>4, <3>2, InsertAlone
  <2>5. QED
    BY <2>3, <2>4, OnlyInsertAdds
<1>3. Spec => []OneByOne
  BY <1>1, Invariance, NextOneByOne, PTL DEF Spec
<1>4. QED
  BY <1>2, <1>3, Invariance, PTL DEF Spec, LimitHolds
=============================================================================

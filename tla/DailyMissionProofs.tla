------------------------- MODULE DailyMissionProofs -------------------------
(* The daily mission keeps the promise of MissionPromise, for every number  *)
(* of requests and sweeps, every set of zones and every length of the day.  *)
EXTENDS DailyMission, TLAPS

-----------------------------------------------------------------------------
(* What the refinement needs of a reachable state: whatever is cached,      *)
(* about to be told, told or about to be completed is the row of its date.  *)

Finishing == {"resolve", "complete", "expire", "forget"}

CachedIsRow == \A d \in Dates : cache[d] # None => rows[d] # None /\ rows[d].id = cache[d].id
ToldHasRow  == \A d \in Dates : told[d] # {} => rows[d] # None
AnswerIsRow == \A h \in Handlers : req[h].at = "set" =>
                 rows[req[h].date] # None /\ rows[req[h].date].id = req[h].dto.id
FinishHasRow == \A h \in Handlers : req[h].at \in Finishing => rows[req[h].date] # None

Kept == CachedIsRow /\ ToldHasRow /\ AnswerIsRow /\ FinishHasRow

-----------------------------------------------------------------------------
(* Types                                                                    *)

\* Instants that are in order are on days that are in order.
LEMMA DayOrder ==
  ASSUME NEW D \in Nat \ {0}, NEW s \in Int, NEW t \in Int, s <= t
  PROVE  s \div D \in Int /\ t \div D \in Int /\ s \div D <= t \div D
  OBVIOUS

\* The offset of a zone stays within the furthest one.
LEMMA OffsetBounded ==
  ASSUME NEW z \in Zones, NEW t \in Int
  PROVE  Offset(z, t) \in -MaxOffset .. MaxOffset
<1>1. /\ z.offset \in Int /\ z.shift \in Int /\ z.at \in Int
      /\ {z.offset, z.offset + z.shift} \subseteq -MaxOffset .. MaxOffset
  BY DailyAssumption
<1>2. QED
  BY <1>1, DailyAssumption DEF Offset

\* The date in any zone, while the clock is in its bound, is one of the table's.
LEMMA LocalDateIsDate ==
  ASSUME NEW z \in Zones, NEW t \in 0 .. MaxTime
  PROVE  LocalDate(z, t) \in Dates
<1> DEFINE o == Offset(z, t)
<1>1. o \in Int /\ -MaxOffset <= o /\ o <= MaxOffset
  BY OffsetBounded, DailyAssumption
<1> HIDE DEF o
<1>2. /\ t + o \in Int /\ -MaxOffset \in Int /\ MaxTime + MaxOffset \in Int
      /\ -MaxOffset <= t + o /\ t + o <= MaxTime + MaxOffset
  BY <1>1, DailyAssumption
<1>3. /\ (-MaxOffset) \div DayLen \in Int /\ (t + o) \div DayLen \in Int
      /\ (MaxTime + MaxOffset) \div DayLen \in Int
      /\ (-MaxOffset) \div DayLen <= (t + o) \div DayLen
  BY <1>2, DayOrder, DailyAssumption
<1>4. (t + o) \div DayLen <= (MaxTime + MaxOffset) \div DayLen
  BY <1>2, DayOrder, DailyAssumption
<1>5. LocalDate(z, t) = (t + o) \div DayLen
  BY DEF LocalDate, o
<1>6. QED
  BY <1>3, <1>4, <1>5 DEF Dates

\* The end of a local day is an instant.
LEMMA EndIsInstant ==
  ASSUME NEW z \in Zones, NEW t \in 0 .. MaxTime
  PROVE  EndOfLocalDay(z, t) \in Int
<1>1. Dates \subseteq Int
  BY DEF Dates
<1>2. LocalDate(z, t) \in Int
  BY <1>1, LocalDateIsDate
<1>3. (LocalDate(z, t) + 1) * DayLen \in Int
  BY <1>2, DailyAssumption
<1>4. Offset(z, (LocalDate(z, t) + 1) * DayLen) \in Int
  BY <1>3, OffsetBounded, DailyAssumption
<1>5. QED
  BY <1>3, <1>4 DEF EndOfLocalDay

\* What a request that is at a stage of getToday or the sweep holds.
LEMMA Reading ==
  ASSUME NEW r \in Requests, r.at \in Stages
  PROVE  /\ r = [at |-> r.at, op |-> r.op, zone |-> r.zone, date |-> r.date]
         /\ r.op \in {"get", "sweep"} /\ r.zone \in Zones /\ r.date \in Dates
  BY DEF Requests, Stages, Idle

\* What a request that has an answer to give holds.
LEMMA Answering ==
  ASSUME NEW r \in Requests, r.at = "set"
  PROVE  r.zone \in Zones /\ r.date \in Dates /\ r.dto \in Dto
  BY DEF Requests, Stages, Idle

\* What a request to complete a mission holds.
LEMMA Completing ==
  ASSUME NEW r \in Requests, r.at \in Finishing
  PROVE  /\ r = [at |-> r.at, date |-> r.date, status |-> r.status]
         /\ r.date \in Dates /\ r.status \in {"assigned", "completed", "expired"}
  BY DEF Requests, Stages, Idle, Finishing

\* Every step keeps the types.
LEMMA TypeStep ==
  ASSUME TypeOK, Kept, [Next]_vars
  PROVE  TypeOK'
<1> USE DEF TypeOK, Go, Done, Tell
<1>1. now \in Int /\ req \in [Handlers -> Requests] /\ zone \in Zones
  BY DailyAssumption
<1>i. Idle \in Requests
  BY DEF Requests
<1>r. ASSUME NEW o \in {"get", "sweep"}, NEW s \in Stages
      PROVE  [at |-> s, op |-> o, zone |-> zone, date |-> LocalDate(zone, now)] \in Requests
  BY LocalDateIsDate DEF Requests
<1>g. ASSUME NEW h \in Handlers, NEW s \in Stages, req[h].at \in Stages, Go(h, s)
      PROVE  req' \in [Handlers -> Requests]
  <2>1. [req[h] EXCEPT !.at = s] = [at |-> s, op |-> req[h].op, zone |-> req[h].zone, date |-> req[h].date]
    BY <1>g, Reading
  <2>2. [req[h] EXCEPT !.at = s] \in Requests
    BY <1>g, <2>1, Reading DEF Requests
  <2>3. QED
    BY <1>g, <2>2
<1>c. ASSUME NEW h \in Handlers, NEW s \in Finishing, req[h].at \in Finishing, Go(h, s)
      PROVE  req' \in [Handlers -> Requests]
  <2>1. [req[h] EXCEPT !.at = s] = [at |-> s, date |-> req[h].date, status |-> req[h].status]
    BY <1>c, Completing
  <2>2. [req[h] EXCEPT !.at = s] \in Requests
    BY <1>c, <2>1, Completing DEF Requests, Finishing
  <2>3. QED
    BY <1>c, <2>2
<1>o. ASSUME NEW h \in Handlers, NEW id \in Handlers, req[h].at \in Stages, Obtained(h, id)
      PROVE  req' \in [Handlers -> Requests]
  <2> DEFINE e == EndOfLocalDay(req[h].zone, now)
             n == [at |-> "set", zone |-> req[h].zone, date |-> req[h].date,
                   dto |-> [id |-> id, expires |-> e]]
  <2>1. e \in Int
    BY <1>o, Reading, EndIsInstant
  <2> HIDE DEF e
  <2>2. n \in Requests
    BY <1>o, <2>1, Reading DEF Requests, Dto
  <2>3. Done(h) \/ req' = [req EXCEPT ![h] = n]
    BY <1>o DEF Obtained, e
  <2> HIDE DEF n
  <2>4. QED
    BY <2>2, <2>3, <1>i
<1>2. ASSUME NEW h \in Handlers, Today(h) PROVE TypeOK'
  <2>1. CASE GetToday(h)
    BY <2>1, <1>r DEF GetToday, Stages
  <2>2. CASE ReadCache(h)
    <3>1. req[h].at \in Stages /\ req[h].date \in Dates /\ "find" \in Stages
      BY <2>2, Reading DEF ReadCache, Stages
    <3>2. req' \in [Handlers -> Requests]
      BY <2>2, <3>1, <1>g, <1>i DEF ReadCache
    <3>3. told' \in [Dates -> SUBSET Handlers]
      BY <2>2, <3>1 DEF ReadCache, Dto
    <3>4. QED
      BY <2>2, <3>2, <3>3 DEF ReadCache
  <2>3. CASE SetCache(h)
    <3>1. req[h].date \in Dates /\ req[h].dto \in Dto
      BY <2>3, Answering DEF SetCache
    <3>2. QED
      BY <2>3, <3>1, <1>i DEF SetCache, Dto
  <2>4. CASE Sweep(h)
    BY <2>4, <1>r DEF Sweep, Stages
  <2>5. QED
    BY <1>2, <2>1, <2>2, <2>3, <2>4 DEF Today
<1>3. ASSUME NEW h \in Handlers, Create(h) PROVE TypeOK'
  <2>1. CASE FindMission(h)
    <3>1. req[h].at \in Stages /\ req[h].date \in Dates /\ "generate" \in Stages
      BY <2>1, Reading DEF FindMission, Stages
    <3>2. CASE rows[req[h].date] = None
      BY <2>1, <3>1, <3>2, <1>g DEF FindMission
    <3>3. CASE rows[req[h].date] # None
      <4>1. rows[req[h].date].id \in Handlers
        BY <3>1, <3>3 DEF Row
      <4>2. QED
        BY <2>1, <3>1, <3>3, <4>1, <1>o DEF FindMission
    <3>4. QED
      BY <3>2, <3>3
  <2>2. CASE GenerateMission(h)
    BY <2>2, <1>g, <1>i DEF GenerateMission, Stages
  <2>3. CASE Insert(h)
    <3>1. req[h].at \in Stages /\ req[h].date \in Dates /\ "find" \in Stages
      BY <2>3, Reading DEF Insert, Stages
    <3>2. req' \in [Handlers -> Requests]
      BY <2>3, <3>1, <1>g, <1>o DEF Insert
    <3>3. rows' \in [Dates -> Row \cup {None}]
      BY <2>3, <3>1 DEF Insert, Row
    <3>4. QED
      BY <2>3, <3>2, <3>3 DEF Insert
  <2>4. QED
    BY <1>3, <2>1, <2>2, <2>3 DEF Create
<1>4. ASSUME NEW h \in Handlers, Finish(h) PROVE TypeOK'
  <2> DEFINE d == req[h].date
  <2>r. ASSUME req[h].at \in Finishing, NEW s \in {"completed", "expired"},
               rows' = [rows EXCEPT ![d].status = s]
        PROVE  rows' \in [Dates -> Row \cup {None}]
    <3>1. d \in Dates /\ rows[d] \in Row
      BY <2>r, Completing DEF Kept, FinishHasRow
    <3>2. [rows[d] EXCEPT !.status = s] \in Row
      BY <3>1 DEF Row
    <3>3. QED
      BY <2>r, <3>1, <3>2
  <2>1. CASE Complete(h)
    <3>1. PICK e \in Dates :
            /\ told[e] # {}
            /\ req' = [req EXCEPT ![h] = [at |-> "resolve", date |-> e, status |-> rows[e].status]]
      BY <2>1 DEF Complete
    <3>2. rows[e] \in Row
      BY <3>1 DEF Kept, ToldHasRow
    <3>3. [at |-> "resolve", date |-> e, status |-> rows[e].status] \in Requests
      BY <3>2 DEF Row, Requests
    <3>4. QED
      BY <2>1, <3>1, <3>3 DEF Complete
  <2>2. CASE Resolve(h)
    BY <2>2, <1>c, <1>i DEF Resolve, Finishing
  <2>3. CASE SaveExpired(h)
    BY <2>3, <2>r, <1>i DEF SaveExpired, Finishing
  <2>4. CASE SaveCompleted(h)
    BY <2>4, <2>r, <1>c DEF SaveCompleted, Finishing
  <2>5. CASE Forget(h)
    <3>1. d \in Dates
      BY <2>5, Completing DEF Forget, Finishing
    <3>2. QED
      BY <2>5, <3>1, <1>i DEF Forget
  <2>6. QED
    BY <1>4, <2>1, <2>2, <2>3, <2>4, <2>5 DEF Finish
<1>5. ASSUME NEW d \in Dates, Evict(d) PROVE TypeOK'
  BY <1>5 DEF Evict
<1>6. CASE Tick
  BY <1>6, DailyAssumption DEF Tick
<1>7. CASE Move
  BY <1>7 DEF Move
<1>8. CASE UNCHANGED vars
  BY <1>8 DEF vars
<1>9. QED
  BY <1>1, <1>2, <1>3, <1>4, <1>5, <1>6, <1>7, <1>8 DEF Next
-----------------------------------------------------------------------------
(* The row of a date                                                        *)

\* A row keeps its mission, and a step that makes one makes just that one.
LEMMA RowStays ==
  ASSUME TypeOK, Kept, [Next]_vars
  PROVE  \A d \in Dates : rows[d] # None => rows'[d] # None /\ rows'[d].id = rows[d].id
<1> USE DEF TypeOK
<1>r. ASSUME NEW h \in Handlers, req[h].at \in Finishing, NEW s \in {"completed", "expired"},
             rows' = [rows EXCEPT ![req[h].date].status = s], NEW d \in Dates, rows[d] # None
      PROVE  rows'[d] # None /\ rows'[d].id = rows[d].id
  <2>1. rows[d] \in Row
    BY <1>r
  <2>2. [rows[d] EXCEPT !.status = s] \in Row /\ [rows[d] EXCEPT !.status = s].id = rows[d].id
    BY <2>1 DEF Row
  <2>3. rows'[d] = rows[d] \/ rows'[d] = [rows[d] EXCEPT !.status = s]
    BY <1>r
  <2>4. QED
    BY <1>r, <2>2, <2>3, NoneAssumption
<1>1. ASSUME NEW h \in Handlers, Today(h) PROVE UNCHANGED rows
  BY <1>1 DEF Today, GetToday, ReadCache, SetCache, Sweep
<1>2. ASSUME NEW h \in Handlers, FindMission(h) \/ GenerateMission(h) PROVE UNCHANGED rows
  BY <1>2 DEF FindMission, GenerateMission
<1>3. ASSUME NEW h \in Handlers, Insert(h), NEW d \in Dates, rows[d] # None
      PROVE  rows'[d] = rows[d]
  BY <1>3 DEF Insert
<1>4. ASSUME NEW h \in Handlers, Complete(h) \/ Resolve(h) \/ Forget(h) PROVE UNCHANGED rows
  BY <1>4 DEF Complete, Resolve, Forget
<1>5. ASSUME NEW h \in Handlers, SaveExpired(h) \/ SaveCompleted(h), NEW d \in Dates, rows[d] # None
      PROVE  rows'[d] # None /\ rows'[d].id = rows[d].id
  <2>1. CASE SaveExpired(h)
    BY <1>5, <2>1, <1>r DEF SaveExpired, Finishing
  <2>2. CASE SaveCompleted(h)
    BY <1>5, <2>2, <1>r DEF SaveCompleted, Finishing
  <2>3. QED
    BY <1>5, <2>1, <2>2
<1>6. ASSUME (\E d \in Dates : Evict(d)) \/ Tick \/ Move \/ UNCHANGED vars PROVE UNCHANGED rows
  BY <1>6 DEF Evict, Tick, Move, vars
<1>7. ASSUME NEW h \in Handlers, Create(h), ~ UNCHANGED rows PROVE Insert(h)
  BY <1>7, <1>2 DEF Create
<1>8. ASSUME NEW h \in Handlers, Finish(h), ~ UNCHANGED rows PROVE SaveExpired(h) \/ SaveCompleted(h)
  BY <1>8, <1>4 DEF Finish
<1>9. QED
  BY <1>1, <1>3, <1>5, <1>6, <1>7, <1>8 DEF Next

\* Obtained: the request's answer is the row it has just found or made.
LEMMA ObtainedIsRow ==
  ASSUME TypeOK, NEW h \in Handlers, NEW id \in Handlers, req[h].at \in Stages, Obtained(h, id)
  PROVE  \/ req' = [req EXCEPT ![h] = Idle]
         \/ /\ req'[h].at = "set" /\ req'[h].date = req[h].date /\ req'[h].dto.id = id
            /\ \A g \in Handlers \ {h} : req'[g] = req[g]
BY DEF TypeOK, Obtained, Done

\* Go: the request is at its next stage, of the same date.
LEMMA Gone ==
  ASSUME TypeOK, NEW h \in Handlers, NEW s, req[h].at \in Stages \cup Finishing, Go(h, s)
  PROVE  req'[h].at = s /\ req'[h].date = req[h].date
<1>1. req'[h] = [req[h] EXCEPT !.at = s] /\ req[h] \in Requests
  BY DEF TypeOK, Go
<1>2. CASE req[h].at \in Stages
  <2>1. [req[h] EXCEPT !.at = s] = [at |-> s, op |-> req[h].op, zone |-> req[h].zone, date |-> req[h].date]
    BY <1>1, <1>2, Reading
  <2>2. QED
    BY <1>1, <2>1
<1>3. CASE req[h].at \in Finishing
  <2>1. [req[h] EXCEPT !.at = s] = [at |-> s, date |-> req[h].date, status |-> req[h].status]
    BY <1>1, <1>3, Completing
  <2>2. QED
    BY <1>1, <2>1
<1>4. QED
  BY <1>2, <1>3

\* Every step keeps what is known of rows, cache and answers.
LEMMA KeptStep ==
  ASSUME TypeOK, Kept, [Next]_vars
  PROVE  Kept'
<1> USE DEF TypeOK
<1>s. \A d \in Dates : rows[d] # None => rows'[d] # None /\ rows'[d].id = rows[d].id
  BY RowStays
<1>d. /\ \A h \in Handlers : req[h].at = "set" => req[h].date \in Dates
      /\ \A h \in Handlers : req[h].at \in Finishing => req[h].date \in Dates
  BY Answering, Completing
<1>1. CachedIsRow'
  <2>1. ASSUME UNCHANGED cache PROVE CachedIsRow'
    BY <2>1, <1>s DEF Kept, CachedIsRow
  <2>2. ASSUME NEW d \in Dates, cache' = [cache EXCEPT ![d] = None] PROVE CachedIsRow'
    BY <2>2, <1>s DEF Kept, CachedIsRow
  <2>3. ASSUME NEW h \in Handlers, SetCache(h) PROVE CachedIsRow'
    BY <2>3, <1>s, <1>d DEF Kept, CachedIsRow, AnswerIsRow, SetCache
  <2>4. ASSUME NEW h \in Handlers, Forget(h) PROVE CachedIsRow'
    BY <2>4, <2>1, <2>2, <1>d DEF Forget, Finishing
  <2>5. ASSUME NEW h \in Handlers, Today(h), ~ SetCache(h) PROVE UNCHANGED cache
    BY <2>5 DEF Today, GetToday, ReadCache, Sweep
  <2>6. ASSUME NEW h \in Handlers, Create(h) PROVE UNCHANGED cache
    BY <2>6 DEF Create, FindMission, GenerateMission, Insert
  <2>7. ASSUME NEW h \in Handlers, Finish(h), ~ Forget(h) PROVE UNCHANGED cache
    BY <2>7 DEF Finish, Complete, Resolve, SaveExpired, SaveCompleted
  <2>8. ASSUME Tick \/ Move \/ UNCHANGED vars PROVE UNCHANGED cache
    BY <2>8 DEF Tick, Move, vars
  <2>9. ASSUME NEW d \in Dates, Evict(d) PROVE CachedIsRow'
    BY <2>9, <2>2 DEF Evict
  <2>10. QED
    BY <2>1, <2>3, <2>4, <2>5, <2>6, <2>7, <2>8, <2>9 DEF Next
<1>2. ToldHasRow'
  <2>1. ASSUME UNCHANGED told PROVE ToldHasRow'
    BY <2>1, <1>s DEF Kept, ToldHasRow
  <2>2. ASSUME NEW d \in Dates, NEW m, rows[d] # None, Tell(d, m) PROVE ToldHasRow'
    BY <2>2, <1>s DEF Kept, ToldHasRow, Tell
  <2>3. ASSUME NEW h \in Handlers, ReadCache(h) PROVE ToldHasRow'
    <3>1. req[h].date \in Dates
      BY <2>3, Reading DEF ReadCache, Stages
    <3>2. QED
      BY <2>1, <2>2, <2>3, <3>1 DEF ReadCache, Kept, CachedIsRow
  <2>4. ASSUME NEW h \in Handlers, SetCache(h) PROVE ToldHasRow'
    BY <2>4, <2>2, <1>d DEF SetCache, Kept, AnswerIsRow
  <2>5. ASSUME NEW h \in Handlers, GetToday(h) \/ Sweep(h) \/ Create(h) PROVE UNCHANGED told
    BY <2>5 DEF GetToday, Sweep, Create, FindMission, GenerateMission, Insert
  <2>6. ASSUME NEW h \in Handlers, Finish(h) PROVE UNCHANGED told
    BY <2>6 DEF Finish, Complete, Resolve, SaveExpired, SaveCompleted, Forget
  <2>7. ASSUME (\E d \in Dates : Evict(d)) \/ Tick \/ Move \/ UNCHANGED vars PROVE UNCHANGED told
    BY <2>7 DEF Evict, Tick, Move, vars
  <2>8. QED
    BY <2>1, <2>3, <2>4, <2>5, <2>6, <2>7 DEF Next, Today
<1>3. AnswerIsRow' /\ FinishHasRow'
  <2> DEFINE Fine(g) == /\ req[g].at = "set" => rows[req[g].date] # None /\ rows[req[g].date].id = req[g].dto.id
                        /\ req[g].at \in Finishing => rows[req[g].date] # None
  <2>s. ASSUME NEW g \in Handlers, req'[g] = req[g] PROVE Fine(g)'
    BY <2>s, <1>s, <1>d DEF Kept, AnswerIsRow, FinishHasRow
  <2>i. ASSUME NEW g \in Handlers, req'[g].at \notin Finishing \cup {"set"} PROVE Fine(g)'
    BY <2>i DEF Finishing
  <2>t. ASSUME NEW h \in Handlers, NEW g \in Handlers, Today(h) PROVE Fine(g)'
    <3>1. g # h => req'[g] = req[g]
      BY <2>t DEF Today, GetToday, ReadCache, SetCache, Sweep, Go, Done
    <3>2. req'[h].at \in {"cache", "find", "idle"}
      BY <2>t, Gone DEF Today, GetToday, ReadCache, SetCache, Sweep, Done, Idle, Stages
    <3> HIDE DEF Fine
    <3>3. QED
      BY <3>1, <3>2, <2>s, <2>i DEF Finishing
  <2>c. ASSUME NEW h \in Handlers, NEW g \in Handlers, Create(h) PROVE Fine(g)'
    <3>1. g # h => req'[g] = req[g]
      BY <2>c DEF Create, FindMission, GenerateMission, Insert, Obtained, Go, Done
    <3>2. ASSUME req'[h].at \in Finishing \cup {"set"} PROVE Fine(h)'
      <4>1. PICK id \in Handlers : /\ req[h].at \in Stages /\ req[h].date \in Dates
                                   /\ rows'[req[h].date] # None /\ rows'[req[h].date].id = id
                                   /\ Obtained(h, id)
        <5>1. CASE FindMission(h)
          <6>1. req[h].at \in Stages /\ req[h].date \in Dates
            BY <5>1, Reading DEF FindMission, Stages
          <6>2. rows[req[h].date] # None
            BY <5>1, <3>2, <6>1, Gone DEF FindMission, Finishing
          <6>3. rows[req[h].date].id \in Handlers
            BY <6>1, <6>2 DEF Row
          <6>4. QED
            BY <5>1, <6>1, <6>2, <6>3 DEF FindMission
        <5>2. CASE GenerateMission(h)
          BY <5>2, <3>2, Gone DEF GenerateMission, Done, Idle, Stages, Finishing
        <5>3. CASE Insert(h)
          <6>1. req[h].at \in Stages /\ req[h].date \in Dates
            BY <5>3, Reading DEF Insert, Stages
          <6>2. rows[req[h].date] = None
            BY <5>3, <3>2, <6>1, Gone DEF Insert, Finishing
          <6>3. [id |-> h, status |-> "assigned"] \in Row
            BY DEF Row
          <6>4. rows'[req[h].date] = [id |-> h, status |-> "assigned"]
            BY <5>3, <6>1, <6>2 DEF Insert
          <6>5. QED
            BY <5>3, <6>1, <6>2, <6>3, <6>4, NoneAssumption DEF Insert
        <5>4. QED
          BY <2>c, <5>1, <5>2, <5>3 DEF Create
      <4>2. /\ req'[h].at = "set" /\ req'[h].date = req[h].date /\ req'[h].dto.id = id
        BY <4>1, <3>2, ObtainedIsRow DEF Idle, Finishing
      <4>3. QED
        BY <4>1, <4>2 DEF Finishing
    <3> HIDE DEF Fine
    <3>3. QED
      BY <3>1, <3>2, <2>s, <2>i
  <2>f. ASSUME NEW h \in Handlers, NEW g \in Handlers, Finish(h) PROVE Fine(g)'
    <3>1. g # h => req'[g] = req[g]
      BY <2>f DEF Finish, Complete, Resolve, SaveExpired, SaveCompleted, Forget, Go, Done
    <3>2. Fine(h)'
      <4>1. CASE Complete(h)
        <5>1. PICK e \in Dates : told[e] # {} /\ req'[h].at = "resolve" /\ req'[h].date = e
          BY <4>1 DEF Complete
        <5>2. QED
          BY <5>1, <1>s DEF Kept, ToldHasRow
      <4>2. CASE req[h].at \in Finishing /\ req'[h].at \in Finishing /\ req'[h].date = req[h].date
        BY <4>2, <1>s, <1>d DEF Kept, FinishHasRow, Finishing
      <4>3. CASE req'[h] = Idle
        BY <4>3 DEF Idle, Finishing
      <4>4. ASSUME Resolve(h) \/ SaveExpired(h) \/ SaveCompleted(h) \/ Forget(h), req'[h] # Idle
            PROVE  req[h].at \in Finishing /\ req'[h].at \in Finishing /\ req'[h].date = req[h].date
        <5>1. req[h].at \in Finishing
          BY <4>4 DEF Resolve, SaveExpired, SaveCompleted, Forget, Finishing
        <5>2. PICK s \in Finishing : Go(h, s)
          BY <4>4 DEF Resolve, SaveExpired, SaveCompleted, Forget, Done, Finishing
        <5>3. QED
          BY <5>1, <5>2, Gone
      <4> HIDE DEF Fine
      <4>5. QED
        BY <2>f, <4>1, <4>2, <4>3, <4>4 DEF Finish
    <3> HIDE DEF Fine
    <3>3. QED
      BY <3>1, <3>2, <2>s
  <2>o. ASSUME NEW g \in Handlers, (\E d \in Dates : Evict(d)) \/ Tick \/ Move \/ UNCHANGED vars
        PROVE  Fine(g)'
    <3>1. req' = req
      BY <2>o DEF Evict, Tick, Move, vars
    <3> HIDE DEF Fine
    <3>2. QED
      BY <3>1, <2>s
  <2>9. \A g \in Handlers : Fine(g)'
    <3> HIDE DEF Fine
    <3>1. QED
      BY <2>t, <2>c, <2>f, <2>o DEF Next
  <2>10. QED
    BY <2>9 DEF AnswerIsRow, FinishHasRow
<1>4. QED
  BY <1>1, <1>2, <1>3 DEF Kept
-----------------------------------------------------------------------------
(* Theorems                                                                 *)

\* The state the service starts in.
LEMMA Start ==
  ASSUME Init
  PROVE  TypeOK /\ Kept
<1>1. TypeOK
  BY DailyAssumption DEF Init, TypeOK, Requests
<1>2. Kept
  BY DEF Init, Kept, CachedIsRow, ToldHasRow, AnswerIsRow, FinishHasRow, Idle, Finishing
<1>3. QED
  BY <1>1, <1>2

\* Both are inductive together: a completion writes into the row that Kept says is there.
THEOREM Reachable == Spec => [](TypeOK /\ Kept)
<1>1. ASSUME TypeOK /\ Kept, [Next]_vars PROVE (TypeOK /\ Kept)'
  BY <1>1, TypeStep, KeptStep
<1>2. QED
  BY Start, <1>1, PTL DEF Spec

\* The types of the daily mission's state hold in every reachable state.
THEOREM TypeCorrect == Spec => []TypeOK
<1>1. QED
  BY Reachable, PTL

\* Which steps choose a mission: an insert that was not refused.
LEMMA StepKeepsPromise ==
  ASSUME TypeOK, Kept, [Next]_vars
  PROVE  [Promise!Next]_(Promise!promise)
<1> USE DEF TypeOK
<1>s. \A d \in Dates : rows[d] # None => rows'[d] # None /\ rows'[d].id = rows[d].id
  BY RowStays
<1>k. ASSUME \A d \in Dates : rows[d] = None => rows'[d] = None PROVE Chosen' = Chosen
  BY <1>k, <1>s DEF Chosen
<1>u. ASSUME UNCHANGED rows PROVE Chosen' = Chosen
  BY <1>u DEF Chosen
<1>t. ASSUME UNCHANGED rows, NEW d \in Dates, rows[d] # None, Tell(d, rows[d].id) PROVE Promise!Tell(d)
  <2>1. Chosen[d] = rows[d].id /\ rows[d].id # None
    <3>1. rows[d] \in Row
      BY <1>t
    <3>2. QED
      BY <1>t, <3>1, NoneAssumption DEF Chosen, Row
  <2>2. QED
    BY <1>t, <1>u, <2>1 DEF Promise!Tell, Tell
<1>1. ASSUME NEW h \in Handlers, ReadCache(h) PROVE [Promise!Next]_(Promise!promise)
  <2>1. req[h].date \in Dates
    BY <1>1, Reading DEF ReadCache, Stages
  <2>2. CASE UNCHANGED told
    BY <1>1, <1>u, <2>2 DEF ReadCache, Promise!promise
  <2>3. CASE cache[req[h].date] # None /\ Tell(req[h].date, cache[req[h].date].id)
    BY <1>1, <1>t, <2>1, <2>3 DEF ReadCache, Kept, CachedIsRow, Promise!Next
  <2>4. QED
    BY <1>1, <2>2, <2>3 DEF ReadCache
<1>2. ASSUME NEW h \in Handlers, SetCache(h) PROVE Promise!Next
  <2>1. req[h].date \in Dates
    BY <1>2, Answering DEF SetCache
  <2>2. QED
    BY <1>2, <1>t, <2>1 DEF SetCache, Kept, AnswerIsRow, Promise!Next
<1>3. ASSUME NEW h \in Handlers, Insert(h) PROVE [Promise!Next]_(Promise!promise)
  <2> DEFINE d == req[h].date
  <2>1. d \in Dates
    BY <1>3, Reading DEF Insert, Stages
  <2>2. CASE rows[d] = None
    <3>1. [id |-> h, status |-> "assigned"] \in Row
      BY DEF Row
    <3>2. rows' = [rows EXCEPT ![d] = [id |-> h, status |-> "assigned"]]
      BY <1>3, <2>2 DEF Insert
    <3>3. Chosen' = [Chosen EXCEPT ![d] = h] /\ Chosen[d] = None
      BY <2>1, <2>2, <3>1, <3>2, NoneAssumption DEF Chosen
    <3>4. Promise!Choose(d, h)
      BY <1>3, <3>3 DEF Insert, Promise!Choose
    <3>5. QED
      BY <2>1, <3>4 DEF Promise!Next
  <2>3. CASE rows[d] # None
    BY <1>3, <1>u, <2>3 DEF Insert, Promise!promise
  <2>4. QED
    BY <2>2, <2>3
<1>4. ASSUME NEW h \in Handlers, Finish(h) PROVE UNCHANGED told /\ Chosen' = Chosen
  <2>1. UNCHANGED told
    BY <1>4 DEF Finish, Complete, Resolve, SaveExpired, SaveCompleted, Forget
  <2>2. ASSUME NEW d \in Dates, rows[d] = None PROVE rows'[d] = None
    <3>1. CASE UNCHANGED rows
      BY <2>2, <3>1
    <3>2. CASE SaveExpired(h) \/ SaveCompleted(h)
      <4>1. rows[req[h].date] # None
        BY <3>2 DEF SaveExpired, SaveCompleted, Kept, FinishHasRow, Finishing
      <4>2. QED
        BY <2>2, <3>2, <4>1 DEF SaveExpired, SaveCompleted
    <3>3. QED
      BY <1>4, <3>1, <3>2 DEF Finish, Complete, Resolve, Forget
  <2>3. QED
    BY <2>1, <2>2, <1>k
<1>5. ASSUME \/ \E h \in Handlers : GetToday(h) \/ Sweep(h) \/ FindMission(h) \/ GenerateMission(h)
             \/ \E d \in Dates : Evict(d)
             \/ Tick \/ Move \/ UNCHANGED vars
      PROVE  UNCHANGED <<rows, told>>
  BY <1>5 DEF GetToday, Sweep, FindMission, GenerateMission, Evict, Tick, Move, vars
<1>6. QED
  BY <1>1, <1>2, <1>3, <1>4, <1>5, <1>u DEF Next, Today, Create, Promise!promise

\* The backend's daily mission implements the promise: whatever readers, sweeps, evictions,
\* failures and moves interleave, a day's mission is chosen once and everyone is told it.
\* [ai-mission.service.ts getOrCreateForDate, getToday]
THEOREM KeepsPromise == Spec => OneMissionPerDay
<1>1. Init => Promise!Init
  BY DEF Init, Promise!Init, Chosen
<1>2. ASSUME TypeOK, Kept, [Next]_vars PROVE [Promise!Next]_(Promise!promise)
  BY <1>2, StepKeepsPromise
<1>3. QED
  BY <1>1, <1>2, Reachable, PTL DEF Spec, OneMissionPerDay, Promise!Spec

\* What the promise is worth to the user: of a day he is told the mission chosen for it, or nothing.
ToldTheChosen == \A d \in Dates : told[d] \subseteq {Chosen[d]} /\ (Chosen[d] = None => told[d] = {})

\* The promise alone implies it: a mission that is chosen is never another one.
LEMMA PromiseIsOneMission == Promise!Spec => []ToldTheChosen
<1>1. Promise!Init => ToldTheChosen
  BY DEF Promise!Init, ToldTheChosen
<1>2. ASSUME ToldTheChosen, [Promise!Next]_(Promise!promise) PROVE ToldTheChosen'
  <2>1. CASE UNCHANGED Promise!promise
    BY <1>2, <2>1 DEF Promise!promise, ToldTheChosen
  <2>2. ASSUME NEW d \in Dates, Promise!Tell(d) PROVE ToldTheChosen'
    <3>1. Chosen' = Chosen /\ Chosen[d] # None /\ told' = [told EXCEPT ![d] = @ \cup {Chosen[d]}]
      BY <2>2 DEF Promise!Tell
    <3>2. \A e \in Dates : told'[e] \subseteq told[e] \cup {Chosen[e]} /\ (e # d => told'[e] = told[e])
      BY <3>1
    <3>3. QED
      BY <1>2, <3>1, <3>2 DEF ToldTheChosen
  <2>3. ASSUME NEW d \in Dates, NEW m \in Handlers, Promise!Choose(d, m) PROVE ToldTheChosen'
    <3>1. told' = told /\ Chosen[d] = None /\ Chosen' = [Chosen EXCEPT ![d] = m]
      BY <2>3 DEF Promise!Choose
    <3>2. told[d] = {} /\ \A e \in Dates \ {d} : Chosen'[e] = Chosen[e]
      BY <1>2, <3>1 DEF ToldTheChosen, Chosen
    <3>3. QED
      BY <1>2, <3>1, <3>2 DEF ToldTheChosen
  <2>4. QED
    BY <1>2, <2>1, <2>2, <2>3 DEF Promise!Next
<1>3. QED
  BY <1>1, <1>2, PTL DEF Promise!Spec

\* Whoever asks for a day's mission, from whatever zone and however often, is told the same one, and
\* it is the mission of the day's row.  [ai-mission.service.ts:105 getOrCreateForDate]
THEOREM EverybodyToldOneMission ==
  Spec => [](\A d \in Dates : \A m \in told[d] : rows[d] # None /\ m = rows[d].id)
<1>1. ToldTheChosen => \A d \in Dates : \A m \in told[d] : rows[d] # None /\ m = rows[d].id
  BY DEF ToldTheChosen, Chosen
<1>2. QED
  BY <1>1, KeepsPromise, PromiseIsOneMission, PTL DEF OneMissionPerDay

-----------------------------------------------------------------------------
(* A completion                                                             *)

Loaded == \A h \in Handlers : req[h].at \in {"expire", "complete"} => req[h].status # "completed"

\* A request that is about to save has loaded a mission that was not completed.
LEMMA LoadedStep ==
  ASSUME TypeOK, Loaded, [Next]_vars
  PROVE  Loaded'
<1>0. req \in [Handlers -> Requests]
  BY DEF TypeOK
<1>1. ASSUME NEW h \in Handlers, NEW r, req' = [req EXCEPT ![h] = r], r.at \notin {"expire", "complete"}
      PROVE  Loaded'
  BY <1>0, <1>1 DEF Loaded
<1>2. ASSUME NEW h \in Handlers, Done(h) PROVE Loaded'
  BY <1>1, <1>2 DEF Done, Idle
<1>3. ASSUME NEW h \in Handlers, NEW s, Go(h, s), req[h].at \in Stages \cup Finishing,
             s \notin {"expire", "complete"}
      PROVE  Loaded'
  <2>1. req'[h].at = s
    BY <1>3, Gone
  <2>2. \A g \in Handlers \ {h} : req'[g] = req[g]
    BY <1>0, <1>3 DEF Go
  <2>3. QED
    BY <1>3, <2>1, <2>2 DEF Loaded
<1>4. ASSUME NEW h \in Handlers, NEW id, req[h].at \in Stages, Obtained(h, id) PROVE Loaded'
  <2>1. CASE Done(h)
    BY <1>2, <2>1
  <2>2. CASE req' = [req EXCEPT ![h] = [at |-> "set", zone |-> req[h].zone, date |-> req[h].date,
                       dto |-> [id |-> id, expires |-> EndOfLocalDay(req[h].zone, now)]]]
    BY <1>1, <2>2
  <2>3. QED
    BY <1>4, <2>1, <2>2 DEF Obtained
<1>5. ASSUME NEW h \in Handlers, Today(h) PROVE Loaded'
  <2>1. CASE GetToday(h) \/ Sweep(h)
    BY <1>1, <2>1 DEF GetToday, Sweep
  <2>2. CASE ReadCache(h)
    BY <1>2, <1>3, <2>2 DEF ReadCache, Stages
  <2>3. CASE SetCache(h)
    BY <1>2, <2>3 DEF SetCache
  <2>4. QED
    BY <1>5, <2>1, <2>2, <2>3 DEF Today
<1>6. ASSUME NEW h \in Handlers, Create(h) PROVE Loaded'
  <2>1. CASE FindMission(h)
    BY <1>3, <1>4, <2>1 DEF FindMission, Stages
  <2>2. CASE GenerateMission(h)
    BY <1>2, <1>3, <2>2 DEF GenerateMission, Stages
  <2>3. CASE Insert(h)
    BY <1>3, <1>4, <2>3 DEF Insert, Stages
  <2>4. QED
    BY <1>6, <2>1, <2>2, <2>3 DEF Create
<1>7. ASSUME NEW h \in Handlers, Finish(h) PROVE Loaded'
  <2>1. CASE Complete(h)
    BY <1>1, <2>1 DEF Complete
  <2>2. CASE Resolve(h)
    <3>1. CASE req[h].status = "completed"
      BY <1>2, <2>2, <3>1 DEF Resolve
    <3>2. ASSUME NEW s, Go(h, s), req[h].status # "completed" PROVE Loaded'
      <4>1. req[h] = [at |-> req[h].at, date |-> req[h].date, status |-> req[h].status]
        BY <1>0, <2>2, Completing DEF Resolve, Finishing
      <4>2. req'[h].status = req[h].status
        BY <1>0, <3>2, <4>1 DEF Go
      <4>3. \A g \in Handlers \ {h} : req'[g] = req[g]
        BY <1>0, <3>2 DEF Go
      <4>4. QED
        BY <3>2, <4>2, <4>3 DEF Loaded
    <3>3. QED
      BY <2>2, <3>1, <3>2 DEF Resolve
  <2>3. CASE SaveExpired(h) \/ Forget(h)
    BY <1>2, <2>3 DEF SaveExpired, Forget
  <2>4. CASE SaveCompleted(h)
    BY <1>3, <2>4 DEF SaveCompleted, Finishing
  <2>5. QED
    BY <1>7, <2>1, <2>2, <2>3, <2>4 DEF Finish
<1>8. CASE UNCHANGED req
  BY <1>8 DEF Loaded
<1>9. QED
  BY <1>5, <1>6, <1>7, <1>8 DEF Next, Evict, Tick, Move, vars

\* A step changes a row that is completed only by saving it as expired.
LEMMA CompletedChanges ==
  ASSUME TypeOK, Loaded, [Next]_vars, NEW d \in Dates,
         rows[d] # None, rows[d].status = "completed", rows'[d] # rows[d]
  PROVE  \E h \in Handlers : /\ req[h].at = "expire" /\ req[h].date = d
                             /\ req[h].status # "completed"
<1>0. rows \in [Dates -> Row \cup {None}]
  BY DEF TypeOK
<1>1. ASSUME NEW h \in Handlers, Today(h) \/ FindMission(h) \/ GenerateMission(h)
                                 \/ Complete(h) \/ Resolve(h) \/ Forget(h)
      PROVE  FALSE
  BY <1>1 DEF Today, GetToday, ReadCache, SetCache, Sweep, FindMission, GenerateMission,
              Complete, Resolve, Forget
<1>2. ASSUME NEW h \in Handlers, Insert(h) PROVE FALSE
  BY <1>0, <1>2 DEF Insert
<1>3. ASSUME NEW h \in Handlers, SaveCompleted(h) PROVE FALSE
  <2>1. rows[d] \in Row
    BY <1>0
  <2>2. [rows[d] EXCEPT !.status = "completed"] = rows[d]
    BY <2>1 DEF Row
  <2>3. QED
    BY <1>0, <1>3, <2>2 DEF SaveCompleted
<1>4. ASSUME NEW h \in Handlers, SaveExpired(h)
      PROVE  req[h].at = "expire" /\ req[h].date = d /\ req[h].status # "completed"
  BY <1>0, <1>4 DEF SaveExpired, Loaded
<1>5. CASE (\E e \in Dates : Evict(e)) \/ Tick \/ Move \/ UNCHANGED vars
  BY <1>5 DEF Evict, Tick, Move, vars
<1>6. QED
  BY <1>1, <1>2, <1>3, <1>4, <1>5 DEF Next, Create, Finish

\* For every number of requests, zone and clock: a completed mission is lost only to a request
\* that loaded it before and, past midnight or a move, saves it as expired.
\* [ai-mission.service.ts:317 complete]
THEOREM CompletionIsKept == Spec => CompletionKept
<1>1. Init => Loaded
  BY DEF Init, Loaded, Idle
<1>2. TypeOK /\ Loaded /\ [Next]_vars => Loaded'
  BY LoadedStep
<1>3. TypeOK /\ Loaded /\ [Next]_vars =>
        [\A d \in Dates :
           rows[d] # None /\ rows[d].status = "completed" /\ rows'[d] # rows[d] =>
             \E h \in Handlers : /\ req[h].at = "expire" /\ req[h].date = d
                                 /\ req[h].status # "completed"]_vars
  BY CompletedChanges
<1>4. QED
  BY <1>1, <1>2, <1>3, TypeCorrect, PTL DEF Spec, CompletionKept

-----------------------------------------------------------------------------
(* The end of the day                                                       *)

\* A date is past exactly from the midnight that ends it.
LEMMA DayOf ==
  ASSUME NEW x \in Int, NEW d \in Int
  PROVE  /\ x \div DayLen \in Int /\ (d + 1) * DayLen \in Int
         /\ x \div DayLen > d <=> x >= (d + 1) * DayLen
<1> DEFINE q == x \div DayLen
<1>1. DayLen \in Int /\ DayLen > 0
  BY DailyAssumption
<1>2. q \in Int /\ q * DayLen <= x /\ x < (q + 1) * DayLen
  BY <1>1
<1> HIDE DEF q
<1>3. q > d => q * DayLen >= (d + 1) * DayLen
  BY <1>1, <1>2
<1>4. q <= d => (q + 1) * DayLen <= (d + 1) * DayLen
  BY <1>1, <1>2
<1>5. (d + 1) * DayLen \in Int /\ q * DayLen \in Int /\ (q + 1) * DayLen \in Int
  BY <1>1, <1>2
<1>6. q > d <=> x >= (d + 1) * DayLen
  BY <1>2, <1>3, <1>4, <1>5
<1>7. QED
  BY <1>2, <1>5, <1>6 DEF q

\* The wall clock of a zone, before and after the change.
LEMMA Wall ==
  ASSUME NEW z \in Zones, NEW t \in Int
  PROVE  /\ z.offset \in Int /\ z.shift \in Int /\ z.at \in Int /\ MaxOffset \in Int
         /\ -MaxOffset <= z.offset /\ z.offset <= MaxOffset
         /\ -MaxOffset <= z.offset + z.shift /\ z.offset + z.shift <= MaxOffset
         /\ Offset(z, t) = IF t >= z.at THEN z.offset + z.shift ELSE z.offset
         /\ Offset(z, t) \in Int /\ t + Offset(z, t) \in Int
         /\ LocalDate(z, t) = (t + Offset(z, t)) \div DayLen /\ LocalDate(z, t) \in Int
<1>1. /\ z.offset \in Int /\ z.shift \in Int /\ z.at \in Int /\ MaxOffset \in Int
      /\ {z.offset, z.offset + z.shift} \subseteq -MaxOffset .. MaxOffset
  BY DailyAssumption
<1>2. Offset(z, t) = (IF t >= z.at THEN z.offset + z.shift ELSE z.offset) /\ Offset(z, t) \in Int
  BY <1>1 DEF Offset
<1>3. t + Offset(z, t) \in Int
  BY <1>2
<1>4. LocalDate(z, t) = (t + Offset(z, t)) \div DayLen /\ LocalDate(z, t) \in Int
  BY <1>3, DayOf DEF LocalDate
<1>5. QED
  BY <1>1, <1>2, <1>3, <1>4

\* Where the clocks are orderly the date never goes back.
LEMMA DateAdvances ==
  ASSUME NEW z \in Zones, Orderly(z), NEW s \in Int, NEW t \in Int, s <= t
  PROVE  LocalDate(z, s) <= LocalDate(z, t)
<1>d. DayLen \in Nat \ {0}
  BY DailyAssumption
<1>o. ASSUME NEW u \in Int, NEW v \in Int, u <= v, u >= z.at \/ v < z.at
      PROVE  LocalDate(z, u) <= LocalDate(z, v)
  <2>1. u + Offset(z, u) \in Int /\ v + Offset(z, v) \in Int
    BY Wall
  <2>2. u + Offset(z, u) <= v + Offset(z, v)
    BY <1>o, Wall
  <2>3. (u + Offset(z, u)) \div DayLen <= (v + Offset(z, v)) \div DayLen
    BY <1>d, <2>1, <2>2, DayOrder
  <2>4. QED
    BY <2>3 DEF LocalDate
<1>1. CASE s >= z.at \/ t < z.at
  BY <1>1, <1>o
<1>2. CASE s < z.at /\ t >= z.at
  <2>1. z.at \in Int /\ z.at - 1 \in Int /\ s <= z.at - 1
    BY <1>2, Wall
  <2>2. LocalDate(z, s) <= LocalDate(z, z.at - 1)
    BY <2>1, <1>o
  <2>3. LocalDate(z, z.at) <= LocalDate(z, t)
    BY <1>2, <2>1, <1>o
  <2>4. LocalDate(z, z.at - 1) <= LocalDate(z, z.at)
    BY DEF Orderly
  <2>5. /\ LocalDate(z, s) \in Int /\ LocalDate(z, t) \in Int
        /\ LocalDate(z, z.at - 1) \in Int /\ LocalDate(z, z.at) \in Int
    BY <2>1, Wall
  <2>6. QED
    BY <2>2, <2>3, <2>4, <2>5
<1>3. z.at \in Int
  BY Wall
<1>4. QED
  BY <1>1, <1>2, <1>3

\* A day ends at an instant that is on the next one, and at the instant before it is not yet over.
LEMMA DayEnds ==
  ASSUME NEW z \in Zones, NEW d \in Int
  PROVE  /\ DayEnd(z, d) \in Int
         /\ LocalDate(z, DayEnd(z, d) - 1) <= d
<1> DEFINE w == (d + 1) * DayLen
           Ends(t) == /\ LocalDate(z, t) > d
                      /\ \A s \in w - MaxOffset .. t - 1 : LocalDate(z, s) <= d
           summer == z.offset + z.shift
           e == IF w - z.offset < z.at THEN w - z.offset
                ELSE IF w - summer > z.at THEN w - summer ELSE z.at
<1>1. w \in Int
  BY DayOf
<1>o. ASSUME NEW t \in Int PROVE LocalDate(z, t) > d <=> t + Offset(z, t) >= w
  <2>1. t + Offset(z, t) \in Int /\ LocalDate(z, t) = (t + Offset(z, t)) \div DayLen
    BY <1>o, Wall
  <2> HIDE DEF e, Ends
  <2>2. QED
    BY <2>1, DayOf
<1>p. ASSUME NEW t \in Int PROVE LocalDate(z, t) \in Int
  BY Wall
<1> HIDE DEF w
<1>2. e \in w - MaxOffset .. w + MaxOffset
  <2>1. z \in Zones /\ 0 \in Int
    OBVIOUS
  <2>2. QED
    BY <1>1, <2>1, Wall
<1>3. e + Offset(z, e) >= w
  BY <1>1, <1>2, Wall
<1>4. ASSUME NEW s \in w - MaxOffset .. e - 1 PROVE s + Offset(z, s) < w
  BY <1>1, <1>2, <1>4, Wall
<1>5. Ends(e)
  <2>1. LocalDate(z, e) > d
    BY <1>1, <1>2, <1>3, <1>o, Wall
  <2>2. ASSUME NEW s \in w - MaxOffset .. e - 1 PROVE LocalDate(z, s) <= d
    <3>1. s \in Int /\ s + Offset(z, s) \in Int
      BY <2>2, Wall
    <3>2. QED
      BY <1>1, <1>4, <1>o, <1>p, <3>1
  <2>3. QED
    BY <2>1, <2>2
<1> HIDE DEF e
<1>6. DayEnd(z, d) = CHOOSE t \in w - MaxOffset .. w + MaxOffset : Ends(t)
  BY DEF DayEnd, w
<1>7. DayEnd(z, d) \in w - MaxOffset .. w + MaxOffset /\ Ends(DayEnd(z, d))
  <2> HIDE DEF Ends
  <2>1. QED
    BY <1>2, <1>5, <1>6, Zenon
<1> DEFINE l == DayEnd(z, d) - 1
<1>8. DayEnd(z, d) \in Int /\ l \in Int /\ l + 1 = DayEnd(z, d)
  BY <1>1, <1>7, Wall
<1>9. LocalDate(z, l) <= d
  <2>1. CASE l >= w - MaxOffset
    BY <1>1, <1>7, <1>8, <2>1, Wall
  <2>2. CASE l < w - MaxOffset
    <3>1. l + Offset(z, l) < w
      BY <1>1, <1>8, <2>2, OffsetBounded, Wall
    <3>2. QED
      BY <1>1, <1>8, <1>o, <1>p, <3>1, Wall
  <2>3. QED
    BY <1>1, <1>8, <2>1, <2>2, Wall
<1>10. QED
  BY <1>8, <1>9

\* What is taken for the end of a day, or of a later one, is not before its end, if the offset of
\* the last instant of the day is taken.
LEMMA EndIsLate ==
  ASSUME NEW z \in Zones, z.shift <= DayLen, NEW d \in Int, NEW t \in Int, d <= LocalDate(z, t),
         Offset(z, (d + 1) * DayLen) = Offset(z, DayEnd(z, d) - 1)
  PROVE  EndOfLocalDay(z, t) >= DayEnd(z, d)
<1> DEFINE w == (d + 1) * DayLen
           v == (LocalDate(z, t) + 1) * DayLen
           l == DayEnd(z, d) - 1
<1>1. DayEnd(z, d) \in Int /\ l \in Int /\ DayEnd(z, d) = l + 1 /\ LocalDate(z, l) <= d
  BY DayEnds
<1>2. w \in Int /\ v \in Int /\ LocalDate(z, t) \in Int /\ DayLen \in Int
  <2>1. LocalDate(z, t) \in Int
    BY Wall
  <2>2. QED
    BY <2>1, DailyAssumption
<1>3. w = v \/ w + DayLen <= v
  <2>1. CASE LocalDate(z, t) = d
    BY <2>1
  <2>2. CASE LocalDate(z, t) > d
    <3>1. (d + 2) * DayLen <= v /\ (d + 2) * DayLen = w + DayLen
      BY <1>2, <2>2, DailyAssumption
    <3>2. QED
      BY <3>1
  <2>3. QED
    BY <1>2, <2>1, <2>2
<1>4. Offset(z, w) = Offset(z, l)
  OBVIOUS
<1>5. EndOfLocalDay(z, t) = v - Offset(z, v)
  BY DEF EndOfLocalDay
<1> HIDE DEF w, v, l
<1>6. l + Offset(z, l) < w
  <2>1. l + Offset(z, l) \in Int /\ LocalDate(z, l) = (l + Offset(z, l)) \div DayLen
    BY <1>1, Wall
  <2>2. QED
    BY <1>1, <1>2, <2>1, DayOf DEF w
<1>7. v - Offset(z, v) >= w - Offset(z, w)
  <2>1. /\ Offset(z, v) = IF v >= z.at THEN z.offset + z.shift ELSE z.offset
        /\ Offset(z, w) = IF w >= z.at THEN z.offset + z.shift ELSE z.offset
        /\ z.offset \in Int /\ z.shift \in Int /\ z.at \in Int
    BY <1>2, Wall
  <2>2. DayLen > 0
    BY DailyAssumption
  <2>3. QED
    BY <1>2, <1>3, <2>1, <2>2
<1>8. Offset(z, l) \in Int /\ Offset(z, v) \in Int
  BY <1>1, <1>2, Wall
<1>9. QED
  BY <1>1, <1>2, <1>4, <1>5, <1>6, <1>7, <1>8

\* A request has a date that its zone had reached when it came in, and its answer the end of a day
\* that the zone had reached by then.
Reached(r) == Orderly(r.zone) => r.date <= LocalDate(r.zone, now)
InTime ==
  \A h \in Handlers :
    /\ req[h].at \in Stages => Reached(req[h])
    /\ req[h].at = "set" /\ Orderly(req[h].zone) =>
         \E t \in 0 .. MaxTime : /\ req[h].date <= LocalDate(req[h].zone, t)
                                 /\ req[h].dto.expires = EndOfLocalDay(req[h].zone, t)

\* Every step keeps requests in time.
LEMMA InTimeStep ==
  ASSUME TypeOK, InTime, [Next]_vars
  PROVE  InTime'
<1>0. req \in [Handlers -> Requests] /\ now \in 0 .. MaxTime /\ zone \in Zones /\ now \in Int
  BY DailyAssumption DEF TypeOK
<1>1. ASSUME NEW h \in Handlers, NEW r, req' = [req EXCEPT ![h] = r], now' = now,
             r.at \in Stages => Reached(r),
             r.at = "set" /\ Orderly(r.zone) =>
               \E t \in 0 .. MaxTime : /\ r.date <= LocalDate(r.zone, t)
                                       /\ r.dto.expires = EndOfLocalDay(r.zone, t)
      PROVE  InTime'
  <2>1. \A g \in Handlers : req'[g] = IF g = h THEN r ELSE req[g]
    BY <1>0, <1>1
  <2>2. QED
    BY <1>1, <2>1 DEF InTime, Reached
<1>2. ASSUME NEW h \in Handlers, Done(h), now' = now PROVE InTime'
  BY <1>1, <1>2 DEF Done, Idle, Stages
<1>3. ASSUME NEW h \in Handlers, NEW s \in Stages, Go(h, s), req[h].at \in Stages, now' = now
      PROVE  InTime'
  <2>1. [req[h] EXCEPT !.at = s] = [at |-> s, op |-> req[h].op, zone |-> req[h].zone, date |-> req[h].date]
    BY <1>0, <1>3, Reading
  <2>2. Reached([req[h] EXCEPT !.at = s])
    BY <1>3, <2>1 DEF InTime, Reached
  <2>3. s # "set"
    BY DEF Stages
  <2>4. QED
    BY <1>1, <1>3, <2>1, <2>2, <2>3 DEF Go
<1>4. ASSUME NEW h \in Handlers, NEW s, s \notin Stages \cup {"set"}, Go(h, s),
             req[h].at \in Finishing, now' = now
      PROVE  InTime'
  <2>1. [req[h] EXCEPT !.at = s].at = s
    BY <1>0, <1>4, Completing
  <2>2. QED
    BY <1>1, <1>4, <2>1 DEF Go
<1>5. ASSUME NEW h \in Handlers, NEW id, Obtained(h, id), req[h].at \in Stages, now' = now
      PROVE  InTime'
  <2> DEFINE r == [at |-> "set", zone |-> req[h].zone, date |-> req[h].date,
                   dto |-> [id |-> id, expires |-> EndOfLocalDay(req[h].zone, now)]]
  <2>1. CASE Done(h)
    BY <1>2, <1>5, <2>1
  <2>2. CASE req' = [req EXCEPT ![h] = r]
    <3>1. /\ r.at = "set" /\ r.zone = req[h].zone /\ r.date = req[h].date
          /\ r.dto.expires = EndOfLocalDay(r.zone, now)
      OBVIOUS
    <3>2. "set" \notin Stages
      BY DEF Stages
    <3>3. Orderly(r.zone) => r.date <= LocalDate(r.zone, now)
      BY <1>5, <3>1 DEF InTime, Reached
    <3> HIDE DEF r
    <3>4. QED
      BY <1>0, <1>1, <1>5, <2>2, <3>1, <3>2, <3>3
  <2>3. QED
    BY <1>5, <2>1, <2>2 DEF Obtained
<1>6. ASSUME NEW h \in Handlers, NEW s, NEW o, now' = now, s \in Stages,
             req' = [req EXCEPT ![h] = [at |-> s, op |-> o, zone |-> zone, date |-> LocalDate(zone, now)]]
      PROVE  InTime'
  <2> DEFINE r == [at |-> s, op |-> o, zone |-> zone, date |-> LocalDate(zone, now)]
  <2>1. LocalDate(zone, now) \in Int
    BY <1>0, Wall
  <2>2. Reached(r)
    BY <2>1 DEF Reached
  <2>3. r.at = s /\ s # "set"
    BY <1>6 DEF Stages
  <2> HIDE DEF r
  <2>4. req' = [req EXCEPT ![h] = r]
    BY <1>6 DEF r
  <2>5. QED
    BY <1>1, <1>6, <2>2, <2>3, <2>4
<1>7. ASSUME NEW h \in Handlers, Today(h) PROVE InTime'
  <2>1. CASE GetToday(h)
    BY <1>6, <2>1 DEF GetToday, Stages
  <2>2. CASE Sweep(h)
    BY <1>6, <2>2 DEF Sweep, Stages
  <2>3. CASE ReadCache(h)
    BY <1>2, <1>3, <2>3 DEF ReadCache, Stages
  <2>4. CASE SetCache(h)
    BY <1>2, <2>4 DEF SetCache
  <2>5. QED
    BY <1>7, <2>1, <2>2, <2>3, <2>4 DEF Today
<1>8. ASSUME NEW h \in Handlers, Create(h) PROVE InTime'
  <2>1. CASE FindMission(h)
    BY <1>3, <1>5, <2>1 DEF FindMission, Stages
  <2>2. CASE GenerateMission(h)
    BY <1>2, <1>3, <2>2 DEF GenerateMission, Stages
  <2>3. CASE Insert(h)
    BY <1>3, <1>5, <2>3 DEF Insert, Stages
  <2>4. QED
    BY <1>8, <2>1, <2>2, <2>3 DEF Create
<1>9. ASSUME NEW h \in Handlers, Finish(h) PROVE InTime'
  <2>1. CASE Complete(h)
    <3>1. PICK d \in Dates : req' = [req EXCEPT ![h] = [at |-> "resolve", date |-> d, status |-> rows[d].status]]
      BY <2>1 DEF Complete
    <3>2. now' = now /\ "resolve" \notin Stages \cup {"set"}
      BY <2>1 DEF Complete, Stages
    <3>3. QED
      BY <1>1, <3>1, <3>2
  <2>2. CASE Resolve(h)
    BY <1>2, <1>4, <2>2 DEF Resolve, Finishing, Stages
  <2>3. CASE SaveExpired(h) \/ Forget(h)
    BY <1>2, <2>3 DEF SaveExpired, Forget
  <2>4. CASE SaveCompleted(h)
    BY <1>4, <2>4 DEF SaveCompleted, Finishing, Stages
  <2>5. QED
    BY <1>9, <2>1, <2>2, <2>3, <2>4 DEF Finish
<1>10. CASE Tick
  <2>1. req' = req /\ now' = now + 1 /\ now' \in Int
    BY <1>0, <1>10 DEF Tick
  <2>2. ASSUME NEW h \in Handlers, req[h].at \in Stages, Orderly(req[h].zone)
        PROVE  req[h].date <= LocalDate(req[h].zone, now')
    <3>1. req[h].zone \in Zones /\ req[h].date \in Int
      BY <1>0, <2>2, Reading DEF Dates
    <3>2. LocalDate(req[h].zone, now) <= LocalDate(req[h].zone, now')
      BY <1>0, <2>1, <2>2, <3>1, DateAdvances
    <3>3. req[h].date <= LocalDate(req[h].zone, now)
      BY <2>2 DEF InTime, Reached
    <3>4. LocalDate(req[h].zone, now) \in Int /\ LocalDate(req[h].zone, now') \in Int
      BY <1>0, <2>1, <3>1, Wall
    <3>5. QED
      BY <3>1, <3>2, <3>3, <3>4
  <2>3. QED
    BY <2>1, <2>2 DEF InTime, Reached
<1>11. CASE req' = req /\ now' = now
  BY <1>11 DEF InTime, Reached
<1>12. QED
  BY <1>7, <1>8, <1>9, <1>10, <1>11 DEF Next, Evict, Move, vars

\* For all zones, however their clocks change: an answer says that the mission expires before its
\* day is over only where the clocks change between the last instant of the day and the one at
\* which the offset is taken, or set the date back.  [ai-mission.util.ts:29 endOfLocalDayUtc]
THEOREM AnswersLastTheDay == Spec => []NotCutShort
<1>1. Init => InTime
  BY DEF Init, InTime, Idle, Stages
<1>2. TypeOK /\ InTime /\ [Next]_vars => InTime'
  BY InTimeStep
<1>3. ASSUME TypeOK, InTime PROVE NotCutShort
  <2>1. SUFFICES ASSUME NEW h \in Handlers, req[h].at = "set", Orderly(req[h].zone),
                        Offset(req[h].zone, (req[h].date + 1) * DayLen)
                          = Offset(req[h].zone, DayEnd(req[h].zone, req[h].date) - 1)
                 PROVE  req[h].dto.expires >= DayEnd(req[h].zone, req[h].date)
    BY DEF NotCutShort
  <2>2. PICK t \in 0 .. MaxTime : /\ req[h].date <= LocalDate(req[h].zone, t)
                                  /\ req[h].dto.expires = EndOfLocalDay(req[h].zone, t)
    BY <1>3, <2>1 DEF InTime
  <2>3. req[h].zone \in Zones /\ req[h].date \in Int /\ t \in Int
    BY <1>3, <2>1, Answering, DailyAssumption DEF TypeOK, Dates
  <2>4. QED
    BY <2>1, <2>2, <2>3, EndIsLate DEF Orderly
<1>4. QED
  BY <1>1, <1>2, <1>3, TypeCorrect, PTL DEF Spec
=============================================================================

---------------------------- MODULE DailyMission ----------------------------
(***************************************************************************)
(* The daily AI mission of one premium user (modules/ai-mission): reading  *)
(* today's mission through Redis, generating it when there is none, the    *)
(* hourly sweep that does so just after midnight, and completing it.       *)
(* Handlers are requests and sweeps under way; a step is what one does     *)
(* between two awaits, and the clock and the user's timezone may move      *)
(* between any two.                                                        *)
(*                                                                         *)
(* Time is in ticks, DayLen to a day.  A zone is its offset from UTC, the  *)
(* shift of a change to summer or winter time and the tick of that change.  The      *)
(* Gemini client either answers or fails (module GeminiClient), what it    *)
(* answers is sanitized into some mission, and the mission is known by the *)
(* handler that generated it.                                              *)
(***************************************************************************)
EXTENDS Integers, FiniteSets

CONSTANTS Handlers,  \* requests and sweeps that may be under way at once
          Zones,     \* the timezones the user may choose
          DayLen,    \* ticks in a day
          MaxTime,   \* bound of the clock
          MaxOffset, \* the furthest a zone is from UTC, east or west
          Midnight,  \* what the runtime prints for the hour of midnight: 0 or 24
          None       \* no mission, no cached answer

ASSUME DailyAssumption ==
  /\ IsFiniteSet(Handlers)
  /\ DayLen \in Nat \ {0} /\ MaxTime \in Nat /\ MaxOffset \in Nat /\ Midnight \in {0, 24}
  /\ Zones # {} /\ Zones \subseteq [offset : Int, shift : Int, at : Int]
  /\ \A z \in Zones : {z.offset, z.offset + z.shift} \subseteq -MaxOffset .. MaxOffset

VARIABLES now,       \* the instant, UTC
          zone,      \* users.timezone
          rows,      \* per date, the row of daily_ai_missions or None
          cache,     \* per date, the answer in Redis or None
          told,      \* per date, the missions the user was answered with
          req        \* per handler, the request it is at and what it holds

vars == <<now, zone, rows, cache, told, req>>

Offset(z, t) == z.offset + (IF t >= z.at THEN z.shift ELSE 0)

\* Mutant of LocalDate: the date of tomorrow.
LocalTomorrow(z, t) == (t + Offset(z, t)) \div DayLen + 1

LocalDate(z, t) == (t + Offset(z, t)) \div DayLen
LocalHour(z, t) == LET hour == (t + Offset(z, t)) % DayLen
                   IN  IF hour = 0 THEN Midnight ELSE hour

\* Mutant of EndOfLocalDay: the end of the day before.
EndOfYesterday(z, t) == LET wall == LocalDate(z, t) * DayLen
                        IN  wall - Offset(z, wall)

(* The next day's midnight on the wall, less the offset at the instant of  *)
(* that reading in UTC, which is not the instant of that midnight.         *)
EndOfLocalDay(z, t) == LET wall == (LocalDate(z, t) + 1) * DayLen
                       IN  wall - Offset(z, wall)

Dates  == (-MaxOffset) \div DayLen .. (MaxTime + MaxOffset) \div DayLen
Row    == [id : Handlers, status : {"assigned", "completed", "expired"}]
Dto    == [id : Handlers, expires : Int]

ASSUME NoneAssumption == None \notin Handlers \cup Row \cup Dto

Idle   == [at |-> "idle"]
Stages == {"cache", "find", "generate", "insert"}

Requests ==
  {Idle} \cup [at : Stages, op : {"get", "sweep"}, zone : Zones, date : Dates]
  \cup [at : {"set"}, zone : Zones, date : Dates, dto : Dto]
  \cup [at : {"resolve", "complete", "expire", "forget"}, date : Dates,
        status : {"assigned", "completed", "expired"}]

TypeOK == /\ now \in 0 .. MaxTime /\ zone \in Zones
          /\ rows \in [Dates -> Row \cup {None}]
          /\ cache \in [Dates -> Dto \cup {None}]
          /\ told \in [Dates -> SUBSET Handlers]
          /\ req \in [Handlers -> Requests]

Init == /\ now = 0 /\ zone \in Zones
        /\ rows = [d \in Dates |-> None]
        /\ cache = [d \in Dates |-> None]
        /\ told = [d \in Dates |-> {}]
        /\ req = [h \in Handlers |-> Idle]

Go(h, at)  == req' = [req EXCEPT ![h].at = at]
Done(h)    == req' = [req EXCEPT ![h] = Idle]
Tell(d, m) == told' = [told EXCEPT ![d] = @ \cup {m}]

-----------------------------------------------------------------------------
(* getToday                                                                *)

GetToday(h) ==
  /\ req[h] = Idle
  /\ req' = [req EXCEPT ![h] = [at |-> "cache", op |-> "get", zone |-> zone,
                                date |-> LocalDate(zone, now)]]
  /\ UNCHANGED <<now, zone, rows, cache, told>>

(* A cache that cannot be read is passed over.                             *)
ReadCache(h) ==
  /\ req[h].at = "cache"
  /\ LET d == req[h].date
     IN  \/ cache[d] # None /\ Tell(d, cache[d].id) /\ Done(h)
         \/ Go(h, "find") /\ UNCHANGED told
  /\ UNCHANGED <<now, zone, rows, cache>>

(* toDto, for a reader; the sweep has no use of the row.                   *)
Obtained(h, id) ==
  LET r == req[h]
  IN  IF r.op = "sweep" THEN Done(h)
      ELSE req' = [req EXCEPT ![h] =
             [at |-> "set", zone |-> r.zone, date |-> r.date,
              dto |-> [id |-> id, expires |-> EndOfLocalDay(r.zone, now)]]]

(* getOrCreateForDate: an insert refused by UNIQUE(user_id, date) reads    *)
(* the winner, which is there: no mission is ever deleted.                 *)
FindMission(h) ==
  /\ req[h].at = "find"
  /\ LET d == req[h].date
     IN  IF rows[d] = None THEN Go(h, "generate") ELSE Obtained(h, rows[d].id)
  /\ UNCHANGED <<now, zone, rows, cache, told>>

GenerateMission(h) ==
  /\ req[h].at = "generate"
  /\ Go(h, "insert") \/ Done(h)
  /\ UNCHANGED <<now, zone, rows, cache, told>>

\* Mutant of Insert: the table has no unique constraint.
InsertAlways(h) ==
  /\ req[h].at = "insert"
  /\ rows' = [rows EXCEPT ![req[h].date] = [id |-> h, status |-> "assigned"]]
  /\ Obtained(h, h)
  /\ UNCHANGED <<now, zone, cache, told>>

Insert(h) ==
  /\ req[h].at = "insert"
  /\ LET d == req[h].date
     IN  IF rows[d] = None
         THEN /\ rows' = [rows EXCEPT ![d] = [id |-> h, status |-> "assigned"]]
              /\ Obtained(h, h)
         ELSE Go(h, "find") /\ UNCHANGED rows
  /\ UNCHANGED <<now, zone, cache, told>>

(* A cache that cannot be written is passed over.                          *)
SetCache(h) ==
  /\ req[h].at = "set"
  /\ \/ cache' = [cache EXCEPT ![req[h].date] = req[h].dto]
     \/ UNCHANGED cache
  /\ Tell(req[h].date, req[h].dto.id)
  /\ Done(h)
  /\ UNCHANGED <<now, zone, rows>>

(* The sweep of the hour, for a user in whose zone a day has just begun.   *)
Sweep(h) ==
  /\ req[h] = Idle
  /\ LocalHour(zone, now) = 0
  /\ req' = [req EXCEPT ![h] = [at |-> "find", op |-> "sweep", zone |-> zone,
                                date |-> LocalDate(zone, now)]]
  /\ UNCHANGED <<now, zone, rows, cache, told>>

-----------------------------------------------------------------------------
(* complete                                                                *)

Complete(h) ==
  /\ req[h] = Idle
  /\ \E d \in Dates :
       /\ told[d] # {}
       /\ req' = [req EXCEPT ![h] = [at |-> "resolve", date |-> d, status |-> rows[d].status]]
  /\ UNCHANGED <<now, zone, rows, cache, told>>

\* Mutant of Resolve: a completed mission of another day expires too.
ResolveAny(h) ==
  /\ req[h].at = "resolve"
  /\ IF req[h].date # LocalDate(zone, now) THEN Go(h, "expire")
     ELSE IF req[h].status = "completed" THEN Done(h) ELSE Go(h, "complete")
  /\ UNCHANGED <<now, zone, rows, cache, told>>

Resolve(h) ==
  /\ req[h].at = "resolve"
  /\ IF req[h].status = "completed" THEN Done(h)
     ELSE Go(h, IF req[h].date # LocalDate(zone, now) THEN "expire" ELSE "complete")
  /\ UNCHANGED <<now, zone, rows, cache, told>>

(* save writes what the handler loaded and changed over the row as it is   *)
(* by now, the time of its completion with it.                             *)
SaveExpired(h) ==
  /\ req[h].at = "expire"
  /\ rows' = [rows EXCEPT ![req[h].date].status = "expired"]
  /\ Done(h)
  /\ UNCHANGED <<now, zone, cache, told>>

SaveCompleted(h) ==
  /\ req[h].at = "complete"
  /\ rows' = [rows EXCEPT ![req[h].date].status = "completed"]
  /\ Go(h, "forget")
  /\ UNCHANGED <<now, zone, cache, told>>

Forget(h) ==
  /\ req[h].at = "forget"
  /\ cache' = [cache EXCEPT ![req[h].date] = None] \/ UNCHANGED cache
  /\ Done(h)
  /\ UNCHANGED <<now, zone, rows, told>>

-----------------------------------------------------------------------------
(* The clock, the user's profile and Redis                                 *)

Tick == /\ now < MaxTime
        /\ now' = now + 1
        /\ UNCHANGED <<zone, rows, cache, told, req>>

Move == /\ zone' \in Zones \ {zone}
        /\ UNCHANGED <<now, rows, cache, told, req>>

Evict(d) == /\ cache[d] # None
            /\ cache' = [cache EXCEPT ![d] = None]
            /\ UNCHANGED <<now, zone, rows, told, req>>

Today(h)  == GetToday(h) \/ ReadCache(h) \/ SetCache(h) \/ Sweep(h)
Create(h) == FindMission(h) \/ GenerateMission(h) \/ Insert(h)
Finish(h) == Complete(h) \/ Resolve(h) \/ SaveExpired(h) \/ SaveCompleted(h) \/ Forget(h)

Next == \/ \E h \in Handlers : Today(h) \/ Create(h) \/ Finish(h)
        \/ \E d \in Dates : Evict(d)
        \/ Tick \/ Move

Spec == Init /\ [][Next]_vars

-----------------------------------------------------------------------------
(* Properties                                                              *)

Chosen  == [d \in Dates |-> IF rows[d] = None THEN None ELSE rows[d].id]
Promise == INSTANCE MissionPromise WITH Missions <- Handlers, mission <- Chosen

(* However readers, sweeps and their generations race, a day has one       *)
(* mission and every answer for the day, cached or not, is that mission.   *)
(* [ai-mission.service.ts:110 getOrCreateForDate]                          *)
OneMissionPerDay == Promise!Spec

(* A completion is lost only to a request that had read the mission before *)
(* it was completed and finds, after midnight or a change of timezone,     *)
(* that its day is over.  [ai-mission.service.ts:317 complete]             *)
CompletionKept ==
  [][\A d \in Dates :
       rows[d] # None /\ rows[d].status = "completed" /\ rows'[d] # rows[d] =>
         \E h \in Handlers : /\ req[h].at = "expire" /\ req[h].date = d
                             /\ req[h].status # "completed"]_vars

(* The first instant of the day after d in zone z.                         *)
DayEnd(z, d) == LET midnight == (d + 1) * DayLen
                IN  CHOOSE t \in midnight - MaxOffset .. midnight + MaxOffset :
                      /\ LocalDate(z, t) > d
                      /\ \A s \in midnight - MaxOffset .. t - 1 : LocalDate(z, s) <= d

(* No change of the zone's clocks sets the date back or skips a whole day. *)
Orderly(z) == z.shift <= DayLen /\ LocalDate(z, z.at - 1) <= LocalDate(z, z.at)

(* An answer never says that the mission expires before its day is over,   *)
(* however long it was in the making, unless the clocks change between the *)
(* last instant of the day and the instant at which the offset is taken,   *)
(* or set back the date while the answer was in the making.                *)
(* [ai-mission.util.ts:29 endOfLocalDayUtc, ai-mission.service.ts:357]     *)
NotCutShort ==
  \A h \in Handlers : req[h].at = "set" =>
    LET z == req[h].zone
        wall == (req[h].date + 1) * DayLen
    IN  Orderly(z) /\ Offset(z, wall) = Offset(z, DayEnd(z, req[h].date) - 1) =>
          req[h].dto.expires >= DayEnd(z, req[h].date)
=============================================================================

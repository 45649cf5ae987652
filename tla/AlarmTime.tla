------------------------------ MODULE AlarmTime ------------------------------
(***************************************************************************)
(* AlarmTime.kt: the pure calendar arithmetic that turns an alarm's        *)
(* time-of-day and weekdays into the next instant at which it fires.       *)
(*                                                                         *)
(* An instant is a natural number of ticks since the start of some Sunday; *)
(* a day has DayLength ticks, a week DaysPerWeek days (7 in the code).     *)
(* The calendar is the device's local one and every day has the same       *)
(* length: daylight-saving shifts are left out.                            *)
(***************************************************************************)
EXTENDS Integers

CONSTANTS DayLength,      \* ticks in a day
          DaysPerWeek     \* days in a week

ASSUME DayLengthAssumption == DayLength \in Nat \ {0}
ASSUME DaysPerWeekAssumption == DaysPerWeek \in Nat \ {0}

Weekdays  == 0 .. DaysPerWeek - 1
TimesOfDay == 0 .. DayLength - 1
WeekLength == DaysPerWeek * DayLength

DayOf(t)     == t \div DayLength
DayOfWeek(t) == DayOf(t) % DaysPerWeek

\* The instant HH:mm on the day that contains `now', and `k' days later.
Candidate(time, now, k) == DayLength * (DayOf(now) + k) + time

\* A faulty variant, for the sensitivity runs: a scan that accepts the present instant.
HitsInclusive(time, repeatDays, now) ==
  {k \in 0 .. DaysPerWeek : /\ DayOfWeek(Candidate(time, now, k)) \in repeatDays
                            /\ Candidate(time, now, k) >= now}

\* The offsets of the weekly scan whose day is selected and still to come.
Hits(time, repeatDays, now) ==
  {k \in 0 .. DaysPerWeek : /\ DayOfWeek(Candidate(time, now, k)) \in repeatDays
                            /\ Candidate(time, now, k) > now}

\* The first of them: the scan returns as soon as it finds one.
FirstHit(time, repeatDays, now) ==
  CHOOSE k \in Hits(time, repeatDays, now) :
    \A j \in Hits(time, repeatDays, now) : k <= j

NextTrigger(time, repeatDays, now) ==
  IF repeatDays = {}
    THEN IF Candidate(time, now, 0) <= now THEN Candidate(time, now, 1)
                                           ELSE Candidate(time, now, 0)
    ELSE IF Hits(time, repeatDays, now) = {}
           THEN Candidate(time, now, 1)
           ELSE Candidate(time, now, FirstHit(time, repeatDays, now))

-----------------------------------------------------------------------------
(* next_trigger_at of the server (computeNextTriggerAt), in the alarm's     *)
(* timezone: the scan compares today's candidate with the present only, and *)
(* answers null where the phone falls back to tomorrow.                     *)

ServerHits(time, repeatDays, now) ==
  {k \in 0 .. DaysPerWeek : /\ (DayOf(now) + k) % DaysPerWeek \in repeatDays
                            /\ k = 0 => Candidate(time, now, k) > now}

ServerNextTrigger(time, repeatDays, now, null) ==
  IF repeatDays = {}
    THEN IF Candidate(time, now, 0) <= now THEN Candidate(time, now, 1)
                                           ELSE Candidate(time, now, 0)
    ELSE IF ServerHits(time, repeatDays, now) = {}
           THEN null
           ELSE Candidate(time, now, CHOOSE k \in ServerHits(time, repeatDays, now) :
                                       \A j \in ServerHits(time, repeatDays, now) : k <= j)

-----------------------------------------------------------------------------
(* What the next trigger of an alarm is, said without any scan.             *)

\* The alarm is due at instant t.
Occurs(time, repeatDays, t) ==
  /\ t % DayLength = time
  /\ repeatDays # {} => DayOfWeek(t) \in repeatDays

IsNextOccurrence(time, repeatDays, now, t) ==
  /\ t > now
  /\ Occurs(time, repeatDays, t)
  /\ \A u \in now + 1 .. t - 1 : ~ Occurs(time, repeatDays, u)
=============================================================================

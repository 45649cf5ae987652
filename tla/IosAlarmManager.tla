---------------------------- MODULE IosAlarmManager ----------------------------
(***************************************************************************)
(* The iOS alarm engine: AlarmManager.swift and the AppDelegate that       *)
(* drives it.  Alarms are pending local notifications of the system's      *)
(* notification center; the app makes its own noise only once it is told   *)
(* of a delivered one.                                                     *)
(*                                                                         *)
(* Handlers run to completion on the main thread and are actions.  The     *)
(* notification center answers getPendingNotificationRequests through a    *)
(* completion handler: the identifiers it reports are those of the moment  *)
(* of the call, the removal of them happens whenever the handler runs.     *)
(*                                                                         *)
(* Time is left out: a pending request may be delivered at any moment.     *)
(***************************************************************************)
EXTENDS Naturals, FiniteSets, Sequences

CONSTANTS Alarms,          \* alarm ids, none a dotted prefix of another
          None,            \* no alarm
          Configs,         \* the settings Dart may schedule each alarm with
          MaxOccurrences,  \* maxOccurrencesPerAlarm
          CallbackBound    \* schedule and cancel calls wait for so many completion handlers

ASSUME AlarmsAssumption == None \notin Alarms
ASSUME ConfigsAssumption ==
  \A a \in Alarms : \A c \in Configs[a] : c.isActive \in BOOLEAN /\ IsFiniteSet(c.repeatDays)
ASSUME MaxOccurrencesAssumption == MaxOccurrences \in Nat \ {0}

VARIABLES
  pending,         \* the notification center's pending requests of the app
  callbacks,       \* the identifiers each completion handler not yet run will remove
  displayed,       \* alarms with a delivered notification the user can act upon
  appUp,           \* the process is alive
  ringingAlarmId,  \* AlarmManager's field of that name
  audioPlayer,     \* the alarm whose sound the player loops
  listening,       \* eventSink is set
  pendingEvent,    \* the event buffered for a Dart that does not listen yet
  wanted,          \* history: what Dart asked for each alarm last
  unremoved        \* history: pending identifiers whose removal died with the process

centerVars == <<pending, callbacks, displayed>>
ringVars   == <<ringingAlarmId, audioPlayer>>
bridgeVars == <<listening, pendingEvent>>
history    == <<wanted, unremoved>>
vars == <<centerVars, appUp, ringVars, bridgeVars, history>>

Off == [repeatDays |-> {}, isActive |-> FALSE]

\* An identifier is an alarm and an occurrence index; Snoozed stands for the suffix "snooze".
Snoozed      == MaxOccurrences
Identifiers  == Alarms \X ((0 .. MaxOccurrences - 1) \cup {Snoozed})
Settings     == (UNION {Configs[a] : a \in Alarms}) \cup {Off}
Requests     == [id : Identifiers, config : Settings, repeats : BOOLEAN]
Events       == [type : {"alarm_fired", "alarm_snoozed", "alarm_stopped"}, alarmId : Alarms]
NoEvent      == [type |-> "none", alarmId |-> None]

Ids(requests)   == {r.id : r \in requests}
IdsOf(a)        == {id \in Ids(pending) : id[1] = a}
Regular(r)      == r.id[2] # Snoozed
\* A removal of identifier id is under way.
Doomed(id)      == \E i \in 1 .. Len(callbacks) : id \in callbacks[i]

TypeOK ==
  /\ pending \in SUBSET Requests
  /\ \A r, s \in pending : r.id = s.id => r = s
  /\ callbacks \in Seq(SUBSET Identifiers)
  /\ displayed \in SUBSET Alarms
  /\ appUp \in BOOLEAN
  /\ ringingAlarmId \in Alarms \cup {None}
  /\ audioPlayer \in Alarms \cup {None}
  /\ listening \in BOOLEAN
  /\ pendingEvent \in Events \cup {NoEvent}
  /\ wanted \in [Alarms -> Settings]
  /\ unremoved \in SUBSET Identifiers

Init ==
  /\ pending = {}
  /\ callbacks = <<>>
  /\ displayed = {}
  /\ appUp = TRUE
  /\ ringingAlarmId = None
  /\ audioPlayer = None
  /\ listening = FALSE
  /\ pendingEvent = NoEvent
  /\ wanted = [a \in Alarms |-> Off]
  /\ unremoved = {}

-----------------------------------------------------------------------------
Emit(type, a) ==
  pendingEvent' = IF listening THEN pendingEvent ELSE [type |-> type, alarmId |-> a]

\* A faulty variant, for the sensitivity runs: a request joins the one of its identifier.
AddBeside(requests) == pending \cup requests

\* A request replaces the pending one of the same identifier.
Add(requests) == {r \in pending : r.id \notin Ids(requests)} \cup requests

\* One request for a one-shot alarm, one weekly request per selected day otherwise, at
\* most MaxOccurrences of them, numbered from 0.
OccurrenceCount(c) ==
  IF c.repeatDays = {} THEN 1
  ELSE IF Cardinality(c.repeatDays) < MaxOccurrences THEN Cardinality(c.repeatDays)
  ELSE MaxOccurrences
Occurrences(a, c) ==
  {[id |-> <<a, i>>, config |-> c, repeats |-> c.repeatDays # {}] :
     i \in 0 .. OccurrenceCount(c) - 1}
NewRequests(a, c) == IF c.isActive THEN Occurrences(a, c) ELSE {}

\* A faulty variant, for the sensitivity runs: an edit that leaves the old requests alone.
ScheduleWithoutCancel(a, c) ==
  /\ appUp
  /\ Len(callbacks) < CallbackBound
  /\ pending' = Add(NewRequests(a, c))
  /\ wanted' = [wanted EXCEPT ![a] = c]
  /\ UNCHANGED <<callbacks, displayed, unremoved, appUp, ringVars, bridgeVars>>

\* schedule: ask for the removal of the alarm's requests, then add the new ones.
Schedule(a, c) ==
  /\ appUp
  /\ Len(callbacks) < CallbackBound
  /\ callbacks' = Append(callbacks, IdsOf(a))
  /\ pending' = Add(NewRequests(a, c))
  /\ wanted' = [wanted EXCEPT ![a] = c]
  /\ unremoved' = unremoved \ Ids(NewRequests(a, c))
  /\ UNCHANGED <<displayed, appUp, ringVars, bridgeVars>>

Cancel(a) ==
  /\ appUp
  /\ Len(callbacks) < CallbackBound
  /\ callbacks' = Append(callbacks, IdsOf(a))
  /\ wanted' = [wanted EXCEPT ![a] = Off]
  /\ UNCHANGED <<pending, displayed, unremoved, appUp, ringVars, bridgeVars>>

\* The completion handler of getPendingNotificationRequests.
RunCallback ==
  /\ callbacks # <<>>
  /\ callbacks' = Tail(callbacks)
  /\ pending' = {r \in pending : r.id \notin Head(callbacks)}
  /\ unremoved' = unremoved \ Head(callbacks)
  /\ UNCHANGED <<displayed, wanted, appUp, ringVars, bridgeVars>>

-----------------------------------------------------------------------------
StopRinging ==
  /\ audioPlayer' = None
  /\ ringingAlarmId' = None

\* snooze: silence the app and add one request beside the alarm's regular ones.
AddSnooze(a) ==
  /\ StopRinging
  /\ pending' = Add({[id |-> <<a, Snoozed>>, config |-> Off, repeats |-> FALSE]})
  /\ Emit("alarm_snoozed", a)

\* A faulty variant: the handler stops the sound and says nothing.
StopQuietly(a) ==
  /\ appUp
  /\ StopRinging
  /\ UNCHANGED <<centerVars, appUp, bridgeVars, history>>

SnoozeCall(a) ==
  /\ appUp
  /\ AddSnooze(a)
  /\ UNCHANGED <<callbacks, displayed, appUp, listening, history>>

Stop(a) ==
  /\ appUp
  /\ StopRinging
  /\ Emit("alarm_stopped", a)
  /\ UNCHANGED <<centerVars, appUp, listening, history>>

\* beginRinging: when the sound cannot be loaded the old player, if any, plays on.
BeginRinging(a) ==
  /\ ringingAlarmId' = a
  /\ audioPlayer' \in {a, audioPlayer}
  /\ Emit("alarm_fired", a)
  /\ UNCHANGED listening

\* A request fires: a weekly one stays pending.  The app is told at once when it is in the
\* foreground, and otherwise when the user acts upon the notification.
Deliver(r) ==
  /\ r \in pending
  /\ pending' = IF r.repeats THEN pending ELSE pending \ {r}
  /\ unremoved' = IF r.repeats THEN unremoved ELSE unremoved \ {r.id}
  /\ displayed' = displayed \cup {r.id[1]}
  /\ \/ appUp /\ BeginRinging(r.id[1])
     \/ UNCHANGED <<ringVars, bridgeVars>>
  /\ UNCHANGED <<callbacks, appUp, wanted>>

\* The user taps or dismisses the notification (both reach the app, which is launched when
\* it is dead), or chooses its snooze action.
Respond(a) ==
  /\ a \in displayed
  /\ displayed' = displayed \ {a}
  /\ appUp' = TRUE
  /\ \/ BeginRinging(a) /\ UNCHANGED pending
     \/ AddSnooze(a) /\ UNCHANGED listening
  /\ UNCHANGED <<callbacks, history>>

-----------------------------------------------------------------------------
Listen ==
  /\ appUp
  /\ listening' = TRUE
  /\ pendingEvent' = NoEvent
  /\ UNCHANGED <<centerVars, appUp, ringVars, history>>

CancelListen ==
  /\ listening
  /\ listening' = FALSE
  /\ UNCHANGED <<centerVars, appUp, ringVars, pendingEvent, history>>

\* The system kills the app: the completion handlers that have not run never will.
Kill ==
  /\ appUp
  /\ appUp' = FALSE
  /\ StopRinging
  /\ listening' = FALSE
  /\ pendingEvent' = NoEvent
  /\ callbacks' = <<>>
  /\ unremoved' = unremoved \cup {id \in Ids(pending) : Doomed(id)}
  /\ UNCHANGED <<pending, displayed, wanted>>

Launch ==
  /\ ~ appUp
  /\ appUp' = TRUE
  /\ UNCHANGED <<centerVars, ringVars, bridgeVars, history>>

Next ==
  \/ \E a \in Alarms : \E c \in Configs[a] : Schedule(a, c)
  \/ \E a \in Alarms : Cancel(a) \/ SnoozeCall(a) \/ Stop(a) \/ Respond(a)
  \/ RunCallback
  \/ \E r \in pending : Deliver(r)
  \/ Listen \/ CancelListen
  \/ Kill \/ Launch

Spec == Init /\ [][Next]_vars

-----------------------------------------------------------------------------
\* A regular request is for the settings Dart asked for last.  One for settings since edited,
\* switched off or deleted is about to be removed, unless the app died before its handler ran.
NoStaleOccurrence ==
  \A r \in pending :
    Regular(r) /\ r.config # wanted[r.id[1]] => Doomed(r.id) \/ r.id \in unremoved

\* The event replayed to a Dart that starts late is never that of a ring that is over.
ReplayedFireIsCurrent ==
  pendingEvent.type = "alarm_fired" => ringingAlarmId = pendingEvent.alarmId

\* AlarmManager.swift:61: "Cancels any existing occurrences for the same alarm id first, then
\* schedules a rolling window of future fires".  Once no removal is under way, a weekly alarm
\* that was scheduled active has a pending request for each of its days.
ScheduledIsPending ==
  \A a \in Alarms :
    wanted[a].isActive /\ wanted[a].repeatDays # {} /\ callbacks = <<>> =>
      Ids(Occurrences(a, wanted[a])) \subseteq Ids(pending)
=============================================================================

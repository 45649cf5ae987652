------------------------------ MODULE RingSession ------------------------------
(***************************************************************************)
(* A ring as the user meets it: AlarmRingController, AlarmRingScreen,      *)
(* MissionScreen and the MissionSequenceController, in the Flutter engine  *)
(* that hosts the ring screen, above the native engine, of which only the  *)
(* alarm that sounds is kept.                                              *)
(*                                                                         *)
(* Dart code runs to completion between awaits.  What native sends Dart,   *)
(* events and replies to method calls, arrives in order (inbox); the       *)
(* continuations after other awaits run in any order (tasks, recording,    *)
(* failing).  The screen's State object survives a navigation from one     *)
(* alarm's ring to another's: the route's page key does not change.        *)
(***************************************************************************)
EXTENDS Naturals, Sequences

CONSTANTS Alarms,        \* alarm ids
          None,          \* no alarm
          Missions,      \* for each alarm, its missions' types, in order
          SnoozeLimit,   \* snoozeLimit of each alarm
          InboxBound,    \* alarms fire and buttons are pressed while fewer messages wait
          ReportBound    \* a mission widget reports while fewer reports of its alarm are being recorded

MissionTypes == {"math", "shake", "object_detection"}

ASSUME AlarmsAssumption == None \notin Alarms
ASSUME MissionsAssumption == Missions \in [Alarms -> Seq(MissionTypes)]
ASSUME SnoozeLimitAssumption == SnoozeLimit \in [Alarms -> Nat]

VARIABLES
  sounding,      \* native: the alarm that rings aloud
  buffered,      \* native: pendingEvent, the fired event kept while nobody has listened
  staleSink,     \* native: the static eventSink is of an engine that is gone
  engineUp,      \* the Flutter engine runs
  inbox,         \* what native has sent and Dart not yet handled
  active,        \* _activeRingingAlarmId
  snoozeCounts,  \* _snoozeCounts
  screen,        \* AlarmRingScreen: phase, widget.alarmId, and the alarm it loads or shows
  tasks,         \* the continuations of the mounted screen that wait, by what they do next
  sequences,     \* missionSequenceControllerProvider: one state per alarm, once created
  recording,     \* completeCurrent calls awaiting their history entry, by alarm
  failing,       \* failCurrent calls awaiting theirs
  passed,        \* history: the screen's alarm's missions passed since it was announced
  unheard        \* history: the present ring is one that Dart was not told of or has lost

nativeVars  == <<sounding, buffered, staleSink>>
controlVars == <<active, snoozeCounts>>
missionVars == <<sequences, recording, failing>>
history     == <<passed, unheard>>
vars == <<nativeVars, engineUp, inbox, controlVars, screen, tasks, missionVars, history>>

MissionCount(a) == Len(Missions[a])
Indices(a)      == 1 .. MissionCount(a)

Closed    == [phase |-> "closed", alarm |-> None, shown |-> None]
Uncreated == [status |-> "uncreated", index |-> 0, reported |-> FALSE]
Nothing   == [a \in Alarms |-> 0]

Fired(a)       == [type |-> "fired", alarm |-> a, mounted |-> FALSE]
Reply(type, a) == [type |-> type, alarm |-> a, mounted |-> TRUE]
Messages == [type : {"fired", "silenced", "stopped", "snoozed"}, alarm : Alarms,
             mounted : BOOLEAN]

States   == [status : {"inProgress", "success", "failed"}, index : Nat, reported : BOOLEAN]

InMissions(a) == screen.phase = "missions" /\ screen.shown = a
Send(message) == inbox' = Append(inbox, message)

TypeOK ==
  /\ sounding \in Alarms \cup {None}
  /\ buffered \in Alarms \cup {None}
  /\ staleSink \in BOOLEAN
  /\ engineUp \in BOOLEAN
  /\ inbox \in Seq(Messages)
  /\ active \in Alarms \cup {None}
  /\ snoozeCounts \in [Alarms -> Nat]
  /\ \/ screen = Closed
     \/ screen \in [phase : {"loading", "face", "missions"}, alarm : Alarms,
                    shown : Alarms \cup {None}]
        /\ (screen.phase # "face" => screen.shown # None)
  /\ tasks \in SUBSET {"reveal", "dismiss", "exit"}
  /\ sequences \in [Alarms -> {Uncreated} \cup States]
  /\ recording \in [Alarms -> Nat]
  /\ failing \in [Alarms -> Nat]
  /\ passed \in SUBSET Nat
  /\ unheard \in BOOLEAN

Init ==
  /\ sounding = None
  /\ buffered = None
  /\ staleSink = FALSE
  /\ engineUp = TRUE
  /\ inbox = <<>>
  /\ active = None
  /\ snoozeCounts = Nothing
  /\ screen = Closed
  /\ tasks = {}
  /\ sequences = [a \in Alarms |-> Uncreated]
  /\ recording = Nothing
  /\ failing = Nothing
  /\ passed = {}
  /\ unheard = FALSE

-----------------------------------------------------------------------------
(* Native.                                                                 *)

\* emit: the sink that is set is called; without one the event is kept.
Emit(a) ==
  \/ engineUp /\ Send(Fired(a)) /\ UNCHANGED buffered
  \/ staleSink /\ UNCHANGED <<inbox, buffered>>
  \/ ~ engineUp /\ ~ staleSink /\ buffered' = a /\ UNCHANGED inbox

\* An alarm goes off, for the first time or after a snooze.  A sink that is left over takes
\* the event, and nobody hears of it.
Fire(a) ==
  /\ Len(inbox) < InboxBound
  /\ sounding' = a
  /\ Emit(a)
  /\ unheard' = staleSink
  /\ UNCHANGED <<staleSink, engineUp, controlVars, screen, tasks, missionVars, passed>>

\* The user opens the ring's notification again: the activity that is there already pushes the
\* route to its engine.  (One that is only created pushes nothing: it does not know the id yet.)
OpenRing ==
  /\ engineUp
  /\ sounding # None
  /\ Len(inbox) < InboxBound
  /\ Send(Fired(sounding))
  /\ unheard' = FALSE
  /\ UNCHANGED <<nativeVars, engineUp, controlVars, screen, tasks, missionVars, passed>>

\* What a Flutter engine takes with it.
LoseEngine ==
  /\ engineUp' = FALSE
  /\ inbox' = <<>>
  /\ active' = None
  /\ snoozeCounts' = Nothing
  /\ screen' = Closed
  /\ tasks' = {}
  /\ sequences' = [a \in Alarms |-> Uncreated]
  /\ recording' = Nothing
  /\ failing' = Nothing
  /\ passed' = {}

\* The engine goes with its activity, and the ring goes on.  onDetachedFromEngine leaves the
\* static sink as it is.
EngineDeath ==
  /\ engineUp
  /\ LoseEngine
  /\ staleSink' = TRUE
  /\ unheard' = (sounding # None)
  /\ UNCHANGED <<sounding, buffered>>

\* The process goes, and the ring, the sink and the buffered event with it.
ProcessDeath ==
  /\ LoseEngine
  /\ sounding' = None
  /\ buffered' = None
  /\ staleSink' = FALSE
  /\ unheard' = FALSE

\* start(): the controller subscribes, its sink takes the place of any other, and the buffered
\* event is replayed.
EngineStart ==
  /\ ~ engineUp
  /\ engineUp' = TRUE
  /\ staleSink' = FALSE
  /\ inbox' = IF buffered = None THEN <<>> ELSE <<Fired(buffered)>>
  /\ buffered' = None
  /\ UNCHANGED <<sounding, controlVars, screen, tasks, missionVars, history>>

-----------------------------------------------------------------------------
(* AlarmRingController.                                                    *)

\* A faulty variant, for the sensitivity runs: while a ring screen is open, a fired event is
\* taken for a repetition.
OnFiredUnlessOpen ==
  /\ inbox # <<>> /\ Head(inbox).type = "fired"
  /\ inbox' = Tail(inbox)
  /\ IF screen # Closed
       THEN UNCHANGED <<active, screen, passed>>
       ELSE /\ active' = Head(inbox).alarm
            /\ screen' = [phase |-> "loading", alarm |-> active', shown |-> active']
            /\ passed' = {}
  /\ UNCHANGED <<nativeVars, engineUp, snoozeCounts, tasks, missionVars, unheard>>

\* _onAlarmFired and _onNavCall: go to the alarm's ring, unless it is the active one.  Where
\* a ring screen is already open its State is kept, with what it has loaded.
OnFired ==
  /\ inbox # <<>> /\ Head(inbox).type = "fired"
  /\ inbox' = Tail(inbox)
  /\ LET a == Head(inbox).alarm IN
     IF active = a
       THEN UNCHANGED <<active, screen, passed>>
       ELSE /\ active' = a
            /\ screen' = IF screen = Closed
                           THEN [phase |-> "loading", alarm |-> a, shown |-> a]
                           ELSE [screen EXCEPT !.alarm = a]
            /\ passed' = {}
  /\ UNCHANGED <<nativeVars, engineUp, snoozeCounts, tasks, missionVars, unheard>>

Continue(message, k) == tasks' = IF message.mounted THEN tasks \cup {k} ELSE tasks

\* silenceNative has returned: AlarmSound starts, then the missions are revealed.
OnSilenced ==
  /\ inbox # <<>> /\ Head(inbox).type = "silenced"
  /\ inbox' = Tail(inbox)
  /\ Continue(Head(inbox), "reveal")
  /\ UNCHANGED <<nativeVars, engineUp, controlVars, screen, missionVars, history>>

\* The end of onMissionsCompleted, and the screen's release.
OnStopped ==
  /\ inbox # <<>> /\ Head(inbox).type = "stopped"
  /\ inbox' = Tail(inbox)
  /\ snoozeCounts' = [snoozeCounts EXCEPT ![Head(inbox).alarm] = 0]
  /\ active' = None
  /\ Continue(Head(inbox), "exit")
  /\ UNCHANGED <<nativeVars, engineUp, screen, missionVars, history>>

\* The end of onSnooze, and the screen's release.
OnSnoozed ==
  /\ inbox # <<>> /\ Head(inbox).type = "snoozed"
  /\ inbox' = Tail(inbox)
  /\ active' = None
  /\ Continue(Head(inbox), "exit")
  /\ UNCHANGED <<nativeVars, engineUp, snoozeCounts, screen, missionVars, history>>

-----------------------------------------------------------------------------
(* AlarmRingScreen.                                                        *)

\* A faulty variant: a failure is noted, and the spinner goes on.
LoadForever ==
  /\ screen.phase = "loading"
  /\ \/ screen' = [screen EXCEPT !.phase = "face"]
     \/ screen' = [screen EXCEPT !.shown = None]
  /\ UNCHANGED <<nativeVars, engineUp, inbox, controlVars, tasks, missionVars, history>>

\* getAlarm answers; without an alarm the ring face offers nothing to press.
Load ==
  /\ screen.phase = "loading"
  /\ \/ screen' = [screen EXCEPT !.phase = "face"]
     \/ screen' = [screen EXCEPT !.phase = "face", !.shown = None]
  /\ UNCHANGED <<nativeVars, engineUp, inbox, controlVars, tasks, missionVars, history>>

\* A method call silences native, and its reply will follow.  _invoke swallows a call that
\* fails: the ring goes on, and the reply to a stop or a snooze makes the controller forget it.
CallNative(message) ==
  /\ Send(message)
  /\ \/ sounding' = None /\ unheard' = FALSE
     \/ /\ UNCHANGED sounding
        /\ unheard' = (sounding # None /\ (unheard \/ message.type # "silenced"))

PressStart ==
  /\ screen.phase = "face" /\ screen.shown # None
  /\ Len(inbox) < InboxBound
  /\ CallNative(Reply("silenced", screen.shown))
  /\ UNCHANGED <<buffered, staleSink, engineUp, controlVars, screen, tasks, missionVars, passed>>

PressSnooze ==
  /\ screen.phase = "face" /\ screen.shown # None
  /\ Len(inbox) < InboxBound
  /\ snoozeCounts[screen.shown] < SnoozeLimit[screen.shown]
  /\ snoozeCounts' = [snoozeCounts EXCEPT ![screen.shown] = @ + 1]
  /\ CallNative(Reply("snoozed", screen.shown))
  /\ UNCHANGED <<buffered, staleSink, engineUp, active, screen, tasks, missionVars, passed>>

\* _onAllMissionsComplete after AlarmSound.stop: onMissionsCompleted is called for the alarm
\* of the widget, whatever alarm the State has loaded.
Dismiss ==
  /\ "dismiss" \in tasks
  /\ Len(inbox) <= InboxBound
  /\ tasks' = tasks \ {"dismiss"}
  /\ CallNative(Reply("stopped", screen.alarm))
  /\ UNCHANGED <<buffered, staleSink, engineUp, controlVars, screen, missionVars, passed>>

\* The end of _releaseAndExit: the screen closes.  What waited on it finds it unmounted.
Exit ==
  /\ "exit" \in tasks
  /\ screen' = Closed
  /\ tasks' = {}
  /\ inbox' = [i \in 1 .. Len(inbox) |-> [inbox[i] EXCEPT !.mounted = FALSE]]
  /\ passed' = {}
  /\ UNCHANGED <<nativeVars, engineUp, controlVars, missionVars, unheard>>

-----------------------------------------------------------------------------
(* MissionScreen and MissionSequenceController.                            *)

\* The widget that is shown is a new one, whatever an earlier one has reported.
Created(a) ==
  IF sequences[a] # Uncreated THEN [sequences[a] EXCEPT !.reported = FALSE]
  ELSE [status |-> IF MissionCount(a) = 0 THEN "success" ELSE "inProgress",
        index |-> 1, reported |-> FALSE]

\* A faulty variant: the mission screen waits for a completion, and there is none to come.
RevealUnwired ==
  /\ "reveal" \in tasks
  /\ tasks' = tasks \ {"reveal"}
  /\ IF screen.phase = "missions" THEN UNCHANGED <<screen, sequences>>
     ELSE /\ screen' = [screen EXCEPT !.phase = "missions"]
          /\ sequences' = [sequences EXCEPT ![screen.shown] = Created(screen.shown)]
  /\ UNCHANGED <<nativeVars, engineUp, inbox, controlVars, recording, failing, history>>

\* The missions are shown.  The provider keeps one controller for each alarm as long as the
\* engine lives; one that is successful already completes at once.
Reveal ==
  /\ "reveal" \in tasks
  /\ IF screen.phase = "missions"
       THEN /\ tasks' = tasks \ {"reveal"}
            /\ UNCHANGED <<screen, sequences>>
       ELSE LET a == screen.shown IN
            /\ screen' = [screen EXCEPT !.phase = "missions"]
            /\ sequences' = [sequences EXCEPT ![a] = Created(a)]
            /\ tasks' = (tasks \ {"reveal"})
                        \cup (IF Created(a).status = "success" THEN {"dismiss"} ELSE {})
  /\ UNCHANGED <<nativeVars, engineUp, inbox, controlVars, recording, failing, history>>

\* The widget of the current mission reports success: completeCurrent starts to record it.
\* An object-detection widget may report again, its button stays enabled.
Report(a) ==
  /\ InMissions(a)
  /\ sequences[a].status # "success"
  /\ recording[a] + failing[a] < ReportBound
  /\ sequences[a].reported => Missions[a][sequences[a].index] = "object_detection"
  /\ sequences' = [sequences EXCEPT ![a].reported = TRUE]
  /\ recording' = [recording EXCEPT ![a] = @ + 1]
  /\ passed' = IF a = screen.alarm THEN passed \cup {sequences[a].index} ELSE passed
  /\ UNCHANGED <<nativeVars, engineUp, inbox, controlVars, screen, tasks, failing, unheard>>

\* A faulty variant: the sequence advances, and only then is it seen whether it was the last.
RecordedAdvancing(a) ==
  /\ recording[a] > 0
  /\ recording' = [recording EXCEPT ![a] = @ - 1]
  /\ sequences' = [sequences EXCEPT ![a].index = @ + 1, ![a].reported = FALSE,
                     ![a].status = IF sequences[a].index >= MissionCount(a) THEN "success"
                                                                             ELSE "inProgress"]
  /\ tasks' = IF sequences[a].index >= MissionCount(a) /\ InMissions(a) THEN tasks \cup {"dismiss"}
                                                                       ELSE tasks
  /\ UNCHANGED <<nativeVars, engineUp, inbox, controlVars, screen, failing, history>>

\* completeCurrent after its await: advance from wherever the sequence is by now, or finish.
\* onMissionComplete is a closure of the last screen that showed the sequence: when that is
\* gone it comes to nothing.
Recorded(a) ==
  /\ recording[a] > 0
  /\ recording' = [recording EXCEPT ![a] = @ - 1]
  /\ IF sequences[a].index >= MissionCount(a)
       THEN /\ sequences' = [sequences EXCEPT ![a].status = "success", ![a].reported = FALSE]
            /\ tasks' = IF InMissions(a) THEN tasks \cup {"dismiss"} ELSE tasks
       ELSE /\ sequences' = [sequences EXCEPT ![a].index = @ + 1, ![a].reported = FALSE,
                               ![a].status = "inProgress"]
            /\ UNCHANGED tasks
  /\ UNCHANGED <<nativeVars, engineUp, inbox, controlVars, screen, failing, history>>

ReportFailure(a) ==
  /\ InMissions(a)
  /\ sequences[a].status # "success"
  /\ recording[a] + failing[a] < ReportBound
  /\ failing' = [failing EXCEPT ![a] = @ + 1]
  /\ UNCHANGED <<nativeVars, engineUp, inbox, controlVars, screen, tasks, sequences,
                 recording, history>>

\* failCurrent after its await: the status is overwritten, whatever it is by now.
FailureRecorded(a) ==
  /\ failing[a] > 0
  /\ failing' = [failing EXCEPT ![a] = @ - 1]
  /\ sequences' = [sequences EXCEPT ![a].status = "failed"]
  /\ UNCHANGED <<nativeVars, engineUp, inbox, controlVars, screen, tasks, recording, history>>

Retry(a) ==
  /\ InMissions(a)
  /\ sequences[a].status = "failed"
  /\ sequences' = [sequences EXCEPT ![a].status = "inProgress"]
  /\ UNCHANGED <<nativeVars, engineUp, inbox, controlVars, screen, tasks, recording, failing,
                 history>>

-----------------------------------------------------------------------------
Handle == OnFired \/ OnSilenced \/ OnStopped \/ OnSnoozed

Next ==
  \/ \E a \in Alarms : Fire(a)
  \/ OpenRing \/ EngineDeath \/ ProcessDeath \/ EngineStart
  \/ Handle
  \/ Load \/ PressStart \/ PressSnooze \/ Dismiss \/ Exit
  \/ Reveal
  \/ \E a \in Alarms : \/ Report(a) \/ Recorded(a)
                       \/ ReportFailure(a) \/ FailureRecorded(a) \/ Retry(a)

\* Messages and continuations that wait are run; nothing is promised of the user, of the
\* alarms or of the network that loads them.
Spec == /\ Init /\ [][Next]_vars
        /\ WF_vars(Handle) /\ WF_vars(Reveal) /\ WF_vars(Dismiss) /\ WF_vars(Exit)

-----------------------------------------------------------------------------
\* However many reports and failures are recorded late, a sequence stays within its missions
\* and succeeds at the last one only.
SequenceWithinMissions ==
  \A a \in Alarms : sequences[a] # Uncreated /\ MissionCount(a) > 0 =>
    /\ sequences[a].index \in Indices(a)
    /\ sequences[a].status = "success" => sequences[a].index = MissionCount(a)

\* An alarm that sounds is the controller's active one, or its announcement is on the way:
\* no late reply of an earlier ring makes the controller forget it.  There are three ways out,
\* each until its notification is opened again: the ring's engine died, the ring went off over
\* the sink of an engine that was gone, or the call to end it failed and was swallowed.
RingIsKnown ==
  sounding # None /\ engineUp /\ ~ unheard =>
    \/ active = sounding
    \/ \E i \in 1 .. Len(inbox) : inbox[i] = Fired(sounding)

\* A screen whose missions have succeeded is left: the user is never kept by a ring that is won.
SuccessLeavesScreen ==
  \A a \in Alarms :
    InMissions(a) /\ sequences[a].status = "success" ~> ~ InMissions(a)

\* alarm_ring_controller.dart:6 "Dismissal is blocked until every mission reports success".
\* The alarm that is dismissed has had all its missions passed since it rang.
DismissedOnlyAfterMissions ==
  [][Dismiss => Indices(screen.alarm) \subseteq passed]_vars

\* alarm_ring_controller.dart:4 "Navigates (GoRouter) to the full-screen ring route" and 103
\* "Guards against double-navigation if native re-emits the fired event".  An alarm that
\* sounds with no ring screen is not taken for the active one, so that opening its
\* notification shows the ring.
RingCanBeOpened == sounding # None /\ screen = Closed => active # sounding

\* AlarmSchedulerPlugin.kt:27-30 "Because the alarm can fire while the Flutter engine is dead, we
\* keep a static reference to the active EventSink and replay the last pending event on
\* (re)subscription."  An alarm that goes off without an engine is kept for the next one.
RingIsReplayed == [][\A a \in Alarms : Fire(a) /\ ~ engineUp => buffered' = a]_vars
=============================================================================

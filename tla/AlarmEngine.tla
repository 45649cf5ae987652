----------------------------- MODULE AlarmEngine -----------------------------
(***************************************************************************)
(* The Android alarm engine: the method-channel plugin, the persisted      *)
(* store, AlarmManager's triggers, the broadcast receivers, the foreground *)
(* service that makes the noise and the event bridge to Dart.              *)
(*                                                                         *)
(* Every handler of the app runs to completion on the process's main       *)
(* thread and is one action.  Between handlers lie the queues of the       *)
(* operating system: broadcasts not yet received and service messages not  *)
(* yet handled.  The process can be killed, the phone switched off and on  *)
(* and the app updated between any two handlers.                           *)
(*                                                                         *)
(* The clock runs round a week.  A trigger is the number of ticks left     *)
(* before AlarmManager delivers it.                                        *)
(***************************************************************************)
EXTENDS AlarmTime, Sequences

CONSTANTS Alarms,          \* alarm ids; their PendingIntent request codes are distinct
          None,            \* no alarm
          Configs,         \* the alarm settings Dart may schedule
          SnoozeDelays,    \* the delays, in ticks, Dart may snooze for
          MailboxBound     \* stop and snooze calls wait while so many messages are queued

ASSUME AlarmsAssumption == None \notin Alarms
ASSUME ConfigsAssumption ==
  Configs \subseteq [time : TimesOfDay, repeatDays : SUBSET Weekdays, isActive : BOOLEAN]
ASSUME SnoozeDelaysAssumption == SnoozeDelays \subseteq Nat \ {0}

VARIABLES
  now,             \* the instant of the week
  powered,         \* the phone is on
  bootPending,     \* BOOT_COMPLETED or MY_PACKAGE_REPLACED has not reached BootReceiver yet
  store,           \* AlarmStore: the persisted configuration of each alarm
  trigger,         \* AlarmManager: ticks left before each alarm's PendingIntent is sent
  snoozed,         \* the alarms whose pending trigger was set by a snooze
  inFlight,        \* alarms whose broadcast AlarmManager has sent to AlarmReceiver
  mailbox,         \* messages for AlarmForegroundService, in order
  serviceUp,       \* the service instance exists
  currentAlarmId,  \* its field of that name
  foreground,      \* its ongoing notification is shown: it rings
  mediaPlayer,     \* the alarm whose sound the player it holds is looping
  orphans,         \* alarms whose players still loop but are held by no field
  listening,       \* eventSink # null: Dart listens on the event channel
  pendingEvent     \* the one event buffered for a Dart that does not listen yet

schedulingVars == <<store, trigger, snoozed>>
osVars         == <<now, powered, bootPending, inFlight>>
serviceVars    == <<serviceUp, currentAlarmId, foreground, mediaPlayer, orphans>>
bridgeVars     == <<listening, pendingEvent>>
vars == <<schedulingVars, osVars, mailbox, serviceVars, bridgeVars>>

NotArmed == -1
Unset    == [time |-> -1, repeatDays |-> {}, isActive |-> FALSE]

EventTypes == {"alarm_fired", "alarm_snoozed", "alarm_stopped"}
Events     == [type : EventTypes, alarmId : Alarms]
NoEvent    == [type |-> "none", alarmId |-> None]

Messages == [type : {"START_RINGING", "STOP_RINGING"}, alarmId : Alarms]
            \cup [type : {"DESTROY", "STICKY_RESTART"}, alarmId : {None}]
Message(type, id) == [type |-> type, alarmId |-> id]

Stored(a)  == store[a] # Unset
Active(a)  == Stored(a) /\ store[a].isActive
Armed(a)   == trigger[a] # NotArmed
Pending(type) == \E i \in 1 .. Len(mailbox) : mailbox[i].type = type

TypeOK ==
  /\ now \in 0 .. WeekLength - 1
  /\ powered \in BOOLEAN
  /\ bootPending \in BOOLEAN
  /\ store \in [Alarms -> Configs \cup {Unset}]
  /\ trigger \in [Alarms -> Nat \cup {NotArmed}]
  /\ snoozed \in SUBSET Alarms
  /\ inFlight \in SUBSET Alarms
  /\ mailbox \in Seq(Messages)
  /\ serviceUp \in BOOLEAN
  /\ currentAlarmId \in Alarms \cup {None}
  /\ foreground \in BOOLEAN
  /\ mediaPlayer \in Alarms \cup {None}
  /\ orphans \in SUBSET Alarms
  /\ listening \in BOOLEAN
  /\ pendingEvent \in Events \cup {NoEvent}

Init ==
  /\ now \in 0 .. WeekLength - 1
  /\ powered = TRUE
  /\ bootPending = FALSE
  /\ store = [a \in Alarms |-> Unset]
  /\ trigger = [a \in Alarms |-> NotArmed]
  /\ snoozed = {}
  /\ inFlight = {}
  /\ mailbox = <<>>
  /\ serviceUp = FALSE
  /\ currentAlarmId = None
  /\ foreground = FALSE
  /\ mediaPlayer = None
  /\ orphans = {}
  /\ listening = FALSE
  /\ pendingEvent = NoEvent

-----------------------------------------------------------------------------
(* Helpers shared by the handlers.                                         *)

\* Ticks from now to the next regular occurrence of a configuration.
Delay(c) == NextTrigger(c.time, c.repeatDays, now) - now

\* The bridge keeps one event for a Dart that is not listening: the latest.
Emit(type, id) ==
  pendingEvent' = IF listening THEN pendingEvent ELSE [type |-> type, alarmId |-> id]

-----------------------------------------------------------------------------
(* The plugin's method calls.                                              *)

\* Faulty variants, for the sensitivity runs: an edit that leaves a pending trigger alone,
ScheduleKeepingTrigger(a, c) ==
  /\ powered
  /\ store' = [store EXCEPT ![a] = c]
  /\ trigger' = [trigger EXCEPT ![a] = IF ~ c.isActive THEN NotArmed
                                       ELSE IF Armed(a) THEN @ ELSE Delay(c)]
  /\ UNCHANGED <<snoozed, osVars, mailbox, serviceVars, bridgeVars>>

\* a cancel that forgets the alarm and not its trigger,
CancelKeepingTrigger(a) ==
  /\ powered
  /\ store' = [store EXCEPT ![a] = Unset]
  /\ UNCHANGED <<trigger, snoozed, osVars, mailbox, serviceVars, bridgeVars>>

\* a receiver that starts the service and arms nothing.
ReceiveOnce(a) ==
  /\ a \in inFlight
  /\ inFlight' = inFlight \ {a}
  /\ mailbox' = IF Active(a) THEN Append(mailbox, Message("START_RINGING", a)) ELSE mailbox
  /\ UNCHANGED <<schedulingVars, now, powered, bootPending, serviceVars, bridgeVars>>

\* schedule: persist the alarm, then arm it, or cancel its trigger when it is inactive.
Schedule(a, c) ==
  /\ powered
  /\ store' = [store EXCEPT ![a] = c]
  /\ trigger' = [trigger EXCEPT ![a] = IF c.isActive THEN Delay(c) ELSE NotArmed]
  /\ snoozed' = snoozed \ {a}
  /\ UNCHANGED <<osVars, mailbox, serviceVars, bridgeVars>>

\* cancel: take the trigger back, then forget the alarm.
Cancel(a) ==
  /\ powered
  /\ trigger' = [trigger EXCEPT ![a] = NotArmed]
  /\ snoozed' = snoozed \ {a}
  /\ store' = [store EXCEPT ![a] = Unset]
  /\ UNCHANGED <<osVars, mailbox, serviceVars, bridgeVars>>

\* snooze: ask the service to stop and, if the alarm is still stored, arm it d ticks ahead
\* in place of whatever trigger it had.
Snooze(a, d) ==
  /\ powered
  /\ Len(mailbox) < MailboxBound
  /\ mailbox' = Append(mailbox, Message("STOP_RINGING", a))
  /\ IF Stored(a)
       THEN /\ trigger' = [trigger EXCEPT ![a] = d]
            /\ snoozed' = snoozed \cup {a}
            /\ Emit("alarm_snoozed", a)
       ELSE /\ UNCHANGED <<trigger, snoozed>>
            /\ Emit("alarm_stopped", a)
  /\ UNCHANGED <<store, osVars, serviceVars, listening>>

\* stop: ask the service to stop, whichever alarm it is ringing for.
Stop(a) ==
  /\ powered
  /\ Len(mailbox) < MailboxBound
  /\ mailbox' = Append(mailbox, Message("STOP_RINGING", a))
  /\ Emit("alarm_stopped", a)
  /\ UNCHANGED <<schedulingVars, osVars, serviceVars, listening>>

\* Dart subscribes to the event channel: the buffered event is replayed.
Listen ==
  /\ powered
  /\ listening' = TRUE
  /\ pendingEvent' = NoEvent
  /\ UNCHANGED <<schedulingVars, osVars, mailbox, serviceVars>>

\* A Dart engine cancels its subscription: the sink all engines share is cleared.
CancelListen ==
  /\ listening
  /\ listening' = FALSE
  /\ UNCHANGED <<schedulingVars, osVars, mailbox, serviceVars, pendingEvent>>

-----------------------------------------------------------------------------
(* Time, AlarmManager and the receivers.                                   *)

\* The main thread empties its queues well within a tick, and AlarmManager is punctual:
\* time does not pass a trigger that is due.
Tick ==
  /\ inFlight = {} /\ mailbox = <<>>
  /\ \A a \in Alarms : trigger[a] # 0
  /\ now' = (now + 1) % WeekLength
  /\ trigger' = [a \in Alarms |-> IF Armed(a) THEN trigger[a] - 1 ELSE NotArmed]
  /\ UNCHANGED <<powered, bootPending, store, snoozed, inFlight, mailbox, serviceVars, bridgeVars>>

\* AlarmManager sends the broadcast of a trigger that is due, and forgets the trigger.
Fire(a) ==
  /\ trigger[a] = 0
  /\ trigger' = [trigger EXCEPT ![a] = NotArmed]
  /\ snoozed' = snoozed \ {a}
  /\ inFlight' = inFlight \cup {a}
  /\ UNCHANGED <<store, now, powered, bootPending, mailbox, serviceVars, bridgeVars>>

\* AlarmReceiver: an alarm that is still stored and active starts the service, and is
\* armed again if it repeats.  Any other broadcast is ignored.
Receive(a) ==
  /\ a \in inFlight
  /\ inFlight' = inFlight \ {a}
  /\ IF Active(a)
       THEN /\ mailbox' = Append(mailbox, Message("START_RINGING", a))
            /\ IF store[a].repeatDays # {}
                 THEN /\ trigger' = [trigger EXCEPT ![a] = Delay(store[a])]
                      /\ snoozed' = snoozed \ {a}
                 ELSE UNCHANGED <<trigger, snoozed>>
       ELSE UNCHANGED <<mailbox, trigger, snoozed>>
  /\ UNCHANGED <<store, now, powered, bootPending, serviceVars, bridgeVars>>

\* BootReceiver: arm every active alarm of the store.
Boot ==
  /\ powered
  /\ bootPending
  /\ bootPending' = FALSE
  /\ trigger' = [a \in Alarms |-> IF Active(a) THEN Delay(store[a]) ELSE trigger[a]]
  /\ snoozed' = {a \in snoozed : ~ Active(a)}
  /\ UNCHANGED <<store, now, powered, inFlight, mailbox, serviceVars, bridgeVars>>

-----------------------------------------------------------------------------
(* AlarmForegroundService: one message of its mailbox at a time.           *)

\* Faulty variants: stopRinging without its null check, and without its event,
StopRingingUnchecked ==
  /\ mediaPlayer' = None
  /\ foreground' = FALSE
  /\ Emit("alarm_stopped", currentAlarmId)
  /\ UNCHANGED <<orphans, listening>>

StopRingingQuietly ==
  /\ mediaPlayer' = None
  /\ foreground' = FALSE
  /\ UNCHANGED <<orphans, bridgeVars>>

\* stopRinging: release the player it holds, announce the stop of the alarm it was
\* ringing for, leave the foreground, and stopSelf(), which destroys the instance after
\* the messages that are already queued.
StopRinging ==
  /\ mediaPlayer' = None
  /\ foreground' = FALSE
  /\ IF currentAlarmId # None THEN Emit("alarm_stopped", currentAlarmId)
                              ELSE UNCHANGED pendingEvent
  /\ UNCHANGED <<orphans, listening>>

\* startRinging: go to the foreground and start a player in place of the one it held,
\* which is not released.  When the sound cannot be played (the exception is logged) the
\* old player stays; the alarm is announced all the same.
OnStartRinging ==
  /\ mailbox # <<>>
  /\ Head(mailbox).type = "START_RINGING"
  /\ mailbox' = Tail(mailbox)
  /\ serviceUp' = TRUE
  /\ currentAlarmId' = Head(mailbox).alarmId
  /\ foreground' = TRUE
  /\ \/ /\ orphans' = orphans \cup ({mediaPlayer} \ {None})
        /\ mediaPlayer' = Head(mailbox).alarmId
     \/ UNCHANGED <<orphans, mediaPlayer>>
  /\ Emit("alarm_fired", Head(mailbox).alarmId)
  /\ UNCHANGED <<schedulingVars, osVars, listening>>

\* a faulty variant: the stop is handled without stopSelf().
OnStopRingingStaying ==
  /\ mailbox # <<>>
  /\ Head(mailbox).type = "STOP_RINGING"
  /\ mailbox' = Tail(mailbox)
  /\ serviceUp' = TRUE
  /\ mediaPlayer' = None
  /\ foreground' = FALSE
  /\ IF currentAlarmId # None THEN Emit("alarm_stopped", currentAlarmId)
                              ELSE UNCHANGED pendingEvent
  /\ UNCHANGED <<orphans, listening, currentAlarmId, schedulingVars, osVars>>

OnStopRinging ==
  /\ mailbox # <<>>
  /\ Head(mailbox).type = "STOP_RINGING"
  /\ mailbox' = IF Pending("DESTROY") THEN Tail(mailbox)
                ELSE Append(Tail(mailbox), Message("DESTROY", None))
  /\ serviceUp' = TRUE
  /\ StopRinging
  /\ UNCHANGED <<currentAlarmId, schedulingVars, osVars>>

OnDestroy ==
  /\ mailbox # <<>>
  /\ Head(mailbox).type = "DESTROY"
  /\ mailbox' = Tail(mailbox)
  /\ serviceUp' = FALSE
  /\ currentAlarmId' = None
  /\ StopRinging
  /\ UNCHANGED <<schedulingVars, osVars>>

\* START_STICKY: the system recreates a killed service with a null intent, on which
\* startRinging returns at once.
OnStickyRestart ==
  /\ mailbox # <<>>
  /\ Head(mailbox).type = "STICKY_RESTART"
  /\ mailbox' = Tail(mailbox)
  /\ serviceUp' = TRUE
  /\ UNCHANGED <<schedulingVars, osVars, currentAlarmId, foreground, mediaPlayer, orphans,
                 bridgeVars>>

\* A player no field refers to falls silent when it is garbage-collected.
CollectOrphan(a) ==
  /\ a \in orphans
  /\ orphans' = orphans \ {a}
  /\ UNCHANGED <<schedulingVars, osVars, mailbox, serviceUp, currentAlarmId, foreground,
                 mediaPlayer, bridgeVars>>

-----------------------------------------------------------------------------
(* Failures.                                                               *)

\* What a process loses with its memory: the service instance with its players, and the
\* static sink and buffered event of the bridge.
MemoryLost ==
  /\ serviceUp' = FALSE
  /\ currentAlarmId' = None
  /\ foreground' = FALSE
  /\ mediaPlayer' = None
  /\ orphans' = {}
  /\ listening' = FALSE
  /\ pendingEvent' = NoEvent

\* The system kills the process.  It redelivers the start commands that were not handled
\* yet, except those that stopSelf() had overtaken; a sticky service with none left is
\* recreated with a null intent.
DestroyIndex == CHOOSE i \in 1 .. Len(mailbox) : mailbox[i].type = "DESTROY"
Redelivered ==
  IF Pending("DESTROY") THEN SubSeq(mailbox, DestroyIndex + 1, Len(mailbox))
  ELSE IF Pending("STICKY_RESTART") THEN Tail(mailbox)
  ELSE mailbox

ProcessDeath ==
  /\ powered
  /\ MemoryLost
  /\ mailbox' = IF /\ Redelivered = <<>> /\ ~ Pending("DESTROY")
                   /\ serviceUp \/ Pending("STICKY_RESTART")
                THEN <<Message("STICKY_RESTART", None)>>
                ELSE Redelivered
  /\ UNCHANGED <<schedulingVars, osVars>>

\* The app is updated: its process dies, its triggers stay, BootReceiver will be told.
AppUpdated ==
  /\ powered
  /\ MemoryLost
  /\ mailbox' = <<>>
  /\ bootPending' = TRUE
  /\ UNCHANGED <<schedulingVars, now, powered, inFlight>>

\* The phone is switched off: only the store survives.
PowerOff ==
  /\ powered
  /\ powered' = FALSE
  /\ bootPending' = FALSE
  /\ trigger' = [a \in Alarms |-> NotArmed]
  /\ snoozed' = {}
  /\ inFlight' = {}
  /\ mailbox' = <<>>
  /\ MemoryLost
  /\ UNCHANGED <<store, now>>

PowerOn ==
  /\ ~ powered
  /\ powered' = TRUE
  /\ bootPending' = TRUE
  /\ UNCHANGED <<schedulingVars, now, inFlight, mailbox, serviceVars, bridgeVars>>

-----------------------------------------------------------------------------
Next ==
  \/ \E a \in Alarms, c \in Configs : Schedule(a, c)
  \/ \E a \in Alarms : Cancel(a)
  \/ \E a \in Alarms, d \in SnoozeDelays : Snooze(a, d)
  \/ \E a \in Alarms : Stop(a)
  \/ Listen
  \/ CancelListen
  \/ Tick
  \/ \E a \in Alarms : Fire(a)
  \/ \E a \in Alarms : Receive(a)
  \/ Boot
  \/ OnStartRinging
  \/ OnStopRinging
  \/ OnDestroy
  \/ OnStickyRestart
  \/ \E a \in Alarms : CollectOrphan(a)
  \/ ProcessDeath
  \/ AppUpdated
  \/ PowerOff
  \/ PowerOn

Spec == Init /\ [][Next]_vars

-----------------------------------------------------------------------------
(* Safety.                                                                  *)

Repeats(a) == store[a].repeatDays # {}

\* AlarmReceiver re-arms, BootReceiver re-arms, an edit re-arms: as long as the phone is on
\* and the boot broadcast has been handled, a repeating alarm that is active in the store is
\* never without a trigger, except while its own broadcast is on the way.
RepeatingStaysArmed ==
  powered /\ ~ bootPending =>
    \A a \in Alarms : Active(a) /\ Repeats(a) => Armed(a) \/ a \in inFlight

\* A trigger never outlives the stored alarm it is for: what Dart cancelled cannot go off.
NoTriggerOutlivesItsAlarm == \A a \in Alarms : Armed(a) => Stored(a)

\* A trigger that no snooze set is for the next occurrence of the configuration the store
\* holds now: an edit leaves no trigger of the old time, and no occurrence is skipped.
ArmedForNextOccurrence ==
  \A a \in Alarms :
    Armed(a) /\ a \notin snoozed =>
      /\ Active(a)
      /\ Occurs(store[a].time, store[a].repeatDays, now + trigger[a])
      /\ \A u \in now + 1 .. now + trigger[a] - 1 :
           ~ Occurs(store[a].time, store[a].repeatDays, u)

\* An alarm that is being delivered is not due again at the same instant (the scan's "strictly
\* in the future"): one occurrence rings once.
OneRingPerOccurrence ==
  \A a \in Alarms :
    a \in inFlight \/ (\E i \in 1 .. Len(mailbox) : mailbox[i] = Message("START_RINGING", a))
      => trigger[a] # 0

\* A sound is only held by a service that rings for some alarm, whose stop will be announced;
\* and a service that has left the foreground is on its way to be destroyed, or was recreated
\* with nothing to ring for: none stays behind with an alarm's name.
SoundHasItsService ==
  /\ mediaPlayer # None => foreground
  /\ foreground => serviceUp /\ currentAlarmId # None
  /\ serviceUp /\ currentAlarmId # None /\ ~ foreground => Pending("DESTROY")

\* The event replayed to a Dart that starts late (AlarmSchedulerPlugin.kt:71) never announces
\* a ring that is over.
ReplayedFireIsCurrent ==
  pendingEvent.type = "alarm_fired" => foreground /\ currentAlarmId = pendingEvent.alarmId

\* AlarmSchedulerPlugin.kt:165 and README.md:26-27 (android): stop() silences the service.  After the
\* service has handled a stop, no sound goes on.
StopSilences ==
  [][OnStopRinging => orphans' = {} /\ mediaPlayer' = None]_vars
=============================================================================

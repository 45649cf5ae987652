-------------------------- MODULE RingSessionProofs --------------------------
(* The ring as the user meets it, for every set of alarms, every sequence   *)
(* of missions, every snooze limit and every number of messages and of      *)
(* reports under way.                                                       *)
EXTENDS RingSession, SequenceTheorems, TLAPS

-----------------------------------------------------------------------------
(* What the properties need of a reachable state.                           *)

\* A sequence that is shown, or of which something is still being recorded, was created.
SequenceExists ==
  \A a \in Alarms : InMissions(a) \/ recording[a] > 0 \/ failing[a] > 0 => sequences[a] # Uncreated

\* What waits on the mounted screen waits on one that has loaded an alarm.
ScreenWaits ==
  tasks # {} \/ (\E i \in 1 .. Len(inbox) : inbox[i].mounted)
    => screen.phase \in {"face", "missions"} /\ screen.shown # None

Heard == sounding # None /\ engineUp /\ ~ unheard

\* Whatever may make the controller forget the alarm that sounds is followed by its announcement.
RingIsAnnounced ==
  Heard => \A i \in 1 .. Len(inbox) :
             inbox[i].type # "silenced" /\ inbox[i] # Fired(sounding) =>
               \E j \in 1 .. Len(inbox) : i < j /\ inbox[j] = Fired(sounding)

\* An alarm that went off without an engine is kept for the one that starts, unless a sink was
\* left to take the event.
RingIsBuffered == ~ engineUp /\ ~ unheard => sounding = None \/ buffered = sounding

RingInv == RingIsKnown /\ RingIsAnnounced /\ RingIsBuffered
Inv == TypeOK /\ SequenceExists /\ ScreenWaits /\ SequenceWithinMissions /\ RingInv

-----------------------------------------------------------------------------
(* The inbox                                                                *)

\* A message that is sent comes last.
LEMMA Sending ==
  ASSUME TypeOK, NEW m \in Messages, inbox' = Append(inbox, m)
  PROVE  /\ inbox' \in Seq(Messages)
         /\ Len(inbox) \in Nat /\ Len(inbox') = Len(inbox) + 1
         /\ \A i \in 1 .. Len(inbox) : inbox'[i] = inbox[i]
         /\ inbox'[Len(inbox) + 1] = m
  BY AppendProperties, LenProperties DEF TypeOK

\* The first message is handled, and the others move up.
LEMMA Handling ==
  ASSUME TypeOK, inbox # <<>>, inbox' = Tail(inbox)
  PROVE  /\ inbox' \in Seq(Messages)
         /\ Len(inbox) \in Nat \ {0} /\ Len(inbox') = Len(inbox) - 1
         /\ \A i \in 1 .. Len(inbox') : inbox'[i] = inbox[i + 1]
         /\ Head(inbox) = inbox[1] /\ Head(inbox) \in Messages
  BY HeadTailProperties, LenProperties, EmptySeq DEF TypeOK

\* The screen is unmounted, and the messages stay as they are otherwise.
LEMMA Unmounting ==
  ASSUME TypeOK, inbox' = [i \in 1 .. Len(inbox) |-> [inbox[i] EXCEPT !.mounted = FALSE]]
  PROVE  /\ inbox' \in Seq(Messages)
         /\ Len(inbox) \in Nat /\ Len(inbox') = Len(inbox)
         /\ \A i \in 1 .. Len(inbox) :
              /\ ~ inbox'[i].mounted
              /\ inbox'[i].type = inbox[i].type
              /\ inbox[i] = Fired(inbox[i].alarm) => inbox'[i] = inbox[i]
<1>1. Len(inbox) \in Nat /\ \A i \in 1 .. Len(inbox) : inbox[i] \in Messages
  BY LenProperties, ElementOfSeq DEF TypeOK
<1>2. \A m \in Messages : /\ [m EXCEPT !.mounted = FALSE] \in Messages
                          /\ m = Fired(m.alarm) => [m EXCEPT !.mounted = FALSE] = m
  <2>1. ASSUME NEW m \in Messages PROVE [m EXCEPT !.mounted = FALSE] \in Messages
    BY DEF Messages
  <2>2. ASSUME NEW m \in Messages, m = Fired(m.alarm) PROVE [m EXCEPT !.mounted = FALSE] = m
    BY <2>2 DEF Messages, Fired
  <2>3. QED
    BY <2>1, <2>2
<1>3. inbox' \in [1 .. Len(inbox) -> Messages]
  BY <1>1, <1>2
<1>4. inbox' \in Seq(Messages)
  BY <1>1, <1>3, IsASeq
<1>5. DOMAIN inbox' = 1 .. Len(inbox)
  OBVIOUS
<1>6. Len(inbox') = Len(inbox)
  BY <1>1, <1>4, <1>5, LenProperties
<1>7. \A i \in 1 .. Len(inbox) : inbox'[i] = [inbox[i] EXCEPT !.mounted = FALSE]
  OBVIOUS
<1>8. \A m \in Messages : LET n == [m EXCEPT !.mounted = FALSE] IN n.type = m.type /\ ~ n.mounted
  BY DEF Messages
<1>9. QED
  BY <1>1, <1>2, <1>4, <1>6, <1>7, <1>8

\* The messages that the actions send.
LEMMA MessagesSent ==
  ASSUME NEW a \in Alarms
  PROVE  /\ Fired(a) \in Messages
         /\ \A t \in {"silenced", "stopped", "snoozed"} : Reply(t, a) \in Messages
  BY DEF Fired, Reply, Messages

-----------------------------------------------------------------------------
(* Types                                                                    *)

\* A screen with an alarm, at a phase.
LEMMA ScreenShape ==
  ASSUME TypeOK, screen # Closed
  PROVE  /\ screen.phase \in {"loading", "face", "missions"} /\ screen.alarm \in Alarms
         /\ screen.shown \in Alarms \cup {None}
         /\ screen = [phase |-> screen.phase, alarm |-> screen.alarm, shown |-> screen.shown]
  BY DEF TypeOK

\* The screen is open whenever it is at a phase of an alarm's ring.
LEMMA ScreenOpen ==
  ASSUME screen.phase # "closed"
  PROVE  screen # Closed
  BY DEF Closed

\* A created sequence has a status, an index and a flag, each of which may change alone.
LEMMA StateShape ==
  ASSUME TypeOK, NEW a \in Alarms, sequences[a] # Uncreated
  PROVE  sequences[a] \in States /\ sequences[a].index \in Nat
  BY DEF TypeOK, States

\* A sequence's state after a change of its status.
LEMMA StatusSet ==
  ASSUME NEW q \in States, NEW s \in {"inProgress", "success", "failed"}
  PROVE  LET r == [q EXCEPT !.status = s]
         IN  r \in States /\ r.index = q.index /\ r.status = s
  BY DEF States

\* A sequence's state after a report, or before a new widget's.
LEMMA ReportedSet ==
  ASSUME NEW q \in States, NEW b \in BOOLEAN
  PROVE  LET r == [q EXCEPT !.reported = b]
         IN  r \in States /\ r.index = q.index /\ r.status = q.status
  BY DEF States

\* A sequence's state after its last mission.
LEMMA LastMission ==
  ASSUME NEW q \in States
  PROVE  LET r == [q EXCEPT !.status = "success", !.reported = FALSE]
         IN  r \in States /\ r.index = q.index
  BY DEF States

\* A sequence's state at its next mission.
LEMMA NextMission ==
  ASSUME NEW q \in States
  PROVE  LET r == [q EXCEPT !.index = q.index + 1, !.reported = FALSE, !.status = "inProgress"]
         IN  r \in States /\ r.index = q.index + 1 /\ r.status = "inProgress"
<1> DEFINE n == q.index + 1
           r == [q EXCEPT !.index = n, !.reported = FALSE, !.status = "inProgress"]
<1>1. n \in Nat
  BY DEF States
<1> HIDE DEF n
<1>2. r \in States /\ r.index = n /\ r.status = "inProgress"
  BY <1>1 DEF States
<1>3. QED
  BY <1>2 DEF n

\* A created sequence differs from one that was not.
LEMMA StatesAreCreated == \A q \in States : q # Uncreated
  BY DEF States, Uncreated

\* What creating a sequence makes of it.
LEMMA Creating ==
  ASSUME TypeOK, NEW a \in Alarms
  PROVE  Created(a) \in States
<1>1. CASE sequences[a] # Uncreated
  BY <1>1, StateShape, ReportedSet DEF Created
<1>2. CASE sequences[a] = Uncreated
  BY <1>2 DEF Created, States
<1>3. QED
  BY <1>1, <1>2

\* Every step keeps the types.
LEMMA TypeStep ==
  ASSUME TypeOK, SequenceExists, ScreenWaits, [Next]_vars
  PROVE  TypeOK'
<1> USE DEF nativeVars, controlVars, missionVars, history
<1> DEFINE ScreenOK == \/ screen' = Closed
                       \/ /\ screen' \in [phase : {"loading", "face", "missions"}, alarm : Alarms,
                                          shown : Alarms \cup {None}]
                          /\ screen'.phase # "face" => screen'.shown # None
           Sequences == [Alarms -> {Uncreated} \cup States]
<1>0. /\ recording \in [Alarms -> Nat] /\ failing \in [Alarms -> Nat] /\ sequences \in Sequences
      /\ snoozeCounts \in [Alarms -> Nat]
      /\ inbox \in Seq(Messages) /\ passed \in SUBSET Nat
  BY DEF TypeOK
<1>s. ASSUME NEW a \in Alarms, NEW q \in States
      PROVE  [sequences EXCEPT ![a] = q] \in Sequences
  BY <1>0
<1>n. Nothing \in [Alarms -> Nat]
  BY DEF Nothing
<1>1. ASSUME NEW a \in Alarms, Fire(a) PROVE TypeOK'
  <2>1. inbox' \in Seq(Messages)
    BY <1>1, <1>0, Sending, MessagesSent DEF Fire, Emit, Send
  <2>2. buffered' \in Alarms \cup {None}
    BY <1>1 DEF Fire, Emit, TypeOK
  <2>3. unheard' \in BOOLEAN
    BY <1>1 DEF Fire, TypeOK
  <2>4. QED
    BY <1>1, <2>1, <2>2, <2>3 DEF Fire, TypeOK
<1>2. ASSUME OpenRing PROVE TypeOK'
  <2>1. sounding \in Alarms
    BY <1>2 DEF OpenRing, TypeOK
  <2>2. inbox' \in Seq(Messages)
    BY <1>2, <2>1, Sending, MessagesSent DEF OpenRing, Send
  <2>3. QED
    BY <1>2, <2>2 DEF OpenRing, TypeOK
<1>3. ASSUME EngineDeath \/ ProcessDeath PROVE TypeOK'
  <2>0. LoseEngine
    BY <1>3 DEF EngineDeath, ProcessDeath
  <2>1. inbox' \in Seq(Messages)
    BY <2>0 DEF LoseEngine
  <2>2. unheard' \in BOOLEAN /\ staleSink' \in BOOLEAN
    BY <1>3 DEF EngineDeath, ProcessDeath
  <2>3. sounding' \in Alarms \cup {None} /\ buffered' \in Alarms \cup {None}
    BY <1>3 DEF EngineDeath, ProcessDeath, TypeOK
  <2>4. QED
    BY <2>0, <2>1, <2>2, <2>3, <1>n DEF LoseEngine, TypeOK
<1>4. ASSUME EngineStart PROVE TypeOK'
  <2>1. inbox' \in Seq(Messages)
    <3>1. buffered = None \/ buffered \in Alarms
      BY DEF TypeOK
    <3>2. buffered \in Alarms => <<Fired(buffered)>> \in Seq(Messages)
      BY MessagesSent
    <3>3. <<>> \in Seq(Messages)
      OBVIOUS
    <3>4. QED
      BY <1>4, <3>1, <3>2, <3>3 DEF EngineStart
  <2>2. QED
    BY <1>4, <2>1 DEF EngineStart, TypeOK
<1>5. ASSUME OnFired PROVE TypeOK'
  <2>1. inbox' \in Seq(Messages) /\ Head(inbox).alarm \in Alarms
    BY <1>5, Handling DEF OnFired, Messages
  <2> DEFINE a == Head(inbox).alarm
  <2>2. ScreenOK /\ active' \in Alarms \cup {None} /\ passed' \in SUBSET Nat
    <3>1. CASE active = a
      BY <1>5, <3>1 DEF OnFired, TypeOK
    <3>2. CASE active # a /\ screen = Closed
      BY <1>5, <2>1, <3>2, AlarmsAssumption DEF OnFired
    <3>3. CASE active # a /\ screen # Closed
      BY <1>5, <2>1, <3>3 DEF OnFired, TypeOK
    <3>4. QED
      BY <3>1, <3>2, <3>3
  <2>3. QED
    BY <1>5, <2>1, <2>2 DEF OnFired, TypeOK
<1>6. ASSUME OnSilenced \/ OnStopped \/ OnSnoozed PROVE TypeOK'
  <2>1. inbox' \in Seq(Messages) /\ Head(inbox).alarm \in Alarms
    BY <1>6, Handling DEF OnSilenced, OnStopped, OnSnoozed, Messages
  <2>2. snoozeCounts' \in [Alarms -> Nat]
    BY <1>6, <2>1, <1>0 DEF OnSilenced, OnStopped, OnSnoozed
  <2>3. tasks' \in SUBSET {"reveal", "dismiss", "exit"}
    BY <1>6 DEF OnSilenced, OnStopped, OnSnoozed, Continue, TypeOK
  <2>4. QED
    BY <1>6, <2>1, <2>2, <2>3 DEF OnSilenced, OnStopped, OnSnoozed, TypeOK
<1>7. ASSUME Load PROVE TypeOK'
  <2>1. screen # Closed
    BY <1>7, ScreenOpen DEF Load
  <2>2. ScreenOK
    BY <1>7, <2>1 DEF Load, TypeOK
  <2>3. QED
    BY <1>7, <2>2 DEF Load, TypeOK
<1>8. ASSUME PressStart \/ PressSnooze PROVE TypeOK'
  <2>1. screen # Closed
    BY <1>8, ScreenOpen DEF PressStart, PressSnooze
  <2>2. screen.shown \in Alarms
    BY <1>8, <2>1, ScreenShape DEF PressStart, PressSnooze
  <2>3. inbox' \in Seq(Messages)
    BY <1>8, <2>2, Sending, MessagesSent DEF PressStart, PressSnooze, CallNative, Send
  <2>4. snoozeCounts' \in [Alarms -> Nat]
    <3>1. snoozeCounts[screen.shown] + 1 \in Nat
      BY <2>2, <1>0
    <3>2. QED
      BY <1>8, <1>0, <3>1 DEF PressStart, PressSnooze
  <2>5. QED
    BY <1>8, <2>3, <2>4 DEF PressStart, PressSnooze, CallNative, TypeOK
<1>9. ASSUME Dismiss PROVE TypeOK'
  <2>1. screen.alarm \in Alarms
    BY <1>9, ScreenShape, ScreenOpen DEF Dismiss, ScreenWaits
  <2>2. inbox' \in Seq(Messages)
    BY <1>9, <2>1, Sending, MessagesSent DEF Dismiss, CallNative, Send
  <2>3. QED
    BY <1>9, <2>2 DEF Dismiss, CallNative, TypeOK
<1>10. ASSUME Exit PROVE TypeOK'
  <2>1. inbox' \in Seq(Messages)
    BY <1>10, Unmounting DEF Exit
  <2>2. QED
    BY <1>10, <2>1 DEF Exit, TypeOK
<1>11. ASSUME Reveal PROVE TypeOK'
  <2>1. screen # Closed /\ screen.shown # None
    BY <1>11, ScreenOpen DEF Reveal, ScreenWaits
  <2>2. CASE screen.phase = "missions"
    BY <1>11, <2>2 DEF Reveal, TypeOK
  <2>3. CASE screen.phase # "missions"
    <3>1. screen.shown \in Alarms
      BY <2>1, ScreenShape
    <3>2. sequences' \in Sequences
      BY <1>11, <2>3, <3>1, <1>s, Creating DEF Reveal
    <3>3. ScreenOK
      BY <1>11, <2>1, <2>3 DEF Reveal, TypeOK
    <3>4. tasks' \in SUBSET {"reveal", "dismiss", "exit"}
      BY <1>11, <2>3 DEF Reveal, TypeOK
    <3>5. QED
      BY <1>11, <3>2, <3>3, <3>4 DEF Reveal, TypeOK
  <2>4. QED
    BY <2>2, <2>3
<1>12. ASSUME NEW a \in Alarms, Report(a) PROVE TypeOK'
  <2>1. sequences[a] # Uncreated
    BY <1>12 DEF Report, SequenceExists
  <2>2. sequences' \in Sequences
    BY <1>12, <2>1, <1>s, StateShape, ReportedSet DEF Report
  <2>3. recording' \in [Alarms -> Nat]
    BY <1>12, <1>0 DEF Report
  <2>4. passed' \in SUBSET Nat
    BY <1>12, <1>0, <2>1, StateShape DEF Report
  <2>5. QED
    BY <1>12, <2>2, <2>3, <2>4 DEF Report, TypeOK
<1>13. ASSUME NEW a \in Alarms, Recorded(a) PROVE TypeOK'
  <2>1. sequences[a] # Uncreated
    BY <1>13 DEF Recorded, SequenceExists
  <2>2. sequences' \in Sequences
    <3>1. CASE sequences[a].index >= MissionCount(a)
      <4> DEFINE q == [sequences[a] EXCEPT !.status = "success", !.reported = FALSE]
      <4>1. q \in States
        BY <2>1, StateShape, LastMission
      <4>2. sequences' = [sequences EXCEPT ![a] = q]
        BY <1>13, <3>1, <1>0 DEF Recorded
      <4> HIDE DEF q
      <4>3. QED
        BY <4>1, <4>2, <1>s
    <3>2. CASE ~ (sequences[a].index >= MissionCount(a))
      <4> DEFINE q == [sequences[a] EXCEPT !.index = sequences[a].index + 1, !.reported = FALSE,
                                           !.status = "inProgress"]
      <4>1. q \in States
        BY <2>1, StateShape, NextMission
      <4>2. sequences' = [sequences EXCEPT ![a] = q]
        BY <1>13, <3>2, <1>0 DEF Recorded
      <4> HIDE DEF q
      <4>3. QED
        BY <4>1, <4>2, <1>s
    <3>3. QED
      BY <3>1, <3>2
  <2>3. recording' \in [Alarms -> Nat]
    BY <1>13, <1>0 DEF Recorded
  <2>4. tasks' \in SUBSET {"reveal", "dismiss", "exit"}
    BY <1>13 DEF Recorded, TypeOK
  <2>5. QED
    BY <1>13, <2>2, <2>3, <2>4 DEF Recorded, TypeOK
<1>14. ASSUME NEW a \in Alarms, ReportFailure(a) PROVE TypeOK'
  <2>1. failing' \in [Alarms -> Nat]
    BY <1>14, <1>0 DEF ReportFailure
  <2>2. QED
    BY <1>14, <2>1 DEF ReportFailure, TypeOK
<1>15. ASSUME NEW a \in Alarms, FailureRecorded(a) PROVE TypeOK'
  <2>1. sequences' \in Sequences
    BY <1>15, <1>s, StateShape, StatusSet DEF FailureRecorded, SequenceExists
  <2>2. failing' \in [Alarms -> Nat]
    BY <1>15, <1>0 DEF FailureRecorded
  <2>3. QED
    BY <1>15, <2>1, <2>2 DEF FailureRecorded, TypeOK
<1>16. ASSUME NEW a \in Alarms, Retry(a) PROVE TypeOK'
  <2>1. sequences' \in Sequences
    BY <1>16, <1>s, StateShape, StatusSet DEF Retry, SequenceExists
  <2>2. QED
    BY <1>16, <2>1 DEF Retry, TypeOK
<1>17. CASE UNCHANGED vars
  BY <1>17 DEF vars, TypeOK
<1>18. QED
  BY <1>1, <1>2, <1>3, <1>4, <1>5, <1>6, <1>7, <1>8, <1>9, <1>10, <1>11, <1>12, <1>13, <1>14,
     <1>15, <1>16, <1>17 DEF Next, Handle

-----------------------------------------------------------------------------
(* The screen                                                               *)

\* Every step leaves what waits on the mounted screen with a screen to wait on.
LEMMA ScreenStep ==
  ASSUME TypeOK, ScreenWaits, [Next]_vars
  PROVE  ScreenWaits'
<1> USE DEF nativeVars, controlVars, missionVars, history
<1> DEFINE Waits == tasks # {} \/ \E i \in 1 .. Len(inbox) : inbox[i].mounted
           Ready == screen.phase \in {"face", "missions"} /\ screen.shown # None
<1>0. Waits => Ready
  BY DEF ScreenWaits
<1>s. ASSUME NEW m \in Messages, Send(m), ~ m.mounted, UNCHANGED <<screen, tasks>>
      PROVE  ScreenWaits'
  <2>1. Waits' => Waits
    BY <1>s, Sending DEF Send
  <2>2. QED
    BY <1>s, <1>0, <2>1 DEF ScreenWaits
<1>u. ASSUME UNCHANGED <<inbox, screen, tasks>> PROVE ScreenWaits'
  BY <1>u DEF ScreenWaits
<1>1. ASSUME NEW a \in Alarms, Fire(a) PROVE ScreenWaits'
  <2>1. UNCHANGED <<screen, tasks>> /\ (Send(Fired(a)) \/ UNCHANGED inbox)
    BY <1>1 DEF Fire, Emit
  <2>2. CASE Send(Fired(a))
    BY <2>1, <2>2, <1>s, MessagesSent DEF Fired
  <2>3. QED
    BY <2>1, <2>2, <1>u
<1>2. ASSUME OpenRing PROVE ScreenWaits'
  <2>1. sounding \in Alarms
    BY <1>2 DEF OpenRing, TypeOK
  <2>2. QED
    BY <1>2, <2>1, <1>s, MessagesSent DEF OpenRing, Fired
<1>3. ASSUME EngineDeath \/ ProcessDeath PROVE ScreenWaits'
  BY <1>3 DEF EngineDeath, ProcessDeath, LoseEngine, ScreenWaits
<1>4. ASSUME EngineStart PROVE ScreenWaits'
  <2>1. \A i \in 1 .. Len(inbox') : ~ inbox'[i].mounted
    <3>1. inbox' = <<>> \/ inbox' = <<Fired(buffered)>>
      BY <1>4 DEF EngineStart
    <3>2. CASE inbox' = <<>>
      BY <3>2
    <3>3. CASE inbox' = <<Fired(buffered)>>
      <4>1. Len(inbox') = 1 /\ inbox'[1] = Fired(buffered)
        BY <3>3
      <4>2. QED
        BY <4>1 DEF Fired
    <3>4. QED
      BY <3>1, <3>2, <3>3
  <2>2. QED
    BY <1>4, <2>1 DEF EngineStart, ScreenWaits
<1>5. ASSUME OnFired PROVE ScreenWaits'
  <2>1. Waits' => Waits
    BY <1>5, Handling DEF OnFired
  <2>2. CASE screen = Closed
    BY <2>1, <2>2, <1>0 DEF ScreenWaits, Closed
  <2>3. CASE screen # Closed
    <3>1. screen'.phase = screen.phase /\ screen'.shown = screen.shown
      BY <1>5, <2>3, ScreenShape DEF OnFired
    <3>2. QED
      BY <2>1, <3>1, <1>0 DEF ScreenWaits
  <2>4. QED
    BY <2>2, <2>3
<1>6. ASSUME OnSilenced \/ OnStopped \/ OnSnoozed PROVE ScreenWaits'
  <2>1. /\ inbox # <<>> /\ inbox' = Tail(inbox) /\ UNCHANGED screen
        /\ tasks' = tasks \/ Head(inbox).mounted
    BY <1>6 DEF OnSilenced, OnStopped, OnSnoozed, Continue
  <2>2. Waits' => Waits
    BY <2>1, Handling
  <2>3. QED
    BY <2>1, <2>2, <1>0 DEF ScreenWaits
<1>7. ASSUME Load PROVE ScreenWaits'
  <2>1. ~ Waits'
    BY <1>7, <1>0 DEF Load
  <2>2. QED
    BY <2>1 DEF ScreenWaits
<1>8. ASSUME PressStart \/ PressSnooze \/ Dismiss PROVE ScreenWaits'
  BY <1>8, <1>0 DEF PressStart, PressSnooze, Dismiss, ScreenWaits
<1>9. ASSUME Exit PROVE ScreenWaits'
  BY <1>9, Unmounting DEF Exit, ScreenWaits
<1>10. ASSUME Reveal PROVE ScreenWaits'
  <2>1. screen.shown # None /\ screen # Closed
    BY <1>10, <1>0, ScreenOpen DEF Reveal
  <2>2. screen'.phase = "missions" /\ screen'.shown # None
    BY <1>10, <2>1, ScreenShape DEF Reveal
  <2>3. QED
    BY <2>2 DEF ScreenWaits
<1>11. ASSUME NEW a \in Alarms, Recorded(a) PROVE ScreenWaits'
  <2>1. tasks' = tasks \/ InMissions(a)
    BY <1>11 DEF Recorded
  <2>2. UNCHANGED <<screen, inbox>>
    BY <1>11 DEF Recorded
  <2>3. InMissions(a) => Ready
    BY AlarmsAssumption DEF InMissions
  <2>4. QED
    BY <2>1, <2>2, <2>3, <1>0 DEF ScreenWaits
<1>12. ASSUME NEW a \in Alarms, Report(a) \/ ReportFailure(a) \/ FailureRecorded(a) \/ Retry(a)
       PROVE  ScreenWaits'
  BY <1>12, <1>u DEF Report, ReportFailure, FailureRecorded, Retry
<1>13. CASE UNCHANGED vars
  BY <1>13, <1>u DEF vars
<1>14. QED
  BY <1>1, <1>2, <1>3, <1>4, <1>5, <1>6, <1>7, <1>8, <1>9, <1>10, <1>11, <1>12, <1>13
     DEF Next, Handle

-----------------------------------------------------------------------------
(* The sequences of missions                                                *)

\* A sequence's state is within the missions of its alarm.
Within(a, q) ==
  MissionCount(a) > 0 => /\ q.index \in Indices(a)
                         /\ q.status = "success" => q.index = MissionCount(a)

\* The number of an alarm's missions is a number.
LEMMA CountIsNumber == \A a \in Alarms : MissionCount(a) \in Nat
  BY MissionsAssumption, LenProperties DEF MissionCount

\* One sequence moves within its missions; what shows or records it was there already.
LEMMA SequenceMoves ==
  ASSUME TypeOK, SequenceExists, SequenceWithinMissions,
         NEW a \in Alarms, NEW q \in States, Within(a, q),
         sequences' = [sequences EXCEPT ![a] = q],
         \A b \in Alarms \ {a} : /\ InMissions(b)' => InMissions(b)
                                 /\ recording'[b] = recording[b] /\ failing'[b] = failing[b]
  PROVE  SequenceExists' /\ SequenceWithinMissions'
<1>1. /\ \A b \in Alarms \ {a} : sequences'[b] = sequences[b]
      /\ sequences'[a] = q /\ q # Uncreated
  BY StatesAreCreated DEF TypeOK
<1>2. SequenceExists'
  BY <1>1 DEF SequenceExists
<1>3. SequenceWithinMissions'
  BY <1>1 DEF SequenceWithinMissions, Within
<1>4. QED
  BY <1>2, <1>3

\* Every step keeps the sequences within their missions, and created while they matter.
LEMMA SequenceStep ==
  ASSUME TypeOK, ScreenWaits, SequenceExists, SequenceWithinMissions, [Next]_vars
  PROVE  SequenceExists' /\ SequenceWithinMissions'
<1> USE DEF nativeVars, controlVars, missionVars, history
<1>0. /\ recording \in [Alarms -> Nat] /\ failing \in [Alarms -> Nat]
      /\ sequences \in [Alarms -> {Uncreated} \cup States]
  BY DEF TypeOK
<1>u. ASSUME UNCHANGED missionVars, \A a \in Alarms : InMissions(a)' => InMissions(a)
      PROVE  SequenceExists' /\ SequenceWithinMissions'
  BY <1>u DEF SequenceExists, SequenceWithinMissions
<1>v. ASSUME UNCHANGED missionVars, UNCHANGED screen
      PROVE  SequenceExists' /\ SequenceWithinMissions'
  BY <1>u, <1>v DEF InMissions
<1>w. ASSUME NEW a \in Alarms, sequences[a] # Uncreated
      PROVE  Within(a, sequences[a])
  BY <1>w DEF Within, SequenceWithinMissions
<1>1. CASE (\E a \in Alarms : Fire(a)) \/ OpenRing \/ EngineStart
  BY <1>1, <1>v DEF Fire, OpenRing, EngineStart
<1>2. CASE EngineDeath \/ ProcessDeath
  <2>0. LoseEngine
    BY <1>2 DEF EngineDeath, ProcessDeath
  <2>1. \A a \in Alarms : sequences'[a] = Uncreated /\ recording'[a] = 0 /\ failing'[a] = 0
    BY <2>0 DEF LoseEngine, Nothing
  <2>2. \A a \in Alarms : ~ InMissions(a)'
    BY <2>0 DEF LoseEngine, InMissions, Closed
  <2>3. QED
    BY <2>1, <2>2 DEF SequenceExists, SequenceWithinMissions
<1>3. CASE OnFired
  <2>1. screen'.phase = "missions" => screen.phase = "missions" /\ screen'.shown = screen.shown
    <3>1. CASE screen = Closed
      BY <1>3, <3>1 DEF OnFired, Closed
    <3>2. CASE screen # Closed
      BY <1>3, <3>2, ScreenShape DEF OnFired
    <3>3. QED
      BY <3>1, <3>2
  <2>2. QED
    BY <1>3, <2>1, <1>u DEF OnFired, InMissions
<1>4. CASE OnSilenced \/ OnStopped \/ OnSnoozed \/ PressStart \/ PressSnooze \/ Dismiss
  BY <1>4, <1>v DEF OnSilenced, OnStopped, OnSnoozed, PressStart, PressSnooze, Dismiss
<1>5. CASE Load
  <2>1. screen # Closed
    BY <1>5, ScreenOpen DEF Load
  <2>2. screen'.phase = "face"
    BY <1>5, <2>1, ScreenShape DEF Load
  <2>3. QED
    BY <1>5, <2>2, <1>u DEF Load, InMissions
<1>6. CASE Exit
  BY <1>6, <1>u DEF Exit, InMissions, Closed
<1>7. CASE Reveal
  <2>1. CASE screen.phase = "missions"
    BY <1>7, <2>1, <1>v DEF Reveal
  <2>2. CASE screen.phase # "missions"
    <3> DEFINE a == screen.shown
    <3>1. a \in Alarms
      BY <1>7, ScreenShape, ScreenOpen DEF Reveal, ScreenWaits
    <3>2. /\ sequences' = [sequences EXCEPT ![a] = Created(a)]
          /\ screen' = [screen EXCEPT !.phase = "missions"] /\ UNCHANGED <<recording, failing>>
      BY <1>7, <2>2 DEF Reveal
    <3>3. Created(a) \in States
      BY <3>1, Creating
    <3>4. Within(a, Created(a))
      <4>1. CASE sequences[a] # Uncreated
        <5>1. Created(a) = [sequences[a] EXCEPT !.reported = FALSE]
          BY <4>1 DEF Created
        <5>2. Created(a).index = sequences[a].index /\ Created(a).status = sequences[a].status
          BY <3>1, <4>1, <5>1, StateShape, ReportedSet
        <5>3. QED
          BY <3>1, <4>1, <5>2, <1>w DEF Within
      <4>2. CASE sequences[a] = Uncreated
        BY <3>1, <4>2, CountIsNumber DEF Created, Within, Indices
      <4>3. QED
        BY <4>1, <4>2
    <3>5. screen'.shown = a
      BY <1>7, <3>2, ScreenShape, ScreenOpen DEF Reveal, ScreenWaits
    <3>6. \A b \in Alarms \ {a} : ~ InMissions(b)'
      BY <3>5 DEF InMissions
    <3> HIDE DEF a
    <3>7. QED
      BY <3>1, <3>2, <3>3, <3>4, <3>6, SequenceMoves
  <2>3. QED
    BY <2>1, <2>2
<1>8. ASSUME NEW a \in Alarms, Report(a) PROVE SequenceExists' /\ SequenceWithinMissions'
  <2> DEFINE q == [sequences[a] EXCEPT !.reported = TRUE]
  <2>1. sequences[a] # Uncreated
    BY <1>8 DEF Report, SequenceExists
  <2>2. q \in States /\ Within(a, q)
    BY <2>1, <1>w, StateShape, ReportedSet DEF Within
  <2>3. sequences' = [sequences EXCEPT ![a] = q]
    BY <1>8 DEF Report
  <2>4. \A b \in Alarms \ {a} : recording'[b] = recording[b] /\ failing'[b] = failing[b]
    BY <1>8, <1>0 DEF Report
  <2>5. \A b \in Alarms : InMissions(b)' => InMissions(b)
    BY <1>8 DEF Report, InMissions
  <2> HIDE DEF q
  <2>6. QED
    BY <2>2, <2>3, <2>4, <2>5, SequenceMoves
<1>9. ASSUME NEW a \in Alarms, Recorded(a) PROVE SequenceExists' /\ SequenceWithinMissions'
  <2>1. sequences[a] # Uncreated
    BY <1>9 DEF Recorded, SequenceExists
  <2>2. \A b \in Alarms \ {a} : recording'[b] = recording[b] /\ failing'[b] = failing[b]
    BY <1>9, <1>0 DEF Recorded
  <2>3. \A b \in Alarms : InMissions(b)' => InMissions(b)
    BY <1>9 DEF Recorded, InMissions
  <2>4. sequences[a].index \in Nat /\ MissionCount(a) \in Nat
    BY <2>1, StateShape, CountIsNumber
  <2>5. CASE sequences[a].index >= MissionCount(a)
    <3> DEFINE q == [sequences[a] EXCEPT !.status = "success", !.reported = FALSE]
    <3>1. q \in States /\ q.index = sequences[a].index
      BY <2>1, StateShape, LastMission
    <3>2. Within(a, q)
      BY <2>1, <2>4, <2>5, <3>1, <1>w DEF Within, Indices
    <3>3. sequences' = [sequences EXCEPT ![a] = q]
      BY <1>9, <2>5, <1>0 DEF Recorded
    <3> HIDE DEF q
    <3>4. QED
      BY <2>2, <2>3, <3>1, <3>2, <3>3, SequenceMoves
  <2>6. CASE ~ (sequences[a].index >= MissionCount(a))
    <3> DEFINE n == sequences[a].index + 1
               q == [sequences[a] EXCEPT !.index = n, !.reported = FALSE, !.status = "inProgress"]
    <3>1. q \in States /\ q.index = n /\ q.status = "inProgress"
      BY <2>1, StateShape, NextMission
    <3>2. Within(a, q)
      BY <2>1, <2>4, <2>6, <3>1, <1>w DEF Within, Indices
    <3>3. sequences' = [sequences EXCEPT ![a] = q]
      BY <1>9, <2>6, <1>0 DEF Recorded
    <3> HIDE DEF q
    <3>4. QED
      BY <2>2, <2>3, <3>1, <3>2, <3>3, SequenceMoves
  <2>7. QED
    BY <2>5, <2>6
<1>10. ASSUME NEW a \in Alarms, ReportFailure(a) PROVE SequenceExists' /\ SequenceWithinMissions'
  <2>1. sequences[a] # Uncreated
    BY <1>10 DEF ReportFailure, SequenceExists
  <2>2. \A b \in Alarms \ {a} : failing'[b] = failing[b]
    BY <1>10, <1>0 DEF ReportFailure
  <2>3. UNCHANGED <<sequences, recording, screen>>
    BY <1>10 DEF ReportFailure
  <2>4. QED
    BY <2>1, <2>2, <2>3 DEF SequenceExists, SequenceWithinMissions, InMissions
<1>11. ASSUME NEW a \in Alarms, NEW s \in {"failed", "inProgress"},
              sequences[a] # Uncreated, sequences' = [sequences EXCEPT ![a].status = s],
              UNCHANGED <<recording, screen>>, \A b \in Alarms \ {a} : failing'[b] = failing[b]
       PROVE  SequenceExists' /\ SequenceWithinMissions'
  <2> DEFINE q == [sequences[a] EXCEPT !.status = s]
  <2>0. sequences[a] \in States /\ s \in {"inProgress", "success", "failed"}
    BY <1>11, StateShape
  <2>1. q \in States /\ q.index = sequences[a].index /\ q.status = s
    BY <2>0, StatusSet
  <2>2. Within(a, q)
    BY <1>11, <2>1, <1>w DEF Within
  <2>3. sequences' = [sequences EXCEPT ![a] = q]
    BY <1>11
  <2>4. \A b \in Alarms : InMissions(b)' => InMissions(b)
    BY <1>11 DEF InMissions
  <2> HIDE DEF q
  <2>5. QED
    BY <1>11, <2>1, <2>2, <2>3, <2>4, SequenceMoves
<1>12. ASSUME NEW a \in Alarms, FailureRecorded(a) PROVE SequenceExists' /\ SequenceWithinMissions'
  BY <1>12, <1>11, <1>0 DEF FailureRecorded, SequenceExists
<1>13. ASSUME NEW a \in Alarms, Retry(a) PROVE SequenceExists' /\ SequenceWithinMissions'
  BY <1>13, <1>11, <1>0 DEF Retry, SequenceExists
<1>14. CASE UNCHANGED vars
  BY <1>14, <1>v DEF vars
<1>15. QED
  BY <1>1, <1>2, <1>3, <1>4, <1>5, <1>6, <1>7, <1>8, <1>9, <1>10, <1>12, <1>13, <1>14
     DEF Next, Handle

-----------------------------------------------------------------------------
(* The alarm that sounds                                                    *)

\* An announcement that comes last makes the alarm that sounds known.
LEMMA Announcing ==
  ASSUME TypeOK, sounding' \in Alarms, Send(Fired(sounding'))
  PROVE  RingIsKnown' /\ RingIsAnnounced'
<1> DEFINE n == Len(inbox) + 1
<1>1. /\ Len(inbox') = n /\ n \in Nat \ {0} /\ Len(inbox) \in Nat
      /\ inbox'[n] = Fired(sounding')
  BY Sending, MessagesSent DEF Send
<1> HIDE DEF n
<1>2. RingIsKnown'
  BY <1>1 DEF RingIsKnown
<1>3. ASSUME NEW i \in 1 .. Len(inbox'), inbox'[i] # Fired(sounding')
      PROVE  \E j \in 1 .. Len(inbox') : i < j /\ inbox'[j] = Fired(sounding')
  BY <1>1, <1>3
<1>4. QED
  BY <1>2, <1>3 DEF RingIsAnnounced, Fired

\* While the alarm that sounds is the same, handling a message loses nothing: one that makes
\* the controller forget it is followed by its announcement, and that makes it known.
LEMMA RingHandled ==
  ASSUME TypeOK, RingInv, inbox # <<>>, inbox' = Tail(inbox),
         UNCHANGED <<sounding, buffered, engineUp, unheard>>,
         \/ active' = sounding
         \/ active' = active /\ Head(inbox) # Fired(sounding)
         \/ Head(inbox).type # "silenced" /\ Head(inbox) # Fired(sounding)
  PROVE  RingInv'
<1> USE DEF RingInv, Heard
<1>0. Fired(sounding)' = Fired(sounding)
  BY DEF Fired
<1>1. /\ Len(inbox) \in Nat \ {0} /\ Len(inbox') = Len(inbox) - 1
      /\ \A i \in 1 .. Len(inbox') : inbox'[i] = inbox[i + 1]
      /\ Head(inbox) = inbox[1]
  BY Handling
<1>2. ASSUME NEW j \in 1 .. Len(inbox), 1 < j
      PROVE  j - 1 \in 1 .. Len(inbox') /\ inbox'[j - 1] = inbox[j]
  BY <1>1, <1>2
<1>3. RingIsAnnounced'
  <2> SUFFICES ASSUME Heard', NEW i \in 1 .. Len(inbox'),
                      inbox'[i].type # "silenced", inbox'[i] # Fired(sounding)
               PROVE  \E j \in 1 .. Len(inbox') : i < j /\ inbox'[j] = Fired(sounding)
    BY <1>0 DEF RingIsAnnounced
  <2>1. i + 1 \in 1 .. Len(inbox) /\ inbox'[i] = inbox[i + 1]
    BY <1>1
  <2>2. PICK j \in 1 .. Len(inbox) : i + 1 < j /\ inbox[j] = Fired(sounding)
    BY <2>1 DEF RingIsAnnounced
  <2>3. j - 1 \in 1 .. Len(inbox') /\ inbox'[j - 1] = inbox[j] /\ i < j - 1
    BY <1>2, <2>2, <1>1
  <2>4. QED
    BY <2>2, <2>3
<1>4. RingIsKnown'
  <2> SUFFICES ASSUME Heard', active' # sounding
               PROVE  \E j \in 1 .. Len(inbox') : inbox'[j] = Fired(sounding)
    BY <1>0 DEF RingIsKnown
  <2>1. \E j \in 1 .. Len(inbox) : 1 < j /\ inbox[j] = Fired(sounding)
    <3>1. CASE active' = active /\ Head(inbox) # Fired(sounding)
      <4>1. PICK j \in 1 .. Len(inbox) : inbox[j] = Fired(sounding)
        BY <3>1 DEF RingIsKnown
      <4>2. j # 1
        BY <1>1, <3>1, <4>1
      <4>3. QED
        BY <1>1, <4>1, <4>2
    <3>2. CASE Head(inbox).type # "silenced" /\ Head(inbox) # Fired(sounding)
      <4>1. 1 \in 1 .. Len(inbox)
        BY <1>1
      <4>2. QED
        BY <1>1, <3>2, <4>1 DEF RingIsAnnounced
    <3>3. QED
      BY <3>1, <3>2
  <2>2. QED
    BY <1>2, <2>1
<1>5. RingIsBuffered'
  BY DEF RingIsBuffered
<1>6. QED
  BY <1>3, <1>4, <1>5

\* The reply to a call that was to silence native makes the controller forget nothing.
LEMMA RingSilenced ==
  ASSUME TypeOK, RingInv, NEW m \in Messages, Send(m), m.type = "silenced",
         UNCHANGED <<sounding, buffered, engineUp, active>>,
         unheard' <=> sounding # None /\ unheard
  PROVE  RingInv'
<1>1. /\ Len(inbox) \in Nat /\ Len(inbox') = Len(inbox) + 1
      /\ \A i \in 1 .. Len(inbox) : i \in 1 .. Len(inbox') /\ inbox'[i] = inbox[i]
      /\ \A i \in 1 .. Len(inbox') : i \in 1 .. Len(inbox) \/ inbox'[i].type = "silenced"
  BY Sending DEF Send
<1>2. Fired(sounding)' = Fired(sounding)
  BY DEF Fired
<1>3. Heard' => Heard
  BY DEF Heard
<1>4. RingIsKnown'
  BY <1>1, <1>2, <1>3 DEF RingInv, RingIsKnown, Heard
<1>5. RingIsAnnounced'
  BY <1>1, <1>2, <1>3 DEF RingInv, RingIsAnnounced
<1>6. QED
  BY <1>4, <1>5 DEF RingInv, RingIsBuffered

\* Every step keeps the alarm that sounds known or announced.
LEMMA RingStep ==
  ASSUME TypeOK, RingInv, [Next]_vars
  PROVE  RingInv'
<1> USE DEF nativeVars, controlVars, missionVars, history
<1>u. ASSUME UNCHANGED <<sounding, buffered, engineUp, inbox, active, unheard>> PROVE RingInv'
  BY <1>u DEF RingInv, RingIsKnown, RingIsAnnounced, RingIsBuffered, Heard, Fired
<1>q. ASSUME sounding' = None PROVE RingInv'
  BY <1>q DEF RingInv, RingIsKnown, RingIsAnnounced, RingIsBuffered, Heard
<1>1. ASSUME NEW a \in Alarms, Fire(a) PROVE RingInv'
  <2>0. sounding' = a /\ unheard' = staleSink /\ engineUp' = engineUp
    BY <1>1 DEF Fire
  <2>1. CASE engineUp /\ Send(Fired(a))
    <3>1. Send(Fired(sounding')) /\ sounding' \in Alarms /\ engineUp'
      BY <2>0, <2>1
    <3>2. RingIsBuffered'
      BY <3>1 DEF RingIsBuffered
    <3>3. QED
      BY <3>1, <3>2, Announcing DEF RingInv
  <2>2. CASE staleSink
    BY <2>0, <2>2 DEF RingInv, RingIsKnown, RingIsAnnounced, RingIsBuffered, Heard
  <2>3. CASE ~ engineUp /\ buffered' = a
    BY <2>0, <2>3 DEF RingInv, RingIsKnown, RingIsAnnounced, RingIsBuffered, Heard
  <2>4. QED
    BY <1>1, <2>1, <2>2, <2>3 DEF Fire, Emit
<1>2. ASSUME OpenRing PROVE RingInv'
  <2>1. Send(Fired(sounding')) /\ sounding' \in Alarms /\ engineUp'
    BY <1>2 DEF OpenRing, TypeOK
  <2>2. QED
    BY <2>1, Announcing DEF RingInv, RingIsBuffered
<1>3. ASSUME EngineDeath \/ ProcessDeath PROVE RingInv'
  BY <1>3, <1>q DEF EngineDeath, ProcessDeath, LoseEngine, RingInv, RingIsKnown, RingIsAnnounced,
                    RingIsBuffered, Heard
<1>4. ASSUME EngineStart PROVE RingInv'
  <2>1. RingIsBuffered'
    BY <1>4 DEF EngineStart, RingIsBuffered
  <2>2. ASSUME Heard'
        PROVE  Len(inbox') = 1 /\ inbox'[1] = Fired(sounding) /\ sounding' = sounding
    <3>1. buffered = sounding /\ sounding # None
      BY <1>4, <2>2 DEF EngineStart, RingInv, RingIsBuffered, Heard
    <3>2. inbox' = <<Fired(sounding)>>
      BY <1>4, <3>1 DEF EngineStart
    <3>3. QED
      BY <1>4, <3>2 DEF EngineStart
  <2>3. Fired(sounding)' = Fired(sounding)
    BY <1>4 DEF EngineStart, Fired
  <2>4. RingIsKnown'
    BY <2>2, <2>3 DEF RingIsKnown, Heard
  <2>5. RingIsAnnounced'
    <3>1. ASSUME Heard', NEW i \in 1 .. Len(inbox')
          PROVE  inbox'[i] = Fired(sounding)
      <4>1. i = 1
        <5>1. Len(inbox') = 1
          BY <2>2, <3>1, Zenon
        <5>2. QED
          BY <5>1
      <4>2. QED
        BY <2>2, <3>1, <4>1
    <3>2. QED
      BY <2>3, <3>1 DEF RingIsAnnounced
  <2>6. QED
    BY <2>1, <2>4, <2>5 DEF RingInv
<1>5. ASSUME OnFired PROVE RingInv'
  <2>1. Head(inbox) = Fired(sounding) => Head(inbox).alarm = sounding
    BY DEF Fired
  <2>2. active' = Head(inbox).alarm
    BY <1>5 DEF OnFired
  <2>3. active' = sounding \/ (Head(inbox).type # "silenced" /\ Head(inbox) # Fired(sounding))
    BY <1>5, <2>1, <2>2 DEF OnFired
  <2>4. /\ inbox # <<>> /\ inbox' = Tail(inbox)
        /\ UNCHANGED <<sounding, buffered, engineUp, unheard>>
    BY <1>5 DEF OnFired
  <2>5. QED
    BY <2>3, <2>4, RingHandled
<1>6. ASSUME OnSilenced \/ OnStopped \/ OnSnoozed PROVE RingInv'
  <2>1. /\ inbox # <<>> /\ inbox' = Tail(inbox)
        /\ UNCHANGED <<sounding, buffered, engineUp, unheard>>
        /\ active' = active \/ Head(inbox).type # "silenced"
        /\ Head(inbox).type # "fired"
    BY <1>6 DEF OnSilenced, OnStopped, OnSnoozed
  <2>2. Head(inbox) # Fired(sounding)
    BY <2>1 DEF Fired
  <2>3. QED
    BY <2>1, <2>2, RingHandled
<1>7. ASSUME PressStart \/ PressSnooze \/ Dismiss PROVE RingInv'
  <2>0. engineUp' = engineUp /\ buffered' = buffered
    BY <1>7 DEF PressStart, PressSnooze, Dismiss
  <2>1. CASE sounding' = None
    BY <2>1, <1>q
  <2>2. CASE sounding' = sounding /\ unheard' = (sounding # None)
    BY <2>0, <2>2 DEF RingInv, RingIsKnown, RingIsAnnounced, RingIsBuffered, Heard
  <2>3. CASE PressStart /\ sounding' = sounding /\ (unheard' <=> sounding # None /\ unheard)
    <3> DEFINE m == Reply("silenced", screen.shown)
    <3>1. screen.shown \in Alarms
      BY <2>3, ScreenShape, ScreenOpen DEF PressStart
    <3>2. m \in Messages /\ m.type = "silenced" /\ Send(m) /\ active' = active
      BY <2>3, <3>1, MessagesSent DEF PressStart, CallNative, Reply
    <3> HIDE DEF m
    <3>3. QED
      BY <2>0, <2>3, <3>2, RingSilenced
  <2>4. QED
    BY <1>7, <2>1, <2>2, <2>3 DEF PressStart, PressSnooze, Dismiss, CallNative, Reply
<1>8. ASSUME Exit PROVE RingInv'
  <2>1. UNCHANGED <<sounding, buffered, engineUp, active, unheard>>
    BY <1>8 DEF Exit
  <2>2. /\ Len(inbox') = Len(inbox)
        /\ \A i \in 1 .. Len(inbox) : /\ inbox'[i].type = inbox[i].type
                                      /\ inbox[i] = Fired(sounding) => inbox'[i] = Fired(sounding)
    <3>1. \A i \in 1 .. Len(inbox) : inbox[i] = Fired(sounding) => inbox[i] = Fired(inbox[i].alarm)
      BY DEF Fired
    <3>2. QED
      BY <1>8, <3>1, Unmounting DEF Exit
  <2>3. Fired(sounding)' = Fired(sounding)
    BY <2>1 DEF Fired
  <2>4. RingIsKnown'
    BY <2>1, <2>2, <2>3 DEF RingInv, RingIsKnown
  <2>5. RingIsAnnounced'
    BY <2>1, <2>2, <2>3 DEF RingInv, RingIsAnnounced, Heard
  <2>6. QED
    BY <2>1, <2>4, <2>5 DEF RingInv, RingIsBuffered
<1>9. CASE Load \/ Reveal
  BY <1>9, <1>u DEF Load, Reveal
<1>10. CASE \E a \in Alarms : \/ Report(a) \/ Recorded(a)
                              \/ ReportFailure(a) \/ FailureRecorded(a) \/ Retry(a)
  BY <1>10, <1>u DEF Report, Recorded, ReportFailure, FailureRecorded, Retry
<1>11. CASE UNCHANGED vars
  BY <1>11, <1>u DEF vars
<1>12. QED
  BY <1>1, <1>2, <1>3, <1>4, <1>5, <1>6, <1>7, <1>8, <1>9, <1>10, <1>11 DEF Next, Handle

-----------------------------------------------------------------------------
\* At first nothing sounds, waits or is shown.
LEMMA InitKeeps == Init => Inv
<1>1. ASSUME Init PROVE TypeOK
  <2>1. inbox \in Seq(Messages)
    BY <1>1 DEF Init
  <2>2. QED
    BY <1>1, <2>1 DEF Init, TypeOK, Nothing
<1>2. ASSUME Init PROVE SequenceExists /\ ScreenWaits /\ SequenceWithinMissions /\ RingInv
  <2>1. \A a \in Alarms : sequences[a] = Uncreated /\ recording[a] = 0 /\ failing[a] = 0 /\ ~ InMissions(a)
    BY <1>2 DEF Init, Nothing, InMissions, Closed
  <2>2. tasks = {} /\ Len(inbox) = 0 /\ sounding = None
    BY <1>2 DEF Init
  <2>3. QED
    BY <2>1, <2>2 DEF SequenceExists, ScreenWaits, SequenceWithinMissions, RingInv, RingIsKnown,
                      RingIsAnnounced, RingIsBuffered, Heard
<1>3. QED
  BY <1>1, <1>2 DEF Inv

\* Inv is an invariant.
LEMMA Invariance == Spec => []Inv
<1>1. Inv /\ [Next]_vars => Inv'
  BY TypeStep, ScreenStep, SequenceStep, RingStep DEF Inv
<1>2. QED
  BY <1>1, InitKeeps, PTL DEF Spec

\* The variables keep their types: among them, the missions are shown of a loaded alarm only,
\* and what is recorded is recorded of a sequence that was created.
\* [alarm_ring_screen.dart, mission_sequence_controller.dart]
THEOREM TypeCorrect == Spec => []TypeOK
<1>1. Inv => TypeOK
  BY DEF Inv
<1>2. QED
  BY <1>1, Invariance, PTL

\* Reports and failures recorded late, twice or after the screen is gone never move a sequence
\* beyond its missions, and success is at the last mission only.
\* [mission_sequence_controller.dart completeCurrent, failCurrent]
THEOREM SequencesStayWithin == Spec => []SequenceWithinMissions
<1>1. Inv => SequenceWithinMissions
  BY DEF Inv
<1>2. QED
  BY <1>1, Invariance, PTL

\* The alarm that sounds is the controller's active one or about to be announced, whatever
\* replies of earlier rings and other alarms come in between, and whatever calls fail that only
\* silence it.  Not meant are the ring whose engine died or whose event an earlier engine's sink
\* took, and the one whose stop or snooze failed, until its notification is opened again.
\* [alarm_ring_controller.dart _onAlarmFired, onMissionsCompleted, onSnooze;
\* AlarmSchedulerPlugin.kt emit, onListen]
THEOREM RingStaysKnown == Spec => []RingIsKnown
<1>1. Inv => RingIsKnown
  BY DEF Inv, RingInv
<1>2. QED
  BY <1>1, Invariance, PTL
=============================================================================

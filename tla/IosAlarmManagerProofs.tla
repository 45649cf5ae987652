------------------------ MODULE IosAlarmManagerProofs ------------------------
(* The iOS alarm engine, for every set of alarms and settings, every number *)
(* of occurrences and every number of removals under way.                   *)
EXTENDS IosAlarmManager, FiniteSetTheorems, SequenceTheorems, TLAPS

-----------------------------------------------------------------------------
(* What the properties need of a reachable state besides the types: nothing *)
(* is buffered while Dart listens.                                          *)

ListenerIsHeard == listening => pendingEvent = NoEvent

Inv == TypeOK /\ ListenerIsHeard /\ NoStaleOccurrence /\ ReplayedFireIsCurrent

-----------------------------------------------------------------------------
(* The requests of a call                                                   *)

\* The requests made for an alarm are requests for it and for the settings asked for, regular
\* ones, and no two of them share an identifier.
LEMMA RequestsMade ==
  ASSUME NEW a \in Alarms, NEW c \in Configs[a]
  PROVE  /\ c \in Settings
         /\ NewRequests(a, c) \subseteq Requests
         /\ \A r \in NewRequests(a, c) : r.id[1] = a /\ r.config = c
         /\ \A r, s \in NewRequests(a, c) : r.id = s.id => r = s
<1> DEFINE n == OccurrenceCount(c)
<1>1. c \in Settings
  BY DEF Settings
<1>2. n \in Nat /\ n <= MaxOccurrences
  <2>1. Cardinality(c.repeatDays) \in Nat
    BY ConfigsAssumption, FS_CardinalityType
  <2>2. QED
    BY <2>1, MaxOccurrencesAssumption DEF OccurrenceCount
<1> HIDE DEF n
<1>3. ASSUME NEW r \in Occurrences(a, c)
      PROVE  \E i \in 0 .. n - 1 : r = [id |-> <<a, i>>, config |-> c, repeats |-> c.repeatDays # {}]
  BY <1>3 DEF Occurrences, n
<1>4. ASSUME NEW i \in 0 .. n - 1
      PROVE  <<a, i>> \in Identifiers
  BY <1>2, MaxOccurrencesAssumption DEF Identifiers
<1>5. NewRequests(a, c) \subseteq Occurrences(a, c)
  BY DEF NewRequests
<1>6. Occurrences(a, c) \subseteq Requests
  <2>1. ASSUME NEW i \in 0 .. n - 1, NEW b \in BOOLEAN
        PROVE  [id |-> <<a, i>>, config |-> c, repeats |-> b] \in Requests
    BY <1>1, <1>4 DEF Requests
  <2>2. (c.repeatDays # {}) \in BOOLEAN
    OBVIOUS
  <2>3. QED
    BY <1>3, <2>1, <2>2, Zenon
<1>7. QED
  BY <1>1, <1>3, <1>5, <1>6

\* A request is a record of its three fields, and its identifier is of an alarm.
LEMMA RequestShape ==
  ASSUME NEW r \in Requests
  PROVE  r.id \in Identifiers /\ r.id[1] \in Alarms /\ r.config \in Settings /\ r.repeats \in BOOLEAN
  BY DEF Requests, Identifiers

\* Adding requests of different identifiers leaves one request for each identifier.
LEMMA AddKeeps ==
  ASSUME TypeOK, NEW R \in SUBSET Requests, \A r, s \in R : r.id = s.id => r = s
  PROVE  /\ Add(R) \in SUBSET Requests
         /\ \A r, s \in Add(R) : r.id = s.id => r = s
  BY DEF TypeOK, Add, Ids

\* The request of a snooze.
LEMMA SnoozeMade ==
  ASSUME NEW a \in Alarms
  PROVE  [id |-> <<a, Snoozed>>, config |-> Off, repeats |-> FALSE] \in Requests
  BY DEF Requests, Identifiers, Settings, Snoozed, Off

\* Telling Dart of something keeps the buffer an event, and empty while Dart listens.
LEMMA EmitKeeps ==
  ASSUME TypeOK, ListenerIsHeard, NEW a \in Alarms,
         NEW type \in {"alarm_fired", "alarm_snoozed", "alarm_stopped"}, Emit(type, a)
  PROVE  /\ pendingEvent' \in Events \cup {NoEvent}
         /\ listening => pendingEvent' = NoEvent
         /\ pendingEvent'.type = "alarm_fired" => type = "alarm_fired" /\ pendingEvent'.alarmId = a
  BY DEF TypeOK, ListenerIsHeard, Emit, Events, NoEvent

-----------------------------------------------------------------------------
(* Types and the buffered event                                             *)

\* Every step keeps the types.
LEMMA TypeStep ==
  ASSUME TypeOK, ListenerIsHeard, [Next]_vars
  PROVE  TypeOK'
<1> USE DEF TypeOK, ringVars, bridgeVars, centerVars, history
<1>1. ASSUME NEW a \in Alarms, NEW c \in Configs[a], Schedule(a, c) PROVE TypeOK'
  <2>1. IdsOf(a) \in SUBSET Identifiers
    BY RequestShape DEF IdsOf, Ids
  <2>2. callbacks' \in Seq(SUBSET Identifiers)
    BY <1>1, <2>1, AppendProperties DEF Schedule
  <2>3. /\ pending' \in SUBSET Requests
        /\ \A r, s \in pending' : r.id = s.id => r = s
    BY <1>1, RequestsMade, AddKeeps DEF Schedule
  <2>4. wanted' \in [Alarms -> Settings] /\ unremoved' \in SUBSET Identifiers
    BY <1>1, RequestsMade DEF Schedule
  <2>5. QED
    BY <1>1, <2>2, <2>3, <2>4 DEF Schedule
<1>2. ASSUME NEW a \in Alarms, Cancel(a) PROVE TypeOK'
  <2>1. IdsOf(a) \in SUBSET Identifiers
    BY RequestShape DEF IdsOf, Ids
  <2>2. callbacks' \in Seq(SUBSET Identifiers)
    BY <1>2, <2>1, AppendProperties DEF Cancel
  <2>3. wanted' \in [Alarms -> Settings]
    BY <1>2 DEF Cancel, Settings
  <2>4. QED
    BY <1>2, <2>2, <2>3 DEF Cancel
<1>3. ASSUME RunCallback PROVE TypeOK'
  <2>1. callbacks' \in Seq(SUBSET Identifiers)
    BY <1>3, HeadTailProperties DEF RunCallback
  <2>2. QED
    BY <1>3, <2>1 DEF RunCallback
<1>s. ASSUME NEW a \in Alarms, AddSnooze(a), UNCHANGED <<callbacks, listening, history>>,
             displayed' \in SUBSET Alarms, appUp' \in BOOLEAN
      PROVE  TypeOK'
  <2>1. /\ pending' \in SUBSET Requests
        /\ \A r, s \in pending' : r.id = s.id => r = s
    BY <1>s, SnoozeMade, AddKeeps DEF AddSnooze
  <2>2. pendingEvent' \in Events \cup {NoEvent}
    BY <1>s, EmitKeeps DEF AddSnooze
  <2>3. QED
    BY <1>s, <2>1, <2>2 DEF AddSnooze, StopRinging
<1>4. ASSUME NEW a \in Alarms, SnoozeCall(a) PROVE TypeOK'
  BY <1>4, <1>s DEF SnoozeCall
<1>5. ASSUME NEW a \in Alarms, Stop(a) PROVE TypeOK'
  <2>1. pendingEvent' \in Events \cup {NoEvent}
    BY <1>5, EmitKeeps DEF Stop
  <2>2. QED
    BY <1>5, <2>1 DEF Stop, StopRinging
<1>b. ASSUME NEW a \in Alarms, BeginRinging(a)
      PROVE  /\ ringingAlarmId' \in Alarms /\ audioPlayer' \in Alarms \cup {None}
             /\ listening' \in BOOLEAN /\ pendingEvent' \in Events \cup {NoEvent}
  BY <1>b, EmitKeeps DEF BeginRinging
<1>6. ASSUME NEW a \in Alarms, Respond(a) PROVE TypeOK'
  <2>1. CASE BeginRinging(a) /\ UNCHANGED pending
    BY <1>6, <2>1, <1>b DEF Respond
  <2>2. CASE AddSnooze(a) /\ UNCHANGED listening
    BY <1>6, <2>2, <1>s DEF Respond
  <2>3. QED
    BY <1>6, <2>1, <2>2 DEF Respond
<1>7. ASSUME NEW r \in pending, Deliver(r) PROVE TypeOK'
  <2>1. r.id[1] \in Alarms
    BY RequestShape
  <2>2. /\ ringingAlarmId' \in Alarms \cup {None} /\ audioPlayer' \in Alarms \cup {None}
        /\ listening' \in BOOLEAN /\ pendingEvent' \in Events \cup {NoEvent}
    BY <1>7, <2>1, <1>b DEF Deliver
  <2>3. QED
    BY <1>7, <2>1, <2>2 DEF Deliver
<1>8. ASSUME Listen \/ CancelListen \/ Launch PROVE TypeOK'
  BY <1>8 DEF Listen, CancelListen, Launch
<1>9. ASSUME Kill PROVE TypeOK'
  <2>1. Ids(pending) \subseteq Identifiers
    BY RequestShape DEF Ids
  <2>2. callbacks' \in Seq(SUBSET Identifiers)
    BY <1>9 DEF Kill
  <2>3. QED
    BY <1>9, <2>1, <2>2 DEF Kill, StopRinging
<1>10. CASE UNCHANGED vars
  BY <1>10 DEF vars
<1>11. QED
  BY <1>1, <1>2, <1>3, <1>4, <1>5, <1>6, <1>7, <1>8, <1>9, <1>10 DEF Next

\* Every step keeps the buffer in agreement with the ring and empty while Dart listens.
LEMMA BufferStep ==
  ASSUME TypeOK, ListenerIsHeard, ReplayedFireIsCurrent, [Next]_vars
  PROVE  ListenerIsHeard' /\ ReplayedFireIsCurrent'
<1> USE DEF ListenerIsHeard, ReplayedFireIsCurrent, ringVars, bridgeVars, centerVars, history
<1>1. ASSUME NEW a \in Alarms, AddSnooze(a), UNCHANGED listening
      PROVE  ListenerIsHeard' /\ ReplayedFireIsCurrent'
  BY <1>1, EmitKeeps DEF AddSnooze
<1>2. ASSUME NEW a \in Alarms, BeginRinging(a)
      PROVE  ListenerIsHeard' /\ ReplayedFireIsCurrent'
  BY <1>2, EmitKeeps DEF BeginRinging
<1>3. ASSUME NEW a \in Alarms, Stop(a)
      PROVE  ListenerIsHeard' /\ ReplayedFireIsCurrent'
  BY <1>3, EmitKeeps DEF Stop
<1>4. ASSUME NEW a \in Alarms, SnoozeCall(a) \/ Respond(a)
      PROVE  ListenerIsHeard' /\ ReplayedFireIsCurrent'
  BY <1>4, <1>1, <1>2 DEF SnoozeCall, Respond
<1>5. ASSUME NEW r \in pending, Deliver(r)
      PROVE  ListenerIsHeard' /\ ReplayedFireIsCurrent'
  <2>1. r.id[1] \in Alarms
    BY RequestShape DEF TypeOK
  <2>2. QED
    BY <1>5, <2>1, <1>2 DEF Deliver
<1>6. CASE Listen \/ CancelListen \/ Kill
  BY <1>6 DEF Listen, CancelListen, Kill, NoEvent
<1>7. ASSUME UNCHANGED <<ringVars, bridgeVars>>
      PROVE  ListenerIsHeard' /\ ReplayedFireIsCurrent'
  BY <1>7
<1>8. CASE Launch \/ RunCallback \/ (\E a \in Alarms : Cancel(a) \/ \E c \in Configs[a] : Schedule(a, c))
  BY <1>8, <1>7 DEF Launch, RunCallback, Cancel, Schedule
<1>9. CASE UNCHANGED vars
  BY <1>9, <1>7 DEF vars
<1>10. QED
  BY <1>3, <1>4, <1>5, <1>6, <1>8, <1>9 DEF Next

-----------------------------------------------------------------------------
(* Stale occurrences                                                        *)

\* A removal that is appended dooms what it names and spares nothing that was doomed.
LEMMA AppendDooms ==
  ASSUME TypeOK, NEW S \in SUBSET Identifiers, callbacks' = Append(callbacks, S), NEW id,
         Doomed(id) \/ id \in S
  PROVE  Doomed(id)'
<1>1. /\ callbacks' \in Seq(SUBSET Identifiers) /\ Len(callbacks') = Len(callbacks) + 1
      /\ Len(callbacks) \in Nat
      /\ \A i \in 1 .. Len(callbacks) : callbacks'[i] = callbacks[i]
      /\ callbacks'[Len(callbacks) + 1] = S
  BY AppendProperties, LenProperties DEF TypeOK
<1>2. QED
  BY <1>1 DEF Doomed

\* A removal that runs spares what the later ones doom.
LEMMA TailDooms ==
  ASSUME TypeOK, callbacks # <<>>, callbacks' = Tail(callbacks), NEW id,
         Doomed(id), id \notin Head(callbacks)
  PROVE  Doomed(id)'
<1>1. /\ Len(callbacks) \in Nat /\ Len(callbacks') = Len(callbacks) - 1
      /\ \A i \in 1 .. Len(callbacks') : callbacks'[i] = callbacks[i + 1]
      /\ Head(callbacks) = callbacks[1]
  BY HeadTailProperties, LenProperties DEF TypeOK
<1>2. PICK i \in 1 .. Len(callbacks) : id \in callbacks[i]
  BY DEF Doomed
<1>3. i # 1
  BY <1>1, <1>2
<1>4. i - 1 \in 1 .. Len(callbacks') /\ callbacks'[i - 1] = callbacks[i]
  BY <1>1, <1>2, <1>3
<1>5. QED
  BY <1>2, <1>4 DEF Doomed

\* Every step keeps the regular requests current or about to be removed.
LEMMA OccurrenceStep ==
  ASSUME TypeOK, NoStaleOccurrence, [Next]_vars
  PROVE  NoStaleOccurrence'
<1> USE DEF ringVars, bridgeVars, centerVars, history
<1>r. ASSUME NEW r \in pending PROVE r \in Requests /\ r.id \in Identifiers /\ r.id[1] \in Alarms
  BY RequestShape DEF TypeOK
<1>1. ASSUME NEW a \in Alarms, NEW c \in Configs[a], Schedule(a, c) PROVE NoStaleOccurrence'
  <2> DEFINE R == NewRequests(a, c)
  <2>1. /\ callbacks' = Append(callbacks, IdsOf(a)) /\ IdsOf(a) \in SUBSET Identifiers
        /\ unremoved' = unremoved \ Ids(R)
        /\ wanted' = [wanted EXCEPT ![a] = c] /\ wanted \in [Alarms -> Settings]
    BY <1>1, <1>r DEF Schedule, IdsOf, Ids, TypeOK
  <2>2. \A r \in R : r.id[1] = a /\ r.config = c
    BY RequestsMade
  <2>3. pending' = {r \in pending : r.id \notin Ids(R)} \cup R
    BY <1>1 DEF Schedule, Add
  <2> HIDE DEF R
  <2> SUFFICES ASSUME NEW r \in pending', Regular(r), r.config # wanted'[r.id[1]]
               PROVE  Doomed(r.id)' \/ r.id \in unremoved'
    BY DEF NoStaleOccurrence, Regular, Snoozed
  <2>4. r \in pending /\ r.id \notin Ids(R)
    BY <2>1, <2>2, <2>3
  <2>5. CASE r.id[1] = a
    <3>1. r.id \in IdsOf(a)
      BY <2>4, <2>5 DEF IdsOf, Ids
    <3>2. QED
      BY <2>1, <3>1, AppendDooms
  <2>6. CASE r.id[1] # a
    <3>1. wanted'[r.id[1]] = wanted[r.id[1]]
      BY <2>1, <2>4, <2>6, <1>r
    <3>2. Doomed(r.id) \/ r.id \in unremoved
      BY <2>4, <3>1 DEF NoStaleOccurrence
    <3>3. QED
      BY <2>1, <2>4, <3>2, AppendDooms
  <2>7. QED
    BY <2>5, <2>6
<1>2. ASSUME NEW a \in Alarms, Cancel(a) PROVE NoStaleOccurrence'
  <2>1. /\ callbacks' = Append(callbacks, IdsOf(a)) /\ IdsOf(a) \in SUBSET Identifiers
        /\ pending' = pending /\ unremoved' = unremoved
        /\ wanted' = [wanted EXCEPT ![a] = Off] /\ wanted \in [Alarms -> Settings]
    BY <1>2, <1>r DEF Cancel, IdsOf, Ids, TypeOK
  <2> SUFFICES ASSUME NEW r \in pending', Regular(r), r.config # wanted'[r.id[1]]
               PROVE  Doomed(r.id)' \/ r.id \in unremoved'
    BY DEF NoStaleOccurrence, Regular, Snoozed
  <2>2. r.id[1] = a => r.id \in IdsOf(a)
    BY <2>1 DEF IdsOf, Ids
  <2>3. r.id[1] # a => Doomed(r.id) \/ r.id \in unremoved
    BY <2>1, <1>r DEF NoStaleOccurrence
  <2>4. QED
    BY <2>1, <2>2, <2>3, AppendDooms
<1>3. ASSUME RunCallback PROVE NoStaleOccurrence'
  <2>1. /\ callbacks # <<>> /\ callbacks' = Tail(callbacks)
        /\ pending' = {r \in pending : r.id \notin Head(callbacks)}
        /\ unremoved' = unremoved \ Head(callbacks) /\ wanted' = wanted
    BY <1>3 DEF RunCallback
  <2> SUFFICES ASSUME NEW r \in pending', Regular(r), r.config # wanted'[r.id[1]]
               PROVE  Doomed(r.id)' \/ r.id \in unremoved'
    BY DEF NoStaleOccurrence, Regular, Snoozed
  <2>2. r.id \notin Head(callbacks) /\ (Doomed(r.id) \/ r.id \in unremoved)
    BY <2>1 DEF NoStaleOccurrence
  <2>3. QED
    BY <2>1, <2>2, TailDooms
<1>s. ASSUME NEW a \in Alarms, AddSnooze(a), UNCHANGED <<callbacks, history>>
      PROVE  NoStaleOccurrence'
  <2>1. \A r \in pending' : r \in pending \/ ~ Regular(r)
    BY <1>s DEF AddSnooze, Add, Regular
  <2>2. QED
    BY <1>s, <2>1 DEF NoStaleOccurrence, Doomed, Regular, Snoozed
<1>u. ASSUME UNCHANGED <<pending, callbacks, history>> PROVE NoStaleOccurrence'
  BY <1>u DEF NoStaleOccurrence, Doomed, Regular, Snoozed
<1>4. ASSUME NEW a \in Alarms, SnoozeCall(a) \/ Respond(a) PROVE NoStaleOccurrence'
  BY <1>4, <1>s, <1>u DEF SnoozeCall, Respond
<1>5. ASSUME NEW a \in Alarms, Stop(a) PROVE NoStaleOccurrence'
  BY <1>5, <1>u DEF Stop
<1>6. ASSUME NEW q \in pending, Deliver(q) PROVE NoStaleOccurrence'
  <2>1. pending' \subseteq pending /\ UNCHANGED <<callbacks, wanted>>
    BY <1>6 DEF Deliver
  <2>2. ASSUME NEW r \in pending', r.id \in unremoved PROVE r.id \in unremoved'
    \* Only the delivered request has its identifier.
    BY <1>6, <2>2 DEF Deliver, TypeOK
  <2>3. QED
    BY <2>1, <2>2 DEF NoStaleOccurrence, Doomed, Regular, Snoozed
<1>7. CASE Listen \/ CancelListen \/ Launch
  BY <1>7, <1>u DEF Listen, CancelListen, Launch
<1>8. ASSUME Kill PROVE NoStaleOccurrence'
  <2>1. /\ pending' = pending /\ wanted' = wanted
        /\ unremoved' = unremoved \cup {id \in Ids(pending) : Doomed(id)}
    BY <1>8 DEF Kill
  <2>2. QED
    BY <2>1 DEF NoStaleOccurrence, Ids, Regular, Snoozed
<1>9. CASE UNCHANGED vars
  BY <1>9, <1>u DEF vars
<1>10. QED
  BY <1>1, <1>2, <1>3, <1>4, <1>5, <1>6, <1>7, <1>8, <1>9 DEF Next

-----------------------------------------------------------------------------
\* At first nothing is pending, buffered or asked for.
LEMMA InitKeeps == Init => Inv
<1>1. ASSUME Init PROVE TypeOK
  <2>1. callbacks \in Seq(SUBSET Identifiers)
    BY <1>1 DEF Init
  <2>2. QED
    BY <1>1, <2>1 DEF Init, TypeOK, Settings
<1>2. ASSUME Init PROVE ListenerIsHeard /\ NoStaleOccurrence /\ ReplayedFireIsCurrent
  BY <1>2 DEF Init, ListenerIsHeard, NoStaleOccurrence, ReplayedFireIsCurrent, NoEvent
<1>3. QED
  BY <1>1, <1>2 DEF Inv

\* Inv is an invariant.
LEMMA Invariance == Spec => []Inv
<1>1. Inv /\ [Next]_vars => Inv'
  BY TypeStep, BufferStep, OccurrenceStep DEF Inv
<1>2. QED
  BY <1>1, InitKeeps, PTL DEF Spec

\* The variables keep their types, and no two pending requests share an identifier: the
\* notification center and AlarmManager's fields, whatever Dart, the user and the system do.
\* [AlarmManager.swift]
THEOREM TypeCorrect == Spec => []TypeOK
<1>1. Inv => TypeOK
  BY DEF Inv
<1>2. QED
  BY <1>1, Invariance, PTL

\* No regular request outlives the settings it was made for, unless its removal is under way or
\* died with the process: edits, cancellations, kills and late completion handlers, in any
\* number and order.  [AlarmManager.swift schedule, cancel]
THEOREM OccurrencesAreCurrent == Spec => []NoStaleOccurrence
<1>1. Inv => NoStaleOccurrence
  BY DEF Inv
<1>2. QED
  BY <1>1, Invariance, PTL

\* The event that is replayed to a Dart that starts late is that of the ring that is going on.
\* [AlarmManager.swift emit, onListen]
THEOREM ReplayIsCurrent == Spec => []ReplayedFireIsCurrent
<1>1. Inv => ReplayedFireIsCurrent
  BY DEF Inv
<1>2. QED
  BY <1>1, Invariance, PTL
=============================================================================

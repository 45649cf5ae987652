-------------------------- MODULE AlarmEngineProofs --------------------------
(* Theorems about AlarmEngine, for any alarms, any settings, any length of  *)
(* the day and of the week.                                                  *)
EXTENDS AlarmEngine, SequenceTheorems, WellFoundedInduction, TLAPS

-----------------------------------------------------------------------------
(* AlarmTime: what the scan for the next trigger returns, for every length  *)
(* of the day, every week, every set of weekdays and every instant.         *)

\* A nonempty set of naturals has a least element, so FirstHit is one.
LEMMA LeastExists ==
  ASSUME NEW T \in SUBSET Nat, T # {}
  PROVE  \E k \in T : \A j \in T : k <= j
<1>1. \E k \in T : \A j \in T : ~ (<<j, k>> \in OpToRel(<, Nat))
  BY NatLessThanWellFounded, WFMin
<1>2. \E k \in T : \A j \in T : ~ (j < k)
  BY <1>1, Zenon DEF OpToRel
<1>3. QED
  BY <1>2

\* Euclidean division, stated for plain variables so that the arithmetic prover sees no
\* defined operator.
LEMMA Division ==
  ASSUME NEW D \in Nat \ {0}, NEW n \in Nat
  PROVE  /\ n = D * (n \div D) + (n % D)
         /\ n \div D \in Nat
         /\ n % D \in 0 .. D - 1
  OBVIOUS

\* A quotient and a rest that fit are the quotient and the rest.
LEMMA DivisionUnique ==
  ASSUME NEW D \in Nat \ {0}, NEW q \in Nat, NEW r \in 0 .. D - 1
  PROVE  (D * q + r) \div D = q /\ (D * q + r) % D = r
  OBVIOUS

\* Products with the length of a day keep order.
LEMMA ProductFacts ==
  ASSUME NEW D \in Nat \ {0}, NEW p \in Nat, NEW q \in Nat
  PROVE  /\ D * p \in Nat
         /\ D * (p + q) = D * p + D * q
         /\ D * (p + 1) = D * p + D
         /\ p <= q => D * p <= D * q
         /\ p < q => D * p + D <= D * q
  OBVIOUS

\* The candidate k days ahead is at the alarm's time of day, on the k-th day from today.
LEMMA CandidateFacts ==
  ASSUME NEW time \in TimesOfDay, NEW instant \in Nat, NEW k \in Nat
  PROVE  /\ Candidate(time, instant, k) \in Nat
         /\ Candidate(time, instant, k) % DayLength = time
         /\ DayOf(Candidate(time, instant, k)) = DayOf(instant) + k
         /\ DayOf(instant) \in Nat
<1>1. DayOf(instant) \in Nat /\ DayOf(instant) + k \in Nat
  BY DayLengthAssumption, Division DEF DayOf
<1> DEFINE d == DayOf(instant) + k
<1>2. d \in Nat /\ time \in 0 .. DayLength - 1 /\ Candidate(time, instant, k) = DayLength * d + time
  BY <1>1 DEF Candidate, TimesOfDay
<1> HIDE DEF d
<1>3. (DayLength * d + time) \div DayLength = d /\ (DayLength * d + time) % DayLength = time
  BY <1>2, DayLengthAssumption, DivisionUnique
<1>4. DayLength * d \in Nat
  BY <1>2, DayLengthAssumption, ProductFacts
<1>5. DayLength * d + time \in Nat
  BY <1>2, <1>4, DayLengthAssumption
<1>6. QED
  BY <1>1, <1>2, <1>3, <1>5 DEF DayOf, d

\* Candidates of later days are later, and from tomorrow on they are in the future.
LEMMA CandidateOrder ==
  ASSUME NEW time \in TimesOfDay, NEW instant \in Nat, NEW j \in Nat, NEW k \in Nat
  PROVE  /\ j <= k => Candidate(time, instant, j) <= Candidate(time, instant, k)
         /\ k >= 1 => Candidate(time, instant, k) > instant
<1> DEFINE q == DayOf(instant)
<1>1. /\ q \in Nat
      /\ instant = DayLength * q + (instant % DayLength)
      /\ instant % DayLength \in 0 .. DayLength - 1
  BY DayLengthAssumption, Division DEF DayOf
<1>2. /\ q + j \in Nat /\ q + k \in Nat
      /\ DayLength * (q + j) \in Nat /\ DayLength * (q + k) \in Nat
      /\ DayLength * q \in Nat
  BY <1>1, DayLengthAssumption, ProductFacts
<1>3. ASSUME j <= k PROVE DayLength * (q + j) <= DayLength * (q + k)
  <2>1. q + j <= q + k
    BY <1>1, <1>3
  <2>2. QED
    BY <1>2, <2>1, DayLengthAssumption, ProductFacts
<1>4. ASSUME k >= 1 PROVE DayLength * q + DayLength <= DayLength * (q + k)
  <2>1. q < q + k
    BY <1>1, <1>4
  <2>2. QED
    BY <1>1, <1>2, <2>1, DayLengthAssumption, ProductFacts
<1> HIDE DEF q
<1>5. QED
  BY <1>1, <1>2, <1>3, <1>4, DayLengthAssumption DEF Candidate, TimesOfDay, q

\* Every instant that is at the alarm's time of day and after `now' is a candidate.
LEMMA CandidateCovers ==
  ASSUME NEW time \in TimesOfDay, NEW instant \in Nat, NEW u \in Nat,
         u > instant, u % DayLength = time
  PROVE  \E k \in Nat : u = Candidate(time, instant, k)
<1>1. /\ u = DayLength * DayOf(u) + time
      /\ DayOf(u) \in Nat /\ DayOf(instant) \in Nat
      /\ instant = DayLength * DayOf(instant) + (instant % DayLength)
      /\ instant % DayLength \in 0 .. DayLength - 1
  BY DayLengthAssumption, Division DEF DayOf
<1>2. DayOf(u) >= DayOf(instant)
  <2> SUFFICES ASSUME DayOf(u) + 1 <= DayOf(instant) PROVE FALSE
    BY <1>1
  <2>1. DayLength * DayOf(u) + DayLength <= DayLength * DayOf(instant)
    <3>1. DayOf(u) < DayOf(instant)
      BY <1>1
    <3>2. QED
      BY <1>1, <3>1, DayLengthAssumption, ProductFacts
  <2>2. DayLength * DayOf(u) \in Nat /\ DayLength * DayOf(instant) \in Nat
    BY <1>1, DayLengthAssumption, ProductFacts
  <2>3. u < DayLength * DayOf(instant)
    BY <1>1, <2>1, <2>2, DayLengthAssumption DEF TimesOfDay
  <2>4. DayLength * DayOf(instant) <= instant
    BY <1>1, <2>2, DayLengthAssumption
  <2>5. QED
    BY <2>2, <2>3, <2>4
<1>3. DayOf(u) - DayOf(instant) \in Nat
  BY <1>1, <1>2
<1>4. u = Candidate(time, instant, DayOf(u) - DayOf(instant))
  BY <1>1, <1>3 DEF Candidate
<1>5. QED
  BY <1>3, <1>4

\* A repeating alarm always has a hit within the scan of a week (the code's
\* fallback is unreachable), and FirstHit is the least of the hits.
LEMMA FirstHitFacts ==
  ASSUME NEW time \in TimesOfDay, NEW instant \in Nat,
         NEW repeatDays \in SUBSET Weekdays, repeatDays # {}
  PROVE  /\ Hits(time, repeatDays, instant) # {}
         /\ FirstHit(time, repeatDays, instant) \in Hits(time, repeatDays, instant)
         /\ \A j \in Hits(time, repeatDays, instant) :
              FirstHit(time, repeatDays, instant) <= j
<1> DEFINE W == DaysPerWeek
           q == DayOf(instant)
           H == Hits(time, repeatDays, instant)
<1>0. q \in Nat
  BY DayLengthAssumption DEF DayOf
<1>1. PICK d \in repeatDays : TRUE
  OBVIOUS
\* The selected day comes up within the next DaysPerWeek days, today excluded.
<1>2. \E k \in 1 .. W : (q + k) % W = d
  <2> DEFINE r == q % W
  <2>1. r \in 0 .. W - 1 /\ d \in 0 .. W - 1 /\ q = W * (q \div W) + r /\ q \div W \in Nat
    BY <1>0, <1>1, DaysPerWeekAssumption, Division DEF Weekdays
  <2>2. CASE d > r
    <3>1. d - r \in 1 .. W
      BY <2>1, <2>2, DaysPerWeekAssumption
    <3>2. W * (q \div W) \in Nat
      BY <2>1, DaysPerWeekAssumption, ProductFacts
    <3>3. q + (d - r) = W * (q \div W) + d
      BY <2>1, <3>2
    <3>4. (W * (q \div W) + d) % W = d
      BY <2>1, DaysPerWeekAssumption, DivisionUnique
    <3>5. QED
      BY <3>1, <3>3, <3>4
  <2>3. CASE d <= r
    <3>1. W + d - r \in 1 .. W
      BY <2>1, <2>3, DaysPerWeekAssumption
    <3>2. /\ W * (q \div W) \in Nat
          /\ (q \div W) + 1 \in Nat
          /\ W * ((q \div W) + 1) = W * (q \div W) + W
      BY <2>1, DaysPerWeekAssumption, ProductFacts
    <3>3. q + (W + d - r) = W * ((q \div W) + 1) + d
      BY <2>1, <3>2, DaysPerWeekAssumption
    <3>4. (W * ((q \div W) + 1) + d) % W = d
      BY <2>1, <3>2, DaysPerWeekAssumption, DivisionUnique
    <3>5. QED
      BY <3>1, <3>3, <3>4
  <2>4. QED
    BY <2>1, <2>2, <2>3
<1>3. PICK k \in 1 .. W : (q + k) % W = d
  BY <1>2
<1>4. k \in H
  <2>1. k \in Nat /\ k \in 0 .. W /\ k >= 1
    BY DaysPerWeekAssumption
  <2>2. DayOfWeek(Candidate(time, instant, k)) = d
    BY <2>1, <1>3, CandidateFacts DEF DayOfWeek
  <2>3. Candidate(time, instant, k) > instant
    BY <2>1, CandidateOrder
  <2>4. QED
    BY <1>1, <2>1, <2>2, <2>3 DEF Hits
<1>5. H \in SUBSET Nat
  BY DaysPerWeekAssumption DEF Hits
<1>6. \E m \in H : \A j \in H : m <= j
  BY <1>4, <1>5, LeastExists
<1>7. QED
  BY <1>4, <1>6 DEF FirstHit

\* AlarmTime.kt:13-19: the trigger of a one-shot or of a repeating alarm is strictly in the
\* future, at the alarm's time of day, on one of its days, and no earlier instant is: an
\* alarm neither fires twice at the instant it has just fired nor skips a day.
THEOREM NextTriggerIsNextOccurrence ==
  ASSUME NEW time \in TimesOfDay, NEW instant \in Nat, NEW repeatDays \in SUBSET Weekdays
  PROVE  IsNextOccurrence(time, repeatDays, instant, NextTrigger(time, repeatDays, instant))
<1> DEFINE t == NextTrigger(time, repeatDays, instant)
<1>1. CASE repeatDays = {}
  <2>1. \E k \in {0, 1} : /\ t = Candidate(time, instant, k)
                          /\ k = 1 => Candidate(time, instant, 0) <= instant
                          /\ t > instant
    <3>1. Candidate(time, instant, 1) > instant
      BY CandidateOrder
    <3>2. Candidate(time, instant, 0) \in Nat
      BY CandidateFacts
    <3>3. QED
      BY <1>1, <3>1, <3>2 DEF NextTrigger
  <2>2. PICK k \in {0, 1} : /\ t = Candidate(time, instant, k)
                            /\ k = 1 => Candidate(time, instant, 0) <= instant
                            /\ t > instant
    BY <2>1
  <2> HIDE DEF t
  <2>3. k \in Nat /\ t \in Nat /\ Occurs(time, repeatDays, t)
    <3>1. k \in Nat
      BY <2>2
    <3>2. t \in Nat /\ t % DayLength = time
      BY <3>1, <2>2, CandidateFacts
    <3>3. QED
      BY <1>1, <3>1, <3>2 DEF Occurs
  <2>4. ASSUME NEW u \in instant + 1 .. t - 1, Occurs(time, repeatDays, u) PROVE FALSE
    <3>1. u \in Nat /\ u > instant /\ u < t
      BY <2>3
    <3>2. PICK j \in Nat : u = Candidate(time, instant, j)
      BY <2>4, <3>1, CandidateCovers DEF Occurs
    <3>3. CASE j >= k
      BY <2>2, <2>3, <3>1, <3>2, <3>3, CandidateOrder, CandidateFacts
    <3>4. CASE j < k
      <4>1. j = 0 /\ k = 1
        BY <2>3, <3>4
      <4>2. QED
        BY <2>2, <3>1, <3>2, <4>1, CandidateFacts
    <3>5. QED
      BY <2>3, <3>3, <3>4
  <2>5. QED
    BY <2>2, <2>3, <2>4 DEF IsNextOccurrence, t
<1>2. CASE repeatDays # {}
  <2> DEFINE k == FirstHit(time, repeatDays, instant)
  <2>1. /\ k \in Hits(time, repeatDays, instant)
        /\ \A j \in Hits(time, repeatDays, instant) : k <= j
        /\ t = Candidate(time, instant, k)
    BY <1>2, FirstHitFacts DEF NextTrigger
  <2>2. /\ k \in Nat /\ k <= DaysPerWeek
        /\ DayOfWeek(t) \in repeatDays
        /\ t > instant
    BY <2>1, DaysPerWeekAssumption DEF Hits
  <2>3. t \in Nat /\ Occurs(time, repeatDays, t)
    BY <2>1, <2>2, CandidateFacts DEF Occurs
  <2>4. ASSUME NEW u \in instant + 1 .. t - 1, Occurs(time, repeatDays, u) PROVE FALSE
    <3>1. u \in Nat /\ u > instant /\ u < t
      BY <2>3
    <3>2. PICK j \in Nat : u = Candidate(time, instant, j)
      BY <2>4, <3>1, CandidateCovers DEF Occurs
    <3>3. j < k
      <4>1. SUFFICES ASSUME j >= k PROVE FALSE
        BY <2>2
      <4>2. k = j \/ k < j
        BY <2>2, <4>1
      <4>3. t <= u
        BY <2>1, <2>2, <2>3, <3>1, <3>2, <4>2, CandidateOrder
      <4>4. QED
        BY <2>3, <3>1, <4>3
    <3>4. j \in Hits(time, repeatDays, instant)
      BY <1>2, <2>2, <2>4, <3>1, <3>2, <3>3, DaysPerWeekAssumption DEF Hits, Occurs
    <3>5. QED
      BY <2>1, <2>2, <3>3, <3>4
  <2>5. QED
    BY <2>2, <2>3, <2>4 DEF IsNextOccurrence
<1>3. QED
  BY <1>1, <1>2

\* Tomorrow and later days need no comparison with the present: both scans stop at the same
\* day.
LEMMA ServerHitsAreHits ==
  ASSUME NEW time \in TimesOfDay, NEW instant \in Nat, NEW repeatDays \in SUBSET Weekdays
  PROVE  ServerHits(time, repeatDays, instant) = Hits(time, repeatDays, instant)
<1>1. ASSUME NEW k \in 0 .. DaysPerWeek
      PROVE  /\ DayOfWeek(Candidate(time, instant, k)) = (DayOf(instant) + k) % DaysPerWeek
             /\ Candidate(time, instant, k) > instant <=> (k = 0 => Candidate(time, instant, k) > instant)
  <2>1. k \in Nat /\ (k # 0 => k >= 1)
    BY DaysPerWeekAssumption
  <2>2. DayOf(Candidate(time, instant, k)) = DayOf(instant) + k
    BY <2>1, CandidateFacts
  <2>3. k # 0 => Candidate(time, instant, k) > instant
    BY <2>1, CandidateOrder
  <2>4. QED
    BY <2>2, <2>3 DEF DayOfWeek
<1>2. QED
  BY <1>1 DEF ServerHits, Hits

\* alarms.service.ts:343 computeNextTriggerAt: where no clock changes, the server's
\* next_trigger_at is the instant the phone arms, and it is never null.
THEOREM ServerAgreesWithPhone ==
  ASSUME NEW time \in TimesOfDay, NEW instant \in Nat, NEW repeatDays \in SUBSET Weekdays,
         NEW null
  PROVE  ServerNextTrigger(time, repeatDays, instant, null) = NextTrigger(time, repeatDays, instant)
<1>1. CASE repeatDays = {}
  BY <1>1 DEF ServerNextTrigger, NextTrigger
<1>2. CASE repeatDays # {}
  <2>1. ServerHits(time, repeatDays, instant) = Hits(time, repeatDays, instant)
    BY ServerHitsAreHits
  <2>2. Hits(time, repeatDays, instant) # {}
    BY <1>2, FirstHitFacts
  <2>3. QED
    BY <1>2, <2>1, <2>2 DEF ServerNextTrigger, NextTrigger, FirstHit
<1>3. QED
  BY <1>1, <1>2

-----------------------------------------------------------------------------
(* What arming an alarm computes.                                           *)

\* A week has days, and days have ticks.
LEMMA WeekFacts == WeekLength \in Nat \ {0}
  BY DayLengthAssumption, DaysPerWeekAssumption, ProductFacts DEF WeekLength

\* The next trigger is a natural number.
LEMMA NextTriggerNat ==
  ASSUME NEW time \in TimesOfDay, NEW t \in Nat, NEW repeatDays \in SUBSET Weekdays
  PROVE  NextTrigger(time, repeatDays, t) \in Nat
<1>1. Candidate(time, t, 0) \in Nat /\ Candidate(time, t, 1) \in Nat
  BY CandidateFacts
<1>2. CASE repeatDays = {}
  BY <1>1, <1>2 DEF NextTrigger
<1>3. CASE repeatDays # {}
  <2>1. FirstHit(time, repeatDays, t) \in Nat
    BY <1>3, FirstHitFacts, DaysPerWeekAssumption DEF Hits
  <2>2. Candidate(time, t, FirstHit(time, repeatDays, t)) \in Nat
    BY <2>1, CandidateFacts
  <2>3. QED
    BY <1>1, <1>3, <2>2 DEF NextTrigger
<1>4. QED
  BY <1>2, <1>3

\* Arming an alarm sets its trigger at least one tick ahead, on its next occurrence.
LEMMA DelayFacts ==
  ASSUME TypeOK, NEW c \in Configs
  PROVE  /\ Delay(c) \in Nat \ {0}
         /\ Occurs(c.time, c.repeatDays, now + Delay(c))
         /\ \A u \in now + 1 .. now + Delay(c) - 1 : ~ Occurs(c.time, c.repeatDays, u)
<1> DEFINE t == NextTrigger(c.time, c.repeatDays, now)
<1>1. c.time \in TimesOfDay /\ c.repeatDays \in SUBSET Weekdays
  BY ConfigsAssumption
<1>2. now \in Nat
  BY WeekFacts DEF TypeOK
<1>3. t \in Nat
  BY <1>1, <1>2, NextTriggerNat
<1>4. IsNextOccurrence(c.time, c.repeatDays, now, t)
  BY <1>1, <1>2, NextTriggerIsNextOccurrence
<1>5. Delay(c) \in Nat \ {0} /\ now + Delay(c) = t
  BY <1>2, <1>3, <1>4 DEF Delay, IsNextOccurrence
<1> HIDE DEF t
<1>6. QED
  BY <1>2, <1>3, <1>4, <1>5 DEF IsNextOccurrence

\* A configuration that is in the store and is not the default is one Dart scheduled.
LEMMA ActiveConfig ==
  ASSUME TypeOK, NEW a \in Alarms, Active(a)
  PROVE  store[a] \in Configs
  BY DEF TypeOK, Active, Stored

-----------------------------------------------------------------------------
(* Type correctness.                                                        *)

\* What the service is sent is a message.
LEMMA MessagesTyped ==
  /\ \A a \in Alarms : Message("START_RINGING", a) \in Messages
  /\ \A a \in Alarms : Message("STOP_RINGING", a) \in Messages
  /\ Message("DESTROY", None) \in Messages
  /\ Message("STICKY_RESTART", None) \in Messages
  /\ <<>> \in Seq(Messages)
  BY DEF Message, Messages

\* What the event bridge keeps is an event or none.
LEMMA EmitType ==
  ASSUME TypeOK, NEW type \in EventTypes, NEW a \in Alarms, Emit(type, a)
  PROVE  pendingEvent' \in Events \cup {NoEvent}
  BY DEF TypeOK, Emit, Events

\* A mailbox that is not empty has a first message and a rest.
LEMMA MailboxHead ==
  ASSUME TypeOK, mailbox # <<>>
  PROVE  Head(mailbox) \in Messages /\ Tail(mailbox) \in Seq(Messages)
  BY DEF TypeOK

\* The messages that outlive a killed process are messages.
LEMMA RedeliveredType ==
  ASSUME TypeOK
  PROVE  Redelivered \in Seq(Messages)
<1>1. CASE Pending("DESTROY")
  <2>1. mailbox \in Seq(Messages) /\ DestroyIndex \in 1 .. Len(mailbox)
    BY <1>1 DEF TypeOK, Pending, DestroyIndex
  <2>2. \A j \in DestroyIndex + 1 .. Len(mailbox) : mailbox[j] \in Messages
    BY <2>1
  <2>3. SubSeq(mailbox, DestroyIndex + 1, Len(mailbox)) \in Seq(Messages)
    BY <2>1, <2>2, SubSeqProperties, LenProperties
  <2>4. QED
    BY <1>1, <2>3 DEF Redelivered
<1>2. CASE ~ Pending("DESTROY") /\ Pending("STICKY_RESTART")
  <2>1. mailbox # <<>>
    BY <1>2 DEF Pending
  <2>2. Redelivered = Tail(mailbox)
    BY <1>2 DEF Redelivered
  <2>3. QED
    BY <2>1, <2>2, MailboxHead
<1>3. CASE ~ Pending("DESTROY") /\ ~ Pending("STICKY_RESTART")
  BY <1>3 DEF Redelivered, TypeOK
<1>4. QED
  BY <1>1, <1>2, <1>3

\* The first state has the types.
LEMMA TypeInit == Init => TypeOK
  BY MessagesTyped DEF Init, TypeOK, NotArmed

\* Every step keeps the types.
LEMMA TypeStep == TypeOK /\ [Next]_vars => TypeOK'
<1> SUFFICES ASSUME TypeOK, [Next]_vars PROVE TypeOK'
  OBVIOUS
<1> USE DEF NotArmed
<1>1. ASSUME NEW a \in Alarms, NEW c \in Configs, Schedule(a, c) PROVE TypeOK'
  BY <1>1, DelayFacts
  DEF TypeOK, Schedule, osVars, serviceVars, bridgeVars
<1>2. ASSUME NEW a \in Alarms, Cancel(a) PROVE TypeOK'
  BY <1>2 DEF TypeOK, Cancel, osVars, serviceVars, bridgeVars
<1>3. ASSUME NEW a \in Alarms, NEW d \in SnoozeDelays, Snooze(a, d) PROVE TypeOK'
  <2>1. mailbox' \in Seq(Messages)
    BY <1>3, MessagesTyped DEF TypeOK, Snooze
  <2>2. pendingEvent' \in Events \cup {NoEvent}
    BY <1>3, EmitType DEF Snooze, EventTypes
  <2>3. trigger' \in [Alarms -> Nat \cup {NotArmed}] /\ snoozed' \in SUBSET Alarms
    BY <1>3, SnoozeDelaysAssumption DEF TypeOK, Snooze
  <2>4. QED
    BY <1>3, <2>1, <2>2, <2>3 DEF TypeOK, Snooze, osVars, serviceVars
<1>4. ASSUME NEW a \in Alarms, Stop(a) PROVE TypeOK'
  <2>1. mailbox' \in Seq(Messages)
    BY <1>4, MessagesTyped DEF TypeOK, Stop
  <2>2. pendingEvent' \in Events \cup {NoEvent}
    BY <1>4, EmitType DEF Stop, EventTypes
  <2>3. QED
    BY <1>4, <2>1, <2>2 DEF TypeOK, Stop, schedulingVars, osVars, serviceVars
<1>5. ASSUME Listen PROVE TypeOK'
  BY <1>5 DEF TypeOK, Listen, schedulingVars, osVars, serviceVars
<1>6. ASSUME CancelListen PROVE TypeOK'
  BY <1>6 DEF TypeOK, CancelListen, schedulingVars, osVars, serviceVars
<1>7. ASSUME Tick PROVE TypeOK'
  <2>1. now' \in 0 .. WeekLength - 1
    BY <1>7, WeekFacts, Division DEF TypeOK, Tick
  <2>2. trigger' \in [Alarms -> Nat \cup {NotArmed}]
    BY <1>7 DEF TypeOK, Tick, Armed
  <2>3. QED
    BY <1>7, <2>1, <2>2 DEF TypeOK, Tick, serviceVars, bridgeVars
<1>8. ASSUME NEW a \in Alarms, Fire(a) PROVE TypeOK'
  BY <1>8 DEF TypeOK, Fire, serviceVars, bridgeVars
<1>9. ASSUME NEW a \in Alarms, Receive(a) PROVE TypeOK'
  <2>1. CASE Active(a)
    <3>1. mailbox' = Append(mailbox, Message("START_RINGING", a))
      BY <1>9, <2>1 DEF Receive
    <3>2. mailbox' \in Seq(Messages)
      BY <3>1, MessagesTyped DEF TypeOK
    <3>3. store[a] \in Configs /\ Delay(store[a]) \in Nat
      BY <2>1, ActiveConfig, DelayFacts
    <3>4. trigger' \in [Alarms -> Nat \cup {NotArmed}] /\ snoozed' \in SUBSET Alarms
      BY <1>9, <2>1, <3>3 DEF TypeOK, Receive
    <3>5. QED
      BY <1>9, <3>2, <3>4 DEF TypeOK, Receive, serviceVars, bridgeVars
  <2>2. CASE ~ Active(a)
    BY <1>9, <2>2 DEF TypeOK, Receive, serviceVars, bridgeVars
  <2>3. QED
    BY <2>1, <2>2
<1>10. ASSUME Boot PROVE TypeOK'
  <2>1. trigger' \in [Alarms -> Nat \cup {NotArmed}] /\ snoozed' \in SUBSET Alarms
    BY <1>10, ActiveConfig, DelayFacts DEF TypeOK, Boot
  <2>2. QED
    BY <1>10, <2>1 DEF TypeOK, Boot, serviceVars, bridgeVars
<1>11. ASSUME OnStartRinging PROVE TypeOK'
  <2>1. Head(mailbox).alarmId \in Alarms /\ mailbox' \in Seq(Messages)
    BY <1>11, MailboxHead DEF OnStartRinging, Messages
  <2>2. pendingEvent' \in Events \cup {NoEvent}
    BY <1>11, <2>1, EmitType DEF OnStartRinging, EventTypes
  <2>3. /\ currentAlarmId' \in Alarms /\ orphans' \in SUBSET Alarms
        /\ mediaPlayer' \in Alarms \cup {None}
    BY <1>11, <2>1 DEF TypeOK, OnStartRinging
  <2>4. QED
    BY <1>11, <2>1, <2>2, <2>3 DEF TypeOK, OnStartRinging, schedulingVars, osVars
<1>12. ASSUME OnStopRinging PROVE TypeOK'
  <2>1. mailbox' \in Seq(Messages)
    BY <1>12, MailboxHead, MessagesTyped DEF OnStopRinging
  <2>2. pendingEvent' \in Events \cup {NoEvent}
    BY <1>12, EmitType DEF TypeOK, OnStopRinging, StopRinging, EventTypes
  <2>3. QED
    BY <1>12, <2>1, <2>2 DEF TypeOK, OnStopRinging, StopRinging, schedulingVars, osVars
<1>13. ASSUME OnDestroy PROVE TypeOK'
  <2>1. mailbox' \in Seq(Messages)
    BY <1>13, MailboxHead DEF OnDestroy
  <2>2. pendingEvent' \in Events \cup {NoEvent}
    BY <1>13, EmitType DEF TypeOK, OnDestroy, StopRinging, EventTypes
  <2>3. QED
    BY <1>13, <2>1, <2>2 DEF TypeOK, OnDestroy, StopRinging, schedulingVars, osVars
<1>14. ASSUME OnStickyRestart PROVE TypeOK'
  <2>1. mailbox' \in Seq(Messages)
    BY <1>14, MailboxHead DEF OnStickyRestart
  <2>2. QED
    BY <1>14, <2>1 DEF TypeOK, OnStickyRestart, schedulingVars, osVars, bridgeVars
<1>15. ASSUME NEW a \in Alarms, CollectOrphan(a) PROVE TypeOK'
  BY <1>15 DEF TypeOK, CollectOrphan, schedulingVars, osVars, bridgeVars
<1>16. ASSUME ProcessDeath PROVE TypeOK'
  <2>1. mailbox' \in Seq(Messages)
    BY <1>16, RedeliveredType, MessagesTyped DEF ProcessDeath
  <2>2. QED
    BY <1>16, <2>1 DEF TypeOK, ProcessDeath, MemoryLost, schedulingVars, osVars
<1>17. ASSUME AppUpdated PROVE TypeOK'
  BY <1>17, MessagesTyped DEF TypeOK, AppUpdated, MemoryLost, schedulingVars
<1>18. ASSUME PowerOff PROVE TypeOK'
  BY <1>18, MessagesTyped DEF TypeOK, PowerOff, MemoryLost
<1>19. ASSUME PowerOn PROVE TypeOK'
  BY <1>19 DEF TypeOK, PowerOn, schedulingVars, serviceVars, bridgeVars
<1>20. ASSUME UNCHANGED vars PROVE TypeOK'
  BY <1>20 DEF TypeOK, vars, schedulingVars, osVars, serviceVars, bridgeVars
<1>21. QED
  BY <1>1, <1>2, <1>3, <1>4, <1>5, <1>6, <1>7, <1>8, <1>9, <1>10, <1>11, <1>12, <1>13, <1>14,
     <1>15, <1>16, <1>17, <1>18, <1>19, <1>20 DEF Next

\* Every variable keeps its type in every behaviour.
THEOREM TypeCorrect == Spec => []TypeOK
<1>1. QED
  BY TypeInit, TypeStep, PTL DEF Spec

-----------------------------------------------------------------------------
(* The triggers.                                                            *)

TriggerInv ==
  RepeatingStaysArmed /\ NoTriggerOutlivesItsAlarm /\ ArmedForNextOccurrence

\* What an alarm falls due at repeats every week.
LEMMA OccursWeekly ==
  ASSUME NEW time, NEW repeatDays, NEW t \in Nat
  PROVE  Occurs(time, repeatDays, t + WeekLength) <=> Occurs(time, repeatDays, t)
<1> DEFINE q == t \div DayLength
           r == t % DayLength
<1>1. q \in Nat /\ r \in 0 .. DayLength - 1 /\ t = DayLength * q + r
  BY DayLengthAssumption, Division
<1>2. t + WeekLength = DayLength * (q + DaysPerWeek) + r
  <2>1. DayLength * (q + DaysPerWeek) = DayLength * q + DayLength * DaysPerWeek
    BY <1>1, DayLengthAssumption, DaysPerWeekAssumption, ProductFacts
  <2>2. WeekLength = DayLength * DaysPerWeek /\ WeekLength \in Nat
    BY DayLengthAssumption, DaysPerWeekAssumption, WeekFacts DEF WeekLength
  <2>3. DayLength * q \in Nat
    BY <1>1, DayLengthAssumption, ProductFacts
  <2> HIDE DEF q, r
  <2>4. QED
    BY <1>1, <2>1, <2>2, <2>3
<1>3. q + DaysPerWeek \in Nat
  BY <1>1, DaysPerWeekAssumption
<1>4. (t + WeekLength) \div DayLength = q + DaysPerWeek /\ (t + WeekLength) % DayLength = r
  BY <1>1, <1>2, <1>3, DayLengthAssumption, DivisionUnique
<1>5. (q + DaysPerWeek) % DaysPerWeek = q % DaysPerWeek
  <2> DEFINE p == q \div DaysPerWeek
             m == q % DaysPerWeek
  <2>1. q = DaysPerWeek * p + m /\ p \in Nat /\ m \in 0 .. DaysPerWeek - 1
    BY <1>1, DaysPerWeekAssumption, Division
  <2> HIDE DEF p, m, q, r
  <2>2. /\ DaysPerWeek * (p + 1) = DaysPerWeek * p + DaysPerWeek
        /\ DaysPerWeek * p \in Nat /\ p + 1 \in Nat
    BY <2>1, DaysPerWeekAssumption, ProductFacts
  <2>3. q + DaysPerWeek = DaysPerWeek * (p + 1) + m
    BY <2>1, <2>2, DaysPerWeekAssumption
  <2>4. (DaysPerWeek * (p + 1) + m) % DaysPerWeek = m
    BY <2>1, <2>2, DaysPerWeekAssumption, DivisionUnique
  <2>5. QED
    BY <2>3, <2>4 DEF m
<1>6. QED
  BY <1>4, <1>5 DEF Occurs, DayOfWeek, DayOf

\* Armed for the next occurrence of c, d ticks ahead of the instant t.
NextAfter(c, t, d) ==
  /\ Occurs(c.time, c.repeatDays, t + d)
  /\ \A u \in t + 1 .. t + d - 1 : ~ Occurs(c.time, c.repeatDays, u)

\* The clock's step brings the next occurrence one tick nearer, round the end of the week too.
LEMMA NextAfterTick ==
  ASSUME NEW c, NEW t \in 0 .. WeekLength - 1, NEW d \in Nat \ {0}, NextAfter(c, t, d)
  PROVE  NextAfter(c, (t + 1) % WeekLength, d - 1)
<1>1. CASE t + 1 < WeekLength
  <2>1. (t + 1) % WeekLength = t + 1
    BY <1>1, WeekFacts
  <2>2. QED
    BY <2>1, WeekFacts DEF NextAfter
<1>2. CASE t + 1 = WeekLength
  <2>1. (t + 1) % WeekLength = 0
    BY <1>2, WeekFacts
  <2>2. Occurs(c.time, c.repeatDays, d - 1)
    <3>1. d - 1 \in Nat /\ t + d = (d - 1) + WeekLength
      BY <1>2, WeekFacts
    <3>2. Occurs(c.time, c.repeatDays, (d - 1) + WeekLength)
      BY <3>1 DEF NextAfter
    <3>3. QED
      BY <3>1, <3>2, OccursWeekly
  <2>3. ASSUME NEW u \in 1 .. d - 2 PROVE ~ Occurs(c.time, c.repeatDays, u)
    <3>1. u \in Nat /\ u + WeekLength \in t + 1 .. t + d - 1
      BY <1>2, WeekFacts
    <3>2. ~ Occurs(c.time, c.repeatDays, u + WeekLength)
      BY <3>1 DEF NextAfter
    <3>3. QED
      BY <3>1, <3>2, OccursWeekly
  <2>4. QED
    BY <2>1, <2>2, <2>3 DEF NextAfter
<1>3. QED
  BY <1>1, <1>2, WeekFacts

\* The delay an active alarm is armed with leads to its next occurrence.
LEMMA ArmedNext ==
  ASSUME TypeOK, NEW a \in Alarms, Active(a)
  PROVE  /\ Delay(store[a]) \in Nat \ {0}
         /\ NextAfter(store[a], now, Delay(store[a]))
  BY ActiveConfig, DelayFacts DEF NextAfter

\* The invariant restated per alarm, for the proof of its steps.
AlarmArmed(a) ==
  /\ powered /\ ~ bootPending /\ Active(a) /\ Repeats(a) => Armed(a) \/ a \in inFlight
  /\ Armed(a) => Stored(a)
  /\ Armed(a) /\ a \notin snoozed => Active(a) /\ NextAfter(store[a], now, trigger[a])

\* The invariant of the triggers says the same of each alarm.
LEMMA TriggerInvByAlarm == TriggerInv <=> \A a \in Alarms : AlarmArmed(a)
  BY DEF TriggerInv, AlarmArmed, RepeatingStaysArmed, NoTriggerOutlivesItsAlarm,
         ArmedForNextOccurrence, NextAfter

\* ... and after a step.
LEMMA TriggerInvByAlarmPrime == TriggerInv' <=> \A a \in Alarms : AlarmArmed(a)'
  BY DEF TriggerInv, AlarmArmed, RepeatingStaysArmed, NoTriggerOutlivesItsAlarm,
         ArmedForNextOccurrence, NextAfter

\* The triggers are right at first.
LEMMA TriggerInit == Init => TriggerInv
  BY DEF Init, TriggerInv, RepeatingStaysArmed, NoTriggerOutlivesItsAlarm,
         ArmedForNextOccurrence, Armed, Active, Stored, NotArmed, Unset

\* Every step keeps the triggers right.
LEMMA TriggerStep ==
  ASSUME TypeOK, TriggerInv, [Next]_vars
  PROVE  TriggerInv'
<1> SUFFICES ASSUME NEW b \in Alarms PROVE AlarmArmed(b)'
  BY TriggerInvByAlarmPrime
<1>0. AlarmArmed(b)
  BY TriggerInvByAlarm
<1> USE DEF AlarmArmed, Armed, Active, Stored, Repeats
\* A step that leaves an alarm's store entry, trigger and surroundings alone.
<1>a. ASSUME /\ store'[b] = store[b] /\ trigger'[b] = trigger[b]
             /\ (b \in snoozed') = (b \in snoozed)
             /\ now' = now
             /\ powered' /\ ~ bootPending' => powered /\ ~ bootPending
             /\ b \in inFlight => b \in inFlight'
      PROVE  AlarmArmed(b)'
  BY <1>0, <1>a DEF NextAfter, Occurs
<1>1. ASSUME NEW a \in Alarms, NEW c \in Configs, Schedule(a, c) PROVE AlarmArmed(b)'
  <2>1. CASE b = a
    <3>1. /\ store'[a] = c /\ a \notin snoozed' /\ now' = now
          /\ trigger'[a] = IF c.isActive THEN Delay(c) ELSE NotArmed
      BY <1>1 DEF Schedule, osVars, TypeOK
    <3>2. Delay(c) \in Nat \ {0} /\ NextAfter(c, now, Delay(c))
      BY DelayFacts DEF NextAfter
    <3>3. c # Unset
      BY ConfigsAssumption DEF Unset, TimesOfDay
    <3>4. QED
      BY <2>1, <3>1, <3>2, <3>3 DEF NotArmed, NextAfter, Occurs
  <2>2. CASE b # a
    BY <1>1, <1>a, <2>2 DEF Schedule, osVars, TypeOK
  <2>3. QED
    BY <2>1, <2>2
<1>2. ASSUME NEW a \in Alarms, Cancel(a) PROVE AlarmArmed(b)'
  <2>1. CASE b = a
    BY <1>2, <2>1 DEF Cancel, TypeOK, Unset
  <2>2. CASE b # a
    BY <1>2, <1>a, <2>2 DEF Cancel, osVars, TypeOK
  <2>3. QED
    BY <2>1, <2>2
<1>3. ASSUME NEW a \in Alarms, NEW d \in SnoozeDelays, Snooze(a, d) PROVE AlarmArmed(b)'
  <2>1. CASE b = a /\ Stored(a)
    <3>1. /\ store' = store /\ trigger'[a] = d /\ a \in snoozed'
      BY <1>3, <2>1 DEF Snooze, TypeOK
    <3>2. d # NotArmed
      BY SnoozeDelaysAssumption DEF NotArmed
    <3>3. QED
      BY <2>1, <3>1, <3>2
  <2>2. CASE ~ (b = a /\ Stored(a))
    BY <1>3, <1>a, <2>2 DEF Snooze, osVars, TypeOK
  <2>3. QED
    BY <2>1, <2>2
<1>4. CASE Tick
  <2>1. CASE ~ Armed(b)
    BY <1>0, <1>4, <2>1 DEF Tick, TypeOK
  <2>2. CASE Armed(b)
    <3>1. trigger[b] \in Nat \ {0} /\ trigger'[b] = trigger[b] - 1
      BY <1>4, <2>2 DEF Tick, TypeOK
    <3>2. trigger'[b] # NotArmed
      BY <3>1 DEF NotArmed
    <3>3. /\ store' = store /\ snoozed' = snoozed /\ now' = (now + 1) % WeekLength
          /\ now \in 0 .. WeekLength - 1
      BY <1>4 DEF Tick, TypeOK
    <3>4. CASE b \in snoozed
      BY <1>0, <2>2, <3>2, <3>3, <3>4
    <3>5. CASE b \notin snoozed
      <4>1. NextAfter(store[b], now', trigger'[b])
        BY <1>0, <2>2, <3>1, <3>3, <3>5, NextAfterTick
      <4>2. QED
        BY <1>0, <2>2, <3>2, <3>3, <4>1 DEF NextAfter, Occurs
    <3>6. QED
      BY <3>4, <3>5
  <2>3. QED
    BY <2>1, <2>2
<1>5. ASSUME NEW a \in Alarms, Fire(a) PROVE AlarmArmed(b)'
  <2>1. CASE b = a
    BY <1>5, <2>1 DEF Fire, TypeOK
  <2>2. CASE b # a
    BY <1>5, <1>a, <2>2 DEF Fire, TypeOK
  <2>3. QED
    BY <2>1, <2>2
<1>6. ASSUME NEW a \in Alarms, Receive(a) PROVE AlarmArmed(b)'
  <2>1. CASE b = a /\ Active(a) /\ Repeats(a)
    <3>1. /\ store' = store /\ trigger'[a] = Delay(store[a]) /\ a \notin snoozed' /\ now' = now
      BY <1>6, <2>1 DEF Receive, TypeOK
    <3>2. QED
      BY <2>1, <3>1, ArmedNext DEF NotArmed, NextAfter, Occurs
  <2>2. CASE b = a /\ ~ (Active(a) /\ Repeats(a))
    <3>1. store' = store /\ trigger' = trigger /\ snoozed' = snoozed /\ now' = now
      BY <1>6, <2>2 DEF Receive
    <3>2. QED
      BY <1>0, <2>2, <3>1 DEF NextAfter, Occurs
  <2>3. CASE b # a
    BY <1>6, <1>a, <2>3 DEF Receive, TypeOK
  <2>4. QED
    BY <2>1, <2>2, <2>3
<1>7. CASE Boot
  <2>1. store' = store /\ now' = now /\ inFlight' = inFlight
    BY <1>7 DEF Boot
  <2>2. CASE Active(b)
    <3>1. trigger'[b] = Delay(store[b]) /\ b \notin snoozed'
      BY <1>7, <2>2 DEF Boot
    <3>2. QED
      BY <2>1, <2>2, <3>1, ArmedNext DEF NotArmed, NextAfter, Occurs
  <2>3. CASE ~ Active(b)
    <3>1. trigger'[b] = trigger[b] /\ (b \in snoozed') = (b \in snoozed)
      BY <1>7, <2>3 DEF Boot
    <3>2. QED
      BY <1>0, <2>1, <2>3, <3>1
  <2>4. QED
    BY <2>2, <2>3
<1>8. CASE PowerOff
  BY <1>8 DEF PowerOff
\* The other steps touch neither store nor triggers.
<1>9. CASE (\E a \in Alarms : Stop(a)) \/ Listen \/ CancelListen
  BY <1>9, <1>a DEF Stop, Listen, CancelListen, schedulingVars, osVars
<1>10. CASE OnStartRinging \/ OnStopRinging \/ OnDestroy \/ OnStickyRestart
            \/ (\E a \in Alarms : CollectOrphan(a))
  BY <1>10, <1>a DEF OnStartRinging, OnStopRinging, OnDestroy, OnStickyRestart,
     CollectOrphan, schedulingVars, osVars
<1>11. CASE ProcessDeath \/ AppUpdated \/ PowerOn
  BY <1>11, <1>a DEF ProcessDeath, AppUpdated, PowerOn, schedulingVars, osVars
<1>12. CASE UNCHANGED vars
  BY <1>12, <1>a DEF vars, schedulingVars, osVars
<1>13. QED
  BY <1>1, <1>2, <1>3, <1>4, <1>5, <1>6, <1>7, <1>8, <1>9, <1>10, <1>11, <1>12 DEF Next

\* An active repeating alarm is never left without a trigger while the phone is on.
THEOREM RepeatingAlarmsStayArmed == Spec => []RepeatingStaysArmed
<1>1. TypeOK /\ TriggerInv /\ [Next]_vars => TriggerInv'
  BY TriggerStep
<1>2. TriggerInv => RepeatingStaysArmed
  BY DEF TriggerInv
<1>3. QED
  BY <1>1, <1>2, TriggerInit, TypeCorrect, PTL DEF Spec

\* A cancelled alarm has no trigger that could still go off.
THEOREM NoStaleTrigger == Spec => []NoTriggerOutlivesItsAlarm
<1>1. TypeOK /\ TriggerInv /\ [Next]_vars => TriggerInv'
  BY TriggerStep
<1>2. TriggerInv => NoTriggerOutlivesItsAlarm
  BY DEF TriggerInv
<1>3. QED
  BY <1>1, <1>2, TriggerInit, TypeCorrect, PTL DEF Spec

\* Every trigger but a snooze is for the very next occurrence of the stored configuration.
THEOREM TriggersAreNextOccurrences == Spec => []ArmedForNextOccurrence
<1>1. TypeOK /\ TriggerInv /\ [Next]_vars => TriggerInv'
  BY TriggerStep
<1>2. TriggerInv => ArmedForNextOccurrence
  BY DEF TriggerInv
<1>3. QED
  BY <1>1, <1>2, TriggerInit, TypeCorrect, PTL DEF Spec

-----------------------------------------------------------------------------
(* The mailbox of the service.                                              *)

\* A message of a shortened mailbox is a message of the mailbox.
LEMMA TailMessages ==
  ASSUME TypeOK, mailbox # <<>>, NEW i \in 1 .. Len(Tail(mailbox))
  PROVE  i + 1 \in 1 .. Len(mailbox) /\ Tail(mailbox)[i] = mailbox[i + 1]
  BY DEF TypeOK

\* A restart of the service redelivers only messages that were sent.
LEMMA RedeliveredMessages ==
  ASSUME TypeOK, NEW i \in 1 .. Len(Redelivered)
  PROVE  \E j \in 1 .. Len(mailbox) : j >= i /\ Redelivered[i] = mailbox[j]
<1>1. CASE Pending("DESTROY")
  <2>1. mailbox \in Seq(Messages) /\ DestroyIndex \in 1 .. Len(mailbox)
    BY <1>1 DEF TypeOK, Pending, DestroyIndex
  <2>2. Redelivered = SubSeq(mailbox, DestroyIndex + 1, Len(mailbox))
    BY <1>1 DEF Redelivered
  <2>3. /\ Len(Redelivered) = Len(mailbox) - DestroyIndex
        /\ Redelivered[i] = mailbox[i + DestroyIndex]
    BY <2>1, <2>2, SubSeqProperties, LenProperties
  <2>4. Len(mailbox) \in Nat /\ i \in 1 .. Len(mailbox) - DestroyIndex
    BY <2>1, <2>3, LenProperties
  <2>5. i + DestroyIndex \in 1 .. Len(mailbox) /\ i + DestroyIndex >= i
    BY <2>1, <2>4
  <2>6. QED
    BY <2>3, <2>5
<1>2. CASE ~ Pending("DESTROY") /\ Pending("STICKY_RESTART")
  <2>1. mailbox # <<>> /\ Redelivered = Tail(mailbox)
    BY <1>2 DEF Redelivered, Pending
  <2>2. QED
    BY <2>1, TailMessages
<1>3. CASE ~ Pending("DESTROY") /\ ~ Pending("STICKY_RESTART")
  BY <1>3 DEF Redelivered
<1>4. QED
  BY <1>1, <1>2, <1>3

\* An alarm's broadcast or its start message is on the way.
StartQueued(a) == \E i \in 1 .. Len(mailbox) : mailbox[i] = Message("START_RINGING", a)
Delivering(a)  == a \in inFlight \/ StartQueued(a)

\* One ring per occurrence says the same of each alarm.
LEMMA OneRingByAlarm ==
  OneRingPerOccurrence <=> \A a \in Alarms : Delivering(a) => trigger[a] # 0
  BY DEF OneRingPerOccurrence, Delivering, StartQueued

\* ... and after a step.
LEMMA OneRingByAlarmPrime ==
  OneRingPerOccurrence' <=> \A a \in Alarms : Delivering(a)' => trigger'[a] # 0
  BY DEF OneRingPerOccurrence, Delivering, StartQueued

\* Nothing is on its way at first.
LEMMA OneRingInit == Init => OneRingPerOccurrence
  BY DEF Init, OneRingPerOccurrence, NotArmed

\* Every step keeps an alarm whose message is on its way from being due.
LEMMA OneRingStep ==
  ASSUME TypeOK, OneRingPerOccurrence, [Next]_vars
  PROVE  OneRingPerOccurrence'
<1> SUFFICES ASSUME NEW b \in Alarms, Delivering(b)' PROVE trigger'[b] # 0
  BY OneRingByAlarmPrime
<1>0. Delivering(b) => trigger[b] # 0
  BY OneRingByAlarm
<1>m. mailbox \in Seq(Messages)
  BY DEF TypeOK
\* A step that sets no trigger of b and starts no delivery of b.
<1>a. ASSUME trigger'[b] = trigger[b], inFlight' = inFlight, StartQueued(b)' => StartQueued(b)
      PROVE  trigger'[b] # 0
  BY <1>0, <1>a DEF Delivering
<1>b. ASSUME mailbox # <<>>, mailbox' = Tail(mailbox) PROVE StartQueued(b)' => StartQueued(b)
  BY <1>b, TailMessages DEF StartQueued
<1>c. ASSUME NEW m \in Messages, m # Message("START_RINGING", b), mailbox' = Append(mailbox, m)
      PROVE  StartQueued(b)' => StartQueued(b)
  BY <1>c, <1>m DEF StartQueued
<1>1. ASSUME NEW a \in Alarms, NEW c \in Configs, Schedule(a, c) PROVE trigger'[b] # 0
  <2>1. CASE b = a
    BY <1>1, <2>1, DelayFacts DEF Schedule, TypeOK, NotArmed
  <2>2. CASE b # a
    BY <1>1, <1>a, <2>2 DEF Schedule, osVars, TypeOK, StartQueued
  <2>3. QED
    BY <2>1, <2>2
<1>2. ASSUME NEW a \in Alarms, Cancel(a) PROVE trigger'[b] # 0
  <2>1. CASE b = a
    BY <1>2, <2>1 DEF Cancel, TypeOK, NotArmed
  <2>2. CASE b # a
    BY <1>2, <1>a, <2>2 DEF Cancel, osVars, TypeOK, StartQueued
  <2>3. QED
    BY <2>1, <2>2
<1>3. ASSUME NEW a \in Alarms, NEW d \in SnoozeDelays, Snooze(a, d) PROVE trigger'[b] # 0
  <2>1. StartQueued(b)' => StartQueued(b)
    BY <1>3, <1>c, MessagesTyped DEF Snooze, Message
  <2>2. CASE b = a /\ Stored(a)
    BY <1>3, <2>2, SnoozeDelaysAssumption DEF Snooze, TypeOK
  <2>3. CASE ~ (b = a /\ Stored(a))
    BY <1>3, <1>a, <2>1, <2>3 DEF Snooze, osVars, TypeOK
  <2>4. QED
    BY <2>2, <2>3
<1>4. ASSUME NEW a \in Alarms, Stop(a) PROVE trigger'[b] # 0
  <2>1. StartQueued(b)' => StartQueued(b)
    BY <1>4, <1>c, MessagesTyped DEF Stop, Message
  <2>2. QED
    BY <1>4, <1>a, <2>1 DEF Stop, schedulingVars, osVars
<1>5. CASE Tick
  <2>1. ~ Delivering(b)'
    BY <1>5 DEF Tick, Delivering, StartQueued
  <2>2. QED
    BY <2>1
<1>6. ASSUME NEW a \in Alarms, Fire(a) PROVE trigger'[b] # 0
  <2>1. CASE b = a
    BY <1>6, <2>1 DEF Fire, TypeOK, NotArmed
  <2>2. CASE b # a
    BY <1>0, <1>6, <2>2 DEF Fire, TypeOK, Delivering, StartQueued
  <2>3. QED
    BY <2>1, <2>2
<1>7. ASSUME NEW a \in Alarms, Receive(a) PROVE trigger'[b] # 0
  <2>1. CASE b = a /\ Active(a) /\ Repeats(a)
    BY <1>7, <2>1, ArmedNext DEF Receive, Repeats, TypeOK
  <2>2. CASE b = a /\ ~ (Active(a) /\ Repeats(a))
    <3>1. trigger' = trigger
      BY <1>7, <2>2 DEF Receive, Repeats
    <3>2. QED
      BY <1>0, <1>7, <2>2, <3>1 DEF Receive, Delivering
  <2>3. CASE b # a
    <3>1. /\ trigger'[b] = trigger[b]
          /\ b \in inFlight' => b \in inFlight
      BY <1>7, <2>3 DEF Receive, TypeOK
    <3>2. StartQueued(b)' => StartQueued(b)
      <4>1. CASE Active(a)
        BY <1>7, <1>c, <2>3, <4>1, MessagesTyped DEF Receive, Message
      <4>2. CASE ~ Active(a)
        BY <1>7, <4>2 DEF Receive, StartQueued
      <4>3. QED
        BY <4>1, <4>2
    <3>3. QED
      BY <1>0, <3>1, <3>2 DEF Delivering
  <2>4. QED
    BY <2>1, <2>2, <2>3
<1>8. CASE Boot
  <2>1. CASE Active(b)
    BY <1>8, <2>1, ArmedNext DEF Boot
  <2>2. CASE ~ Active(b)
    BY <1>8, <1>a, <2>2 DEF Boot, StartQueued
  <2>3. QED
    BY <2>1, <2>2
<1>9. CASE OnStartRinging
  BY <1>9, <1>a, <1>b DEF OnStartRinging, schedulingVars, osVars
<1>10. CASE OnStopRinging
  <2>1. StartQueued(b)' => StartQueued(b)
    <3>1. CASE Pending("DESTROY")
      BY <1>10, <1>b, <3>1 DEF OnStopRinging
    <3>2. CASE ~ Pending("DESTROY")
      <4>1. mailbox # <<>> /\ mailbox' = Append(Tail(mailbox), Message("DESTROY", None))
        BY <1>10, <3>2 DEF OnStopRinging
      <4>2. Message("DESTROY", None) # Message("START_RINGING", b)
        BY DEF Message
      <4>3. Tail(mailbox) \in Seq(Messages) /\ Message("DESTROY", None) \in Messages
        BY <4>1, MailboxHead, MessagesTyped
      <4>4. ASSUME NEW i \in 1 .. Len(mailbox'), mailbox'[i] = Message("START_RINGING", b)
            PROVE  StartQueued(b)
        <5>1. i \in 1 .. Len(Tail(mailbox)) /\ Tail(mailbox)[i] = Message("START_RINGING", b)
          BY <4>1, <4>2, <4>3, <4>4
        <5>2. QED
          BY <4>1, <5>1, TailMessages DEF StartQueued
      <4>5. QED
        BY <4>4 DEF StartQueued
    <3>3. QED
      BY <3>1, <3>2
  <2>2. QED
    BY <1>10, <1>a, <2>1 DEF OnStopRinging, schedulingVars, osVars
<1>11. CASE OnDestroy \/ OnStickyRestart
  BY <1>11, <1>a, <1>b DEF OnDestroy, OnStickyRestart, schedulingVars, osVars
<1>12. CASE ProcessDeath
  <2>1. StartQueued(b)' => StartQueued(b)
    <3>1. CASE mailbox' = <<Message("STICKY_RESTART", None)>>
      BY <3>1 DEF StartQueued, Message
    <3>2. CASE mailbox' = Redelivered
      BY <3>2, RedeliveredMessages DEF StartQueued
    <3>3. QED
      BY <1>12, <3>1, <3>2 DEF ProcessDeath
  <2>2. QED
    BY <1>12, <1>a, <2>1 DEF ProcessDeath, schedulingVars, osVars
<1>13. CASE AppUpdated
  BY <1>13, <1>a DEF AppUpdated, schedulingVars, StartQueued
<1>14. CASE PowerOff
  BY <1>14 DEF PowerOff, NotArmed
<1>15. CASE Listen \/ CancelListen \/ (\E a \in Alarms : CollectOrphan(a)) \/ PowerOn
            \/ UNCHANGED vars
  BY <1>15, <1>a DEF Listen, CancelListen, CollectOrphan, PowerOn, vars, schedulingVars, osVars,
     StartQueued
<1>16. QED
  BY <1>1, <1>2, <1>3, <1>4, <1>5, <1>6, <1>7, <1>8, <1>9, <1>10, <1>11, <1>12, <1>13, <1>14,
     <1>15 DEF Next

\* An alarm whose broadcast or start message is still on the way is not due again.
THEOREM NoSecondRing == Spec => []OneRingPerOccurrence
<1>1. TypeOK /\ OneRingPerOccurrence /\ [Next]_vars => OneRingPerOccurrence'
  BY OneRingStep
<1>2. QED
  BY <1>1, OneRingInit, TypeCorrect, PTL DEF Spec

-----------------------------------------------------------------------------
(* The service.                                                             *)

\* A null intent only ever waits at the head of the mailbox, for a service whose process
\* died; until it is handled that service holds nothing.
RestartFirst ==
  \A i \in 1 .. Len(mailbox) :
    mailbox[i].type = "STICKY_RESTART" => i = 1 /\ currentAlarmId = None

\* The event buffer is only used while Dart does not listen.
BufferedWhileDeaf == listening => pendingEvent = NoEvent

ServiceInv ==
  RestartFirst /\ BufferedWhileDeaf /\ SoundHasItsService /\ ReplayedFireIsCurrent

\* Sounds, service and buffered event belong together at first.
LEMMA ServiceInit == Init => ServiceInv
  BY AlarmsAssumption
  DEF Init, ServiceInv, RestartFirst, BufferedWhileDeaf, SoundHasItsService,
      ReplayedFireIsCurrent, NoEvent

\* A message put at the end keeps the head first and the pending messages pending.
LEMMA AppendKeepsService ==
  ASSUME TypeOK, ServiceInv, NEW m \in Messages, m.type # "STICKY_RESTART",
         mailbox' = Append(mailbox, m), UNCHANGED serviceVars
  PROVE  RestartFirst' /\ SoundHasItsService'
<1>1. mailbox \in Seq(Messages)
  BY DEF TypeOK
<1>2. RestartFirst'
  BY <1>1 DEF ServiceInv, RestartFirst, serviceVars
<1>3. Pending("DESTROY") => Pending("DESTROY")'
  <2>1. ASSUME NEW i \in 1 .. Len(mailbox), mailbox[i].type = "DESTROY"
        PROVE  i \in 1 .. Len(mailbox') /\ mailbox'[i].type = "DESTROY"
    BY <1>1, <2>1
  <2>2. QED
    BY <2>1 DEF Pending
<1>4. QED
  BY <1>2, <1>3 DEF ServiceInv, SoundHasItsService, serviceVars

\* An event that is no fire, emitted while the service's fields stay, replays no old fire.
LEMMA EmitKeepsReplay ==
  ASSUME ServiceInv, NEW type \in EventTypes \ {"alarm_fired"}, NEW a, Emit(type, a),
         UNCHANGED <<serviceVars, listening>>
  PROVE  BufferedWhileDeaf' /\ ReplayedFireIsCurrent'
  BY DEF ServiceInv, Emit, BufferedWhileDeaf, ReplayedFireIsCurrent, serviceVars, NoEvent

\* A handler takes the head away: what waits behind it is no null intent.
LEMMA TailKeepsRestartFirst ==
  ASSUME TypeOK, RestartFirst, mailbox # <<>>, NEW i \in 1 .. Len(Tail(mailbox))
  PROVE  Tail(mailbox)[i].type # "STICKY_RESTART"
<1>1. i + 1 \in 1 .. Len(mailbox) /\ Tail(mailbox)[i] = mailbox[i + 1] /\ i + 1 # 1
  BY TailMessages
<1>2. QED
  BY <1>1 DEF RestartFirst

\* Every step keeps sounds, service and buffered event together.
LEMMA ServiceStep ==
  ASSUME TypeOK, ServiceInv, [Next]_vars
  PROVE  ServiceInv'
<1> USE DEF ServiceInv
<1>m. mailbox \in Seq(Messages)
  BY DEF TypeOK
<1>t. pendingEvent.type = "alarm_fired" => pendingEvent.alarmId \in Alarms
  BY DEF TypeOK, Events, NoEvent
\* A step that touches neither the service nor its mailbox nor the bridge.
<1>a. ASSUME UNCHANGED <<mailbox, serviceUp, currentAlarmId, foreground, mediaPlayer, bridgeVars>>
      PROVE  ServiceInv'
  BY <1>a DEF RestartFirst, BufferedWhileDeaf, SoundHasItsService, ReplayedFireIsCurrent,
     Pending, bridgeVars
\* The loss of the process' memory.
<1>b. ASSUME MemoryLost, RestartFirst' PROVE ServiceInv'
  BY <1>b DEF MemoryLost, BufferedWhileDeaf, SoundHasItsService, ReplayedFireIsCurrent, NoEvent
<1>1. CASE \/ \E a \in Alarms, c \in Configs : Schedule(a, c)
           \/ \E a \in Alarms : Cancel(a) \/ Fire(a) \/ CollectOrphan(a)
           \/ Tick \/ Boot \/ PowerOn \/ UNCHANGED vars
  BY <1>1, <1>a DEF Schedule, Cancel, Fire, CollectOrphan, Tick, Boot, PowerOn, vars,
     serviceVars, bridgeVars
<1>2. ASSUME NEW a \in Alarms, NEW d \in SnoozeDelays, Snooze(a, d) PROVE ServiceInv'
  <2>1. RestartFirst' /\ SoundHasItsService'
    <3>1. Message("STOP_RINGING", a) \in Messages
      BY MessagesTyped
    <3>2. Message("STOP_RINGING", a).type # "STICKY_RESTART"
      BY DEF Message
    <3>3. QED
      BY <1>2, <3>1, <3>2, AppendKeepsService DEF Snooze
  <2>2. \E type \in EventTypes \ {"alarm_fired"} : Emit(type, a)
    BY <1>2 DEF Snooze, EventTypes
  <2>3. QED
    BY <1>2, <2>1, <2>2, EmitKeepsReplay DEF Snooze
<1>3. ASSUME NEW a \in Alarms, Stop(a) PROVE ServiceInv'
  <2>1. RestartFirst' /\ SoundHasItsService'
    <3>1. Message("STOP_RINGING", a) \in Messages
      BY MessagesTyped
    <3>2. Message("STOP_RINGING", a).type # "STICKY_RESTART"
      BY DEF Message
    <3>3. QED
      BY <1>3, <3>1, <3>2, AppendKeepsService DEF Stop
  <2>2. "alarm_stopped" \in EventTypes \ {"alarm_fired"}
    BY DEF EventTypes
  <2>3. QED
    BY <1>3, <2>1, <2>2, EmitKeepsReplay DEF Stop
<1>4. CASE Listen \/ CancelListen
  BY <1>4 DEF Listen, CancelListen, RestartFirst, BufferedWhileDeaf, SoundHasItsService,
     ReplayedFireIsCurrent, Pending, serviceVars, NoEvent
<1>5. ASSUME NEW a \in Alarms, Receive(a) PROVE ServiceInv'
  <2>1. CASE Active(a)
    <3>1. Message("START_RINGING", a) \in Messages
      BY MessagesTyped
    <3>2. Message("START_RINGING", a).type # "STICKY_RESTART"
      BY DEF Message
    <3>3. RestartFirst' /\ SoundHasItsService'
      BY <1>5, <2>1, <3>1, <3>2, AppendKeepsService DEF Receive
    <3>4. QED
      BY <1>5, <3>3 DEF Receive, BufferedWhileDeaf, ReplayedFireIsCurrent, serviceVars, bridgeVars
  <2>2. CASE ~ Active(a)
    BY <1>5, <1>a, <2>2 DEF Receive, serviceVars
  <2>3. QED
    BY <2>1, <2>2
<1>6. CASE OnStartRinging
  <2>1. mailbox # <<>> /\ mailbox' = Tail(mailbox)
    BY <1>6 DEF OnStartRinging
  <2>2. RestartFirst'
    BY <2>1, TailKeepsRestartFirst DEF RestartFirst
  <2>3. Head(mailbox).alarmId \in Alarms
    BY <1>6, MailboxHead DEF OnStartRinging, Messages
  <2>4. SoundHasItsService'
    BY <1>6, <2>3, AlarmsAssumption DEF OnStartRinging, SoundHasItsService
  <2>5. BufferedWhileDeaf'
    BY <1>6 DEF OnStartRinging, Emit, BufferedWhileDeaf
  <2>6. ReplayedFireIsCurrent'
    BY <1>6 DEF OnStartRinging, Emit, BufferedWhileDeaf, ReplayedFireIsCurrent, NoEvent
  <2>7. QED
    BY <2>2, <2>4, <2>5, <2>6
<1>7. ASSUME StopRinging, OnStopRinging \/ OnDestroy
      PROVE  BufferedWhileDeaf' /\ ReplayedFireIsCurrent'
  BY <1>7, <1>t, AlarmsAssumption
  DEF StopRinging, Emit, BufferedWhileDeaf, ReplayedFireIsCurrent, NoEvent
<1>8. CASE OnStopRinging
  <2>1. mailbox # <<>> /\ Head(mailbox).type = "STOP_RINGING" /\ StopRinging
        /\ currentAlarmId' = currentAlarmId
    BY <1>8 DEF OnStopRinging
  <2>2. CASE Pending("DESTROY")
    <3>1. mailbox' = Tail(mailbox)
      BY <1>8, <2>2 DEF OnStopRinging
    <3>2. RestartFirst'
      BY <2>1, <3>1, TailKeepsRestartFirst DEF RestartFirst
    <3>3. Pending("DESTROY")'
      <4>1. PICK i \in 1 .. Len(mailbox) : mailbox[i].type = "DESTROY"
        BY <2>2 DEF Pending
      <4>2. i # 1
        BY <1>m, <2>1, <4>1
      <4>3. i - 1 \in 1 .. Len(Tail(mailbox)) /\ Tail(mailbox)[i - 1] = mailbox[i]
        BY <1>m, <2>1, <4>1, <4>2
      <4>4. QED
        BY <3>1, <4>1, <4>3 DEF Pending
    <3>4. QED
      BY <1>7, <1>8, <2>1, <3>2, <3>3 DEF StopRinging, SoundHasItsService
  <2>3. CASE ~ Pending("DESTROY")
    <3>1. mailbox' = Append(Tail(mailbox), Message("DESTROY", None))
      BY <1>8, <2>3 DEF OnStopRinging
    <3>2. Tail(mailbox) \in Seq(Messages) /\ Message("DESTROY", None) \in Messages
      BY <2>1, MailboxHead, MessagesTyped
    <3>3. /\ Len(mailbox') = Len(Tail(mailbox)) + 1
          /\ mailbox'[Len(Tail(mailbox)) + 1].type = "DESTROY"
          /\ \A i \in 1 .. Len(Tail(mailbox)) : mailbox'[i] = Tail(mailbox)[i]
      BY <3>1, <3>2 DEF Message
    <3>4. Len(Tail(mailbox)) \in Nat
      BY <3>2
    <3>5. Pending("DESTROY")'
      BY <3>3, <3>4 DEF Pending
    <3>6. ASSUME NEW i \in 1 .. Len(mailbox') PROVE mailbox'[i].type # "STICKY_RESTART"
      <4>1. i \in 1 .. Len(Tail(mailbox)) \/ i = Len(Tail(mailbox)) + 1
        BY <3>3, <3>4
      <4>2. QED
        BY <2>1, <3>3, <4>1, TailKeepsRestartFirst
    <3>7. RestartFirst'
      BY <3>6 DEF RestartFirst
    <3>8. QED
      BY <1>7, <1>8, <2>1, <3>5, <3>7 DEF StopRinging, SoundHasItsService
  <2>4. QED
    BY <2>2, <2>3
<1>9. CASE OnDestroy
  <2>1. mailbox # <<>> /\ mailbox' = Tail(mailbox) /\ StopRinging /\ currentAlarmId' = None
    BY <1>9 DEF OnDestroy
  <2>2. RestartFirst'
    BY <2>1 DEF RestartFirst, TypeOK
  <2>3. QED
    BY <1>7, <1>9, <2>1, <2>2 DEF StopRinging, SoundHasItsService
<1>10. CASE OnStickyRestart
  <2>1. mailbox # <<>> /\ mailbox' = Tail(mailbox) /\ Head(mailbox).type = "STICKY_RESTART"
    BY <1>10 DEF OnStickyRestart
  <2>2. currentAlarmId = None
    BY <1>m, <2>1 DEF RestartFirst
  <2>3. RestartFirst'
    BY <2>1, TailKeepsRestartFirst DEF RestartFirst
  <2>4. QED
    BY <1>10, <2>2, <2>3 DEF OnStickyRestart, BufferedWhileDeaf, SoundHasItsService,
       ReplayedFireIsCurrent, bridgeVars
<1>11. CASE ProcessDeath
  <2>1. MemoryLost
    BY <1>11 DEF ProcessDeath
  <2>2. RestartFirst'
    <3>1. CASE mailbox' = <<Message("STICKY_RESTART", None)>>
      BY <2>1, <3>1 DEF RestartFirst, MemoryLost
    <3>2. CASE mailbox' = Redelivered
      <4>1. ASSUME NEW i \in 1 .. Len(Redelivered), Redelivered[i].type = "STICKY_RESTART"
            PROVE  i = 1
        <5>1. PICK j \in 1 .. Len(mailbox) : j >= i /\ Redelivered[i] = mailbox[j]
          BY RedeliveredMessages
        <5>2. j = 1
          BY <4>1, <5>1 DEF RestartFirst
        <5>3. i \in Nat \ {0}
          BY <4>1
        <5>4. QED
          BY <5>1, <5>2, <5>3
      <4>2. QED
        BY <2>1, <3>2, <4>1 DEF RestartFirst, MemoryLost
    <3>3. QED
      BY <1>11, <3>1, <3>2 DEF ProcessDeath
  <2>3. QED
    BY <1>b, <2>1, <2>2
<1>12. CASE AppUpdated \/ PowerOff
  BY <1>12, <1>b DEF AppUpdated, PowerOff, RestartFirst
<1>13. QED
  BY <1>1, <1>2, <1>3, <1>4, <1>5, <1>6, <1>8, <1>9, <1>10, <1>11, <1>12 DEF Next

\* No sound goes on without the service that names it, and no silenced service stays behind.
THEOREM SoundBelongsToService == Spec => []SoundHasItsService
<1>1. TypeOK /\ ServiceInv /\ [Next]_vars => ServiceInv'
  BY ServiceStep
<1>2. ServiceInv => SoundHasItsService
  BY DEF ServiceInv
<1>3. QED
  BY <1>1, <1>2, ServiceInit, TypeCorrect, PTL DEF Spec

\* A Dart that starts late is never told of a ring that is over.
THEOREM NoStaleReplay == Spec => []ReplayedFireIsCurrent
<1>1. TypeOK /\ ServiceInv /\ [Next]_vars => ServiceInv'
  BY ServiceStep
<1>2. ServiceInv => ReplayedFireIsCurrent
  BY DEF ServiceInv
<1>3. QED
  BY <1>1, <1>2, ServiceInit, TypeCorrect, PTL DEF Spec
=============================================================================

---------------------------- MODULE AccountProofs ----------------------------
(* What the backend keeps of one user's account: one push notification, for  *)
(* every set of devices, every number of workers and of attempts, and        *)
(* however often the queue forgives an expired lock; and whether the user is *)
(* premium, for every number of requests at a time, of periods and of        *)
(* notifications under way.  The two share no state.                         *)
EXTENDS PushDelivery, Entitlement, FiniteSetTheorems, TLAPS

-----------------------------------------------------------------------------
(* What the push's properties need of a reachable state.                     *)

\* The sends that are about to happen: a worker is at one ...
Senders == {w \in Workers : run[w].at = "send"}

\* ... or the queue will run the job again without a lock having to expire: it waits for a worker,
\* or the run that it listens to is going to fail.
Fails(w) == \/ run[w].at = "catch"
            \/ (run[w].at \in {"purge", "save"} /\ run[w].write = "failed")
Pending == \/ job.state = "waiting"
           \/ job.state = "active" /\ Fails(job.owner)
Retry == IF Pending THEN 1 ELSE 0

\* What a device got and what is about to be sent is covered by the faults there have been.
Budget == /\ IsFiniteSet(Senders)
          /\ \A t \in Tokens : pushes[t] + (Cardinality(Senders) + Retry) <= 1 + faults

\* The job has a worker that runs it exactly while it is active, and an attempt left until it is
\* over; before it is in the queue nobody runs it.
JobIsHeld ==
  /\ job.state = "active" => job.owner \in Workers /\ run[job.owner] # Idle
  /\ job.state # "active" => job.owner = None
  /\ job.state = "none" => \A w \in Workers : run[w] = Idle
  /\ job.state = "none" => \A t \in Tokens : pushes[t] = 0
  /\ job.state # "none" => enq.at = "done"
  /\ job.state \in {"none", "waiting", "active"} => job.left >= 1

Pushed == \E t \in Tokens : pushes[t] > 0

\* Without a fault nobody runs the job beside the worker that holds it, what a run is going to
\* write is true, and a job that can still run, or failed, has pushed nothing.
RunsTell ==
  /\ \A w \in Workers : run[w] # Idle => job.state = "active" /\ job.owner = w
  /\ \A w \in Workers : run[w].at \in {"purge", "save"} /\ run[w].write = "sent" => Pushed
  /\ \A w \in Workers : Fails(w) \/ run[w].at = "send" => ~Pushed
  /\ job.state \in {"none", "waiting", "failed"} => ~Pushed
  /\ log = "sent" => Pushed
  /\ job.state = "completed" => log \in {"sent", "read"}
  /\ enq.at = "done" /\ job.state = "none" => log \in {"failed", "read"}
TrueSoFar == faults = 0 => RunsTell

\* The row is there once enqueuePush has saved it, nobody reads it before, and nothing is under way
\* that could write a row read while all was quiet.
ReadStays ==
  /\ enq.at \in {"idle", "resolved"} => log = None
  /\ log = None => ~reader /\ opened = "no"
  /\ opened = "alone" => log = "read" /\ enq.at # "saved" /\ \A w \in Workers : run[w] = Idle

Inv == TypeOK /\ Budget /\ JobIsHeld /\ TrueSoFar /\ ReadStays

-----------------------------------------------------------------------------
(* Runs and jobs                                                             *)

Jobs == [state : {"none", "waiting", "active", "completed", "failed"},
         owner : Workers \cup {None}, left : 0 .. Attempts, stalls : 0 .. Stalls]

\* Where a run is says what it holds.
LEMMA RunKinds ==
  ASSUME NEW r \in Runs
  PROVE  /\ r.at \in {"idle", "send", "purge", "save", "catch"}
         /\ r.at = "idle" <=> r = Idle
         /\ r.at \in {"purge", "save"} =>
              /\ r.write \in {"sent", "failed"} /\ r.dead \subseteq Tokens
              /\ [r EXCEPT !.at = "save"] \in Runs
              /\ [r EXCEPT !.at = "save"].at = "save" /\ [r EXCEPT !.at = "save"].write = r.write
<1>1. CASE r = Idle
  BY <1>1 DEF Idle
<1>2. CASE r \in [at : {"send"}]
  BY <1>2 DEF Idle
<1>3. CASE r \in [at : {"purge", "save"}, write : {"sent", "failed"}, dead : SUBSET Tokens]
  <2>1. [r EXCEPT !.at = "save"] \in [at : {"purge", "save"}, write : {"sent", "failed"}, dead : SUBSET Tokens]
    BY <1>3
  <2>2. [r EXCEPT !.at = "save"].at = "save" /\ [r EXCEPT !.at = "save"].write = r.write
    BY <1>3
  <2>3. QED
    BY <1>3, <2>1, <2>2 DEF Idle, Runs
<1>4. CASE r \in [at : {"catch"}]
  BY <1>4 DEF Idle
<1>5. QED
  BY <1>1, <1>2, <1>3, <1>4 DEF Runs

\* The runs that the actions make.
LEMMA RunsMade ==
  /\ Idle \in Runs /\ [at |-> "send"] \in Runs /\ [at |-> "catch"] \in Runs
  /\ \A s \in {"purge", "save"}, o \in {"sent", "failed"}, d \in SUBSET Tokens :
       [at |-> s, write |-> o, dead |-> d] \in Runs
  BY DEF Runs

\* A worker that moves leaves the others where they are, and is about to send or not.
LEMMA RunMoves ==
  ASSUME TypeOK, NEW w \in Workers, NEW r \in Runs, run' = [run EXCEPT ![w] = r]
  PROVE  /\ run' \in [Workers -> Runs]
         /\ run'[w] = r /\ \A v \in Workers \ {w} : run'[v] = run[v]
         /\ r.at = "send" => Senders' = Senders \cup {w}
         /\ r.at # "send" => Senders' = Senders \ {w}
<1>1. /\ run' \in [Workers -> Runs]
      /\ run'[w] = r /\ \A v \in Workers \ {w} : run'[v] = run[v]
  BY DEF TypeOK
<1>2. QED
  BY <1>1 DEF Senders

\* Only the worker that holds the job is heard.
LEMMA JobEnds ==
  ASSUME TypeOK, JobIsHeld, NEW w \in Workers, NEW ok \in BOOLEAN, Ended(w, ok)
  PROVE  /\ job' \in Jobs /\ run' = [run EXCEPT ![w] = Idle]
         /\ job.owner # w => job' = job
         /\ job.owner = w => /\ job.state = "active" /\ job'.owner = None
                             /\ ok => job'.state = "completed"
                             /\ ~ok => \/ job'.state = "waiting" /\ job'.left >= 1
                                       \/ job'.state = "failed"
<1>1. job \in Jobs /\ Attempts \in Nat
  BY PushAssumption DEF TypeOK, Jobs
<1>2. CASE job.owner # w
  BY <1>1, <1>2 DEF Ended
<1>3. CASE job.owner = w
  <2>1. job.state = "active" /\ job.left \in 1 .. Attempts
    BY <1>1, <1>3, PushAssumption DEF JobIsHeld, Jobs
  <2>2. CASE ok
    <3>1. job' = [job EXCEPT !.owner = None, !.left = job.left, !.state = "completed"]
      BY <1>3, <2>2 DEF Ended
    <3>2. QED
      BY <1>1, <1>3, <2>1, <2>2, <3>1 DEF Jobs, Ended
  <2>3. CASE ~ok
    <3>1. /\ job.left - 1 \in 0 .. Attempts
          /\ job.left > 1 => job.left - 1 >= 1
      BY <1>1, <2>1
    <3>2. job' = [job EXCEPT !.owner = None, !.left = job.left - 1,
                             !.state = IF job.left > 1 THEN "waiting" ELSE "failed"]
      BY <1>3, <2>3 DEF Ended
    <3>3. QED
      BY <1>1, <1>3, <2>1, <2>3, <3>1, <3>2 DEF Jobs, Ended
  <2>4. QED
    BY <2>2, <2>3
<1>4. QED
  BY <1>2, <1>3

-----------------------------------------------------------------------------
(* Types                                                                     *)

\* Every step keeps the types.
LEMMA TypeStep ==
  ASSUME TypeOK, JobIsHeld, [Next]_vars
  PROVE  TypeOK'
<1> USE RunsMade
<1>0. /\ live \subseteq Tokens /\ devices \subseteq Tokens /\ log \in Statuses \cup {None}
      /\ enq \in [at : {"idle", "resolved", "saved", "done", "lost"}, tokens : SUBSET Tokens]
      /\ job \in Jobs /\ run \in [Workers -> Runs] /\ reader \in BOOLEAN
      /\ pushes \in [Tokens -> Nat] /\ faults \in Nat /\ opened \in {"no", "alone", "during"}
  BY DEF TypeOK, Jobs
<1>a. Attempts \in Nat /\ Stalls \in Nat /\ faults + 1 \in Nat
  BY <1>0, PushAssumption
<1>t. TypeOK' <=>
      /\ live' \subseteq Tokens /\ devices' \subseteq Tokens /\ log' \in Statuses \cup {None}
      /\ enq' \in [at : {"idle", "resolved", "saved", "done", "lost"}, tokens : SUBSET Tokens]
      /\ job' \in Jobs /\ run' \in [Workers -> Runs] /\ reader' \in BOOLEAN
      /\ pushes' \in [Tokens -> Nat] /\ faults' \in Nat /\ opened' \in {"no", "alone", "during"}
  BY DEF TypeOK, Jobs
<1>1. CASE User
  BY <1>1, <1>0, <1>t DEF User, MarkRead, SaveRead, RegisterDevice, RemoveApp, Statuses
<1>2. CASE ResolveTokens \/ SaveQueued \/ NoDevices \/ EnqueueFails
  <2>1. enq' \in [at : {"idle", "resolved", "saved", "done", "lost"}, tokens : SUBSET Tokens]
    BY <1>2, <1>0 DEF ResolveTokens, SaveQueued, NoDevices, EnqueueFails
  <2>2. QED
    BY <1>2, <2>1, <1>0, <1>t DEF ResolveTokens, SaveQueued, NoDevices, EnqueueFails, Statuses
<1>3. CASE AddJob
  <2>1. enq' \in [at : {"idle", "resolved", "saved", "done", "lost"}, tokens : SUBSET Tokens]
    BY <1>3, <1>0 DEF AddJob
  <2>2. job' \in Jobs
    BY <1>3, <1>0 DEF AddJob, Jobs
  <2>3. QED
    BY <1>3, <2>1, <2>2, <1>0, <1>t DEF AddJob
<1>4. ASSUME NEW w \in Workers, Take(w) PROVE TypeOK'
  <2>1. job.left - 1 \in 0 .. Attempts
    BY <1>4, <1>0, <1>a DEF Take, JobIsHeld, Jobs
  <2>2. job' \in Jobs
    BY <1>4, <1>0, <2>1 DEF Take, Jobs
  <2>3. run' \in [Workers -> Runs]
    BY <1>4, <1>0 DEF Take
  <2>4. QED
    BY <1>4, <2>2, <2>3, <1>0, <1>t DEF Take
<1>5. ASSUME NEW w \in Workers, Send(w) PROVE TypeOK'
  <2>1. \E o \in {"sent", "failed"}, s \in {"purge", "save"}, d \in SUBSET Tokens :
          run' = [run EXCEPT ![w] = [at |-> s, write |-> o, dead |-> d]]
    BY <1>5, <1>0 DEF Send, Outcome
  <2>2. run' \in [Workers -> Runs]
    BY <2>1, <1>0
  <2>3. \A t \in Tokens : pushes[t] \in Nat /\ pushes[t] + 1 \in Nat
    BY <1>0
  <2>4. pushes' \in [Tokens -> Nat] /\ faults' \in Nat
    BY <1>5, <1>0, <1>a, <2>3 DEF Send
  <2>5. QED
    BY <1>5, <2>2, <2>4, <1>0, <1>t DEF Send
<1>6. ASSUME NEW w \in Workers, Purge(w) PROVE TypeOK'
  <2>1. [run[w] EXCEPT !.at = "save"] \in Runs
    BY <1>6, <1>0, RunKinds DEF Purge
  <2>2. run' = [run EXCEPT ![w] = [run[w] EXCEPT !.at = "save"]]
    BY <1>6 DEF Purge
  <2>3. run' \in [Workers -> Runs]
    BY <2>1, <2>2, <1>0
  <2>4. QED
    BY <1>6, <2>3, <1>0, <1>t DEF Purge
<1>7. ASSUME NEW w \in Workers, Save(w) PROVE TypeOK'
  <2>1. (run[w].write = "sent") \in BOOLEAN /\ Ended(w, run[w].write = "sent")
    BY <1>7 DEF Save
  <2>2. job' \in Jobs /\ run' = [run EXCEPT ![w] = Idle]
    BY <2>1, JobEnds
  <2>3. log' \in Statuses
    BY <1>7, <1>0, RunKinds DEF Save, Statuses
  <2>4. QED
    BY <1>7, <2>2, <2>3, <1>0, <1>t DEF Save
<1>8. ASSUME NEW w \in Workers, SaveThrows(w) PROVE TypeOK'
  BY <1>8, <1>0, <1>a, <1>t DEF SaveThrows
<1>9. ASSUME NEW w \in Workers, Catch(w) PROVE TypeOK'
  <2>1. job' \in Jobs /\ run' = [run EXCEPT ![w] = Idle]
    BY <1>9, JobEnds DEF Catch
  <2>2. QED
    BY <1>9, <2>1, <1>0, <1>t DEF Catch, Statuses
<1>10. ASSUME NEW w \in Workers, Stall(w) PROVE TypeOK'
  <2>1. job.stalls < Stalls => job.stalls + 1 \in 0 .. Stalls
    BY <1>0, <1>a DEF Jobs
  <2>2. job' \in Jobs
    BY <1>10, <1>0, <2>1 DEF Stall, Jobs
  <2>3. QED
    BY <1>10, <2>2, <1>0, <1>a, <1>t DEF Stall
<1>11. CASE UNCHANGED vars
  BY <1>11, <1>0, <1>t DEF vars
<1>12. QED
  BY <1>1, <1>2, <1>3, <1>4, <1>5, <1>6, <1>7, <1>8, <1>9, <1>10, <1>11 DEF Next, Queue, Worker

-----------------------------------------------------------------------------
(* Who holds the job                                                         *)

\* Every step leaves an active job with a worker that runs it, and one that is not over with an
\* attempt.
LEMMA HeldStep ==
  ASSUME TypeOK, JobIsHeld, [Next]_vars
  PROVE  JobIsHeld'
<1> USE RunsMade
<1>0. /\ job \in Jobs /\ run \in [Workers -> Runs] /\ None \notin Workers
      /\ Attempts \in Nat \ {0} /\ enq \in [at : {"idle", "resolved", "saved", "done", "lost"}, tokens : SUBSET Tokens]
  BY PushAssumption DEF TypeOK, Jobs
<1>u. ASSUME UNCHANGED <<job, run, pushes>>, job.state = "none" \/ enq' = enq PROVE JobIsHeld'
  BY <1>u DEF JobIsHeld
<1>1. CASE User
  BY <1>1, <1>u DEF User, MarkRead, SaveRead, RegisterDevice, RemoveApp
<1>2. CASE ResolveTokens \/ SaveQueued \/ NoDevices \/ EnqueueFails
  <2>1. job.state = "none"
    BY <1>2 DEF JobIsHeld, ResolveTokens, SaveQueued, NoDevices, EnqueueFails
  <2>2. QED
    BY <1>2, <2>1, <1>u DEF ResolveTokens, SaveQueued, NoDevices, EnqueueFails
<1>3. CASE AddJob
  <2>1. job.state = "none" /\ job.owner = None /\ job.left >= 1
    BY <1>3 DEF JobIsHeld, AddJob
  <2>2. job'.state = "waiting" /\ job'.owner = None /\ job'.left = job.left /\ enq'.at = "done"
    BY <1>3, <1>0, <2>1 DEF AddJob, Jobs
  <2>3. QED
    BY <2>1, <2>2 DEF JobIsHeld
<1>i. [at |-> "send"] # Idle /\ [at |-> "catch"] # Idle
  BY DEF Idle
<1>4. ASSUME NEW w \in Workers, Take(w) PROVE JobIsHeld'
  <2>1. job.state = "waiting" /\ job.owner = None /\ enq.at = "done" /\ enq' = enq /\ job.left >= 1
    BY <1>4 DEF Take, JobIsHeld
  <2>2. CASE job' = [job EXCEPT !.state = "active", !.owner = w] /\ run' = [run EXCEPT ![w] = [at |-> "send"]]
    <3>1. job'.state = "active" /\ job'.owner = w /\ job'.left = job.left
      BY <2>2, <1>0 DEF Jobs
    <3>2. run'[w] # Idle
      BY <2>2, <1>0, <1>i
    <3>3. QED
      BY <2>1, <3>1, <3>2, <1>0 DEF JobIsHeld
  <2>3. CASE job' = [job EXCEPT !.state = "completed"]
    <3>1. job'.state = "completed" /\ job'.owner = None
      BY <2>1, <2>3, <1>0 DEF Jobs
    <3>2. QED
      BY <2>1, <3>1 DEF JobIsHeld
  <2>4. CASE job' = [job EXCEPT !.left = @ - 1, !.state = IF job.left > 1 THEN "waiting" ELSE "failed"]
    <3>1. job'.owner = None /\ job'.left = job.left - 1
          /\ job'.state = IF job.left > 1 THEN "waiting" ELSE "failed"
      BY <2>1, <2>4, <1>0 DEF Jobs
    <3>2. job.left \in Nat /\ (job.left > 1 => job.left - 1 >= 1)
      BY <1>0 DEF Jobs
    <3>3. QED
      BY <2>1, <3>1, <3>2 DEF JobIsHeld
  <2>5. QED
    BY <1>4, <2>2, <2>3, <2>4 DEF Take
<1>m. ASSUME NEW w \in Workers, NEW r \in Runs, run' = [run EXCEPT ![w] = r], r # Idle,
             run[w] # Idle, UNCHANGED <<job, enq>>
      PROVE  JobIsHeld'
  <2>1. run'[w] # Idle /\ \A v \in Workers \ {w} : run'[v] = run[v]
    BY <1>m, <1>0
  <2>2. job.state # "none"
    BY <1>m DEF JobIsHeld
  <2>3. QED
    BY <1>m, <2>1, <2>2 DEF JobIsHeld
<1>5. ASSUME NEW w \in Workers, Send(w) PROVE JobIsHeld'
  <2>1. PICK o \in {"sent", "failed"}, s \in {"purge", "save"}, d \in SUBSET Tokens :
          run' = [run EXCEPT ![w] = [at |-> s, write |-> o, dead |-> d]]
    BY <1>5 DEF Send, Outcome, TypeOK
  <2>2. [at |-> s, write |-> o, dead |-> d] # Idle /\ [at |-> s, write |-> o, dead |-> d] \in Runs
    BY DEF Idle
  <2>3. run[w] # Idle /\ UNCHANGED <<job, enq>>
    BY <1>5 DEF Send, Idle
  <2>4. QED
    BY <2>1, <2>2, <2>3, <1>m
<1>6. ASSUME NEW w \in Workers, Purge(w) PROVE JobIsHeld'
  <2>1. [run[w] EXCEPT !.at = "save"] \in Runs /\ [run[w] EXCEPT !.at = "save"].at = "save"
    BY <1>6, <1>0, RunKinds DEF Purge
  <2>2. run' = [run EXCEPT ![w] = [run[w] EXCEPT !.at = "save"]]
    BY <1>6 DEF Purge
  <2>3. run[w] # Idle /\ [run[w] EXCEPT !.at = "save"] # Idle /\ UNCHANGED <<job, enq>>
    BY <1>6, <2>1 DEF Purge, Idle
  <2>4. QED
    BY <2>1, <2>2, <2>3, <1>m
<1>e. ASSUME NEW w \in Workers, NEW ok \in BOOLEAN, Ended(w, ok), run[w] # Idle, UNCHANGED enq
      PROVE  JobIsHeld'
  <2>1. /\ job' \in Jobs /\ run' = [run EXCEPT ![w] = Idle]
        /\ job.owner # w => job' = job
        /\ job.owner = w => /\ job.state = "active" /\ job'.owner = None
                            /\ ok => job'.state = "completed"
                            /\ ~ok => \/ job'.state = "waiting" /\ job'.left >= 1
                                      \/ job'.state = "failed"
    BY <1>e, JobEnds
  <2>2. job.state # "none" /\ \A v \in Workers \ {w} : run'[v] = run[v]
    BY <1>e, <2>1, <1>0 DEF JobIsHeld
  <2>3. CASE job.owner # w
    <3>1. job' = job /\ (job.state = "active" => run'[job.owner] # Idle)
      BY <2>1, <2>2, <2>3 DEF JobIsHeld
    <3>2. QED
      BY <1>e, <2>2, <3>1 DEF JobIsHeld
  <2>4. CASE job.owner = w
    <3>1. enq.at = "done" /\ job'.owner = None
      BY <2>1, <2>2, <2>4 DEF JobIsHeld
    <3>2. job'.state \in {"completed", "failed"} \/ (job'.state = "waiting" /\ job'.left >= 1)
      BY <2>1, <2>4
    <3>3. QED
      BY <1>e, <3>1, <3>2 DEF JobIsHeld
  <2>5. QED
    BY <2>3, <2>4
<1>7. ASSUME NEW w \in Workers, Save(w) PROVE JobIsHeld'
  <2>1. (run[w].write = "sent") \in BOOLEAN /\ Ended(w, run[w].write = "sent")
    BY <1>7 DEF Save
  <2>2. run[w] # Idle /\ UNCHANGED enq
    BY <1>7 DEF Save, Idle
  <2>3. QED
    BY <2>1, <2>2, <1>e
<1>8. ASSUME NEW w \in Workers, SaveThrows(w) PROVE JobIsHeld'
  <2>1. run[w] # Idle /\ run' = [run EXCEPT ![w] = [at |-> "catch"]] /\ UNCHANGED <<job, enq>>
    BY <1>8 DEF SaveThrows, Idle
  <2>2. QED
    BY <2>1, <1>i, <1>m
<1>9. ASSUME NEW w \in Workers, Catch(w) PROVE JobIsHeld'
  <2>1. run[w] # Idle /\ UNCHANGED enq
    BY <1>9 DEF Catch, Idle
  <2>2. Ended(w, FALSE)
    BY <1>9, Zenon DEF Catch
  <2>3. QED
    BY <2>1, <2>2, <1>e
<1>10. ASSUME NEW w \in Workers, Stall(w) PROVE JobIsHeld'
  <2>1. job.state = "active" /\ enq.at = "done" /\ job.left >= 1 /\ enq' = enq
    BY <1>10 DEF Stall, JobIsHeld
  <2>2. job'.owner = None /\ job'.left = job.left /\ job'.state \in {"waiting", "failed"}
    BY <1>10, <1>0 DEF Stall, Jobs
  <2>3. QED
    BY <2>1, <2>2 DEF JobIsHeld
<1>11. CASE UNCHANGED vars
  BY <1>11, <1>u DEF vars
<1>12. QED
  BY <1>1, <1>2, <1>3, <1>4, <1>5, <1>6, <1>7, <1>8, <1>9, <1>10, <1>11 DEF Next, Queue, Worker

-----------------------------------------------------------------------------
(* How often a device gets the push                                          *)

\* The budget of a state and the one of the next are numbers.
LEMMA BudgetNumbers ==
  ASSUME TypeOK, TypeOK', Budget
  PROVE  /\ Retry \in {0, 1} /\ Retry' \in {0, 1} /\ Cardinality(Senders) \in Nat
         /\ IsFiniteSet(Senders') => Cardinality(Senders') \in Nat
         /\ faults \in Nat /\ faults' \in Nat
         /\ \A t \in Tokens : pushes[t] \in Nat /\ pushes'[t] \in Nat
  BY FS_CardinalityType DEF Budget, TypeOK, Retry

\* A step keeps the budget when, for each device, what it adds to the pushes, the sends and the
\* retry, it adds to the faults.
LEMMA BudgetMoves ==
  ASSUME TypeOK, TypeOK', Budget, IsFiniteSet(Senders'),
         \A t \in Tokens : pushes'[t] + Cardinality(Senders') + Retry' + faults
                            <= pushes[t] + Cardinality(Senders) + Retry + faults'
  PROVE  Budget'
<1> SUFFICES ASSUME NEW t \in Tokens
             PROVE  pushes'[t] + (Cardinality(Senders') + Retry') <= 1 + faults'
  BY DEF Budget
<1>1. /\ Retry \in Nat /\ Retry' \in Nat /\ Cardinality(Senders) \in Nat
      /\ Cardinality(Senders') \in Nat /\ faults \in Nat /\ faults' \in Nat
      /\ pushes[t] \in Nat /\ pushes'[t] \in Nat
  BY BudgetNumbers
<1>2. pushes[t] + (Cardinality(Senders) + Retry) <= 1 + faults
  BY DEF Budget
<1>3. pushes'[t] + Cardinality(Senders') + Retry' + faults
        <= pushes[t] + Cardinality(Senders) + Retry + faults'
  OBVIOUS
<1> DEFINE c == Cardinality(Senders)
           d == Cardinality(Senders')
<1>4. /\ c \in Nat /\ d \in Nat /\ pushes[t] + (c + Retry) <= 1 + faults
      /\ pushes'[t] + d + Retry' + faults <= pushes[t] + c + Retry + faults'
  BY <1>1, <1>2, <1>3
<1> HIDE DEF c, d
<1>5. pushes'[t] + (d + Retry') <= 1 + faults'
  BY <1>1, <1>4
<1>6. QED
  BY <1>5 DEF c, d

\* The simplest case: nothing is sent, and what might be retried costs a fault.
LEMMA BudgetSpared ==
  ASSUME TypeOK, TypeOK', Budget, Senders' \subseteq Senders, pushes' = pushes,
         (faults' = faults /\ (Pending' => Pending)) \/ faults' = faults + 1
  PROVE  Budget'
<1>1. IsFiniteSet(Senders') /\ Cardinality(Senders') <= Cardinality(Senders)
  BY FS_Subset DEF Budget
<1>2. /\ Retry \in {0, 1} /\ Retry' \in {0, 1} /\ Cardinality(Senders) \in Nat
      /\ Cardinality(Senders') \in Nat /\ faults \in Nat
      /\ \A t \in Tokens : pushes[t] \in Nat
  BY <1>1, BudgetNumbers
<1>3. Retry' <= Retry \/ faults' = faults + 1
  BY <1>2 DEF Retry
<1>4. ASSUME NEW t \in Tokens
      PROVE  pushes'[t] + Cardinality(Senders') + Retry' + faults
               <= pushes[t] + Cardinality(Senders) + Retry + faults'
  BY <1>1, <1>2, <1>3
<1>5. QED
  BY <1>1, <1>4, BudgetMoves

\* A worker that moves from where it did not send to where it does not changes nothing for the
\* others, and the job they hold.
LEMMA FailsElsewhere ==
  ASSUME TypeOK, JobIsHeld, NEW w \in Workers, NEW r \in Runs, run' = [run EXCEPT ![w] = r],
         job' = job, job.owner # w, Pending'
  PROVE  Pending
<1>1. CASE job.state = "active"
  <2>1. job.owner \in Workers \ {w}
    BY <1>1 DEF JobIsHeld
  <2>2. run'[job.owner] = run[job.owner]
    BY <2>1, RunMoves
  <2>3. QED
    BY <1>1, <2>2 DEF Pending, Fails
<1>2. QED
  BY <1>1 DEF Pending

\* The end of a run that could have failed is covered by what it was worth before.
LEMMA EndSpares ==
  ASSUME TypeOK, TypeOK', JobIsHeld, Budget, NEW w \in Workers, NEW ok \in BOOLEAN, Ended(w, ok),
         ~ok => Fails(w), run[w].at # "send", UNCHANGED <<pushes, faults>>
  PROVE  Budget'
<1>1. /\ run' = [run EXCEPT ![w] = Idle]
      /\ job.owner # w => job' = job
      /\ job.owner = w => /\ job.state = "active" /\ job'.owner = None
                          /\ ok => job'.state = "completed"
                          /\ ~ok => job'.state = "waiting" \/ job'.state = "failed"
  BY JobEnds
<1>2. Senders' \subseteq Senders
  BY <1>1, RunMoves, RunsMade DEF Idle
<1>3. Pending' => Pending
  <2>1. CASE job.owner # w
    BY <1>1, <2>1, FailsElsewhere, RunsMade
  <2>2. CASE job.owner = w /\ ok
    BY <1>1, <2>2 DEF Pending
  <2>3. CASE job.owner = w /\ ~ok
    BY <1>1, <2>3 DEF Pending
  <2>4. QED
    BY <2>1, <2>2, <2>3
<1>4. QED
  BY <1>2, <1>3, BudgetSpared

\* A send reaches a device once, and without a lost answer either some device answered, and the
\* run is going to succeed, or none was reached.
LEMMA SendSpares ==
  ASSUME TypeOK, TypeOK', JobIsHeld, Budget, NEW w \in Workers, Send(w)
  PROVE  Budget'
<1>1. PICK reached \in SUBSET (enq.tokens \cap live) :
        \E answered \in SUBSET reached, dead \in SUBSET (enq.tokens \ reached) :
           /\ pushes' = [t \in Tokens |-> IF t \in reached THEN pushes[t] + 1 ELSE pushes[t]]
           /\ faults' = IF answered = reached THEN faults ELSE faults + 1
           /\ run' = [run EXCEPT ![w] = [at |-> IF dead = {} THEN "save" ELSE "purge",
                                         write |-> Outcome(answered), dead |-> dead]]
  BY DEF Send
<1>2. PICK answered \in SUBSET reached, dead \in SUBSET (enq.tokens \ reached) :
           /\ pushes' = [t \in Tokens |-> IF t \in reached THEN pushes[t] + 1 ELSE pushes[t]]
           /\ faults' = IF answered = reached THEN faults ELSE faults + 1
           /\ run' = [run EXCEPT ![w] = [at |-> IF dead = {} THEN "save" ELSE "purge",
                                         write |-> Outcome(answered), dead |-> dead]]
  BY <1>1
<1> DEFINE r == [at |-> IF dead = {} THEN "save" ELSE "purge",
                 write |-> Outcome(answered), dead |-> dead]
<1>3. r \in Runs /\ r.at \in {"save", "purge"} /\ r.write = Outcome(answered)
  BY RunsMade DEF Outcome, TypeOK
<1>4. run' = [run EXCEPT ![w] = r]
  BY <1>2
<1> HIDE DEF r
<1>5. run'[w] = r /\ Senders' = Senders \ {w} /\ job' = job /\ w \in Senders
  BY <1>3, <1>4, RunMoves DEF Send, Senders
<1>6. IsFiniteSet(Senders') /\ Cardinality(Senders') = Cardinality(Senders) - 1
  BY <1>5, FS_RemoveElement DEF Budget
<1>7. /\ Retry \in {0, 1} /\ Retry' \in {0, 1} /\ Cardinality(Senders) \in Nat /\ faults \in Nat
      /\ \A t \in Tokens : pushes[t] \in Nat
  BY <1>6, BudgetNumbers
<1>8. Retry' <= Retry \/ (job.owner = w /\ r.write = "failed")
  <2>1. CASE job.owner # w
    <3>1. Pending' => Pending
      BY <1>3, <1>4, <1>5, <2>1, FailsElsewhere
    <3>2. QED
      BY <1>7, <3>1 DEF Retry
  <2>2. CASE job.owner = w
    <3>1. job.state = "active"
      BY <2>2, PushAssumption DEF JobIsHeld
    <3>2. r.write # "failed" => ~Pending'
      BY <1>3, <1>5, <2>2, <3>1 DEF Pending, Fails
    <3>3. QED
      BY <1>7, <2>2, <3>2 DEF Retry
  <2>3. QED
    BY <2>1, <2>2
<1>9. ASSUME NEW t \in Tokens
      PROVE  pushes'[t] + Cardinality(Senders') + Retry' + faults
               <= pushes[t] + Cardinality(Senders) + Retry + faults'
  <2>1. pushes'[t] = pushes[t] + 1 \/ (pushes'[t] = pushes[t] /\ t \notin reached)
    BY <1>2
  <2>2. CASE Retry' <= Retry
    <3>1. faults' >= faults /\ faults' \in Nat
      BY <1>2, <1>7
    <3>2. QED
      BY <1>6, <1>7, <2>1, <2>2, <3>1
  <2>3. CASE r.write = "failed"
    <3>1. answered = {}
      BY <1>3, <2>3 DEF Outcome
    <3>2. t \notin reached \/ faults' = faults + 1
      BY <1>2, <3>1
    <3>3. faults' \in {faults, faults + 1}
      BY <1>2
    <3>4. (pushes'[t] = pushes[t] /\ faults' \in {faults, faults + 1})
          \/ (pushes'[t] \in {pushes[t], pushes[t] + 1} /\ faults' = faults + 1)
      BY <1>2, <3>2, <3>3
    <3>5. QED
      BY <1>6, <1>7, <3>4
  <2>4. QED
    BY <1>8, <2>2, <2>3
<1>10. QED
  BY <1>6, <1>9, BudgetMoves

\* The worker that takes the job is what the queue was going to run again.
LEMMA TakeSpares ==
  ASSUME TypeOK, TypeOK', JobIsHeld, Budget, NEW w \in Workers, Take(w)
  PROVE  Budget'
<1>0. job \in Jobs /\ run \in [Workers -> Runs] /\ Pending /\ UNCHANGED <<pushes, faults>>
  BY DEF TypeOK, Jobs, Take, Pending
<1>1. CASE job' = [job EXCEPT !.state = "active", !.owner = w] /\ run' = [run EXCEPT ![w] = [at |-> "send"]]
  <2>1. Senders' = Senders \cup {w} /\ w \notin Senders /\ run'[w].at = "send"
    BY <1>1, RunMoves, RunsMade DEF Take, Senders, Idle
  <2>2. IsFiniteSet(Senders') /\ Cardinality(Senders') = Cardinality(Senders) + 1
    BY <2>1, FS_AddElement DEF Budget
  <2>3. job'.state = "active" /\ job'.owner = w
    BY <1>0, <1>1 DEF Jobs
  <2>4. Retry' = 0 /\ Retry = 1
    BY <1>0, <2>1, <2>3 DEF Retry, Pending, Fails
  <2>5. /\ Cardinality(Senders) \in Nat /\ faults \in Nat /\ \A t \in Tokens : pushes[t] \in Nat
    BY BudgetNumbers
  <2>6. ASSUME NEW t \in Tokens
        PROVE  pushes'[t] + Cardinality(Senders') + Retry' + faults
                 <= pushes[t] + Cardinality(Senders) + Retry + faults'
    BY <1>0, <2>2, <2>4, <2>5
  <2>7. QED
    BY <2>2, <2>6, BudgetMoves
<1>2. CASE run' = run
  <2>1. Senders' = Senders
    BY <1>2 DEF Senders
  <2>2. QED
    BY <1>0, <2>1, BudgetSpared
<1>3. QED
  BY <1>1, <1>2 DEF Take

\* Every step keeps the budget.
LEMMA BudgetStep ==
  ASSUME TypeOK, TypeOK', JobIsHeld, Budget, [Next]_vars
  PROVE  Budget'
<1> USE RunsMade
<1>0. run \in [Workers -> Runs] /\ job \in Jobs
  BY DEF TypeOK, Jobs
<1>u. ASSUME UNCHANGED <<job, run, pushes, faults>> PROVE Budget'
  BY <1>u, BudgetSpared DEF Senders, Pending, Fails
<1>1. CASE User
  BY <1>1, <1>u DEF User, MarkRead, SaveRead, RegisterDevice, RemoveApp
<1>2. CASE ResolveTokens \/ SaveQueued \/ NoDevices \/ EnqueueFails
  BY <1>2, <1>u DEF ResolveTokens, SaveQueued, NoDevices, EnqueueFails
<1>3. CASE AddJob
  <2>1. Senders = {} /\ Senders' = {} /\ \A t \in Tokens : pushes[t] = 0
    BY <1>3 DEF AddJob, JobIsHeld, Senders, Idle
  <2>2. Retry' \in {0, 1} /\ faults' \in Nat /\ pushes' = pushes
    BY <1>3, BudgetNumbers, <2>1, FS_EmptySet DEF AddJob
  <2>3. Cardinality(Senders') = 0 /\ IsFiniteSet(Senders')
    BY <2>1, FS_EmptySet
  <2>4. QED
    BY <2>1, <2>2, <2>3 DEF Budget
<1>4. ASSUME NEW w \in Workers, Take(w) PROVE Budget'
  BY <1>4, TakeSpares
<1>5. ASSUME NEW w \in Workers, Send(w) PROVE Budget'
  BY <1>5, SendSpares
<1>6. ASSUME NEW w \in Workers, Purge(w) PROVE Budget'
  <2> DEFINE r == [run[w] EXCEPT !.at = "save"]
  <2>1. r \in Runs /\ r.at = "save" /\ r.write = run[w].write
    BY <1>6, <1>0, RunKinds DEF Purge
  <2>2. run' = [run EXCEPT ![w] = r] /\ UNCHANGED <<job, pushes, faults>> /\ run[w].at = "purge"
    BY <1>6 DEF Purge
  <2> HIDE DEF r
  <2>3. Senders' \subseteq Senders /\ run'[w] = r
    BY <2>1, <2>2, RunMoves
  <2>4. Pending' => Pending
    <3>1. CASE job.owner # w
      BY <2>1, <2>2, <3>1, FailsElsewhere
    <3>2. CASE job.owner = w
      BY <2>1, <2>2, <2>3, <3>2 DEF Pending, Fails
    <3>3. QED
      BY <3>1, <3>2
  <2>5. QED
    BY <2>2, <2>3, <2>4, BudgetSpared
<1>7. ASSUME NEW w \in Workers, Save(w) PROVE Budget'
  <2>1. (run[w].write = "sent") \in BOOLEAN /\ Ended(w, run[w].write = "sent")
    BY <1>7 DEF Save
  <2>2. run[w].at # "send" /\ UNCHANGED <<pushes, faults>>
    BY <1>7 DEF Save
  <2>3. run[w].write # "sent" => Fails(w)
    BY <1>7, <1>0, RunKinds DEF Save, Fails
  <2>4. QED
    BY <2>1, <2>2, <2>3, EndSpares
<1>8. ASSUME NEW w \in Workers, SaveThrows(w) PROVE Budget'
  <2>1. run' = [run EXCEPT ![w] = [at |-> "catch"]] /\ UNCHANGED <<job, pushes>> /\ run[w].at = "save"
    BY <1>8 DEF SaveThrows
  <2>2. Senders' \subseteq Senders
    BY <2>1, RunMoves
  <2>3. CASE run[w].write = "sent"
    BY <1>8, <2>1, <2>2, <2>3, BudgetSpared DEF SaveThrows
  <2>4. CASE run[w].write # "sent"
    <3>1. Fails(w)
      BY <1>0, <2>1, <2>4, RunKinds DEF Fails
    <3>f. faults' = faults
      BY <1>8, <2>4 DEF SaveThrows
    <3>2. Pending' => Pending
      <4>1. CASE job.owner # w
        BY <2>1, <4>1, FailsElsewhere
      <4>2. CASE job.owner = w
        BY <2>1, <3>1, <4>2 DEF Pending
      <4>3. QED
        BY <4>1, <4>2
    <3>3. QED
      BY <2>1, <2>2, <3>f, <3>2, BudgetSpared
  <2>5. QED
    BY <2>3, <2>4
<1>9. ASSUME NEW w \in Workers, Catch(w) PROVE Budget'
  <2>1. run[w].at # "send" /\ UNCHANGED <<pushes, faults>> /\ Fails(w)
    BY <1>9 DEF Catch, Fails
  <2>2. Ended(w, FALSE)
    BY <1>9, Zenon DEF Catch
  <2>3. QED
    BY <2>1, <2>2, EndSpares
<1>10. ASSUME NEW w \in Workers, Stall(w) PROVE Budget'
  <2>1. faults' = faults + 1 /\ pushes' = pushes /\ run' \in {run, [run EXCEPT ![w] = Idle]}
    BY <1>10 DEF Stall
  <2>2. Senders' \subseteq Senders
    BY <2>1, <1>0 DEF Senders, Idle
  <2>3. QED
    BY <2>1, <2>2, BudgetSpared
<1>11. CASE UNCHANGED vars
  BY <1>11, <1>u DEF vars
<1>12. QED
  BY <1>1, <1>2, <1>3, <1>4, <1>5, <1>6, <1>7, <1>8, <1>9, <1>10, <1>11 DEF Next, Queue, Worker

-----------------------------------------------------------------------------
(* What the row says                                                         *)

\* Every step keeps the row of a notification that was read while all was quiet.
LEMMA ReadStep ==
  ASSUME TypeOK, JobIsHeld, ReadStays, [Next]_vars
  PROVE  ReadStays'
<1>0. /\ run \in [Workers -> Runs] /\ log \in Statuses \cup {None}
      /\ enq \in [at : {"idle", "resolved", "saved", "done", "lost"}, tokens : SUBSET Tokens]
  BY DEF TypeOK
<1>u. ASSUME UNCHANGED <<log, enq, run, reader, opened>> PROVE ReadStays'
  BY <1>u DEF ReadStays
<1>1. CASE MarkRead \/ \E t \in Tokens : RegisterDevice(t) \/ RemoveApp(t)
  BY <1>1 DEF MarkRead, RegisterDevice, RemoveApp, ReadStays
<1>2. CASE SaveRead
  <2>1. log # None /\ enq.at \notin {"idle", "resolved"} /\ log' = "read" /\ UNCHANGED <<enq, run>>
    BY <1>2 DEF SaveRead, ReadStays
  <2>2. opened' = "alone" => enq.at # "saved" /\ \A w \in Workers : run[w] = Idle
    BY <1>2 DEF SaveRead, ReadStays, Untouched
  <2>3. log' # None
    BY <2>1, PushAssumption DEF Statuses
  <2>4. QED
    BY <2>1, <2>2, <2>3 DEF ReadStays
<1>3. CASE ResolveTokens
  <2>1. enq.at = "idle" /\ enq'.at = "resolved" /\ UNCHANGED <<log, run, reader, opened>>
    BY <1>3 DEF ResolveTokens
  <2>2. QED
    BY <2>1 DEF ReadStays
<1>4. CASE SaveQueued
  <2>1. log = None /\ log' = "queued" /\ enq'.at = "saved" /\ UNCHANGED <<reader, opened>>
    BY <1>4, <1>0 DEF SaveQueued, ReadStays
  <2>2. opened = "no"
    BY <2>1 DEF ReadStays
  <2>3. QED
    BY <2>1, <2>2 DEF ReadStays
<1>5. CASE NoDevices \/ AddJob \/ EnqueueFails
  <2>1. enq'.at \in {"done", "lost"} /\ UNCHANGED <<run, reader, opened>>
    BY <1>5, <1>0 DEF NoDevices, AddJob, EnqueueFails
  <2>2. log' = log \/ (log' = "failed" /\ enq.at = "saved")
    BY <1>5 DEF NoDevices, AddJob, EnqueueFails
  <2>3. log' = log \/ (log' # None /\ enq.at = "saved")
    BY <2>2, PushAssumption DEF Statuses
  <2>4. QED
    BY <2>1, <2>2, <2>3, <1>5 DEF ReadStays, NoDevices, AddJob, EnqueueFails
<1>6. ASSUME NEW w \in Workers, Worker(w) PROVE ReadStays'
  <2>1. enq' = enq /\ reader' = reader /\ opened' = opened
    BY <1>6 DEF Worker, Take, Send, Purge, Save, SaveThrows, Catch, Stall
  <2>2. job.state # "none"
    <3>1. CASE Take(w) \/ Stall(w)
      BY <3>1 DEF Take, Stall
    <3>2. CASE Send(w) \/ Purge(w) \/ Save(w) \/ SaveThrows(w) \/ Catch(w)
      <4>1. run[w].at # "idle"
        BY <3>2 DEF Send, Purge, Save, SaveThrows, Catch
      <4>2. run[w] # Idle
        BY <4>1 DEF Idle
      <4>3. QED
        BY <4>2 DEF JobIsHeld
    <3>3. QED
      BY <1>6, <3>1, <3>2 DEF Worker
  <2>3. enq.at = "done"
    BY <2>2 DEF JobIsHeld
  <2>4. CASE opened = "alone"
    <3>1. log = "read" /\ \A v \in Workers : run[v] = Idle /\ run[v].at = "idle"
      BY <2>4 DEF ReadStays, Idle
    <3>2. job.state # "active"
      BY <3>1 DEF JobIsHeld
    <3>3. Take(w)
      BY <1>6, <3>1, <3>2 DEF Worker, Send, Purge, Save, SaveThrows, Catch, Stall
    <3>4. run' = run /\ log' = log
      BY <3>1, <3>3 DEF Take, MayDeliver
    <3>5. QED
      BY <2>1, <3>4 DEF ReadStays
  <2>5. CASE opened # "alone"
    <3>1. CASE log' = log
      BY <2>1, <2>3, <2>5, <3>1 DEF ReadStays
    <3>2. CASE log' # log
      <4>1. Save(w) \/ Catch(w)
        BY <1>6, <3>2 DEF Worker, Take, Send, Purge, SaveThrows, Stall
      <4>2. log' \in {"sent", "failed"}
        BY <1>0, <3>2, <4>1, RunKinds DEF Save, Catch
      <4>3. log' # None
        BY <4>2, PushAssumption DEF Statuses
      <4>4. QED
        BY <2>1, <2>3, <2>5, <4>3 DEF ReadStays
    <3>3. QED
      BY <3>1, <3>2
  <2>6. QED
    BY <2>4, <2>5
<1>7. CASE UNCHANGED vars
  BY <1>7, <1>u DEF vars
<1>8. QED
  BY <1>1, <1>2, <1>3, <1>4, <1>5, <1>6, <1>7 DEF Next, User, Queue

\* Without a fault the one worker that runs the job is the one that holds it.
LEMMA OnlyHolder ==
  ASSUME RunsTell, NEW w \in Workers, run[w] # Idle
  PROVE  /\ job.state = "active" /\ job.owner = w
         /\ \A v \in Workers \ {w} : run[v] = Idle
  BY DEF RunsTell

\* A worker that is idle neither sends nor is going to fail.
LEMMA IdleIsQuiet ==
  ASSUME NEW v, run[v] = Idle
  PROVE  run[v].at = "idle" /\ ~Fails(v)
  BY DEF Idle, Fails

\* When the job has just ended unheard of by anybody else, its row tells the truth if the run did.
LEMMA EndTells ==
  ASSUME TypeOK, JobIsHeld, JobIsHeld', RunsTell, NEW w \in Workers, run[w] # Idle,
         NEW ok \in BOOLEAN, Ended(w, ok), UNCHANGED pushes,
         ok => log' = "sent" /\ Pushed, ~ok => ~Pushed /\ log' \in {"failed", log}
  PROVE  RunsTell'
<1>0. run \in [Workers -> Runs]
  BY DEF TypeOK
<1>1. job.owner = w /\ \A v \in Workers \ {w} : run[v] = Idle
  BY OnlyHolder
<1>2. /\ run' = [run EXCEPT ![w] = Idle]
      /\ ok => job'.state = "completed"
      /\ ~ok => job'.state \in {"waiting", "failed"}
  BY <1>1, JobEnds
<1>3. \A v \in Workers : run'[v] = Idle
  BY <1>0, <1>1, <1>2
<1>4. \A v \in Workers : run'[v].at = "idle" /\ ~Fails(v)'
  BY <1>3 DEF Idle, Fails
<1>5. Pushed' = Pushed
  BY DEF Pushed
<1>6. CASE ok
  BY <1>2, <1>3, <1>4, <1>5, <1>6 DEF RunsTell
<1>7. CASE ~ok
  <2>1. log' # "sent"
    BY <1>7 DEF RunsTell
  <2>2. QED
    BY <1>2, <1>3, <1>4, <1>5, <1>7, <2>1 DEF RunsTell
<1>8. QED
  BY <1>6, <1>7

\* Without a lost answer the run that sends learns whether a device was reached.
LEMMA SendTells ==
  ASSUME TypeOK, RunsTell, NEW w \in Workers, Send(w), faults = 0, faults' = 0
  PROVE  RunsTell'
<1>0. run \in [Workers -> Runs] /\ pushes \in [Tokens -> Nat] /\ enq.tokens \subseteq Tokens
  BY DEF TypeOK
<1>1. PICK reached \in SUBSET (enq.tokens \cap live), dead \in SUBSET enq.tokens :
           /\ pushes' = [t \in Tokens |-> IF t \in reached THEN pushes[t] + 1 ELSE pushes[t]]
           /\ run' = [run EXCEPT ![w] = [at |-> IF dead = {} THEN "save" ELSE "purge",
                                         write |-> Outcome(reached), dead |-> dead]]
  <2>1. PICK reached \in SUBSET (enq.tokens \cap live) :
          \E answered \in SUBSET reached, dead \in SUBSET (enq.tokens \ reached) :
             /\ pushes' = [t \in Tokens |-> IF t \in reached THEN pushes[t] + 1 ELSE pushes[t]]
             /\ faults' = IF answered = reached THEN faults ELSE faults + 1
             /\ run' = [run EXCEPT ![w] = [at |-> IF dead = {} THEN "save" ELSE "purge",
                                           write |-> Outcome(answered), dead |-> dead]]
    BY DEF Send
  <2>2. PICK answered \in SUBSET reached, dead \in SUBSET (enq.tokens \ reached) :
             /\ pushes' = [t \in Tokens |-> IF t \in reached THEN pushes[t] + 1 ELSE pushes[t]]
             /\ faults' = IF answered = reached THEN faults ELSE faults + 1
             /\ run' = [run EXCEPT ![w] = [at |-> IF dead = {} THEN "save" ELSE "purge",
                                           write |-> Outcome(answered), dead |-> dead]]
    BY <2>1
  <2>3. answered = reached
    BY <2>2
  <2>4. QED
    BY <2>2, <2>3
<1> DEFINE r == [at |-> IF dead = {} THEN "save" ELSE "purge",
                 write |-> Outcome(reached), dead |-> dead]
<1>2. r.at \in {"save", "purge"} /\ r.write = Outcome(reached) /\ run' = [run EXCEPT ![w] = r]
  BY <1>1
<1> HIDE DEF r
<1>3. run'[w] = r /\ \A v \in Workers \ {w} : run'[v] = run[v]
  BY <1>0, <1>2
<1>4. run[w] # Idle /\ run[w].at = "send" /\ job' = job /\ log' = log /\ enq' = enq
  BY DEF Send, Idle
<1>5. /\ job.state = "active" /\ job.owner = w
      /\ \A v \in Workers \ {w} : run[v] = Idle
  BY <1>4, OnlyHolder
<1>6. ~Pushed /\ log # "sent"
  BY <1>4 DEF RunsTell
<1>7. \A v \in Workers \ {w} : run'[v].at = "idle" /\ ~Fails(v)'
  BY <1>3, <1>5 DEF Idle, Fails
<1>8. Pushed' <=> reached # {}
  BY <1>0, <1>1, <1>6 DEF Pushed
<1>9. r.write = "sent" <=> Pushed'
  BY <1>2, <1>8 DEF Outcome
<1>10. (Fails(w)' \/ run'[w].at = "send") <=> r.write = "failed"
  BY <1>2, <1>3 DEF Fails
<1>11. /\ \A v \in Workers : run'[v] # Idle => v = w
       /\ \A v \in Workers : run'[v].at \in {"purge", "save"} /\ run'[v].write = "sent" => Pushed'
       /\ \A v \in Workers : Fails(v)' \/ run'[v].at = "send" => ~Pushed'
  BY <1>2, <1>3, <1>5, <1>7, <1>9, <1>10
<1>12. QED
  BY <1>4, <1>5, <1>6, <1>11 DEF RunsTell

\* Every step without a fault leaves a row that tells the truth.
LEMMA TrueStep ==
  ASSUME TypeOK, JobIsHeld, JobIsHeld', ReadStays, TrueSoFar, [Next]_vars
  PROVE  TrueSoFar'
<1> SUFFICES ASSUME faults' = 0 PROVE RunsTell'
  BY DEF TrueSoFar
<1>0. /\ run \in [Workers -> Runs] /\ job \in Jobs
      /\ enq \in [at : {"idle", "resolved", "saved", "done", "lost"}, tokens : SUBSET Tokens]
  BY DEF TypeOK, Jobs
<1>f. faults = 0
  <2>1. faults \in Nat /\ faults' \in {faults, faults + 1}
    <3>1. ASSUME NEW w \in Workers, Worker(w) PROVE faults' \in {faults, faults + 1}
      BY <3>1 DEF Worker, Take, Send, Purge, Save, SaveThrows, Catch, Stall
    <3>2. CASE User \/ Queue \/ UNCHANGED vars
      BY <3>2 DEF User, MarkRead, SaveRead, RegisterDevice, RemoveApp, Queue, ResolveTokens,
                  SaveQueued, NoDevices, AddJob, EnqueueFails, vars
    <3>3. QED
      BY <3>1, <3>2 DEF Next, TypeOK
  <2>2. QED
    BY <2>1
<1>r. RunsTell
  BY <1>f DEF TrueSoFar
<1>u. ASSUME UNCHANGED <<run, pushes, job>> PROVE /\ Pushed' = Pushed /\ \A v \in Workers : Fails(v)' = Fails(v)
  BY <1>u DEF Pushed, Fails
<1>1. CASE User
  <2>1. UNCHANGED <<run, pushes, job, enq>> /\ log' \in {log, "read"}
    BY <1>1 DEF User, MarkRead, SaveRead, RegisterDevice, RemoveApp
  <2>2. QED
    BY <1>r, <1>u, <2>1 DEF RunsTell
<1>2. CASE ResolveTokens \/ SaveQueued \/ NoDevices \/ EnqueueFails
  <2>1. UNCHANGED <<run, pushes, job>> /\ job.state = "none"
    BY <1>2 DEF ResolveTokens, SaveQueued, NoDevices, EnqueueFails, JobIsHeld
  <2>2. log' \in {log, "queued", "failed"} /\ (enq'.at = "done" => log' = "failed")
    BY <1>2, <1>0 DEF ResolveTokens, SaveQueued, NoDevices, EnqueueFails
  <2>3. QED
    BY <1>r, <1>u, <2>1, <2>2 DEF RunsTell
<1>3. CASE AddJob
  <2>1. UNCHANGED <<run, pushes, log>> /\ job.state = "none" /\ job'.state = "waiting"
    BY <1>3, <1>0 DEF AddJob, JobIsHeld, Jobs
  <2>2. /\ Pushed' = Pushed /\ \A v \in Workers : run'[v] = Idle
        /\ \A v \in Workers : run'[v].at = "idle" /\ ~Fails(v)'
    BY <2>1 DEF JobIsHeld, Pushed, Fails, Idle
  <2>3. QED
    BY <1>r, <2>1, <2>2 DEF RunsTell
<1>4. ASSUME NEW w \in Workers, Take(w) PROVE RunsTell'
  <2>1. /\ job.state = "waiting" /\ UNCHANGED <<pushes, log, enq>>
        /\ \A v \in Workers : run[v] = Idle /\ run[v].at = "idle" /\ ~Fails(v)
    BY <1>4, <1>r, IdleIsQuiet DEF Take, RunsTell
  <2>2. ~Pushed' /\ Pushed' = Pushed /\ log # "sent"
    BY <1>r, <2>1 DEF RunsTell, Pushed
  <2>3. CASE job' = [job EXCEPT !.state = "active", !.owner = w] /\ run' = [run EXCEPT ![w] = [at |-> "send"]]
    <3>1. job'.state = "active" /\ job'.owner = w
      BY <2>3, <1>0 DEF Jobs
    <3>2. run'[w].at = "send" /\ \A v \in Workers \ {w} : run'[v] = Idle /\ run'[v].at = "idle"
      BY <2>1, <2>3, <1>0
    <3>3. QED
      BY <2>1, <2>2, <3>1, <3>2 DEF RunsTell
  <2>4. CASE run' = run
    <3>1. \/ job'.state = "completed" /\ ~MayDeliver(log)
          \/ job'.state \in {"waiting", "failed"}
      <4>1. run' # [run EXCEPT ![w] = [at |-> "send"]]
        BY <2>1, <2>4, <1>0
      <4>2. \/ job' = [job EXCEPT !.state = "completed"] /\ ~MayDeliver(log)
            \/ job' = [job EXCEPT !.left = @ - 1, !.state = IF job.left > 1 THEN "waiting" ELSE "failed"]
        BY <1>4, <4>1 DEF Take
      <4>3. QED
        BY <4>2, <1>0 DEF Jobs
    <3>2. \A v \in Workers : ~Fails(v)'
      BY <2>1, <2>4 DEF Fails
    <3>3. QED
      BY <2>1, <2>2, <2>4, <3>1, <3>2 DEF RunsTell, MayDeliver
  <2>5. QED
    BY <1>4, <2>3, <2>4 DEF Take
<1>5. ASSUME NEW w \in Workers, Send(w) PROVE RunsTell'
  BY <1>5, <1>f, <1>r, SendTells
<1>m. ASSUME NEW w \in Workers, NEW r \in Runs, run' = [run EXCEPT ![w] = r], run[w] # Idle,
             UNCHANGED <<job, enq, log, pushes>>, r.at # "send",
             r.at \in {"purge", "save"} => run[w].at \in {"purge", "save"} /\ r.write = run[w].write,
             r.at = "catch" => Fails(w)
      PROVE  RunsTell'
  <2>1. run'[w] = r /\ \A v \in Workers \ {w} : run'[v] = run[v]
    BY <1>m, <1>0
  <2>2. Pushed' = Pushed /\ \A v \in Workers \ {w} : Fails(v)' = Fails(v)
    BY <1>m, <2>1 DEF Pushed, Fails
  <2>3. Fails(w)' => Fails(w)
    BY <1>m, <2>1 DEF Fails
  <2>4. \A v \in Workers : run'[v] # Idle => job.state = "active" /\ job.owner = v
    BY <1>m, <1>r, <2>1 DEF RunsTell
  <2>5. \A v \in Workers : run'[v].at \in {"purge", "save"} /\ run'[v].write = "sent" => Pushed'
    BY <1>m, <1>r, <2>1, <2>2 DEF RunsTell
  <2>6. \A v \in Workers : Fails(v)' \/ run'[v].at = "send" => ~Pushed'
    BY <1>m, <1>r, <2>1, <2>2, <2>3 DEF RunsTell
  <2>7. QED
    BY <1>m, <1>r, <2>2, <2>4, <2>5, <2>6 DEF RunsTell
<1>6. ASSUME NEW w \in Workers, Purge(w) PROVE RunsTell'
  <2> DEFINE r == [run[w] EXCEPT !.at = "save"]
  <2>1. r \in Runs /\ r.at = "save" /\ r.write = run[w].write
    BY <1>6, <1>0, RunKinds DEF Purge
  <2>2. run' = [run EXCEPT ![w] = r] /\ UNCHANGED <<job, enq, log, pushes>> /\ run[w].at = "purge" /\ run[w] # Idle
    BY <1>6 DEF Purge, Idle
  <2> HIDE DEF r
  <2>3. QED
    BY <2>1, <2>2, <1>m
<1>7. ASSUME NEW w \in Workers, Save(w) PROVE RunsTell'
  <2>1. (run[w].write = "sent") \in BOOLEAN /\ Ended(w, run[w].write = "sent")
    BY <1>7 DEF Save
  <2>2. run[w] # Idle /\ run[w].at = "save" /\ UNCHANGED pushes /\ log' = run[w].write
    BY <1>7 DEF Save, Idle
  <2>3. run[w].write \in {"sent", "failed"}
    BY <1>0, <2>2, RunKinds
  <2>4. run[w].write = "sent" => Pushed
    BY <1>r, <2>2 DEF RunsTell
  <2>5. run[w].write # "sent" => ~Pushed /\ log' = "failed"
    BY <1>r, <2>2, <2>3 DEF RunsTell, Fails
  <2>6. QED
    BY <1>r, <2>1, <2>2, <2>4, <2>5, EndTells
<1>8. ASSUME NEW w \in Workers, SaveThrows(w) PROVE RunsTell'
  <2>1. /\ run[w] # Idle /\ run[w].at = "save" /\ UNCHANGED <<job, enq, log, pushes>>
        /\ run' = [run EXCEPT ![w] = [at |-> "catch"]]
    BY <1>8 DEF SaveThrows, Idle
  <2>2. run[w].write # "sent"
    BY <1>8, <1>f DEF SaveThrows
  <2>3. Fails(w)
    BY <1>0, <2>1, <2>2, RunKinds DEF Fails
  <2>4. QED
    BY <2>1, <2>3, <1>m, RunsMade
<1>9. ASSUME NEW w \in Workers, Catch(w) PROVE RunsTell'
  <2>1. run[w] # Idle /\ Fails(w) /\ UNCHANGED pushes /\ log' \in {"failed", log}
    BY <1>9 DEF Catch, Idle, Fails
  <2>2. Ended(w, FALSE)
    BY <1>9, Zenon DEF Catch
  <2>3. ~Pushed
    BY <1>r, <2>1 DEF RunsTell
  <2>4. QED
    BY <1>r, <2>1, <2>2, <2>3, EndTells
<1>10. ASSUME NEW w \in Workers, Stall(w) PROVE RunsTell'
  BY <1>10, <1>f DEF Stall
<1>11. CASE UNCHANGED vars
  <2>1. UNCHANGED <<run, pushes, job, log, enq>>
    BY <1>11 DEF vars
  <2>2. QED
    BY <2>1, <1>r, <1>u DEF RunsTell
<1>12. QED
  BY <1>1, <1>2, <1>3, <1>4, <1>5, <1>6, <1>7, <1>8, <1>9, <1>10, <1>11 DEF Next, Queue, Worker

-----------------------------------------------------------------------------
(* The theorems on the push                                                  *)

\* Before anything is enqueued nothing was pushed and no worker runs the job.
LEMMA InitKeeps == Init => Inv
<1> SUFFICES ASSUME Init PROVE Inv
  OBVIOUS
<1>1. TypeOK
  <2>1. job \in Jobs
    BY PushAssumption DEF Init, NoJob, Jobs
  <2>2. enq \in [at : {"idle", "resolved", "saved", "done", "lost"}, tokens : SUBSET Tokens]
    BY DEF Init
  <2>3. run \in [Workers -> Runs] /\ pushes \in [Tokens -> Nat]
    BY RunsMade DEF Init
  <2>4. live \subseteq Tokens /\ devices \subseteq Tokens
    BY DEF Init
  <2>5. log = None /\ reader \in BOOLEAN /\ faults \in Nat /\ opened = "no"
    BY DEF Init
  <2>6. QED
    BY <2>1, <2>2, <2>3, <2>4, <2>5 DEF TypeOK, Jobs
<1>2. \A w \in Workers : run[w] = Idle /\ run[w].at = "idle" /\ ~Fails(w)
  BY DEF Init, Idle, Fails
<1>3. job.state = "none" /\ job.owner = None /\ job.left = Attempts /\ enq.at = "idle" /\ log = None
  BY DEF Init, NoJob
<1>4. ~Pushed /\ faults = 0 /\ ~reader /\ opened = "no" /\ \A t \in Tokens : pushes[t] = 0
  BY DEF Init, Pushed
<1>5. Budget
  <2>1. Senders = {} /\ Retry = 0
    BY <1>2, <1>3 DEF Senders, Retry, Pending
  <2>2. IsFiniteSet(Senders) /\ Cardinality(Senders) = 0
    BY <2>1, FS_EmptySet
  <2>3. QED
    BY <2>1, <2>2, <1>4 DEF Budget
<1>6. JobIsHeld
  BY <1>2, <1>3, <1>4, PushAssumption DEF JobIsHeld
<1>7. TrueSoFar
  BY <1>2, <1>3, <1>4, PushAssumption DEF TrueSoFar, RunsTell, Statuses
<1>8. ReadStays
  BY <1>3, <1>4 DEF ReadStays
<1>9. QED
  BY <1>1, <1>5, <1>6, <1>7, <1>8 DEF Inv

\* Every reachable state satisfies the invariant.
LEMMA Invariance == Spec => []Inv
<1>1. Inv /\ [Next]_vars => Inv'
  <2> SUFFICES ASSUME Inv, [Next]_vars PROVE Inv'
    OBVIOUS
  <2>1. TypeOK' /\ JobIsHeld'
    BY TypeStep, HeldStep DEF Inv
  <2>2. Budget' /\ ReadStays' /\ TrueSoFar'
    BY <2>1, BudgetStep, ReadStep, TrueStep DEF Inv
  <2>3. QED
    BY <2>1, <2>2 DEF Inv
<1>2. QED
  BY <1>1, InitKeeps, PTL DEF Spec

\* Workers, queue, devices and user never leave the states the code knows; in particular the job
\* uses no more than its attempts and its forgiven stalls.
THEOREM TypeCorrect == Spec => []TypeOK
<1>1. Inv => TypeOK
  BY DEF Inv
<1>2. QED
  BY <1>1, Invariance, PTL

\* A device gets the push once, and once more at most for every answer or save that was lost and
\* every lock that expired, whatever the number of devices, workers and attempts.
\* [notifications.service.ts:110 deliver]
THEOREM RepeatsNeedFaults == Spec => []RepeatedOnlyAfterFault
<1>1. Inv => RepeatedOnlyAfterFault
  <2> SUFFICES ASSUME Inv, NEW t \in Tokens PROVE pushes[t] <= 1 + faults
    BY DEF RepeatedOnlyAfterFault
  <2>1. pushes[t] + (Cardinality(Senders) + Retry) <= 1 + faults
    BY DEF Inv, Budget
  <2>2. Cardinality(Senders) \in Nat /\ Retry \in Nat /\ pushes[t] \in Nat /\ faults \in Nat
    BY FS_CardinalityType DEF Inv, Budget, TypeOK, Retry
  <2>3. QED
    BY <2>1, <2>2
<1>2. QED
  BY <1>1, Invariance, PTL

\* What the row says is true: of a push that met no fault once all is at rest, and at any time of
\* one read while nothing was at its row.  [notifications.service.ts:110 deliver, :179 markRead]
THEOREM RowTellsTruth == Spec => []RowIsTrue
<1>1. Inv => RowIsTrue
  <2> SUFFICES ASSUME Inv PROVE RowIsTrue
    OBVIOUS
  <2>1. opened = "alone" => log = "read"
    BY DEF Inv, ReadStays
  <2>2. ASSUME AtRest, faults = 0
        PROVE  /\ log = "sent" => \E t \in Tokens : pushes[t] > 0
               /\ log = "failed" => \A t \in Tokens : pushes[t] = 0
               /\ log = "queued" => enq.at = "lost" \/ job.state = "failed"
    <3>1. RunsTell /\ job.state \in {"none", "completed", "failed"} /\ enq.at \in {"done", "lost"}
      BY <2>2 DEF Inv, TrueSoFar, AtRest, TypeOK
    <3>2. log = "sent" => \E t \in Tokens : pushes[t] > 0
      BY <3>1 DEF RunsTell, Pushed
    <3>3. ASSUME log = "failed", NEW t \in Tokens PROVE pushes[t] = 0
      <4>1. ~Pushed
        BY <3>1, <3>3 DEF RunsTell
      <4>2. pushes[t] \in Nat /\ ~(pushes[t] > 0)
        BY <4>1 DEF Pushed, Inv, TypeOK
      <4>3. QED
        BY <4>2
    <3>4. log = "queued" => enq.at = "lost" \/ job.state = "failed"
      BY <3>1 DEF RunsTell
    <3>5. QED
      BY <3>2, <3>3, <3>4
  <2>3. QED
    BY <2>1, <2>2 DEF RowIsTrue
<1>2. QED
  BY <1>1, Invariance, PTL

-----------------------------------------------------------------------------
(* What the user's entitlement rests on.                                     *)

\* A verdict that says it is alone is the only one being applied.
AloneIsAlone == \A h, g \in Handlers : h # g /\ Applying(h) /\ Applying(g) => ~req[h].alone

\* One that was overlapped is on record as trouble until it ends.
OverlapIsTrouble == \A h \in Handlers : Applying(h) /\ ~req[h].alone => trouble

\* What a handler alone has verified is what the store says, or the store has more to say.
VerdictIsNow == \A h \in Handlers :
  req[h].at \in {"check", "load", "write", "commit"} /\ req[h].alone => req[h].v = store \/ notices > 0

\* A row is inserted as a whole; once there is one, the columns that a handler alone is not going
\* to write are those that already say what its verdict says.
ChangeCovers == \A h \in Handlers : req[h].at \in {"write", "commit"} =>
  \/ req[h].change = {"insert"}
  \/ /\ row # Absent /\ req[h].change \subseteq Columns
     /\ req[h].alone => \A c \in Columns \ req[h].change : row[c] = AsRow(req[h].v)[c]

\* Unless there was trouble, what the store has finished saying is recorded, or a notification of
\* it is being applied alone.
BeingTold == \E h \in Handlers : Applying(h) /\ req[h].alone /\ req[h].by = "webhook"
Told == ~trouble /\ row # Absent /\ row.period # 0 /\ notices = 0 =>
          (row = AsRow(store) /\ paid = Entitled(store)) \/ BeingTold

EntitlementInv == /\ EntitlementTypeOK
                  /\ AloneIsAlone /\ OverlapIsTrouble /\ VerdictIsNow /\ ChangeCovers /\ Told

-----------------------------------------------------------------------------
(* Requests, verdicts and rows                                               *)

\* Where a request is says what it holds.
LEMMA RequestKinds ==
  ASSUME NEW r \in Requests
  PROVE  /\ r.at \in {"idle", "verify", "check", "load", "write", "commit", "profile"}
         /\ r.at = "idle" <=> r = NoRequest
         /\ r.at = "profile" => r.paid \in 0 .. MaxPeriod
         /\ r.at \in {"verify", "check", "load", "write", "commit"} =>
              r.by \in Sources /\ r.alone \in BOOLEAN
         /\ r.at \in {"check", "load", "write", "commit"} => r.v \in Verdict
         /\ r.at \in {"write", "commit"} => r.change \in (SUBSET Columns) \cup {{"insert"}}
<1>1. CASE r = NoRequest
  BY <1>1 DEF NoRequest
<1>2. CASE r \in [at : {"verify"}, by : Sources, alone : BOOLEAN]
  BY <1>2 DEF NoRequest
<1>3. CASE r \in [at : {"check", "load"}, by : Sources, alone : BOOLEAN, v : Verdict]
  BY <1>3 DEF NoRequest
<1>4. CASE r \in [at : {"write", "commit"}, by : Sources, alone : BOOLEAN, v : Verdict,
                  change : (SUBSET Columns) \cup {{"insert"}}]
  BY <1>4 DEF NoRequest
<1>5. CASE r \in [at : {"profile"}, paid : 0 .. MaxPeriod]
  BY <1>5 DEF NoRequest
<1>6. QED
  BY <1>1, <1>2, <1>3, <1>4, <1>5 DEF Requests

\* A request that is overlapped keeps all that it holds.
LEMMA Overlapped ==
  ASSUME NEW r \in Requests, r.at \notin {"idle", "profile"}
  PROVE  /\ [r EXCEPT !.alone = FALSE] \in Requests
         /\ [r EXCEPT !.alone = FALSE].at = r.at
         /\ ~[r EXCEPT !.alone = FALSE].alone
         /\ r.at \in {"write", "commit"} => [r EXCEPT !.alone = FALSE].change = r.change
<1>1. CASE r \in [at : {"verify"}, by : Sources, alone : BOOLEAN]
  BY <1>1 DEF Requests
<1>2. CASE r \in [at : {"check", "load"}, by : Sources, alone : BOOLEAN, v : Verdict]
  BY <1>2 DEF Requests
<1>3. CASE r \in [at : {"write", "commit"}, by : Sources, alone : BOOLEAN, v : Verdict,
                  change : (SUBSET Columns) \cup {{"insert"}}]
  BY <1>3 DEF Requests
<1>4. QED
  BY <1>1, <1>2, <1>3 DEF Requests, NoRequest

\* A request that goes on to the next step keeps what it holds.
LEMMA MovesOn ==
  ASSUME NEW r \in Requests, NEW s \in {"load", "commit"},
         r.at = IF s = "load" THEN "check" ELSE "write"
  PROVE  /\ [r EXCEPT !.at = s] \in Requests
         /\ [r EXCEPT !.at = s].at = s
         /\ [r EXCEPT !.at = s].by = r.by
         /\ [r EXCEPT !.at = s].alone = r.alone
         /\ [r EXCEPT !.at = s].v = r.v
         /\ s = "commit" => [r EXCEPT !.at = s].change = r.change
<1>1. CASE r \in [at : {"check", "load"}, by : Sources, alone : BOOLEAN, v : Verdict]
  BY <1>1 DEF Requests
<1>2. CASE r \in [at : {"write", "commit"}, by : Sources, alone : BOOLEAN, v : Verdict,
                  change : (SUBSET Columns) \cup {{"insert"}}]
  BY <1>2 DEF Requests
<1>3. QED
  BY <1>1, <1>2 DEF Requests, NoRequest

\* The requests that the actions make.
LEMMA RequestsMade ==
  /\ NoRequest \in Requests
  /\ \A by \in Sources, a \in BOOLEAN : [at |-> "verify", by |-> by, alone |-> a] \in Requests
  /\ \A by \in Sources, a \in BOOLEAN, v \in Verdict :
       [at |-> "check", by |-> by, alone |-> a, v |-> v] \in Requests
  /\ \A s \in {"write", "commit"}, by \in Sources, a \in BOOLEAN, v \in Verdict :
       \A change \in (SUBSET Columns) \cup {{"insert"}} :
         [at |-> s, by |-> by, alone |-> a, v |-> v, change |-> change] \in Requests
  /\ \A p \in 0 .. MaxPeriod : [at |-> "profile", paid |-> p] \in Requests
  BY DEF Requests

\* A verdict is recorded as a row that pays exactly when the verdict entitles.
LEMMA Recorded ==
  ASSUME NEW v \in Verdict
  PROVE  /\ AsRow(v) \in Row /\ Entitled(v) \in 0 .. MaxPeriod
         /\ AsRow(v).period = v.period /\ AsRow(v).renew = v.renew
         /\ AsRow(v).status = DeriveStatus(v)
         /\ Entitled(v) = IF AsRow(v).status = "active" THEN AsRow(v).period ELSE 0
<1>1. MaxPeriod \in Nat /\ v.period \in 1 .. MaxPeriod /\ v.active \in BOOLEAN /\ v.renew \in BOOLEAN
  BY EntitlementAssumption DEF Verdict
<1>2. /\ DeriveStatus(v) \in {"active", "grace_period", "expired"}
      /\ DeriveStatus(v) = "active" <=> v.active
  BY <1>1 DEF DeriveStatus
<1>3. v.period \in 0 .. MaxPeriod /\ 0 \in 0 .. MaxPeriod
  BY <1>1
<1>4. QED
  BY <1>1, <1>2, <1>3 DEF AsRow, Entitled, Row

\* What a commit leaves is a row; it is the verdict's when the columns that are not written agree,
\* and it pays what the verdict says when period and status are written.
LEMMA CommitLeaves ==
  ASSUME EntitlementTypeOK, ChangeCovers, NEW h \in Handlers, req[h].at = "commit"
  PROVE  /\ Written(h) \in Row
         /\ req[h].alone \/ req[h].change = {"insert"} => Written(h) = AsRow(req[h].v)
         /\ {"period", "status"} \subseteq req[h].change =>
              /\ Written(h).period = AsRow(req[h].v).period
              /\ Written(h).status = AsRow(req[h].v).status
<1> DEFINE new == AsRow(req[h].v)
<1>1. req[h].v \in Verdict /\ new \in Row /\ row \in Row \cup {Absent}
  BY RequestKinds, Recorded DEF EntitlementTypeOK
<1> HIDE DEF new
<1>2. CASE req[h].change = {"insert"}
  BY <1>1, <1>2 DEF Written, new
<1>3. CASE req[h].change # {"insert"}
  <2>1. /\ row \in Row /\ req[h].change \subseteq Columns
        /\ req[h].alone => \A c \in Columns \ req[h].change : row[c] = new[c]
    BY <1>1, <1>3 DEF ChangeCovers, new
  <2>2. CASE req[h].change = {}
    <3>1. Written(h) = row
      BY <2>2 DEF Written
    <3>2. req[h].alone => row.period = new.period /\ row.renew = new.renew /\ row.status = new.status
      BY <2>1, <2>2 DEF Columns
    <3>3. req[h].alone => row = new
      BY <1>1, <2>1, <3>2 DEF Row
    <3>4. QED
      BY <1>3, <2>1, <2>2, <3>1, <3>3 DEF new
  <2>3. CASE req[h].change # {}
    <3>1. Written(h) = [c \in Columns |-> IF c \in req[h].change THEN new[c] ELSE row[c]]
      BY <1>3, <2>3 DEF Written, new
    <3> DEFINE w == Written(h)
    <3>2. /\ w.period = IF "period" \in req[h].change THEN new.period ELSE row.period
          /\ w.renew = IF "renew" \in req[h].change THEN new.renew ELSE row.renew
          /\ w.status = IF "status" \in req[h].change THEN new.status ELSE row.status
      BY <3>1 DEF Columns
    <3>3. w \in Row
      BY <1>1, <2>1, <3>1 DEF Row, Columns
    <3> HIDE DEF w
    <3>4. req[h].alone => w = new
      BY <1>1, <2>1, <3>2, <3>3 DEF Row, Columns
    <3>5. QED
      BY <1>3, <3>2, <3>3, <3>4 DEF w, new
  <2>4. QED
    BY <2>2, <2>3
<1>4. QED
  BY <1>2, <1>3

-----------------------------------------------------------------------------
(* What the actions do to the requests                                       *)

\* Whoever begins while others are at work overlaps them all.
LEMMA Begins ==
  ASSUME EntitlementTypeOK, NEW h \in Handlers, NEW by \in Sources, Begin(h, by)
  PROVE  /\ req' \in [Handlers -> Requests] /\ ~Applying(h)
         /\ req'[h].at = "verify" /\ req'[h].by = by
         /\ req'[h].alone <=> \A g \in Handlers : ~Applying(g)
         /\ \A g \in Handlers \ {h} : Applying(g) =>
              /\ req'[g].at = req[g].at /\ ~req'[g].alone
              /\ req[g].at \in {"write", "commit"} => req'[g].change = req[g].change
         /\ \A g \in Handlers \ {h} : ~Applying(g) => req'[g] = req[g]
         /\ trouble' <=> trouble \/ \E g \in Handlers : Applying(g)
<1> DEFINE others == {g \in Handlers : Applying(g)}
<1>1. /\ req[h] = NoRequest
      /\ req' = [g \in Handlers |->
                   IF g = h THEN [at |-> "verify", by |-> by, alone |-> others = {}]
                   ELSE IF g \in others THEN [req[g] EXCEPT !.alone = FALSE]
                   ELSE req[g]]
      /\ trouble' = (trouble \/ others # {})
  BY DEF Begin
<1>2. others = {} <=> \A g \in Handlers : ~Applying(g)
  OBVIOUS
<1>3. (others = {}) \in BOOLEAN /\ \A g \in Handlers : g \in others <=> Applying(g)
  OBVIOUS
<1> HIDE DEF others
<1>4. req'[h] = [at |-> "verify", by |-> by, alone |-> others = {}]
  BY <1>1
<1>5. \A g \in Handlers \ {h} :
        /\ Applying(g) => req'[g] = [req[g] EXCEPT !.alone = FALSE]
        /\ ~Applying(g) => req'[g] = req[g]
  BY <1>1, <1>3
<1>6. req'[h] \in Requests
  BY <1>3, <1>4, RequestsMade
<1>7. \A g \in Handlers : req[g] \in Requests
  BY DEF EntitlementTypeOK
<1>8. ASSUME NEW g \in Handlers \ {h}, Applying(g)
      PROVE  /\ req'[g] \in Requests /\ req'[g].at = req[g].at /\ ~req'[g].alone
             /\ req[g].at \in {"write", "commit"} => req'[g].change = req[g].change
  BY <1>5, <1>7, <1>8, Overlapped DEF Applying
<1>9. \A g \in Handlers : req'[g] \in Requests
  BY <1>5, <1>6, <1>7, <1>8
<1>10. req' \in [Handlers -> Requests]
  BY <1>1, <1>9
<1>11. ~Applying(h)
  BY <1>1 DEF Applying, NoRequest
<1>12. trouble' <=> trouble \/ \E g \in Handlers : Applying(g)
  BY <1>1, <1>2
<1>13. req'[h].at = "verify" /\ req'[h].by = by /\ (req'[h].alone <=> \A g \in Handlers : ~Applying(g))
  <2>1. req'[h].at = "verify" /\ req'[h].by = by /\ req'[h].alone = (others = {})
    BY <1>4
  <2>2. QED
    BY <1>2, <2>1, Zenon
<1>14. \A g \in Handlers \ {h} : ~Applying(g) => req'[g] = req[g]
  BY <1>5
<1>15. QED
  BY <1>8, <1>10, <1>11, <1>12, <1>13, <1>14

\* What a handler that goes on holds next.
GoesOn(h, r) ==
  /\ req' = [req EXCEPT ![h] = r] /\ r \in Requests
  /\ Applying(h) /\ r.at # "profile"
  /\ r.at # "idle" => r.by = req[h].by /\ r.alone = req[h].alone
  /\ r.at \in {"check", "load", "write", "commit"} =>
       r.v = store \/ (req[h].at \in {"check", "load", "write"} /\ r.v = req[h].v)
  /\ r.at \in {"write", "commit"} =>
       \/ r.change = {"insert"}
       \/ /\ row # Absent /\ r.change \subseteq Columns
          /\ r.alone => \A c \in Columns \ r.change : row[c] = AsRow(r.v)[c]
  /\ r.at = "idle" => row = Absent \/ row.period = 0 \/ req[h].by = "validate"

\* A handler that verifies, checks, loads or writes goes on and changes nothing else but the lock.
LEMMA Proceeds ==
  ASSUME EntitlementTypeOK, ChangeCovers, NEW h \in Handlers,
         Verify(h) \/ Check(h) \/ Load(h) \/ Write(h)
  PROVE  /\ \E r \in Requests : GoesOn(h, r)
         /\ UNCHANGED <<store, notices, row, paid, trouble>> /\ lock' \in {lock, h}
<1>0. req[h] \in Requests /\ store \in Verdict
  BY DEF EntitlementTypeOK
<1>1. CASE Verify(h)
  <2> DEFINE r == [at |-> "check", by |-> req[h].by, alone |-> req[h].alone, v |-> store]
  <2>1. req[h].at = "verify" /\ req' = [req EXCEPT ![h] = r]
    BY <1>1 DEF Verify
  <2>2. r \in Requests
    BY <1>0, <2>1, RequestKinds, RequestsMade
  <2>3. GoesOn(h, r)
    BY <2>1, <2>2 DEF GoesOn, Applying
  <2>4. QED
    BY <1>1, <2>2, <2>3 DEF Verify
<1>2. CASE Check(h)
  <2>0. req[h].at = "check"
    BY <1>2 DEF Check
  <2>1. CASE Passes(h)
    <3> DEFINE r == [req[h] EXCEPT !.at = "load"]
    <3>1. req' = [req EXCEPT ![h] = r]
      BY <1>2, <2>1 DEF Check
    <3>2. /\ r \in Requests /\ r.at = "load" /\ r.by = req[h].by
          /\ r.alone = req[h].alone /\ r.v = req[h].v
      BY <1>0, <2>0, MovesOn
    <3> HIDE DEF r
    <3>3. GoesOn(h, r)
      BY <2>0, <3>1, <3>2 DEF GoesOn, Applying
    <3>4. QED
      BY <1>2, <3>2, <3>3 DEF Check
  <2>2. CASE ~Passes(h)
    <3>1. req' = [req EXCEPT ![h] = NoRequest]
      BY <1>2, <2>2 DEF Check
    <3>2. req[h].by \in Sources
      BY <1>0, <2>0, RequestKinds
    <3>3. row = Absent \/ row.period = 0 \/ req[h].by = "validate"
      BY <2>2, <3>2 DEF Passes, Sources
    <3>4. GoesOn(h, NoRequest)
      BY <2>0, <3>1, <3>3, RequestsMade DEF GoesOn, Applying, NoRequest
    <3>5. QED
      BY <1>2, <3>4, RequestsMade DEF Check
  <2>3. QED
    BY <2>1, <2>2
<1>3. CASE Load(h)
  <2> DEFINE new == AsRow(req[h].v)
             change == IF row = Absent THEN {"insert"} ELSE {c \in Columns : row[c] # new[c]}
             r == [at |-> IF change = {} THEN "commit" ELSE "write", by |-> req[h].by,
                   alone |-> req[h].alone, v |-> req[h].v, change |-> change]
  <2>1. req[h].at = "load" /\ req' = [req EXCEPT ![h] = r]
    BY <1>3 DEF Load
  <2>2. change \in (SUBSET Columns) \cup {{"insert"}}
    <3>1. {c \in Columns : row[c] # new[c]} \in SUBSET Columns
      OBVIOUS
    <3>2. QED
      BY <3>1
  <2>3. \/ change = {"insert"}
        \/ /\ row # Absent /\ change \subseteq Columns
           /\ \A c \in Columns \ change : row[c] = new[c]
    OBVIOUS
  <2> HIDE DEF change, new
  <2>4. r \in Requests
    BY <1>0, <2>1, <2>2, RequestKinds, RequestsMade
  <2>5. /\ r.at \in {"write", "commit"} /\ r.by = req[h].by /\ r.alone = req[h].alone
        /\ r.v = req[h].v /\ r.change = change
    OBVIOUS
  <2> HIDE DEF r
  <2>6. GoesOn(h, r)
    BY <2>1, <2>3, <2>4, <2>5 DEF GoesOn, Applying, new
  <2>7. QED
    BY <1>3, <2>4, <2>6 DEF Load
<1>4. CASE Write(h)
  <2> DEFINE r == [req[h] EXCEPT !.at = "commit"]
  <2>1. req[h].at = "write" /\ req' = [req EXCEPT ![h] = r]
    BY <1>4 DEF Write
  <2>2. /\ r \in Requests /\ r.at = "commit" /\ r.by = req[h].by
        /\ r.alone = req[h].alone /\ r.v = req[h].v /\ r.change = req[h].change
    BY <1>0, <2>1, MovesOn
  <2> HIDE DEF r
  <2>3. GoesOn(h, r)
    BY <2>1, <2>2 DEF GoesOn, Applying, ChangeCovers
  <2>4. QED
    BY <1>4, <2>2, <2>3 DEF Write
<1>5. QED
  BY <1>1, <1>2, <1>3, <1>4

\* A handler that ends or fails leaves the other requests alone, and a profile is no verdict.
LEMMA Becomes ==
  ASSUME EntitlementTypeOK, NEW h \in Handlers, NEW r \in Requests, req' = [req EXCEPT ![h] = r]
  PROVE  /\ req' \in [Handlers -> Requests] /\ req'[h] = r
         /\ \A g \in Handlers \ {h} : req'[g] = req[g] /\ (Applying(g)' <=> Applying(g))
         /\ Applying(h)' <=> r.at \notin {"idle", "profile"}
  BY DEF EntitlementTypeOK, Applying

\* How a step of the system looks: the store moves, a row is created, or one handler begins, goes
\* on, ends or works on the profile.
LEMMA StepKinds ==
  ASSUME EntitlementTypeOK, ChangeCovers, [EntitlementNext]_entitlementVars
  PROVE  \/ StoreMoves \/ CreateDefault \/ UNCHANGED entitlementVars
         \/ \E h \in Handlers :
              \/ ValidateReceipt(h) \/ HandleNotification(h) \/ Fail(h) \/ Commit(h)
              \/ UpdateProfile(h) \/ SaveProfile(h)
              \/ /\ UNCHANGED <<store, notices, row, paid, trouble>> /\ lock' \in {lock, h}
                 /\ \E r \in Requests : GoesOn(h, r)
<1>1. CASE StoreMoves \/ CreateDefault \/ UNCHANGED entitlementVars
  BY <1>1
<1>2. ASSUME NEW h \in Handlers, Verify(h) \/ Check(h) \/ Load(h) \/ Write(h)
      PROVE  /\ UNCHANGED <<store, notices, row, paid, trouble>> /\ lock' \in {lock, h}
             /\ \E r \in Requests : GoesOn(h, r)
  BY <1>2, Proceeds
<1>3. ASSUME NEW h \in Handlers, Enter(h) \/ Apply(h) \/ SaveProfile(h)
      PROVE  \/ ValidateReceipt(h) \/ HandleNotification(h) \/ Fail(h) \/ Commit(h)
             \/ UpdateProfile(h) \/ SaveProfile(h)
             \/ Verify(h) \/ Check(h) \/ Load(h) \/ Write(h)
  BY <1>3 DEF Enter, Apply
<1>4. QED
  BY <1>1, <1>2, <1>3 DEF EntitlementNext

\* What the store says after it moved is still a verdict.
LEMMA StoreSays ==
  ASSUME EntitlementTypeOK, StoreMoves
  PROVE  store' \in Verdict /\ notices' \in 1 .. MaxNotices
<1>1. /\ store \in Verdict /\ notices \in 0 .. MaxNotices
      /\ MaxPeriod \in Nat /\ MaxNotices \in Nat /\ notices < MaxNotices /\ notices' = notices + 1
  BY EntitlementAssumption DEF EntitlementTypeOK, StoreMoves
<1>2. notices' \in 1 .. MaxNotices
  BY <1>1
<1>3. CASE Renewed
  <2>1. store.period + 1 \in 1 .. MaxPeriod
    BY <1>1, <1>3 DEF Renewed, Verdict
  <2>2. store' = [store EXCEPT !.period = store.period + 1, !.active = TRUE]
    BY <1>3 DEF Renewed
  <2>3. QED
    BY <1>1, <1>2, <2>1, <2>2 DEF Verdict
<1>4. CASE Lapsed \/ Stopped
  BY <1>1, <1>2, <1>4 DEF Lapsed, Stopped, Verdict
<1>5. QED
  BY <1>3, <1>4 DEF StoreMoves

\* Every step stays in the states the code knows.
LEMMA EntitlementTypeStep ==
  ASSUME EntitlementTypeOK, ChangeCovers, [EntitlementNext]_entitlementVars
  PROVE  EntitlementTypeOK'
<1>0. /\ req \in [Handlers -> Requests] /\ MaxPeriod \in Nat /\ MaxNotices \in Nat
      /\ 0 \in 0 .. MaxPeriod
  BY EntitlementAssumption DEF EntitlementTypeOK
<1>1. CASE StoreMoves
  <2>1. store' \in Verdict /\ notices' \in 0 .. MaxNotices
    BY <1>0, <1>1, StoreSays
  <2>2. QED
    BY <1>1, <2>1 DEF StoreMoves, EntitlementTypeOK
<1>2. CASE CreateDefault
  <2>1. Default \in Row
    BY <1>0 DEF Default, Row
  <2>2. QED
    BY <1>2, <2>1 DEF CreateDefault, EntitlementTypeOK
<1>3. CASE UNCHANGED entitlementVars
  BY <1>3 DEF entitlementVars, EntitlementTypeOK
<1>4. ASSUME NEW h \in Handlers, ValidateReceipt(h) \/ HandleNotification(h) PROVE EntitlementTypeOK'
  <2>1. PICK by \in Sources : Begin(h, by)
    BY <1>4 DEF ValidateReceipt, HandleNotification, Sources
  <2>2. req' \in [Handlers -> Requests] /\ trouble' \in BOOLEAN
    <3>1. req' \in [Handlers -> Requests]
      BY <2>1, Begins
    <3>2. trouble' = (trouble \/ {g \in Handlers : Applying(g)} # {})
      BY <2>1 DEF Begin
    <3>3. QED
      BY <3>1, <3>2, Zenon
  <2>3. /\ UNCHANGED <<store, row, paid, lock>> /\ notices' \in 0 .. MaxNotices
    <3>1. CASE notices' = notices
      BY <1>4, <3>1 DEF ValidateReceipt, HandleNotification, EntitlementTypeOK
    <3>2. CASE notices' # notices
      <4>1. notices > 0 /\ notices' = notices - 1 /\ notices \in 0 .. MaxNotices
        BY <1>4, <3>2 DEF ValidateReceipt, HandleNotification, EntitlementTypeOK
      <4>2. QED
        BY <1>0, <1>4, <4>1 DEF ValidateReceipt, HandleNotification
    <3>3. QED
      BY <3>1, <3>2
  <2>4. QED
    BY <2>2, <2>3 DEF EntitlementTypeOK
<1>5. ASSUME NEW h \in Handlers, Fail(h) PROVE EntitlementTypeOK'
  <2>1. req' \in [Handlers -> Requests]
    BY <1>5, RequestsMade, Becomes DEF Fail
  <2>2. lock' \in Handlers \cup {Absent} /\ UNCHANGED <<store, notices, row, paid>>
    BY <1>5 DEF Fail, EntitlementTypeOK
  <2>3. trouble' \in BOOLEAN
    <3>1. trouble' = (trouble \/ req[h].by = "webhook")
      BY <1>5 DEF Fail
    <3>2. QED
      BY <3>1, Zenon
  <2>4. QED
    BY <2>1, <2>2, <2>3 DEF EntitlementTypeOK
<1>6. ASSUME NEW h \in Handlers, Commit(h) PROVE EntitlementTypeOK'
  <2>1. req' \in [Handlers -> Requests]
    BY <1>6, RequestsMade, Becomes DEF Commit
  <2>2. req[h].at = "commit" /\ req[h].v \in Verdict
    BY <1>0, <1>6, RequestKinds DEF Commit
  <2>3. row' \in Row /\ paid' \in 0 .. MaxPeriod
    BY <1>6, <2>2, CommitLeaves, Recorded DEF Commit
  <2>4. lock' \in Handlers \cup {Absent} /\ UNCHANGED <<store, notices>>
    BY <1>6 DEF Commit, EntitlementTypeOK
  <2>5. trouble' \in BOOLEAN
    <3>1. trouble' = (trouble /\ ~req[h].alone)
      BY <1>6 DEF Commit
    <3>2. QED
      BY <3>1, Zenon
  <2>6. QED
    BY <2>1, <2>3, <2>4, <2>5 DEF EntitlementTypeOK
<1>7. ASSUME NEW h \in Handlers, UpdateProfile(h) PROVE EntitlementTypeOK'
  <2>1. [at |-> "profile", paid |-> paid] \in Requests
    BY RequestsMade DEF EntitlementTypeOK
  <2>2. req' \in [Handlers -> Requests]
    BY <1>7, <2>1, Becomes DEF UpdateProfile
  <2>3. QED
    BY <1>7, <2>2 DEF UpdateProfile, EntitlementTypeOK
<1>8. ASSUME NEW h \in Handlers, SaveProfile(h) PROVE EntitlementTypeOK'
  <2>1. req' \in [Handlers -> Requests]
    BY <1>8, RequestsMade, Becomes DEF SaveProfile
  <2>2. paid' \in 0 .. MaxPeriod
    BY <1>0, <1>8, RequestKinds DEF SaveProfile
  <2>3. trouble' \in BOOLEAN
    <3>1. trouble' = (trouble \/ paid' # paid)
      BY <1>8 DEF SaveProfile
    <3>2. QED
      BY <3>1, Zenon
  <2>4. QED
    BY <1>8, <2>1, <2>2, <2>3 DEF SaveProfile, EntitlementTypeOK
<1>9. ASSUME NEW h \in Handlers, NEW r \in Requests, GoesOn(h, r),
             UNCHANGED <<store, notices, row, paid, trouble>>, lock' \in {lock, h}
      PROVE  EntitlementTypeOK'
  <2>1. req' \in [Handlers -> Requests]
    BY <1>9, Becomes DEF GoesOn
  <2>2. QED
    BY <1>9, <2>1 DEF EntitlementTypeOK
<1>10. QED
  BY <1>1, <1>2, <1>3, <1>4, <1>5, <1>6, <1>7, <1>8, <1>9, StepKinds

\* Of two verdicts that are applied at the same time neither claims to be alone, and the trouble
\* lasts as long as one of them does.
LEMMA AloneStep ==
  ASSUME EntitlementTypeOK, AloneIsAlone, OverlapIsTrouble, ChangeCovers,
         [EntitlementNext]_entitlementVars
  PROVE  AloneIsAlone' /\ OverlapIsTrouble'
<1>0. req \in [Handlers -> Requests]
  BY DEF EntitlementTypeOK
<1>1. CASE UNCHANGED <<req, trouble>>
  BY <1>1 DEF AloneIsAlone, OverlapIsTrouble, Applying
<1>2. ASSUME NEW h \in Handlers, NEW r \in Requests, req' = [req EXCEPT ![h] = r],
             r.at \notin {"idle", "profile"} => Applying(h) /\ r.alone = req[h].alone,
             trouble => trouble' \/ \A g \in Handlers \ {h} : ~Applying(g),
             trouble => trouble' \/ r.at \in {"idle", "profile"}
      PROVE  AloneIsAlone' /\ OverlapIsTrouble'
  <2>1. /\ req'[h] = r /\ \A g \in Handlers \ {h} : req'[g] = req[g] /\ (Applying(g)' <=> Applying(g))
        /\ Applying(h)' <=> r.at \notin {"idle", "profile"}
    BY <1>2, Becomes
  <2>2. \A g \in Handlers : Applying(g)' => Applying(g) /\ req'[g].alone = req[g].alone
    BY <1>2, <2>1
  <2>3. AloneIsAlone'
    BY <2>2 DEF AloneIsAlone
  <2>4. OverlapIsTrouble'
    BY <1>2, <2>1, <2>2 DEF OverlapIsTrouble
  <2>5. QED
    BY <2>3, <2>4
<1>3. ASSUME NEW h \in Handlers, NEW by \in Sources, Begin(h, by)
      PROVE  AloneIsAlone' /\ OverlapIsTrouble'
  <2>1. /\ ~Applying(h)
        /\ req'[h].alone <=> \A g \in Handlers : ~Applying(g)
        /\ \A g \in Handlers \ {h} : Applying(g) => ~req'[g].alone
        /\ \A g \in Handlers \ {h} : Applying(g)' => Applying(g)
        /\ trouble' <=> trouble \/ \E g \in Handlers : Applying(g)
    BY <1>3, Begins DEF Applying
  <2>2. AloneIsAlone'
    BY <2>1 DEF AloneIsAlone
  <2>3. OverlapIsTrouble'
    BY <2>1 DEF OverlapIsTrouble
  <2>4. QED
    BY <2>2, <2>3
<1>4. CASE StoreMoves \/ CreateDefault \/ UNCHANGED entitlementVars
  BY <1>1, <1>4 DEF StoreMoves, CreateDefault, entitlementVars
<1>5. ASSUME NEW h \in Handlers, ValidateReceipt(h) \/ HandleNotification(h)
      PROVE  AloneIsAlone' /\ OverlapIsTrouble'
  BY <1>3, <1>5 DEF ValidateReceipt, HandleNotification, Sources
<1>6. ASSUME NEW h \in Handlers, Commit(h) PROVE AloneIsAlone' /\ OverlapIsTrouble'
  <2>1. /\ req' = [req EXCEPT ![h] = NoRequest] /\ NoRequest.at = "idle"
        /\ Applying(h) /\ trouble' = (trouble /\ ~req[h].alone)
    BY <1>6 DEF Commit, NoRequest, Applying
  <2>2. trouble => trouble' \/ \A g \in Handlers \ {h} : ~Applying(g)
    <3>1. CASE req[h].alone
      <4>1. \A g \in Handlers \ {h} : ~Applying(g)
        BY <2>1, <3>1 DEF AloneIsAlone
      <4>2. QED
        BY <4>1
    <3>2. CASE ~req[h].alone
      BY <2>1, <3>2, Zenon
    <3>3. QED
      BY <3>1, <3>2
  <2>3. QED
    BY <1>2, <2>1, <2>2, RequestsMade
<1>7. ASSUME NEW h \in Handlers, Fail(h) \/ SaveProfile(h) PROVE AloneIsAlone' /\ OverlapIsTrouble'
  <2>1. /\ req' = [req EXCEPT ![h] = NoRequest] /\ NoRequest.at = "idle" /\ (trouble => trouble')
    BY <1>7 DEF Fail, SaveProfile, NoRequest
  <2>2. QED
    BY <1>2, <2>1, RequestsMade
<1>8. ASSUME NEW h \in Handlers, UpdateProfile(h) PROVE AloneIsAlone' /\ OverlapIsTrouble'
  <2> DEFINE r == [at |-> "profile", paid |-> paid]
  <2>1. r \in Requests /\ r.at = "profile" /\ req' = [req EXCEPT ![h] = r] /\ trouble' = trouble
    BY <1>8, RequestsMade DEF UpdateProfile, EntitlementTypeOK
  <2> HIDE DEF r
  <2>2. QED
    BY <1>2, <2>1
<1>9. ASSUME NEW h \in Handlers, NEW r \in Requests, GoesOn(h, r), UNCHANGED trouble
      PROVE  AloneIsAlone' /\ OverlapIsTrouble'
  BY <1>2, <1>9 DEF GoesOn
<1>10. QED
  BY <1>4, <1>5, <1>6, <1>7, <1>8, <1>9, StepKinds

\* The store says nothing new to a handler that is alone without having a notification to deliver.
LEMMA VerdictStep ==
  ASSUME EntitlementTypeOK, VerdictIsNow, ChangeCovers, [EntitlementNext]_entitlementVars
  PROVE  VerdictIsNow'
<1>0. req \in [Handlers -> Requests] /\ notices \in Nat
  BY EntitlementAssumption DEF EntitlementTypeOK
<1>1. CASE StoreMoves
  <2>1. req' = req /\ notices' > 0
    BY <1>0, <1>1 DEF StoreMoves
  <2>2. QED
    BY <2>1 DEF VerdictIsNow
<1>2. ASSUME NEW h \in Handlers, NEW r \in Requests, req' = [req EXCEPT ![h] = r],
             UNCHANGED <<store, notices>>,
             r.at \notin {"check", "load", "write", "commit"}
      PROVE  VerdictIsNow'
  <2>1. req'[h] = r /\ \A g \in Handlers \ {h} : req'[g] = req[g]
    BY <1>2, Becomes
  <2>2. QED
    BY <1>2, <2>1 DEF VerdictIsNow
<1>3. ASSUME NEW h \in Handlers, ValidateReceipt(h) \/ HandleNotification(h) PROVE VerdictIsNow'
  <2>1. PICK by \in Sources : Begin(h, by)
    BY <1>3 DEF ValidateReceipt, HandleNotification, Sources
  <2>2. /\ req'[h].at = "verify"
        /\ \A g \in Handlers \ {h} : ~Applying(g) => req'[g] = req[g]
        /\ \A g \in Handlers \ {h} : Applying(g) => ~req'[g].alone
    BY <2>1, Begins
  <2>3. QED
    BY <2>2 DEF VerdictIsNow, Applying
<1>4. ASSUME NEW h \in Handlers, Fail(h) \/ Commit(h) \/ SaveProfile(h) PROVE VerdictIsNow'
  <2>1. req' = [req EXCEPT ![h] = NoRequest] /\ NoRequest.at = "idle" /\ UNCHANGED <<store, notices>>
    BY <1>4 DEF Fail, Commit, SaveProfile, NoRequest
  <2>2. QED
    BY <1>2, <2>1, RequestsMade
<1>5. ASSUME NEW h \in Handlers, UpdateProfile(h) PROVE VerdictIsNow'
  <2> DEFINE r == [at |-> "profile", paid |-> paid]
  <2>1. /\ r \in Requests /\ r.at = "profile" /\ req' = [req EXCEPT ![h] = r]
        /\ UNCHANGED <<store, notices>>
    BY <1>5, RequestsMade DEF UpdateProfile, EntitlementTypeOK
  <2> HIDE DEF r
  <2>2. QED
    BY <1>2, <2>1
<1>6. ASSUME NEW h \in Handlers, NEW r \in Requests, GoesOn(h, r), UNCHANGED <<store, notices>>
      PROVE  VerdictIsNow'
  <2>1. req'[h] = r /\ \A g \in Handlers \ {h} : req'[g] = req[g]
    BY <1>6, Becomes DEF GoesOn
  <2>2. r.at \in {"check", "load", "write", "commit"} /\ r.alone => r.v = store \/ notices > 0
    BY <1>6 DEF GoesOn, VerdictIsNow
  <2>3. QED
    BY <1>6, <2>1, <2>2 DEF VerdictIsNow
<1>7. CASE CreateDefault \/ UNCHANGED entitlementVars
  BY <1>7 DEF CreateDefault, entitlementVars, VerdictIsNow
<1>8. QED
  BY <1>1, <1>3, <1>4, <1>5, <1>6, <1>7, StepKinds

\* The row that a handler alone compared with its verdict is the row it writes to, and no row that
\* was there is ever gone.
LEMMA CoversStep ==
  ASSUME EntitlementTypeOK, AloneIsAlone, ChangeCovers, [EntitlementNext]_entitlementVars
  PROVE  ChangeCovers'
<1>0. req \in [Handlers -> Requests]
  BY DEF EntitlementTypeOK
<1>1. ASSUME NEW h \in Handlers, NEW r \in Requests, req' = [req EXCEPT ![h] = r], row' = row,
             r.at \in {"write", "commit"} =>
               \/ r.change = {"insert"}
               \/ /\ row # Absent /\ r.change \subseteq Columns
                  /\ r.alone => \A c \in Columns \ r.change : row[c] = AsRow(r.v)[c]
      PROVE  ChangeCovers'
  <2>1. req'[h] = r /\ \A g \in Handlers \ {h} : req'[g] = req[g]
    BY <1>1, Becomes
  <2>2. QED
    BY <1>1, <2>1 DEF ChangeCovers, AsRow, DeriveStatus
<1>2. CASE StoreMoves \/ UNCHANGED entitlementVars
  <2>1. UNCHANGED <<req, row>>
    BY <1>2 DEF StoreMoves, entitlementVars
  <2>2. QED
    BY <2>1 DEF ChangeCovers, AsRow, DeriveStatus
<1>3. CASE CreateDefault
  BY <1>3 DEF CreateDefault, ChangeCovers
<1>4. ASSUME NEW h \in Handlers, ValidateReceipt(h) \/ HandleNotification(h) PROVE ChangeCovers'
  <2>1. PICK by \in Sources : Begin(h, by)
    BY <1>4 DEF ValidateReceipt, HandleNotification, Sources
  <2>2. /\ req'[h].at = "verify"
        /\ \A g \in Handlers \ {h} : ~Applying(g) => req'[g] = req[g]
        /\ \A g \in Handlers \ {h} : Applying(g) =>
             /\ req'[g].at = req[g].at /\ ~req'[g].alone
             /\ req[g].at \in {"write", "commit"} => req'[g].change = req[g].change
    BY <2>1, Begins
  <2>3. row' = row
    BY <1>4 DEF ValidateReceipt, HandleNotification
  <2>4. QED
    BY <2>2, <2>3 DEF ChangeCovers, Applying, AsRow, DeriveStatus
<1>5. ASSUME NEW h \in Handlers, Commit(h) PROVE ChangeCovers'
  <2>1. /\ req[h].at = "commit" /\ row' = Written(h)
        /\ req' = [req EXCEPT ![h] = NoRequest] /\ NoRequest.at = "idle"
    BY <1>5 DEF Commit, NoRequest
  <2>2. row' # Absent
    BY <2>1, CommitLeaves, EntitlementAssumption
  <2>3. req'[h].at = "idle" /\ \A g \in Handlers \ {h} : req'[g] = req[g]
    BY <2>1, RequestsMade, Becomes
  <2>4. \A g \in Handlers \ {h} : req[g].at \in {"write", "commit"} => ~req[g].alone
    BY <2>1 DEF AloneIsAlone, Applying
  <2>5. QED
    BY <2>2, <2>3, <2>4 DEF ChangeCovers
<1>6. ASSUME NEW h \in Handlers, Fail(h) \/ SaveProfile(h) PROVE ChangeCovers'
  <2>1. req' = [req EXCEPT ![h] = NoRequest] /\ NoRequest.at = "idle" /\ row' = row
    BY <1>6 DEF Fail, SaveProfile, NoRequest
  <2>2. QED
    BY <1>1, <2>1, RequestsMade
<1>7. ASSUME NEW h \in Handlers, UpdateProfile(h) PROVE ChangeCovers'
  <2> DEFINE r == [at |-> "profile", paid |-> paid]
  <2>1. r \in Requests /\ r.at = "profile" /\ req' = [req EXCEPT ![h] = r] /\ row' = row
    BY <1>7, RequestsMade DEF UpdateProfile, EntitlementTypeOK
  <2> HIDE DEF r
  <2>2. QED
    BY <1>1, <2>1
<1>8. ASSUME NEW h \in Handlers, NEW r \in Requests, GoesOn(h, r), UNCHANGED row
      PROVE  ChangeCovers'
  BY <1>1, <1>8 DEF GoesOn
<1>9. QED
  BY <1>2, <1>3, <1>4, <1>5, <1>6, <1>7, <1>8, StepKinds

\* Only a verdict that is applied alone ends the trouble, and it leaves what the store says.
LEMMA ToldStep ==
  ASSUME EntitlementTypeOK, AloneIsAlone, OverlapIsTrouble, VerdictIsNow, ChangeCovers, Told,
         [EntitlementNext]_entitlementVars
  PROVE  Told'
<1> SUFFICES ASSUME ~trouble', row' # Absent, row'.period # 0, notices' = 0
             PROVE  (row = AsRow(store) /\ paid = Entitled(store))' \/ BeingTold'
  BY DEF Told
<1>0. req \in [Handlers -> Requests] /\ store \in Verdict
  BY DEF EntitlementTypeOK
<1>k. ASSUME UNCHANGED <<store, notices, row, paid>>, ~trouble, BeingTold => BeingTold'
      PROVE  (row = AsRow(store) /\ paid = Entitled(store))' \/ BeingTold'
  BY <1>k DEF Told, AsRow, DeriveStatus, Entitled
<1>1. CASE StoreMoves
  BY <1>1, StoreSays
<1>2. CASE CreateDefault
  BY <1>2 DEF CreateDefault, Default
<1>3. CASE UNCHANGED entitlementVars
  <2>1. UNCHANGED <<store, notices, row, paid, trouble, req>>
    BY <1>3 DEF entitlementVars
  <2>2. BeingTold' = BeingTold
    BY <2>1 DEF BeingTold, Applying
  <2>3. QED
    BY <1>k, <2>1, <2>2
<1>4. ASSUME NEW h \in Handlers, ValidateReceipt(h) \/ HandleNotification(h)
      PROVE  (row = AsRow(store) /\ paid = Entitled(store))' \/ BeingTold'
  <2>1. PICK by \in Sources : Begin(h, by) /\ (ValidateReceipt(h) \/ by = "webhook")
    BY <1>4 DEF ValidateReceipt, HandleNotification, Sources
  <2>2. /\ ~trouble /\ \A g \in Handlers : ~Applying(g)
        /\ req'[h].at = "verify" /\ req'[h].by = by /\ req'[h].alone
    BY <2>1, Begins
  <2>3. CASE ValidateReceipt(h)
    <3>1. ~BeingTold
      BY <2>2 DEF BeingTold
    <3>2. QED
      BY <1>k, <2>2, <2>3, <3>1 DEF ValidateReceipt
  <2>4. CASE by = "webhook"
    BY <2>2, <2>4 DEF BeingTold, Applying
  <2>5. QED
    BY <2>1, <2>3, <2>4
<1>5. ASSUME NEW h \in Handlers, Commit(h)
      PROVE  (row = AsRow(store) /\ paid = Entitled(store))' \/ BeingTold'
  <2>1. /\ req[h].at = "commit" /\ row' = Written(h) /\ paid' = Entitled(req[h].v)
        /\ trouble' = (trouble /\ ~req[h].alone) /\ UNCHANGED <<store, notices>>
    BY <1>5 DEF Commit
  <2>2. req[h].alone
    <3>1. ASSUME ~req[h].alone PROVE FALSE
      <4>1. trouble
        BY <2>1, <3>1 DEF OverlapIsTrouble, Applying
      <4>2. trouble'
        BY <2>1, <3>1, <4>1, Zenon
      <4>3. QED
        BY <4>2
    <3>2. QED
      BY <3>1
  <2>3. req[h].v = store
    BY <2>1, <2>2 DEF VerdictIsNow
  <2>4. row' = AsRow(store) /\ paid' = Entitled(store)
    BY <2>1, <2>2, <2>3, CommitLeaves
  <2>5. QED
    BY <2>1, <2>4 DEF AsRow, DeriveStatus, Entitled
<1>6. ASSUME NEW h \in Handlers, Fail(h)
      PROVE  (row = AsRow(store) /\ paid = Entitled(store))' \/ BeingTold'
  <2>1. /\ ~trouble /\ req[h].by # "webhook" /\ UNCHANGED <<store, notices, row, paid>>
        /\ req' = [req EXCEPT ![h] = NoRequest]
    BY <1>6 DEF Fail
  <2>2. \A g \in Handlers \ {h} : req'[g] = req[g] /\ (Applying(g)' <=> Applying(g))
    BY <2>1, RequestsMade, Becomes
  <2>3. BeingTold => BeingTold'
    BY <2>1, <2>2 DEF BeingTold
  <2>4. QED
    BY <1>k, <2>1, <2>3
<1>7. ASSUME NEW h \in Handlers, UpdateProfile(h)
      PROVE  (row = AsRow(store) /\ paid = Entitled(store))' \/ BeingTold'
  <2>1. [at |-> "profile", paid |-> paid] \in Requests
    BY RequestsMade DEF EntitlementTypeOK
  <2>2. /\ ~trouble /\ req[h] = NoRequest /\ UNCHANGED <<store, notices, row, paid>>
        /\ req' = [req EXCEPT ![h] = [at |-> "profile", paid |-> paid]]
    BY <1>7 DEF UpdateProfile
  <2>3. ~Applying(h)
    BY <2>2 DEF Applying, NoRequest
  <2>4. \A g \in Handlers \ {h} : req'[g] = req[g] /\ (Applying(g)' <=> Applying(g))
    BY <2>1, <2>2, Becomes
  <2>5. BeingTold => BeingTold'
    BY <2>3, <2>4 DEF BeingTold
  <2>6. QED
    BY <1>k, <2>2, <2>5
<1>8. ASSUME NEW h \in Handlers, SaveProfile(h)
      PROVE  (row = AsRow(store) /\ paid = Entitled(store))' \/ BeingTold'
  <2>1. /\ ~trouble /\ paid' = paid /\ req[h].at = "profile" /\ UNCHANGED <<store, notices, row>>
        /\ req' = [req EXCEPT ![h] = NoRequest]
    BY <1>8 DEF SaveProfile
  <2>2. ~Applying(h)
    BY <2>1 DEF Applying
  <2>3. \A g \in Handlers \ {h} : req'[g] = req[g] /\ (Applying(g)' <=> Applying(g))
    BY <2>1, RequestsMade, Becomes
  <2>4. BeingTold => BeingTold'
    BY <2>2, <2>3 DEF BeingTold
  <2>5. QED
    BY <1>k, <2>1, <2>4
<1>9. ASSUME NEW h \in Handlers, NEW r \in Requests, GoesOn(h, r),
             UNCHANGED <<store, notices, row, paid, trouble>>
      PROVE  (row = AsRow(store) /\ paid = Entitled(store))' \/ BeingTold'
  <2>1. /\ req'[h] = r /\ (Applying(h)' <=> r.at \notin {"idle", "profile"})
        /\ \A g \in Handlers \ {h} : req'[g] = req[g] /\ (Applying(g)' <=> Applying(g))
    BY <1>9, Becomes DEF GoesOn
  <2>2. r.at # "idle" => Applying(h)' /\ r.by = req[h].by /\ r.alone = req[h].alone
    BY <1>9, <2>1 DEF GoesOn
  <2>3. r.at = "idle" => req[h].by # "webhook"
    BY <1>9 DEF GoesOn
  <2>4. BeingTold => BeingTold'
    BY <2>1, <2>2, <2>3 DEF BeingTold
  <2>5. QED
    BY <1>9, <1>k, <2>4
<1>10. QED
  BY <1>1, <1>2, <1>3, <1>4, <1>5, <1>6, <1>7, <1>8, <1>9, StepKinds

-----------------------------------------------------------------------------
(* The theorems on the entitlement                                           *)

\* At first no request is under way and at most the default row is there.
LEMMA EntitlementInitKeeps == EntitlementInit => EntitlementInv
<1> SUFFICES ASSUME EntitlementInit PROVE EntitlementInv
  OBVIOUS
<1>1. \A h \in Handlers : req[h] = NoRequest /\ req[h].at = "idle" /\ ~Applying(h)
  BY DEF EntitlementInit, NoRequest, Applying
<1>2. EntitlementTypeOK
  <2>1. MaxPeriod \in Nat \ {0} /\ MaxNotices \in Nat
    BY EntitlementAssumption
  <2>2. 0 \in 0 .. MaxPeriod /\ 1 \in 1 .. MaxPeriod /\ 0 \in 0 .. MaxNotices
    BY <2>1
  <2>3. Default \in Row /\ store \in Verdict
    BY <2>2 DEF EntitlementInit, Default, Row, Verdict
  <2>4. req \in [Handlers -> Requests]
    BY RequestsMade DEF EntitlementInit
  <2>5. QED
    BY <2>2, <2>3, <2>4 DEF EntitlementInit, EntitlementTypeOK
<1>3. AloneIsAlone /\ OverlapIsTrouble
  BY <1>1 DEF AloneIsAlone, OverlapIsTrouble
<1>4. VerdictIsNow /\ ChangeCovers
  BY <1>1 DEF VerdictIsNow, ChangeCovers
<1>5. Told
  BY DEF EntitlementInit, Default, Told
<1>6. QED
  BY <1>2, <1>3, <1>4, <1>5 DEF EntitlementInv

\* Every reachable state of the entitlement satisfies the invariant.
LEMMA EntitlementInvariance == EntitlementSpec => []EntitlementInv
<1>1. EntitlementInv /\ [EntitlementNext]_entitlementVars => EntitlementInv'
  <2> SUFFICES ASSUME EntitlementInv, [EntitlementNext]_entitlementVars PROVE EntitlementInv'
    OBVIOUS
  <2>1. EntitlementTypeOK' /\ ChangeCovers'
    BY EntitlementTypeStep, CoversStep DEF EntitlementInv
  <2>2. AloneIsAlone' /\ OverlapIsTrouble'
    BY AloneStep DEF EntitlementInv
  <2>3. VerdictIsNow' /\ Told'
    BY VerdictStep, ToldStep DEF EntitlementInv
  <2>4. QED
    BY <2>1, <2>2, <2>3 DEF EntitlementInv
<1>2. QED
  BY <1>1, EntitlementInitKeeps, PTL DEF EntitlementSpec

\* The store, the row, the user's columns and the requests never leave the states the code knows;
\* in particular no status is recorded that deriveStatus never gives.
THEOREM EntitlementTyped == EntitlementSpec => []EntitlementTypeOK
<1>1. EntitlementInv => EntitlementTypeOK
  BY DEF EntitlementInv
<1>2. QED
  BY <1>1, EntitlementInvariance, PTL

\* However many requests overlap: once the store has said all and nothing is under way, the row and
\* the user's columns say what the store says, unless there was trouble since the last verdict that
\* was applied alone.  [subscriptions.service.ts:256 applyFromWebhook]
THEOREM StaleOnlyAfterTrouble == EntitlementSpec => []StaleNeedsTrouble
<1>1. EntitlementInv => StaleNeedsTrouble
  <2> SUFFICES ASSUME EntitlementInv, row # Absent, row.period # 0, notices = 0, ~trouble,
                      \A h \in Handlers : req[h] = NoRequest
               PROVE  row = AsRow(store) /\ paid = Entitled(store)
    BY DEF StaleNeedsTrouble
  <2>1. ~BeingTold
    BY DEF BeingTold, Applying, NoRequest
  <2>2. QED
    BY <2>1 DEF EntitlementInv, Told
<1>2. QED
  BY <1>1, EntitlementInvariance, PTL

\* The user's columns and the subscription part only in the step that writes a profile back that was
\* loaded before, or in the commit of an overlapped verdict that does not write both the period and
\* the status.  [subscriptions.service.ts:211 applyEntitlement]
THEOREM PartsOnlyByRace == EntitlementSpec => PartOnlyByRace
<1> DEFINE Race == \E h \in Handlers :
      \/ SaveProfile(h) /\ req[h].paid # paid
      \/ Commit(h) /\ ~req[h].alone /\ ~({"period", "status"} \subseteq req[h].change)
<1>1. EntitlementInv /\ [EntitlementNext]_entitlementVars => (Agree /\ ~Agree' => Race)
  <2> SUFFICES ASSUME EntitlementInv, [EntitlementNext]_entitlementVars, Agree, ~Race PROVE Agree'
    OBVIOUS
  <2>0. EntitlementTypeOK /\ ChangeCovers
    BY DEF EntitlementInv
  <2>1. ASSUME UNCHANGED <<row, paid>> PROVE Agree'
    BY <2>1 DEF Agree
  <2>2. CASE StoreMoves \/ UNCHANGED entitlementVars
    BY <2>1, <2>2 DEF StoreMoves, entitlementVars
  <2>3. CASE CreateDefault
    BY <2>3 DEF CreateDefault, Default, Agree
  <2>4. ASSUME NEW h \in Handlers, ValidateReceipt(h) \/ HandleNotification(h) \/ Fail(h) \/ UpdateProfile(h)
        PROVE  Agree'
    BY <2>1, <2>4 DEF ValidateReceipt, HandleNotification, Fail, UpdateProfile
  <2>5. ASSUME NEW h \in Handlers, SaveProfile(h) PROVE Agree'
    <3>1. paid' = paid /\ row' = row
      BY <2>5 DEF SaveProfile
    <3>2. QED
      BY <2>1, <3>1
  <2>6. ASSUME NEW h \in Handlers, Commit(h) PROVE Agree'
    <3>1. req[h].at = "commit" /\ row' = Written(h) /\ paid' = Entitled(req[h].v)
      BY <2>6 DEF Commit
    <3>2. req[h].alone \/ {"period", "status"} \subseteq req[h].change
      BY <2>6
    <3>3. /\ row' \in Row /\ row' # Absent
          /\ row'.period = AsRow(req[h].v).period /\ row'.status = AsRow(req[h].v).status
      BY <2>0, <3>1, <3>2, CommitLeaves, EntitlementAssumption
    <3>4. req[h].v \in Verdict
      BY <2>0, <3>1, RequestKinds DEF EntitlementTypeOK
    <3>5. paid' = IF row'.status = "active" THEN row'.period ELSE 0
      BY <3>1, <3>3, <3>4, Recorded
    <3>6. QED
      BY <3>3, <3>5 DEF Agree
  <2>7. QED
    BY <2>0, <2>1, <2>2, <2>3, <2>4, <2>5, <2>6, StepKinds
<1>2. QED
  BY <1>1, EntitlementInvariance, PTL DEF EntitlementSpec, PartOnlyByRace
==============================================================================

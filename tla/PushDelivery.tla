---------------------------- MODULE PushDelivery ----------------------------
(***************************************************************************)
(* One push notification of one user (modules/notifications, devices and   *)
(* integrations/firebase), from enqueuePush on: its row, the job of the    *)
(* queue, the workers that run the job and the user who reads the row,     *)
(* while devices register and apps are removed.                            *)
(*                                                                         *)
(* Every save of a row writes what its caller loaded and changed: a late   *)
(* one overwrites.  The queue (BullMQ) is external: it runs a job again    *)
(* when its worker throws, as often as it has attempts, and when the       *)
(* worker lets its lock expire, being dead or only slow; a slow one goes   *)
(* on beside its successor, and what it then reports is ignored.  The      *)
(* backoff is time only.  No code writes the status 'delivered' and none   *)
(* deletes a row.                                                          *)
(***************************************************************************)
EXTENDS Naturals, FiniteSets

CONSTANTS Tokens,   \* FCM tokens of the user's devices
          Workers,  \* workers of the queue
          Attempts, \* attempts of a job: 3 in the code
          Stalls,   \* how often the queue forgives an expired lock
          None

Statuses == {"queued", "sent", "failed", "read"}

ASSUME PushAssumption == /\ IsFiniteSet(Tokens)
                         /\ None \notin Workers \cup Statuses
                         /\ Attempts \in Nat \ {0} /\ Stalls \in Nat

VARIABLES live,    \* tokens FCM delivers to
          devices, \* tokens in the devices table
          log,     \* the row's status, None before it is created
          enq,     \* where enqueuePush is and the tokens it resolved
          job,     \* the job in the queue
          run,     \* per worker, where its run of the job is
          reader,  \* whether a markRead is between its read and its save
          pushes,  \* per token, how many pushes reached the device
          faults,  \* answers and saves of a send that were lost, locks expired
          opened   \* whether the user has read it: "no", "alone" when nothing
                   \* else was under way with the row, "during" otherwise

vars == <<live, devices, log, enq, job, run, reader, pushes, faults, opened>>

NoJob    == [state |-> "none", owner |-> None, left |-> Attempts, stalls |-> 0]
Idle     == [at |-> "idle"]
Runs     == {Idle} \cup [at : {"send"}]
            \cup [at : {"purge", "save"}, write : {"sent", "failed"}, dead : SUBSET Tokens]
            \cup [at : {"catch"}]

TypeOK == /\ live \subseteq Tokens /\ devices \subseteq Tokens
          /\ log \in Statuses \cup {None}
          /\ enq \in [at : {"idle", "resolved", "saved", "done", "lost"}, tokens : SUBSET Tokens]
          /\ job \in [state : {"none", "waiting", "active", "completed", "failed"},
                      owner : Workers \cup {None}, left : 0 .. Attempts, stalls : 0 .. Stalls]
          /\ run \in [Workers -> Runs]
          /\ reader \in BOOLEAN
          /\ pushes \in [Tokens -> Nat] /\ faults \in Nat
          /\ opened \in {"no", "alone", "during"}

Init == /\ live = Tokens
        /\ devices \in SUBSET Tokens
        /\ log = None
        /\ enq = [at |-> "idle", tokens |-> {}]
        /\ job = NoJob
        /\ run = [w \in Workers |-> Idle]
        /\ reader = FALSE
        /\ pushes = [t \in Tokens |-> 0]
        /\ faults = 0
        /\ opened = "no"

-----------------------------------------------------------------------------
(* Devices                                                                 *)

RegisterDevice(t) == /\ t \in live \ devices
                     /\ devices' = devices \cup {t}
                     /\ UNCHANGED <<live, log, enq, job, run, reader, pushes, faults, opened>>

RemoveApp(t) == /\ t \in live
                /\ live' = live \ {t}
                /\ UNCHANGED <<devices, log, enq, job, run, reader, pushes, faults, opened>>

-----------------------------------------------------------------------------
(* enqueuePush                                                             *)

ResolveTokens == /\ enq.at = "idle"
                 /\ enq' = [at |-> "resolved", tokens |-> devices]
                 /\ UNCHANGED <<live, devices, log, job, run, reader, pushes, faults, opened>>

SaveQueued == /\ enq.at = "resolved"
              /\ log' = "queued"
              /\ enq' = [enq EXCEPT !.at = "saved"]
              /\ UNCHANGED <<live, devices, job, run, reader, pushes, faults, opened>>

NoDevices == /\ enq.at = "saved" /\ enq.tokens = {}
             /\ log' = "failed"
             /\ enq' = [enq EXCEPT !.at = "done"]
             /\ UNCHANGED <<live, devices, job, run, reader, pushes, faults, opened>>

AddJob == /\ enq.at = "saved" /\ enq.tokens # {}
          /\ job' = [job EXCEPT !.state = "waiting"]
          /\ enq' = [enq EXCEPT !.at = "done"]
          /\ UNCHANGED <<live, devices, log, run, reader, pushes, faults, opened>>

(* The database or the queue refuses, or the process ends.                 *)
EnqueueFails == /\ enq.at \in {"resolved", "saved"}
                /\ enq' = [enq EXCEPT !.at = "lost"]
                /\ UNCHANGED <<live, devices, log, job, run, reader, pushes, faults, opened>>

-----------------------------------------------------------------------------
(* The worker                                                              *)

(* The processor throws unless the delivery says it is done with.  Only    *)
(* the worker that holds the job's lock is heard.                          *)
Ended(w, ok) ==
  /\ run' = [run EXCEPT ![w] = Idle]
  /\ job' = IF job.owner # w THEN job
            ELSE [job EXCEPT !.owner = None,
                    !.left  = IF ok THEN @ ELSE @ - 1,
                    !.state = IF ok THEN "completed" ELSE IF job.left > 1 THEN "waiting" ELSE "failed"]

\* Mutant of MayDeliver: a row the user has read is delivered all the same.
MayDeliverAgain(status) == status \in Statuses

MayDeliver(status) == status # "read"

(* The worker takes the job and reads the row; it is done with one that    *)
(* was read.  The lookup itself may fail, outside deliver's try.           *)
Take(w) ==
  /\ job.state = "waiting" /\ run[w] = Idle
  /\ \/ /\ MayDeliver(log)
        /\ job' = [job EXCEPT !.state = "active", !.owner = w]
        /\ run' = [run EXCEPT ![w] = [at |-> "send"]]
     \/ /\ ~MayDeliver(log)
        /\ job' = [job EXCEPT !.state = "completed"]
        /\ UNCHANGED run
     \/ /\ job' = [job EXCEPT !.left = @ - 1, !.state = IF job.left > 1 THEN "waiting" ELSE "failed"]
        /\ UNCHANGED run
  /\ UNCHANGED <<live, devices, log, enq, reader, pushes, faults, opened>>

\* Mutant of Outcome: a send counts only when it reached every device.
OutcomeOfAll(answered) == IF answered = enq.tokens THEN "sent" ELSE "failed"

Outcome(answered) == IF answered # {} THEN "sent" ELSE "failed"

(* sendPush: FCM answers per token.  A device may get the push though the  *)
(* answer is lost.  A token that was not reached may be reported as dead:  *)
(* a live one too, by messaging/invalid-argument.  Nothing reached and     *)
(* nothing reported is also what a throw amounts to, as when Firebase is   *)
(* not configured.                                                         *)
Send(w) ==
  /\ run[w].at = "send"
  /\ \E reached \in SUBSET (enq.tokens \cap live) :
     \E answered \in SUBSET reached, dead \in SUBSET (enq.tokens \ reached) :
       /\ pushes' = [t \in Tokens |-> IF t \in reached THEN pushes[t] + 1 ELSE pushes[t]]
       /\ faults' = IF answered = reached THEN faults ELSE faults + 1
       /\ run' = [run EXCEPT ![w] = [at |-> IF dead = {} THEN "save" ELSE "purge",
                                     write |-> Outcome(answered), dead |-> dead]]
  /\ UNCHANGED <<live, devices, log, enq, job, reader, opened>>

(* purgeInvalidTokens may fail without a consequence.  The job keeps its   *)
(* tokens.                                                                 *)
Purge(w) == /\ run[w].at = "purge"
            /\ devices' \in {devices, devices \ run[w].dead}
            /\ run' = [run EXCEPT ![w].at = "save"]
            /\ UNCHANGED <<live, log, enq, job, reader, pushes, faults, opened>>

Save(w) == /\ run[w].at = "save"
           /\ log' = run[w].write
           /\ Ended(w, run[w].write = "sent")
           /\ UNCHANGED <<live, devices, enq, reader, pushes, faults, opened>>

(* A save that throws lands in the catch, also after a push that was sent. *)
SaveThrows(w) == /\ run[w].at = "save"
                 /\ run' = [run EXCEPT ![w] = [at |-> "catch"]]
                 /\ faults' = IF run[w].write = "sent" THEN faults + 1 ELSE faults
                 /\ UNCHANGED <<live, devices, log, enq, job, reader, pushes, opened>>

Catch(w) == /\ run[w].at = "catch"
            /\ log' \in {"failed", log}
            /\ Ended(w, FALSE)
            /\ UNCHANGED <<live, devices, enq, reader, pushes, faults, opened>>

(* The lock expires.                                                       *)
Stall(w) ==
  /\ job.state = "active" /\ job.owner = w
  /\ job' = IF job.stalls < Stalls
            THEN [job EXCEPT !.owner = None, !.state = "waiting", !.stalls = @ + 1]
            ELSE [job EXCEPT !.owner = None, !.state = "failed"]
  /\ run' \in {run, [run EXCEPT ![w] = Idle]}
  /\ faults' = faults + 1
  /\ UNCHANGED <<live, devices, log, enq, reader, pushes, opened>>

-----------------------------------------------------------------------------
(* The user                                                                *)

MarkRead == /\ log \notin {None, "read"} /\ ~reader
            /\ reader' = TRUE
            /\ UNCHANGED <<live, devices, log, enq, job, run, pushes, faults, opened>>

Untouched == enq.at # "saved" /\ \A w \in Workers : run[w] = Idle

SaveRead == /\ reader
            /\ log' = "read"
            /\ reader' = FALSE
            /\ opened' = IF opened = "alone" \/ Untouched THEN "alone" ELSE "during"
            /\ UNCHANGED <<live, devices, enq, job, run, pushes, faults>>

User   == MarkRead \/ SaveRead \/ \E t \in Tokens : RegisterDevice(t) \/ RemoveApp(t)
Queue  == ResolveTokens \/ SaveQueued \/ NoDevices \/ AddJob \/ EnqueueFails
Worker(w) == Take(w) \/ Send(w) \/ Purge(w) \/ Save(w) \/ SaveThrows(w) \/ Catch(w) \/ Stall(w)

Next == User \/ Queue \/ \E w \in Workers : Worker(w)

Spec == Init /\ [][Next]_vars

-----------------------------------------------------------------------------
(* Properties                                                              *)

(* A device gets the push once, and once more at most for every answer or  *)
(* save that was lost and every lock that expired: a retry after a plain   *)
(* failure, also one of some devices only, repeats no push.                *)
(* [notifications.service.ts:110 deliver]                                  *)
RepeatedOnlyAfterFault == \A t \in Tokens : pushes[t] <= 1 + faults

AtRest == /\ enq.at \in {"done", "lost"} /\ ~reader
          /\ job.state \notin {"waiting", "active"}
          /\ \A w \in Workers : run[w] = Idle

(* What the row says is true.  At rest and without a fault 'sent' means a  *)
(* device got the push, 'failed' that none did, and 'queued' is left only  *)
(* by an enqueuePush that failed or by a job that used up its attempts and *)
(* could not say so.  At any time, a notification read while neither a     *)
(* worker nor enqueuePush was at its row is 'read'.                        *)
(* [notifications.service.ts:110 deliver, :179 markRead]                   *)
RowIsTrue ==
  /\ AtRest /\ faults = 0 =>
       /\ log = "sent" => \E t \in Tokens : pushes[t] > 0
       /\ log = "failed" => \A t \in Tokens : pushes[t] = 0
       /\ log = "queued" => enq.at = "lost" \/ job.state = "failed"
  /\ opened = "alone" => log = "read"
=============================================================================

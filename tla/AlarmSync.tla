----------------------------- MODULE AlarmSync ------------------------------
(***************************************************************************)
(* The app's three copies of the alarms and the server they copy:          *)
(*   cache    - SharedPreferences (AlarmLocalDataSource),                  *)
(*   triggers - the alarms armed in the operating system (AlarmScheduler), *)
(*   ui       - the list on the screen (AlarmsNotifier),                   *)
(*   db, listCache - the backend (module AlarmService).                    *)
(* A call of AlarmRepositoryImpl writes them one after the other.  A       *)
(* request or its answer may be lost, and a call that gave up may still be *)
(* served; calls overlap as far as the screens let the user start them.    *)
(***************************************************************************)
EXTENDS AlarmService, Sequences

CONSTANTS UserOps,   \* bound: the operations each call may be
          MaxOpen,   \* bound: the calls in flight at once
          MaxFaults  \* bound: writes given up, forms left, Redis and platform calls
                     \* that fail

ASSUME BoundAssumption == MaxFaults \in Nat

VARIABLES cache, triggers, ui,
          calls,   \* per call, how far the repository is
          trouble, \* history: see below
          faults   \* the faults there have been, for the bound

phoneVars == <<cache, triggers, ui>>
history == <<trouble, faults>>
vars == <<serviceVars, phoneVars, calls, history>>

(* What may have set the copies apart ("open"): a write whose answer was   *)
(* lost or whose form was left, a native or a Redis call that failed, or   *)
(* calls that overlapped on an alarm.  A refresh that ran undisturbed and  *)
(* told the truth ends it ("past").                                        *)
Troubles == {"none", "open", "past"}

Stages == {"idle", "waiting", "native", "done"}
Shown  == [Alarms -> Seq(Switch)]
Call   == [stage : Stages, previous : Shown, todo : SUBSET Alarms,
           clean : BOOLEAN, left : BOOLEAN]

Tiles(list) == [a \in Alarms |-> IF list[a] = "absent" THEN <<>> ELSE <<list[a]>>]
NoTiles == Tiles(EmptyList)

Ended == [stage |-> "done", previous |-> NoTiles, todo |-> {},
          clean |-> FALSE, left |-> FALSE]
Unused == [Ended EXCEPT !.stage = "idle"]

TypeOK == /\ ServiceTypeOK
          /\ cache \in List
          /\ triggers \subseteq Alarms
          /\ ui \in [phase : {"data", "loading"}, list : Shown]
          /\ calls \in [Calls -> Call]
          /\ trouble \in Troubles
          /\ faults \in 0..MaxFaults

-----------------------------------------------------------------------------
(* A call is in flight as long as the app or the server is busy with it.   *)
InFlight(c) == calls[c].stage \in {"waiting", "native"} \/ requests[c].pc # "closed"
Quiet == \A c \in Calls : ~InFlight(c)

Reads == {"list", "get"}

(* Two calls conflict when one writes what the other reads or writes.      *)
Conflict(op, a, op2, a2) ==
  /\ {op, op2} \ Reads # {}
  /\ \/ "list" \in {op, op2}
     \/ a = a2 /\ a # NoAlarm

Overlaps(c, op, a) ==
  \E d \in Calls \ {c} : InFlight(d) /\ Conflict(op, a, requests[d].op, requests[d].alarm)

(* A step that worked or not, and whether it meets a call it conflicts with. *)
Record(ok, conflict) ==
  /\ faults' = IF ok THEN faults ELSE faults + 1
  /\ faults' <= MaxFaults
  /\ trouble' = IF ok /\ ~conflict THEN trouble ELSE "open"
Try(ok) == Record(ok, FALSE)

Alone(c) == \A d \in Calls \ {c} : ~InFlight(d)

(* The app's request leaves; every other call has company from now on.     *)
Begin(c, op, a, s, p, previous) ==
  /\ calls[c].stage = "idle" /\ op \in UserOps[c]
  /\ Cardinality({d \in Calls : InFlight(d)}) < MaxOpen
  /\ requests' = [requests EXCEPT ![c] = Sent(op, a, s, p)]
  /\ calls' = [d \in Calls |->
                 IF d = c THEN [Ended EXCEPT !.stage = "waiting", !.clean = op = "list" /\ Alone(c),
                                             !.previous = previous]
                          ELSE [calls[d] EXCEPT !.clean = FALSE]]
  /\ Record(TRUE, Overlaps(c, op, a))

OnScreen(a) == ui.phase = "data" /\ ui.list[a] # <<>>

(* One form is open at a time, and its button is off while it saves.       *)
Saving(c) == /\ calls[c].stage \in {"waiting", "native"}
             /\ requests[c].op \in {"create", "update"}
             /\ ~calls[c].left
FormFree  == \A c \in Calls : ~Saving(c)

Flipped(tiles)     == [i \in DOMAIN tiles |-> Flip(tiles[i])]
Replaced(tiles, s) == [i \in DOMAIN tiles |-> s]

-----------------------------------------------------------------------------
(* The user's and the ring screen's calls.                                 *)

Refresh(c) ==
  /\ Begin(c, "list", NoAlarm, "on", FALSE, NoTiles)
  /\ ui' = [ui EXCEPT !.phase = "loading"]
  /\ UNCHANGED <<db, listCache, cache, triggers>>

GetAlarm(c, a) ==
  /\ a \in triggers
  /\ Begin(c, "get", a, "on", FALSE, NoTiles)
  /\ UNCHANGED <<db, listCache, phoneVars>>

Create(c, s, p) ==
  /\ FormFree
  /\ Begin(c, "create", NoAlarm, s, p, NoTiles)
  /\ UNCHANGED <<db, listCache, phoneVars>>

(* The form was opened from the list, which may be loading again by now.   *)
Update(c, a, s) ==
  /\ FormFree /\ ui.list[a] # <<>>
  /\ Begin(c, "update", a, s, FALSE, NoTiles)
  /\ UNCHANGED <<db, listCache, phoneVars>>

(* Optimistic: the list changes now and is restored should the call fail.  *)
Toggle(c, a) ==
  /\ OnScreen(a)
  /\ Begin(c, "toggle", a, "on", FALSE, ui.list)
  /\ ui' = [ui EXCEPT !.list[a] = Flipped(@)]
  /\ UNCHANGED <<db, listCache, cache, triggers>>

Delete(c, a) ==
  /\ OnScreen(a)
  /\ Begin(c, "delete", a, "on", FALSE, ui.list)
  /\ ui' = [ui EXCEPT !.list[a] = <<>>]
  /\ UNCHANGED <<db, listCache, cache, triggers>>

(* Back is pressed while the form saves: its result finds nobody mounted.  *)
LeaveForm(c) ==
  /\ Saving(c)
  /\ calls' = [calls EXCEPT ![c].left = TRUE]
  /\ Try(FALSE)
  /\ UNCHANGED <<serviceVars, phoneVars>>

-----------------------------------------------------------------------------
(* Failure: a list is served from the cache, an optimistic change is taken *)
(* back by restoring the whole list, anything else only reports.           *)
Fail(c) ==
  /\ ui' = CASE requests[c].op = "list" -> [phase |-> "data", list |-> Tiles(cache)]
             [] requests[c].op \in {"toggle", "delete"} ->
                  [phase |-> "data", list |-> calls[c].previous]
             [] OTHER -> ui
  /\ calls' = [calls EXCEPT ![c] = Ended]
  /\ UNCHANGED <<db, listCache, cache, triggers>>

(* NetworkException: off line, or the answer is late.  The ring screen is  *)
(* given the cached alarm; the request may still be under way (one that    *)
(* only reads one row no longer matters) ...                               *)
GiveUp(c) ==
  /\ calls[c].stage = "waiting"
  /\ Fail(c)
  /\ Try(requests[c].op \in Reads)
  /\ requests' = [requests EXCEPT ![c] =
                     IF @.op = "get" \/ @.pc \in {"ok", "refused"} THEN Closed
                     ELSE [@ EXCEPT !.heard = FALSE]]

(* ... or never reaches the server.                                        *)
Lose(c) ==
  /\ requests[c].pc = "sent" /\ ~requests[c].heard
  /\ requests' = [requests EXCEPT ![c] = Closed]
  /\ UNCHANGED <<db, listCache, phoneVars, calls, history>>

(* 403 and 404: ServerException.                                           *)
Refused(c) ==
  /\ calls[c].stage = "waiting" /\ requests[c].pc = "refused"
  /\ Fail(c)
  /\ requests' = [requests EXCEPT ![c] = Closed]
  /\ UNCHANGED history

-----------------------------------------------------------------------------
(* Success: first the cache ...                                            *)

Answered(c, ops) == /\ calls[c].stage = "waiting"
                    /\ At(c, ops, "ok")

CacheAlarms(c) ==
  /\ Answered(c, {"list"})
  /\ cache' = requests[c].list
  /\ calls' = [calls EXCEPT ![c].stage = "native",
                            ![c].todo = {a \in Alarms : requests[c].list[a] # "absent"}]
  /\ UNCHANGED <<serviceVars, triggers, ui, history>>

UpsertAlarm(c) ==
  /\ Answered(c, {"create", "update", "toggle"})
  /\ cache' = [cache EXCEPT ![requests[c].alarm] = requests[c].row]
  /\ calls' = [calls EXCEPT ![c].stage = "native"]
  /\ UNCHANGED <<serviceVars, triggers, ui, history>>

RemoveAlarm(c) ==
  /\ Answered(c, {"delete"})
  /\ cache' = [cache EXCEPT ![requests[c].alarm] = "absent"]
  /\ calls' = [calls EXCEPT ![c].stage = "native"]
  /\ UNCHANGED <<serviceVars, triggers, ui, history>>

GotAlarm(c) ==
  /\ Answered(c, {"get"})
  /\ cache' = [cache EXCEPT ![requests[c].alarm] = requests[c].row]
  /\ calls' = [calls EXCEPT ![c] = Ended]
  /\ requests' = [requests EXCEPT ![c] = Closed]
  /\ UNCHANGED <<db, listCache, triggers, ui, history>>

\* Mutant of Schedule: what is switched off is left armed.
ScheduleOnly(a, s, ok) == triggers' = IF ok /\ s = "on" THEN triggers \cup {a} ELSE triggers

(* ... then the operating system: AlarmSchedulerImpl.schedule cancels what *)
(* is switched off, and _invoke swallows what the platform refuses.        *)
Schedule(a, s, ok) ==
  triggers' = IF ~ok THEN triggers
              ELSE IF s = "on" THEN triggers \cup {a}
              ELSE triggers \ {a}

(* _rescheduleAll, one alarm after the other.                              *)
Reschedule(c, ok) ==
  /\ calls[c].stage = "native" /\ requests[c].op = "list"
  /\ \E a \in calls[c].todo :
       /\ Schedule(a, requests[c].list[a], ok)
       /\ calls' = [calls EXCEPT ![c].todo = @ \ {a}, ![c].clean = @ /\ ok]
  /\ Try(ok)
  /\ UNCHANGED <<serviceVars, cache, ui>>

(* ... then the list on the screen.                                        *)
ListShown(c) ==
  /\ calls[c].stage = "native" /\ requests[c].op = "list" /\ calls[c].todo = {}
  /\ ui' = [phase |-> "data", list |-> Tiles(requests[c].list)]
  /\ calls' = [calls EXCEPT ![c] = Ended]
  /\ requests' = [requests EXCEPT ![c] = Closed]
  /\ trouble' = IF trouble = "open" /\ calls[c].clean /\ requests[c].list = AllLive
                THEN "past" ELSE trouble
  /\ UNCHANGED <<faults, db, listCache, cache, triggers>>

NativeStage(c, ops) == calls[c].stage = "native" /\ requests[c].op \in ops

ScheduleAlarm(c, ok) ==
  LET a == requests[c].alarm
  IN /\ NativeStage(c, {"create", "toggle"})
     /\ Schedule(a, requests[c].row, ok)
     /\ ui' = CASE requests[c].op = "toggle" ->
                     [phase |-> "data", list |-> [ui.list EXCEPT ![a] = Replaced(@, requests[c].row)]]
                [] requests[c].op = "create" /\ calls[c].left -> ui
                [] OTHER -> [phase |-> "data",
                             list |-> [ui.list EXCEPT ![a] = Append(@, requests[c].row)]]
     /\ calls' = [calls EXCEPT ![c] = Ended]
     /\ requests' = [requests EXCEPT ![c] = Closed]
     /\ Try(ok)
     /\ UNCHANGED <<db, listCache, cache>>

\* Mutant of CancelAlarm: the scheduler is not told of the deletion.
DeleteOnly(c, ok) ==
  /\ NativeStage(c, {"delete"})
  /\ calls' = [calls EXCEPT ![c] = Ended]
  /\ requests' = [requests EXCEPT ![c] = Closed]
  /\ Try(ok)
  /\ UNCHANGED <<db, listCache, cache, triggers, ui>>

CancelAlarm(c, ok) ==
  /\ NativeStage(c, {"delete"})
  /\ Schedule(requests[c].alarm, "off", ok)
  /\ calls' = [calls EXCEPT ![c] = Ended]
  /\ requests' = [requests EXCEPT ![c] = Closed]
  /\ Try(ok)
  /\ UNCHANGED <<db, listCache, cache, ui>>

(* An edit ends with a refresh of the list, which nobody awaits.           *)
ScheduleUpdated(c, ok) ==
  /\ NativeStage(c, {"update"})
  /\ Schedule(requests[c].alarm, requests[c].row, ok)
  /\ IF calls[c].left
     THEN /\ calls' = [calls EXCEPT ![c] = Ended]
          /\ requests' = [requests EXCEPT ![c] = Closed]
          /\ Try(ok)
          /\ UNCHANGED ui
     ELSE /\ requests' = [requests EXCEPT ![c] = Sent("list", NoAlarm, "on", FALSE)]
          /\ calls' = [d \in Calls |->
                         IF d = c THEN [Ended EXCEPT !.stage = "waiting", !.clean = Alone(c)]
                                  ELSE [calls[d] EXCEPT !.clean = FALSE]]
          /\ Record(ok, Overlaps(c, "list", NoAlarm))
          /\ ui' = [ui EXCEPT !.phase = "loading"]
  /\ UNCHANGED <<db, listCache, cache>>

-----------------------------------------------------------------------------
(* The server's side.                                                      *)
Serve(c) ==
  /\ \/ ListCached(c) \/ ListMissed(c) \/ ListFind(c) \/ ListSet(c)
     \/ GetOne(c) \/ FindOne(c) \/ Save(c) \/ SoftRemove(c)
     \/ Count(c) \/ Insert(c)
  /\ UNCHANGED <<phoneVars, calls, history>>

ServeInvalidate(c, redisUp) ==
  /\ Invalidate(c, redisUp)
  /\ Try(redisUp)
  /\ UNCHANGED <<phoneVars, calls>>

(* The app has just loaded the list of an account that had been in use.    *)
Init ==
  /\ db \in [Alarms -> Switch \cup {"unused"}]
  /\ listCache \in {NoList, AllLive}
  /\ cache = AllLive
  /\ triggers = {a \in Alarms : db[a] = "on"}
  /\ ui = [phase |-> "data", list |-> Tiles(AllLive)]
  /\ requests = [c \in Calls |-> Closed]
  /\ calls = [c \in Calls |-> Unused]
  /\ trouble = "none"
  /\ faults = 0

Next ==
  \/ \E c \in Calls :
       \/ Refresh(c)
       \/ \E s \in Switch, p \in BOOLEAN : Create(c, s, p)
       \/ LeaveForm(c) \/ GiveUp(c) \/ Lose(c) \/ Refused(c)
       \/ CacheAlarms(c) \/ UpsertAlarm(c) \/ RemoveAlarm(c) \/ GotAlarm(c)
       \/ ListShown(c) \/ Serve(c)
       \/ \E a \in Alarms : \/ GetAlarm(c, a) \/ Toggle(c, a) \/ Delete(c, a)
                            \/ \E s \in Switch : Update(c, a, s)
       \/ \E ok \in BOOLEAN : \/ Reschedule(c, ok) \/ ScheduleAlarm(c, ok)
                              \/ CancelAlarm(c, ok) \/ ScheduleUpdated(c, ok)
                              \/ ServeInvalidate(c, ok)

Spec == Init /\ [][Next]_vars

-----------------------------------------------------------------------------
(* Where nothing is known to have set them apart, the cache and the screen *)
(* show the server's alarms, and a live alarm is armed exactly when it is  *)
(* on: sequences of calls, overlapping ones that do not conflict, refused  *)
(* ones and reads that give up included, and a clean refresh repairs what  *)
(* is wrong (alarm_repository_impl.dart:21-22, 42, 250-256).               *)
CopiesAgree ==
  Quiet /\ trouble # "open" =>
    /\ cache = AllLive
    /\ ui = [phase |-> "data", list |-> Tiles(AllLive)]
    /\ \A a \in Live : a \in triggers <=> db[a] = "on"

(* An alarm the server no longer has rings only after trouble, be it past: *)
(* a refresh arms and cancels what the server lists, and nothing else.     *)
GhostNeedsTrouble == Quiet /\ trouble = "none" => triggers \subseteq Live

(* The list in Redis is out of date only while or after calls conflicted,  *)
(* or Redis missed an invalidation (alarms.service.ts:19-21).              *)
CachedListIsFresh ==
  Quiet /\ trouble # "open" => listCache \in {NoList, AllLive}

(* The free plan's limit (alarms.service.ts:106-108) holds as long as each *)
(* creation has ended before the next one starts.  A user whose premium    *)
(* lapsed may own more: the limit is on what is added.                     *)
LimitHolds ==
  [][\A c \in Calls :
       /\ requests[c].pc = "insert" /\ requests'[c].pc = "invalidate"
       /\ ~requests[c].premium /\ trouble = "none"
       => Cardinality(Live') <= FreeLimit]_vars
=============================================================================

---------------------------- MODULE AlarmService ----------------------------
(***************************************************************************)
(* The backend's alarms of one user (modules/alarms/alarms.service.ts):    *)
(* the rows in Postgres, the list cached in Redis, and the handlers that   *)
(* serve the app's requests.  A handler is a sequence of awaits, and the   *)
(* handlers of several requests interleave at each of them.                *)
(*                                                                         *)
(* Of a row only what the app's three copies are compared by is kept:      *)
(* whether the alarm exists, is switched on, or was (softly) deleted.      *)
(* Whether a creation is on the free plan is the user's status as it came. *)
(***************************************************************************)
EXTENDS Naturals, FiniteSets

CONSTANTS Alarms,     \* the identifiers rows can get
          Calls,      \* the requests the app makes, each at most once open
          FreeLimit,  \* appConfig.freeAlarmLimit
          NoAlarm, NoList

ASSUME ServiceAssumption == /\ IsFiniteSet(Alarms)
                            /\ FreeLimit \in Nat \ {0}
                            /\ NoAlarm \notin Alarms

VARIABLES db,        \* the row of each identifier
          listCache, \* Redis' alarms:list:<userId>, or NoList
          requests   \* per call, how far its handler is

serviceVars == <<db, listCache, requests>>

Switch == {"on", "off"}
Row    == Switch \cup {"unused", "deleted"}
List   == [Alarms -> Switch \cup {"absent"}]

(* where: deletedAt IsNull().                                              *)
Live == {a \in Alarms : db[a] \in Switch}
AllLive == [a \in Alarms |-> IF a \in Live THEN db[a] ELSE "absent"]
EmptyList == [a \in Alarms |-> "absent"]

Ops  == {"list", "get", "create", "update", "toggle", "delete"}
Pcs  == {"closed", "sent", "find", "set", "insert", "save", "softRemove",
         "invalidate", "reread", "ok", "refused"}

Request == [op : Ops, alarm : Alarms \cup {NoAlarm}, row : Switch,
            list : List, premium : BOOLEAN, heard : BOOLEAN, pc : Pcs]

(* A request as the app sends it; row is the switch its body carries, and  *)
(* heard says that the app still waits for the answer.                     *)
Sent(op, a, s, p) == [op |-> op, alarm |-> a, row |-> s, list |-> EmptyList,
                      premium |-> p, heard |-> TRUE, pc |-> "sent"]
Closed == [Sent("list", NoAlarm, "on", FALSE) EXCEPT !.pc = "closed"]

ServiceTypeOK == /\ db \in [Alarms -> Row]
                 /\ listCache \in List \cup {NoList}
                 /\ requests \in [Calls -> Request]

At(c, ops, pc) == requests[c].op \in ops /\ requests[c].pc = pc
Flip(s)        == IF s = "on" THEN "off" ELSE "on"
Answer(c, r)   == requests' = [requests EXCEPT ![c] = IF @.heard THEN r ELSE Closed]
Refuse(c)      == Answer(c, [requests[c] EXCEPT !.pc = "refused"])
Goto(c, pc)    == requests' = [requests EXCEPT ![c].pc = pc]

-----------------------------------------------------------------------------
(* findAllForUser: the cached list, or the rows read now and cached later. *)
(* Redis drops a key that is too old (ALARM_LIST_TTL_SEC) when it is read; *)
(* a get or a set that fails is swallowed, and comes to the same.          *)

ListCached(c) ==
  /\ At(c, {"list"}, "sent")
  /\ listCache # NoList
  /\ Answer(c, [requests[c] EXCEPT !.list = listCache, !.pc = "ok"])
  /\ UNCHANGED <<db, listCache>>

ListMissed(c) ==
  /\ At(c, {"list"}, "sent")
  /\ listCache' = NoList
  /\ Goto(c, "find")
  /\ UNCHANGED db

ListFind(c) ==
  /\ At(c, {"list"}, "find")
  /\ requests' = [requests EXCEPT ![c].list = AllLive, ![c].pc = "set"]
  /\ UNCHANGED <<db, listCache>>

ListSet(c) ==
  /\ At(c, {"list"}, "set")
  /\ listCache' = requests[c].list
  /\ Answer(c, [requests[c] EXCEPT !.pc = "ok"])
  /\ UNCHANGED db

-----------------------------------------------------------------------------
(* findOneForUser opens every request about one alarm and ends every write *)
(* that has an answer: the row as it is then, or 404.                      *)

\* Mutant of GetOne: the row is answered without a look at whether it is there.
GetOneUnchecked(c) ==
  /\ At(c, {"get"}, "sent") \/ At(c, {"create", "update", "toggle"}, "reread")
  /\ Answer(c, [requests[c] EXCEPT !.row = db[requests[c].alarm], !.pc = "ok"])
  /\ UNCHANGED <<db, listCache>>

GetOne(c) ==
  LET a == requests[c].alarm
  IN /\ At(c, {"get"}, "sent") \/ At(c, {"create", "update", "toggle"}, "reread")
     /\ IF a \in Live THEN Answer(c, [requests[c] EXCEPT !.row = db[a], !.pc = "ok"])
                      ELSE Refuse(c)
     /\ UNCHANGED <<db, listCache>>

FindOne(c) ==
  LET a == requests[c].alarm
  IN /\ At(c, {"update", "toggle", "delete"}, "sent")
     /\ IF a \notin Live THEN Refuse(c)
        ELSE CASE requests[c].op = "delete" -> Goto(c, "softRemove")
               [] requests[c].op = "update" -> Goto(c, "save")
               [] requests[c].op = "toggle" ->
                    requests' = [requests EXCEPT ![c].row = Flip(db[a]), ![c].pc = "save"]
     /\ UNCHANGED <<db, listCache>>

(* save writes back the entity FindOne loaded, deletedAt = null included.  *)
Save(c) ==
  /\ At(c, {"update", "toggle"}, "save")
  /\ db' = [db EXCEPT ![requests[c].alarm] = requests[c].row]
  /\ Goto(c, "invalidate")
  /\ UNCHANGED listCache

SoftRemove(c) ==
  /\ At(c, {"delete"}, "softRemove")
  /\ db' = [db EXCEPT ![requests[c].alarm] = "deleted"]
  /\ Goto(c, "invalidate")
  /\ UNCHANGED listCache

\* Mutant of Count: off by one.
CountLate(c) ==
  /\ At(c, {"create"}, "sent")
  /\ IF ~requests[c].premium /\ Cardinality(Live) > FreeLimit
     THEN Refuse(c) ELSE Goto(c, "insert")
  /\ UNCHANGED <<db, listCache>>

(* assertWithinFreeLimit, and later the transaction that inserts.          *)
Count(c) ==
  /\ At(c, {"create"}, "sent")
  /\ IF ~requests[c].premium /\ Cardinality(Live) >= FreeLimit
     THEN Refuse(c) ELSE Goto(c, "insert")
  /\ UNCHANGED <<db, listCache>>

Insert(c) ==
  /\ At(c, {"create"}, "insert")
  /\ \E a \in Alarms :
       /\ db[a] = "unused"
       /\ db' = [db EXCEPT ![a] = requests[c].row]
       /\ requests' = [requests EXCEPT ![c].alarm = a, ![c].pc = "invalidate"]
  /\ UNCHANGED listCache

\* Mutant of Invalidate: a write leaves the cached list alone.
KeepList(c, redisUp) ==
  /\ At(c, Ops, "invalidate")
  /\ IF requests[c].op = "delete"
     THEN Answer(c, [requests[c] EXCEPT !.pc = "ok"])
     ELSE requests' = [requests EXCEPT ![c].row = "on", ![c].pc = "reread"]
  /\ UNCHANGED <<db, listCache>>

(* invalidateList; while Redis is down, del fails and is swallowed.        *)
Invalidate(c, redisUp) ==
  /\ At(c, Ops, "invalidate")
  /\ listCache' = IF redisUp THEN NoList ELSE listCache
  /\ IF requests[c].op = "delete"
     THEN Answer(c, [requests[c] EXCEPT !.pc = "ok"])
     ELSE requests' = [requests EXCEPT ![c].row = "on", ![c].pc = "reread"]
  /\ UNCHANGED db
=============================================================================

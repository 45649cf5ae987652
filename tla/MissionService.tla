--------------------------- MODULE MissionService ---------------------------
(***************************************************************************)
(* The requests about one user's missions and one night: photos checked by *)
(* the model (object-detection.service.ts), math problems kept in Redis    *)
(* (missions.service.ts), the history of attempts, and the sleep report    *)
(* that reads the history (sleep.service.ts).  Each of the Callers is a    *)
(* request under way; a step is what one does between two awaits.          *)
(*                                                                         *)
(* A request refused before it reads or writes anything shared (a bad      *)
(* target, a photo that is missing, too large or not the user's) changes   *)
(* nothing and is left out.  MaxRows bounds the history of the night.      *)
(***************************************************************************)
EXTENDS GeminiClient, MathMission

CONSTANTS Problems,  \* the ids of the math problems
          Reports,   \* the sleep reports sent
          Says,      \* the fields that each of them gives
          MaxRows    \* bound: rows of the night's history

\* Of a night's fields those that a report may leave out, and what one may be: given by
\* some report, derived by the service, or unknown.
Fields == {"sleep", "wake", "duration", "quality"}
Values == Reports \cup {"none", "derived"}

ASSUME MissionAssumption == /\ IsFiniteSet(Problems)
                            /\ Says \in [Reports -> SUBSET Fields]
                            /\ Reports \cap {"none", "derived"} = {}
                            /\ MaxRows \in Nat

VARIABLES req,     \* per handler, the request it is at and what it holds
          problem, \* per id, the answer in Redis: "new", "stored" or "gone"
          judged,  \* per id, how many answers were compared with the stored one
          fellBack,\* the ids for which a GETDEL failed
          history, \* the night's rows of mission_history: how many, how many a success
          night    \* the user's row of sleep_statistics for the night

missionVars == <<req, problem, judged, fellBack, history, night>>
vars        == <<geminiVars, missionVars>>

Rates   == {r \in (0 .. MaxRows) \X (1 .. MaxRows) : r[1] <= r[2]}
NoRate  == <<0, 0>>
Nights  == [known : [Fields -> Values], rate : Rates \cup {NoRate}]
\* No row: a rate no row has.
NoNight == [known |-> [f \in Fields |-> "none"], rate |-> <<1, 0>>]
Idle    == [op |-> "idle"]

Requests ==
  {Idle, [op |-> "ask"]}
  \cup [op : {"generate"}, id : Problems, fair : BOOLEAN]
  \cup [op : {"get", "del"}, id : Problems]
  \cup [op : {"rate"}, row : Nights \cup {NoNight}, report : Reports]
  \cup [op : {"save"}, row : Nights \cup {NoNight}, report : Reports, save : Nights]

TypeOK == /\ GeminiTypeOK
          /\ req \in [Callers -> Requests]
          /\ problem \in [Problems -> {"new", "stored", "gone"}]
          /\ judged \in [Problems -> Nat]
          /\ fellBack \subseteq Problems
          /\ history \in {r \in [success : 0 .. MaxRows, total : 0 .. MaxRows] : r.success <= r.total}
          /\ night \in Nights \cup {NoNight}

Init == /\ GeminiInit
        /\ req = [h \in Callers |-> Idle]
        /\ problem = [p \in Problems |-> "new"]
        /\ judged = [p \in Problems |-> 0]
        /\ fellBack = {}
        /\ history = [success |-> 0, total |-> 0]
        /\ night = NoNight

Answer(h) == req' = [req EXCEPT ![h] = Idle]

Statuses == {"success", "failed", "skipped"}

\* Mutant of AddRow: only what succeeded is counted as an attempt.
AddRowUncounted(status) ==
  /\ history.total < MaxRows
  /\ history' = [success |-> history.success + IF status = "success" THEN 1 ELSE 0,
                 total   |-> history.total + IF status = "failed" THEN 1 ELSE 0]

AddRow(status) ==
  /\ history.total < MaxRows
  /\ history' = [success |-> history.success + IF status = "success" THEN 1 ELSE 0,
                 total   |-> history.total + 1]

-----------------------------------------------------------------------------
(* What asks the model: verify and verifyDirect of a photo, generateCustom *)

Ask(h) == /\ req[h] = Idle
          /\ Execute(h)
          /\ req' = [req EXCEPT ![h] = [op |-> "ask"]]
          /\ UNCHANGED <<problem, judged, fellBack, history, night>>

(* The service decides: the model's word, its confidence and the list of   *)
(* what it saw must all agree.                                             *)
Normalize(raw) == raw.isMatch /\ raw.confident /\ raw.mentionsTarget

(* The verdict is shown when its row is in; if the insert fails the caller *)
(* gets an error and the photo is checked again.                           *)
Detected(h) ==
  /\ req[h].op = "ask" /\ call[h].phase = "answered"
  /\ \/ \E raw \in [isMatch : BOOLEAN, confident : BOOLEAN, mentionsTarget : BOOLEAN] :
          AddRow(IF Normalize(raw) THEN "success" ELSE "failed")
     \/ UNCHANGED history
  /\ call' = [call EXCEPT ![h] = NoCall]
  /\ Answer(h)
  /\ UNCHANGED <<breaker, hammered, problem, judged, fellBack, night>>

(* generateCustom: the mission made to order is returned, never stored.    *)
Designed(h) ==
  /\ req[h].op = "ask" /\ call[h].phase = "answered"
  /\ call' = [call EXCEPT ![h] = NoCall]
  /\ Answer(h)
  /\ UNCHANGED <<breaker, hammered, problem, judged, fellBack, history, night>>

(* generateJson, analyzeImage: whatever went wrong is a 503.               *)
Unavailable(h) ==
  /\ req[h].op = "ask" /\ call[h].phase = "failed"
  /\ call' = [call EXCEPT ![h] = NoCall]
  /\ Answer(h)
  /\ UNCHANGED <<breaker, hammered, problem, judged, fellBack, history, night>>

-----------------------------------------------------------------------------
(* Math missions                                                           *)

(* Of the puzzle that is drawn the state keeps whether it is fair.         *)
Drawn == {IsFair(puzzle) : puzzle \in UNION {BuildMathProblem(d) : d \in Difficulties}}

GenerateMath(h) ==
  /\ req[h] = Idle
  /\ \E p \in Problems, fair \in Drawn :
       /\ problem[p] = "new"
       /\ \A g \in Callers : req[g].op = "generate" => req[g].id # p
       /\ req' = [req EXCEPT ![h] = [op |-> "generate", id |-> p, fair |-> fair]]
  /\ UNCHANGED <<geminiVars, problem, judged, fellBack, history, night>>

StoreAnswer(h) ==
  /\ req[h].op = "generate"
  /\ problem' = [problem EXCEPT ![req[h].id] = "stored"]
  /\ Answer(h)
  /\ UNCHANGED <<geminiVars, judged, fellBack, history, night>>

Expire(p) == /\ problem[p] = "stored"
             /\ problem' = [problem EXCEPT ![p] = "gone"]
             /\ UNCHANGED <<geminiVars, req, judged, fellBack, history, night>>

Compare(p) == judged' = [judged EXCEPT ![p] = IF problem[p] = "stored" THEN @ + 1 ELSE @]

\* Mutant of Consume: a verification leaves the answer in place.
ConsumeKept(p) == UNCHANGED problem

Consume(p) == problem' = [problem EXCEPT ![p] = "gone"]

(* GETDEL; when it fails, done in Redis or not, GET and then DEL.          *)
VerifyMath(h, p) ==
  /\ req[h] = Idle /\ problem[p] # "new"
  /\ \/ /\ Compare(p) /\ Consume(p) /\ Answer(h)
        /\ UNCHANGED fellBack
     \/ /\ Consume(p) \/ UNCHANGED problem
        /\ fellBack' = fellBack \cup {p}
        /\ req' = [req EXCEPT ![h] = [op |-> "get", id |-> p]]
        /\ UNCHANGED judged
  /\ UNCHANGED <<geminiVars, history, night>>

Get(h) ==
  /\ req[h].op = "get"
  /\ LET p == req[h].id
     IN  IF problem[p] = "stored"
         THEN req' = [req EXCEPT ![h].op = "del"]
         ELSE Answer(h)
  /\ UNCHANGED <<geminiVars, problem, judged, fellBack, history, night>>

(* What GET read is compared when DEL has returned, whoever consumed it    *)
(* since; a DEL that fails fails the request.                              *)
Del(h) ==
  /\ req[h].op = "del"
  /\ LET p == req[h].id
     IN  \/ Consume(p) /\ judged' = [judged EXCEPT ![p] = @ + 1]
         \/ UNCHANGED <<problem, judged>>
  /\ Answer(h)
  /\ UNCHANGED <<geminiVars, fellBack, history, night>>

-----------------------------------------------------------------------------
(* History and sleep reports                                               *)

CreateHistory(h) ==
  /\ req[h] = Idle
  /\ \E status \in Statuses : AddRow(status)
  /\ UNCHANGED <<geminiVars, req, problem, judged, fellBack, night>>

(* recordSession: the row is found or made; one that is made is not in the *)
(* table before the save.                                                  *)
FindNight(h) ==
  /\ req[h] = Idle
  /\ \E report \in Reports :
       req' = [req EXCEPT ![h] = [op |-> "rate", row |-> night, report |-> report]]
  /\ UNCHANGED <<geminiVars, problem, judged, fellBack, history, night>>

\* Mutant of Told: a field that is not reported is cleared.
ToldAnew(row, report) ==
  [f \in Fields |-> IF f \in Says[report] THEN report ELSE "none"]

(* The fields of the row: a duration that is not reported is derived from  *)
(* the times, in place of one that was.                                    *)
Told(row, report) ==
  LET told    == [f \in Fields |-> IF f \in Says[report] THEN report ELSE row.known[f]]
      derives == /\ "duration" \notin Says[report]
                 /\ told["sleep"] # "none" /\ told["wake"] # "none"
  IN  IF derives THEN [told EXCEPT !["duration"] = "derived"] ELSE told

(* missionSuccessRateForDate; no history keeps the rate.                   *)
ReadRate(h) ==
  /\ req[h].op = "rate"
  /\ LET row   == req[h].row
         rate  == IF history.total > 0 THEN <<history.success, history.total>>
                  ELSE IF row = NoNight THEN NoRate ELSE row.rate
     IN  req' = [req EXCEPT ![h] = [op |-> "save", row |-> row, report |-> req[h].report,
                                    save |-> [known |-> Told(row, req[h].report), rate |-> rate]]]
  /\ UNCHANGED <<geminiVars, problem, judged, fellBack, history, night>>

(* save inserts the row it made, which the unique index refuses when there *)
(* is one by now, or writes all it loaded and changed over the row.        *)
SaveNight(h) ==
  /\ req[h].op = "save"
  /\ night' = IF req[h].row = NoNight /\ night # NoNight THEN night ELSE req[h].save
  /\ Answer(h)
  /\ UNCHANGED <<geminiVars, problem, judged, fellBack, history>>

-----------------------------------------------------------------------------
Model(h) == GeminiStep(h) /\ UNCHANGED missionVars
Clock    == CoolDown /\ UNCHANGED missionVars

Photo(h) == Ask(h) \/ Model(h) \/ Detected(h) \/ Designed(h) \/ Unavailable(h)
Math(h)  == GenerateMath(h) \/ StoreAnswer(h) \/ Get(h) \/ Del(h) \/ \E p \in Problems : VerifyMath(h, p)
Sleep(h) == CreateHistory(h) \/ FindNight(h) \/ ReadRate(h) \/ SaveNight(h)

Next == \/ \E h \in Callers : Photo(h) \/ Math(h) \/ Sleep(h)
        \/ \E p \in Problems : Expire(p)
        \/ Clock

(* Timers fire and every attempt ends, by its timeout if nothing else.     *)
Fairness == WF_vars(Clock) /\ \A h \in Callers : WF_vars(Model(h))

Spec == Init /\ [][Next]_vars /\ Fairness

-----------------------------------------------------------------------------
(* Properties                                                              *)

(* Every puzzle shown has one whole answer that is accepted.               *)
(* [missions.service.ts buildEasy, buildMedium, buildHard]                 *)
PuzzleIsFair == \A h \in Callers : req[h].op = "generate" => req[h].fair

(* However verifications interleave, only one of them compares its answer  *)
(* with a problem's: a right one cannot be used twice nor a wrong one      *)
(* tried again.  It takes a GETDEL that failed to let in another.          *)
(* [missions.service.ts:103 verifyMath]                                    *)
JudgedOnce == \A p \in Problems : judged[p] > 1 => p \in fellBack

(* What is known of a night changes in three ways only: to what the report *)
(* being saved says; back to what this report had found in the row, when   *)
(* another was saved since; and a duration, also one that was reported, to *)
(* the derived one.  Whatever else was reported is kept.                   *)
(* [sleep.service.ts:38 recordSession]                                     *)
ReportKept ==
  [][\A f \in Fields : night'.known[f] # night.known[f] =>
       \E h \in Callers :
         /\ SaveNight(h)
         /\ \/ f \in Says[req[h].report]
            \/ req[h].row.known[f] # night.known[f]
            \/ f = "duration" /\ night'.known[f] = "derived"]_vars

(* The breaker lets the model back in: once attempts stop failing, and     *)
(* while there are requests, it ends closed for good.                      *)
(* [circuit-breaker.ts execute]                                            *)
Recovers == /\ <>[][\A h \in Callers : ~AttemptFails(h)]_vars
            /\ []<><<\E h \in Callers : Execute(h)>>_vars
            => <>[](state = "CLOSED")
=============================================================================

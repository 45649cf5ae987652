----------------------------- MODULE Entitlement -----------------------------
(***************************************************************************)
(* Whether one user is premium (modules/subscriptions, users.service.ts):  *)
(* receipts the app has validated and the store's notifications, each      *)
(* verified with the store and then applied in a transaction to the        *)
(* subscription's row and to the columns of the user's row; and profile    *)
(* updates, which save the user's row as they loaded it.                   *)
(*                                                                         *)
(* Handlers are requests under way; a step is what one does between two    *)
(* awaits.  Postgres runs the transactions at READ COMMITTED: a write      *)
(* locks the subscription's row until the commit, and a read does not      *)
(* wait.  One purchase on Google Play is followed; the cached status, a    *)
(* copy that lives for five minutes, is left out; a trial counts as an     *)
(* active period.                                                          *)
(***************************************************************************)
EXTENDS Integers

CONSTANTS Handlers,   \* requests that may be under way at once
          MaxPeriod,  \* bound: periods the subscription is paid for
          MaxNotices, \* bound: notifications not yet delivered
          Absent      \* no row, nobody

Row == [period : 0 .. MaxPeriod, renew : BOOLEAN,
        status : {"inactive", "active", "grace_period", "expired"}]

ASSUME EntitlementAssumption == /\ Absent \notin Handlers \cup Row
                                /\ MaxPeriod \in Nat \ {0} /\ MaxNotices \in Nat

VARIABLES store,   \* what the store would answer now
          notices, \* how many notifications it has still to deliver
          row,     \* the committed row of subscriptions
          paid,    \* users.premium_until as a period, 0 when is_premium is false
          lock,    \* the handler whose transaction has written the row
          trouble, \* since an application nothing overlapped: one overlapped,
                   \* a notification failed or a profile was written back
          req      \* per handler, the request it is at and what it holds

entitlementVars == <<store, notices, row, paid, lock, trouble, req>>

Verdict   == [period : 1 .. MaxPeriod, active : BOOLEAN, renew : BOOLEAN]
Columns   == {"period", "renew", "status"}
Default   == [period |-> 0, renew |-> TRUE, status |-> "inactive"]
NoRequest == [at |-> "idle"]
Sources   == {"validate", "webhook"}

Requests ==
  {NoRequest} \cup [at : {"verify"}, by : Sources, alone : BOOLEAN]
  \cup [at : {"check", "load"}, by : Sources, alone : BOOLEAN, v : Verdict]
  \cup [at : {"write", "commit"}, by : Sources, alone : BOOLEAN, v : Verdict,
        change : (SUBSET Columns) \cup {{"insert"}}]
  \cup [at : {"profile"}, paid : 0 .. MaxPeriod]

EntitlementTypeOK == /\ store \in Verdict /\ notices \in 0 .. MaxNotices
                     /\ row \in Row \cup {Absent} /\ paid \in 0 .. MaxPeriod
                     /\ lock \in Handlers \cup {Absent} /\ trouble \in BOOLEAN
                     /\ req \in [Handlers -> Requests]

EntitlementInit == /\ store = [period |-> 1, active |-> TRUE, renew |-> TRUE]
                   /\ notices = 0
                   /\ row \in {Absent, Default}
                   /\ paid = 0
                   /\ lock = Absent
                   /\ trouble = FALSE
                   /\ req = [h \in Handlers |-> NoRequest]

Applying(h) == req[h].at \notin {"idle", "profile"}

\* Mutant of DeriveStatus: what ended and will not renew is cancelled, which
\* the column allows and deriveStatus never gives.
DeriveStatusCancelled(v) == IF v.active THEN "active" ELSE IF v.renew THEN "grace_period" ELSE "cancelled"

DeriveStatus(v) == IF v.active THEN "active" ELSE IF v.renew THEN "grace_period" ELSE "expired"
Entitled(v)     == IF v.active THEN v.period ELSE 0
AsRow(v)        == [period |-> v.period, renew |-> v.renew, status |-> DeriveStatus(v)]

-----------------------------------------------------------------------------
(* The store                                                               *)

Renewed == store.renew /\ store.period < MaxPeriod
           /\ store' = [store EXCEPT !.period = @ + 1, !.active = TRUE]
Lapsed  == store.active /\ store' = [store EXCEPT !.active = FALSE]
Stopped == store.renew /\ store' = [store EXCEPT !.renew = FALSE]

StoreMoves == /\ Renewed \/ Lapsed \/ Stopped
              /\ notices < MaxNotices
              /\ notices' = notices + 1
              /\ UNCHANGED <<row, paid, lock, trouble, req>>

-----------------------------------------------------------------------------
(* Both ways in                                                            *)

(* A request that finds another one at work, and that other, may overwrite *)
(* each other's verdict.                                                   *)
Begin(h, by) ==
  LET others == {g \in Handlers : Applying(g)}
  IN  /\ req[h] = NoRequest
      /\ req' = [g \in Handlers |->
                   IF g = h THEN [at |-> "verify", by |-> by, alone |-> others = {}]
                   ELSE IF g \in others THEN [req[g] EXCEPT !.alone = FALSE]
                   ELSE req[g]]
      /\ trouble' = (trouble \/ others # {})

ValidateReceipt(h) == Begin(h, "validate") /\ UNCHANGED <<store, notices, row, paid, lock>>

(* A notification is delivered at least once.                              *)
HandleNotification(h) == /\ notices > 0
                         /\ Begin(h, "webhook")
                         /\ notices' \in {notices, notices - 1}
                         /\ UNCHANGED <<store, row, paid, lock>>

(* The request ends in an error: the app sees it, while the store is told  *)
(* 204 and does not send the notification again.                           *)
Fail(h) == /\ Applying(h)
           /\ req' = [req EXCEPT ![h] = NoRequest]
           /\ lock' = IF lock = h THEN Absent ELSE lock
           /\ trouble' = (trouble \/ req[h].by = "webhook")
           /\ UNCHANGED <<store, notices, row, paid>>

Verify(h) == /\ req[h].at = "verify"
             /\ req' = [req EXCEPT ![h] = [at |-> "check", by |-> req[h].by,
                                           alone |-> req[h].alone, v |-> store]]
             /\ UNCHANGED <<store, notices, row, paid, lock, trouble>>

\* Mutant of Passes: a notification of a period that is recorded is ignored.
PassesNew(h) == LET known == row # Absent /\ row.period # 0
                IN  IF known THEN row.period # req[h].v.period
                    ELSE req[h].by = "validate"

(* Found by the original transaction: a validation of a period that is     *)
(* recorded changes nothing, a notification of an unknown one neither.     *)
Passes(h) == LET known == row # Absent /\ row.period # 0
             IN  IF req[h].by = "webhook" THEN known
                 ELSE known => row.period # req[h].v.period

Check(h) == /\ req[h].at = "check"
            /\ req' = [req EXCEPT ![h] = IF Passes(h) THEN [@ EXCEPT !.at = "load"] ELSE NoRequest]
            /\ UNCHANGED <<store, notices, row, paid, lock, trouble>>

-----------------------------------------------------------------------------
(* applyEntitlement                                                        *)

(* save compares what it is to write with the row as committed, and only   *)
(* the columns that differ are written.                                    *)
Load(h) ==
  /\ req[h].at = "load"
  /\ LET r      == req[h]
         change == IF row = Absent THEN {"insert"}
                   ELSE {c \in Columns : row[c] # AsRow(r.v)[c]}
     IN  req' = [req EXCEPT ![h] = [at |-> IF change = {} THEN "commit" ELSE "write", by |-> r.by,
                                    alone |-> r.alone, v |-> r.v, change |-> change]]
  /\ UNCHANGED <<store, notices, row, paid, lock, trouble>>

(* The write waits for the transaction that holds the row.  An insert that *)
(* finds a row by then is refused, which is a failure.                     *)
Write(h) ==
  /\ req[h].at = "write"
  /\ lock = Absent
  /\ req[h].change = {"insert"} => row = Absent
  /\ lock' = h
  /\ req' = [req EXCEPT ![h].at = "commit"]
  /\ UNCHANGED <<store, notices, row, paid, trouble>>

Written(h) == LET new == AsRow(req[h].v)
              IN  IF req[h].change = {"insert"} THEN new
                  ELSE IF req[h].change = {} THEN row
                  ELSE [c \in Columns |-> IF c \in req[h].change THEN new[c] ELSE row[c]]

\* Mutant of Commit: the user's columns are updated outside the transaction.
CommitRowOnly(h) ==
  /\ req[h].at = "commit"
  /\ row' = Written(h)
  /\ paid' \in {paid, Entitled(req[h].v)}
  /\ lock' = IF lock = h THEN Absent ELSE lock
  /\ trouble' = (trouble /\ ~req[h].alone)
  /\ req' = [req EXCEPT ![h] = NoRequest]
  /\ UNCHANGED <<store, notices>>

(* The user's columns, and with them the row, become visible.              *)
Commit(h) ==
  /\ req[h].at = "commit"
  /\ row' = Written(h)
  /\ paid' = Entitled(req[h].v)
  /\ lock' = IF lock = h THEN Absent ELSE lock
  /\ trouble' = (trouble /\ ~req[h].alone)
  /\ req' = [req EXCEPT ![h] = NoRequest]
  /\ UNCHANGED <<store, notices>>

-----------------------------------------------------------------------------
(* Reading the subscription and updating the profile                       *)

(* getForUser, when there is no row: the default one.                      *)
CreateDefault == /\ row = Absent /\ lock = Absent
                 /\ row' = Default
                 /\ UNCHANGED <<store, notices, paid, lock, trouble, req>>

UpdateProfile(h) == /\ req[h] = NoRequest
                    /\ req' = [req EXCEPT ![h] = [at |-> "profile", paid |-> paid]]
                    /\ UNCHANGED <<store, notices, row, paid, lock, trouble>>

(* save writes every column in which the loaded user differs by now.       *)
SaveProfile(h) == /\ req[h].at = "profile"
                  /\ paid' = req[h].paid
                  /\ trouble' = (trouble \/ paid' # paid)
                  /\ req' = [req EXCEPT ![h] = NoRequest]
                  /\ UNCHANGED <<store, notices, row, lock>>

Enter(h) == ValidateReceipt(h) \/ HandleNotification(h) \/ UpdateProfile(h)
Apply(h) == Verify(h) \/ Check(h) \/ Load(h) \/ Write(h) \/ Commit(h) \/ Fail(h)

EntitlementNext == \/ StoreMoves \/ CreateDefault
                   \/ \E h \in Handlers : Enter(h) \/ Apply(h) \/ SaveProfile(h)

EntitlementSpec == EntitlementInit /\ [][EntitlementNext]_entitlementVars

-----------------------------------------------------------------------------
(* Properties                                                              *)

Agree == paid = IF row # Absent /\ row.status = "active" THEN row.period ELSE 0

(* The user's columns and the subscription, which the code's comments say  *)
(* can never diverge, part only in two steps: a profile update writes back *)
(* what it loaded before, or a verdict commits that another one overlapped *)
(* and that does not write period and status both, so that the row it      *)
(* leaves may be one that nobody wrote in full.                            *)
(* [subscriptions.service.ts:70 and 211 applyEntitlement]                  *)
PartOnlyByRace ==
  [][Agree /\ ~Agree' => \E h \in Handlers :
       \/ SaveProfile(h) /\ req[h].paid # paid
       \/ Commit(h) /\ ~req[h].alone /\ ~({"period", "status"} \subseteq req[h].change)]_entitlementVars

(* When all the store had to say was delivered and nothing is under way,   *)
(* the row and the user's columns say what the store says, unless verdicts *)
(* overlapped, a notification failed or a profile was written back since   *)
(* the last one that was applied alone.  That one heals everything.        *)
(* [subscriptions.service.ts:256 applyFromWebhook]                         *)
StaleNeedsTrouble ==
  /\ row # Absent /\ row.period # 0
  /\ notices = 0 /\ \A h \in Handlers : req[h] = NoRequest
  /\ ~trouble
  => row = AsRow(store) /\ paid = Entitled(store)
=============================================================================

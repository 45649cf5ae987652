------------------------- MODULE ClientSessionProofs -------------------------
(* The app's session, for every number of requests and of reloads under way *)
(* and every number of pairs the backend issues.                            *)
EXTENDS ClientSession, FiniteSetTheorems, TLAPS

-----------------------------------------------------------------------------
(* What the properties need of a reachable state.                           *)

\* The backend can still issue the pairs of the refreshes it has begun to serve.
Capacity == issued + Cardinality(Underway) <= MaxPairs

\* A refresh that found its row has a token, and the access token of one that was answered is
\* accepted as long as the refresh is under way.
FreshPairs ==
  \A w \in Workers :
    /\ worker[w].phase \in {"found", "revoked"} => worker[w].token # 0
    /\ worker[w].phase \in {"answered", "half", "saved"} => Accepted(worker[w].token)

\* The app-wide client stores both tokens at once, and what is stored when the Completer is
\* about to resolve is accepted too, if there is anything.
StoredIsFresh ==
  /\ worker["core"].phase # "half"
  /\ worker["core"].phase = "saved" => access = 0 \/ Accepted(access)

\* The bootstrap's call is under way only while the bootstrap waits for it.
BootWaits == boot \in {"check", "refresh", "done"} => call["boot"].phase = "idle"

\* Nobody but the app-wide client is beyond the reading of the token, or about to sign in or out.
OthersWait ==
  /\ \A w \in {"auth", "boot"} : worker[w].phase \in {"idle", "reading"}
  /\ worker["register"].phase = "idle"
  /\ status \in {"restoring", "authenticated"} /\ boot # "second"
  /\ call["logout"].phase = "idle"

\* What the app-wide client's refresh presents is the stored token, and it, or the one that
\* comes back, is live.
CoreHoldsToken ==
  /\ refresh # 0
  /\ worker["core"].phase \notin {"refused", "half"}
  /\ worker["core"].phase \in {"posted", "found"} => worker["core"].token = refresh
  /\ worker["core"].phase = "answered" => worker["core"].token \in live
  /\ worker["core"].phase \notin {"revoked", "answered"} => refresh \in live

\* Both hold as long as the app-wide client alone refreshes.
CoreAlone == untouched /\ ~contended => OthersWait /\ CoreHoldsToken

\* The error of a registration is passed on, at once or after it has waited: it is never handled.
RegistrationPasses == call["register"].phase \in {"idle", "queued", "failed"}

\* The auth client handles one error at a time, and does nothing but refresh until it sends the
\* call again.
OneHandler == \A g, h \in Handling : g = h
HandlerRefreshes == \A h \in Calls : call[h].phase = "handled" => worker["auth"].phase # "idle"

\* An error waits only while another one is in front of it.
QueueHasHandler == (\E c \in Calls : call[c].phase = "queued") => Handling # {}

\* An error that queued up has exactly one handler in front of it, which is refreshing, has sent
\* its call again, or is stuck with the error of that attempt.
QueueHasOneHandler ==
  (\E c \in Calls : call[c].phase = "queued") =>
    \E h \in Calls :
      /\ Handling = {h}
      /\ \/ call[h].phase = "handled" /\ worker["auth"].phase # "idle"
         \/ call[h].phase \in {"retried", "stuck"}

Inv == /\ TypeOK /\ Capacity /\ FreshPairs /\ StoredIsFresh /\ BootWaits /\ RegistrationPasses
       /\ RetryIsAccepted /\ QueueHasHandler /\ OneHandler /\ HandlerRefreshes /\ CoreAlone

-----------------------------------------------------------------------------
(* Moving a worker or a call                                                *)

\* A worker that moves leaves the others where they are.
LEMMA WorkerMoves ==
  ASSUME TypeOK, NEW w \in Workers, NEW p \in WorkerPhases, NEW n \in Nat, issued <= n,
         NEW t \in 0 .. n, To(w, p, t)
  PROVE  /\ worker' \in [Workers -> [phase : WorkerPhases, token : 0 .. n]]
         /\ worker'[w] = [phase |-> p, token |-> t]
         /\ \A v \in Workers \ {w} : worker'[v] = worker[v]
<1>1. issued \in Nat /\ worker \in [Workers -> [phase : WorkerPhases, token : 0 .. issued]]
  BY MaxPairsAssumption DEF TypeOK, Pairs
<1>2. 0 .. issued \subseteq 0 .. n
  BY <1>1
<1>3. worker \in [Workers -> [phase : WorkerPhases, token : 0 .. n]]
  BY <1>1, <1>2
<1>4. QED
  BY <1>1, <1>3 DEF To

\* The same when no pair is issued.
LEMMA WorkerSteps ==
  ASSUME TypeOK, NEW w \in Workers, NEW p \in WorkerPhases, NEW t \in 0 .. issued, To(w, p, t)
  PROVE  /\ worker' \in [Workers -> [phase : WorkerPhases, token : 0 .. issued]]
         /\ worker'[w] = [phase |-> p, token |-> t]
         /\ \A v \in Workers \ {w} : worker'[v] = worker[v]
<1>1. issued \in Nat /\ issued <= issued
  BY MaxPairsAssumption DEF TypeOK, Pairs
<1>2. QED
  BY <1>1, WorkerMoves

\* A call that moves leaves the others where they are.
LEMMA CallMoves ==
  ASSUME TypeOK, NEW c \in Calls, NEW p \in CallPhases, NEW t \in 0 .. issued, SetCall(c, p, t)
  PROVE  /\ call' \in [Calls -> [phase : CallPhases, token : 0 .. issued]]
         /\ call'[c] = [phase |-> p, token |-> t]
         /\ \A d \in Calls \ {c} : call'[d] = call[d]
  BY DEF TypeOK, SetCall

\* The end of a handler moves its call and fails the ones that had queued up.
LEMMA CallsReleased ==
  ASSUME TypeOK, NEW h \in Calls, NEW p \in {"ok", "failed"}, Release(h, p)
  PROVE  /\ call' \in [Calls -> [phase : CallPhases, token : 0 .. issued]]
         /\ \A c \in Calls : call'[c].phase # "queued"
         /\ \A c \in Calls \ {h} : call[c].phase = "idle" => call'[c] = call[c]
<1>1. issued \in Nat /\ call \in [Calls -> [phase : CallPhases, token : 0 .. issued]]
  BY MaxPairsAssumption DEF TypeOK, Pairs
<1>2. \A q \in {"ok", "failed"} : [phase |-> q, token |-> 0] \in [phase : CallPhases, token : 0 .. issued]
  BY <1>1 DEF CallPhases
<1>3. QED
  BY <1>1, <1>2 DEF Release

\* The calls of the bootstrap, the logout and the registration are no reloads.
LEMMA CallNames ==
  /\ "boot" \in Calls /\ "logout" \in Calls /\ "register" \in Calls /\ Reloads \subseteq Calls
  /\ "boot" \notin Reloads /\ "logout" \notin Reloads /\ "register" \notin Reloads
  BY CallsAssumption DEF Calls

\* The numbers among the variables.
LEMMA Numbers ==
  ASSUME TypeOK
  PROVE  /\ issued \in Nat /\ 1 <= issued /\ issued <= MaxPairs /\ MaxPairs \in Nat
         /\ access \in 0 .. issued /\ refresh \in 0 .. issued /\ 0 \in 0 .. issued
         /\ live \in SUBSET (1 .. issued) /\ expired \in SUBSET (1 .. issued)
         /\ \A w \in Workers : worker[w].token \in 0 .. issued /\ worker[w].phase \in WorkerPhases
         /\ \A c \in Calls : call[c].token \in 0 .. issued /\ call[c].phase \in CallPhases
  BY MaxPairsAssumption DEF TypeOK, Pairs

\* The refreshes under way in the backend can be counted.
LEMMA UnderwayFinite ==
  /\ IsFiniteSet(Underway) /\ Cardinality(Underway) \in Nat
  /\ \A w \in Underway : Cardinality(Underway \ {w}) = Cardinality(Underway) - 1
  /\ Underway # {} => Cardinality(Underway) >= 1
  /\ \A w : w \notin Underway => Cardinality(Underway \cup {w}) = Cardinality(Underway) + 1
<1>1. IsFiniteSet(Workers)
  <2>1. Workers = ({"core"} \cup {"auth"}) \cup ({"boot"} \cup {"register"})
    BY DEF Workers
  <2>2. QED
    BY <2>1, FS_Singleton, FS_Union
<1>2. IsFiniteSet(Underway) /\ Cardinality(Underway) \in Nat
  BY <1>1, FS_Subset, FS_CardinalityType DEF Underway
<1>3. \A w \in Underway : Cardinality(Underway \ {w}) = Cardinality(Underway) - 1
  BY <1>2, FS_RemoveElement
<1>4. Underway # {} => Cardinality(Underway) >= 1
  <2>1. Underway # {} => Cardinality(Underway) # 0
    BY <1>2, FS_EmptySet
  <2>2. QED
    BY <1>2, <2>1
<1>5. \A w : w \notin Underway => Cardinality(Underway \cup {w}) = Cardinality(Underway) + 1
  BY <1>2, FS_AddElement
<1>6. QED
  BY <1>2, <1>3, <1>4, <1>5

-----------------------------------------------------------------------------
(* Types                                                                    *)

\* A pair is issued within the bound.
LEMMA PairIssued ==
  ASSUME TypeOK, issued < MaxPairs, NEW w \in Workers, NEW owner \in Pairs, NewPair(w, owner)
  PROVE  TypeOK'
<1> DEFINE n == issued + 1
<1>1. /\ n \in Nat /\ n \in Pairs /\ issued <= n /\ n \in 0 .. n /\ issued' = n
      /\ 0 .. issued \subseteq 0 .. n /\ 1 .. issued \subseteq 1 .. n /\ n \in 1 .. n
  BY Numbers DEF NewPair, Pairs
<1>2. worker' \in [Workers -> [phase : WorkerPhases, token : 0 .. n]]
  BY <1>1, WorkerMoves DEF NewPair, WorkerPhases
<1> HIDE DEF n
<1>3. account' \in [Pairs -> Pairs] /\ live' \in SUBSET (1 .. n)
  BY <1>1 DEF NewPair, TypeOK, n
<1>4. /\ request \in [CoreRequests -> [phase : RequestPhases, token : 0 .. n]]
      /\ call \in [Calls -> [phase : CallPhases, token : 0 .. n]]
      /\ access \in 0 .. n /\ refresh \in 0 .. n /\ expired \in SUBSET (1 .. n)
  BY <1>1 DEF TypeOK
<1>5. QED
  BY <1>1, <1>2, <1>3, <1>4 DEF NewPair, TypeOK, storage, notifier, history

\* Every step of a refresh keeps the types.
LEMMA RefreshTypes ==
  ASSUME TypeOK, Capacity, FreshPairs, NEW w \in Workers, RefreshStep(w) \/ LoseRefresh(w)
  PROVE  TypeOK'
<1> USE Numbers DEF storage, backend, notifier, history, WorkerPhases
<1>1. CASE ReadRefresh(w)
  <2>1. worker' \in [Workers -> [phase : WorkerPhases, token : 0 .. issued]]
    BY <1>1, WorkerSteps DEF ReadRefresh
  <2>2. contended' \in BOOLEAN
    BY <1>1 DEF ReadRefresh
  <2>3. QED
    BY <1>1, <2>1, <2>2 DEF ReadRefresh, TypeOK
<1>2. CASE FindRow(w)
  <2>1. worker' \in [Workers -> [phase : WorkerPhases, token : 0 .. issued]]
    BY <1>2, WorkerSteps DEF FindRow
  <2>2. live' \in SUBSET (1 .. issued)
    BY <1>2 DEF FindRow
  <2>3. QED
    BY <1>2, <2>1, <2>2 DEF FindRow, TypeOK
<1>3. CASE RevokeRow(w)
  <2>1. worker' \in [Workers -> [phase : WorkerPhases, token : 0 .. issued]]
    BY <1>3, WorkerSteps DEF RevokeRow
  <2>2. QED
    BY <1>3, <2>1 DEF RevokeRow, TypeOK
<1>4. CASE IssuePair(w)
  <2>1. issued < MaxPairs
    BY <1>4, UnderwayFinite DEF IssuePair, Capacity, Underway
  <2>2. worker[w].token \in Pairs
    BY <1>4 DEF IssuePair, FreshPairs, Pairs
  <2>3. account[worker[w].token] \in Pairs
    BY <2>2 DEF TypeOK
  <2>4. QED
    BY <1>4, <2>1, <2>3, PairIssued DEF IssuePair
<1>5. CASE CacheAccess(w)
  <2>1. worker' \in [Workers -> [phase : WorkerPhases, token : 0 .. issued]]
    BY <1>5, WorkerSteps DEF CacheAccess
  <2>2. QED
    BY <1>5, <2>1 DEF CacheAccess, TypeOK
<1>6. CASE CacheRefresh(w)
  <2>1. worker' \in [Workers -> [phase : WorkerPhases, token : 0 .. issued]]
    BY <1>6, WorkerSteps DEF CacheRefresh
  <2>2. QED
    BY <1>6, <2>1 DEF CacheRefresh, TypeOK
<1>7. CASE LoseRefresh(w)
  <2>1. worker' \in [Workers -> [phase : WorkerPhases, token : 0 .. issued]]
    BY <1>7, WorkerSteps DEF LoseRefresh
  <2>2. call' \in [Calls -> [phase : CallPhases, token : 0 .. issued]]
    BY <1>7, CallNames, CallMoves DEF LoseRefresh, CallPhases, TypeOK
  <2>3. QED
    BY <1>7, <2>1, <2>2 DEF LoseRefresh, TypeOK
<1>8. QED
  BY <1>1, <1>2, <1>3, <1>4, <1>5, <1>6, <1>7 DEF RefreshStep

\* Every step of the app-wide client keeps the types.
LEMMA CoreTypes ==
  ASSUME TypeOK,
         SaveTokens \/ Resolve \/ GiveUp \/ \E r \in CoreRequests : Send(r) \/ Answer(r) \/ Fail(r)
  PROVE  TypeOK'
<1> USE Numbers DEF storage, backend, notifier, history, WorkerPhases, RequestPhases, Workers
<1>0. /\ Idle \in [phase : RequestPhases, token : 0 .. issued]
      /\ request \in [CoreRequests -> [phase : RequestPhases, token : 0 .. issued]]
      /\ \A t \in 0 .. issued : Stamp(t) \in 0 .. issued
  BY DEF Idle, Stamp, TypeOK
<1>1. CASE SaveTokens
  <2>1. worker' \in [Workers -> [phase : WorkerPhases, token : 0 .. issued]]
    BY <1>1, WorkerSteps DEF SaveTokens
  <2>2. QED
    BY <1>1, <2>1 DEF SaveTokens, TypeOK
<1>2. CASE Resolve
  <2>1. worker' \in [Workers -> [phase : WorkerPhases, token : 0 .. issued]]
    BY <1>2, WorkerSteps DEF Resolve
  <2>2. request' \in [CoreRequests -> [phase : RequestPhases, token : 0 .. issued]]
    BY <1>2, <1>0 DEF Resolve
  <2>3. QED
    BY <1>2, <2>1, <2>2 DEF Resolve, TypeOK
<1>3. CASE GiveUp
  <2>1. worker' \in [Workers -> [phase : WorkerPhases, token : 0 .. issued]]
    BY <1>3, WorkerSteps DEF GiveUp
  <2>2. request' \in [CoreRequests -> [phase : RequestPhases, token : 0 .. issued]]
    BY <1>3, <1>0 DEF GiveUp
  <2>3. QED
    BY <1>3, <2>1, <2>2 DEF GiveUp, TypeOK
<1>4. ASSUME NEW r \in CoreRequests, Send(r) PROVE TypeOK'
  <2>1. request' \in [CoreRequests -> [phase : RequestPhases, token : 0 .. issued]]
    BY <1>4, <1>0 DEF Send
  <2>2. QED
    BY <1>4, <2>1 DEF Send, TypeOK
<1>5. ASSUME NEW r \in CoreRequests, Answer(r) PROVE TypeOK'
  <2>1. request' \in [CoreRequests -> [phase : RequestPhases, token : 0 .. issued]]
    BY <1>5, <1>0 DEF Answer, Unauthorized, Settle
  <2>2. worker' = worker \/ To("core", "reading", 0)
    BY <1>5 DEF Answer, Unauthorized
  <2>3. worker' \in [Workers -> [phase : WorkerPhases, token : 0 .. issued]]
    BY <2>2, WorkerSteps DEF TypeOK
  <2>4. QED
    BY <1>5, <2>1, <2>3 DEF Answer, TypeOK
<1>6. ASSUME NEW r \in CoreRequests, Fail(r) PROVE TypeOK'
  <2>1. request' \in [CoreRequests -> [phase : RequestPhases, token : 0 .. issued]]
    BY <1>6, <1>0 DEF Fail, Settle
  <2>2. QED
    BY <1>6, <2>1 DEF Fail, TypeOK
<1>7. QED
  BY <1>1, <1>2, <1>3, <1>4, <1>5, <1>6

\* Every step of the auth client keeps the types.
LEMMA AuthTypes ==
  ASSUME TypeOK,
         \/ \E c \in Reloads : Reload(c) \/ Reloaded(c)
         \/ \E c \in Calls : AnswerCall(c) \/ FailCall(c) \/ Retry(c) \/ AnswerRetry(c) \/ FailRetry(c)
  PROVE  TypeOK'
<1> USE Numbers, CallNames DEF storage, backend, notifier, history, CallPhases
<1> DEFINE CallsOK == call' \in [Calls -> [phase : CallPhases, token : 0 .. issued]]
           WorkersOK == worker' \in [Workers -> [phase : WorkerPhases, token : 0 .. issued]]
<1>r. To("auth", "reading", 0) \/ To("auth", "idle", 0) \/ worker' = worker => WorkersOK
  BY WorkerSteps DEF Workers, WorkerPhases, TypeOK
<1>1. ASSUME NEW c \in Reloads, Reload(c) PROVE TypeOK'
  <2>1. CallsOK
    BY <1>1, CallMoves DEF Reload
  <2>2. QED
    BY <1>1, <2>1 DEF Reload, TypeOK
<1>2. ASSUME NEW c \in Reloads, Reloaded(c) PROVE TypeOK'
  <2>1. CallsOK
    BY <1>2 DEF Reloaded, Idle, TypeOK
  <2>2. QED
    BY <1>2, <2>1 DEF Reloaded, TypeOK
<1>3. ASSUME NEW c \in Calls, AnswerCall(c) PROVE TypeOK'
  <2>1. /\ SetCall(c, "ok", 0) \/ SetCall(c, "handled", 0) \/ SetCall(c, "queued", 0)
        /\ To("auth", "reading", 0) \/ worker' = worker
    BY <1>3 DEF AnswerCall
  <2>2. CallsOK /\ WorkersOK
    BY <2>1, <1>r, CallMoves
  <2>3. QED
    BY <1>3, <2>2 DEF AnswerCall, TypeOK
<1>4. ASSUME NEW c \in Calls, FailCall(c) PROVE TypeOK'
  <2>1. SetCall(c, "failed", 0) \/ SetCall(c, "queued", 0)
    BY <1>4 DEF FailCall
  <2>2. CallsOK
    BY <2>1, CallMoves
  <2>3. QED
    BY <1>4, <2>2 DEF FailCall, TypeOK
<1>5. ASSUME NEW c \in Calls, Retry(c) PROVE TypeOK'
  <2>1. CallsOK
    BY <1>5, CallMoves, CallsReleased DEF Retry
  <2>2. WorkersOK
    BY <1>5, <1>r DEF Retry
  <2>3. QED
    BY <1>5, <2>1, <2>2 DEF Retry, TypeOK
<1>6. ASSUME NEW c \in Calls, AnswerRetry(c) PROVE TypeOK'
  <2>1. CallsOK
    BY <1>6, CallMoves, CallsReleased DEF AnswerRetry
  <2>2. QED
    BY <1>6, <2>1 DEF AnswerRetry, TypeOK
<1>7. ASSUME NEW c \in Calls, FailRetry(c) PROVE TypeOK'
  <2>1. CallsOK
    BY <1>7, CallMoves DEF FailRetry
  <2>2. QED
    BY <1>7, <2>1 DEF FailRetry, TypeOK
<1>8. QED
  BY <1>1, <1>2, <1>3, <1>4, <1>5, <1>6, <1>7

\* Every step of AuthNotifier keeps the types.
LEMMA NotifierTypes ==
  ASSUME TypeOK, Capacity,
         \/ BootCheck \/ BootFirst \/ BootRefresh \/ BootSecond
         \/ Register \/ CreateAccount \/ Registered \/ Logout \/ RevokeByJti \/ Forget \/ Expire
  PROVE  TypeOK'
<1> USE Numbers, CallNames DEF storage, backend, notifier, history, CallPhases
<1> DEFINE CallsOK == call' \in [Calls -> [phase : CallPhases, token : 0 .. issued]]
           WorkersOK == worker' \in [Workers -> [phase : WorkerPhases, token : 0 .. issued]]
<1>w. ASSUME NEW w \in {"boot", "register"}, NEW p \in {"idle", "reading", "posted"}, To(w, p, 0)
      PROVE  WorkersOK
  <2>1. w \in Workers /\ p \in WorkerPhases /\ 0 \in 0 .. issued
    BY <1>w DEF Workers, WorkerPhases
  <2>2. QED
    BY <1>w, <2>1, WorkerSteps
<1>i. ASSUME NEW c \in Calls, call' = [call EXCEPT ![c] = Idle] PROVE CallsOK
  BY <1>i DEF Idle, TypeOK
<1>1. ASSUME BootCheck PROVE TypeOK'
  <2>1. CallsOK
    BY <1>1, CallMoves DEF BootCheck, TypeOK
  <2>2. QED
    BY <1>1, <2>1 DEF BootCheck, TypeOK
<1>2. ASSUME BootFirst PROVE TypeOK'
  <2>1. CallsOK /\ (worker' = worker \/ WorkersOK)
    BY <1>2, <1>i, <1>w DEF BootFirst
  <2>2. QED
    BY <1>2, <2>1 DEF BootFirst, TypeOK
<1>3. ASSUME BootRefresh PROVE TypeOK'
  <2>1. WorkersOK
    BY <1>3, <1>w DEF BootRefresh
  <2>2. CallsOK
    BY <1>3, CallMoves DEF BootRefresh, TypeOK
  <2>3. QED
    BY <1>3, <2>1, <2>2 DEF BootRefresh, TypeOK
<1>4. ASSUME BootSecond PROVE TypeOK'
  <2>1. CallsOK
    BY <1>4, <1>i DEF BootSecond
  <2>2. QED
    BY <1>4, <2>1 DEF BootSecond, TypeOK
<1>5. ASSUME Register \/ Registered PROVE TypeOK'
  <2>1. WorkersOK
    BY <1>5, <1>w DEF Register, Registered
  <2>2. CallsOK
    BY <1>5, <1>i DEF Register, Registered, TypeOK
  <2>3. QED
    BY <1>5, <2>1, <2>2 DEF Register, Registered, TypeOK
<1>6. ASSUME CreateAccount PROVE TypeOK'
  <2>1. issued < MaxPairs /\ issued + 1 \in Pairs
    BY <1>6, UnderwayFinite DEF CreateAccount, Pairs
  <2>2. QED
    BY <1>6, <2>1, PairIssued DEF CreateAccount, Workers
<1>7. ASSUME Logout PROVE TypeOK'
  <2>1. CallsOK
    BY <1>7, CallMoves DEF Logout
  <2>2. QED
    BY <1>7, <2>1 DEF Logout, TypeOK
<1>8. ASSUME RevokeByJti PROVE TypeOK'
  <2>1. CallsOK
    BY <1>8, CallMoves DEF RevokeByJti
  <2>2. QED
    BY <1>8, <2>1 DEF RevokeByJti, TypeOK
<1>9. ASSUME Forget PROVE TypeOK'
  <2>1. CallsOK
    BY <1>9, <1>i DEF Forget
  <2>2. QED
    BY <1>9, <2>1 DEF Forget, TypeOK
<1>10. ASSUME Expire PROVE TypeOK'
  BY <1>10 DEF Expire, TypeOK
<1>11. QED
  BY <1>1, <1>2, <1>3, <1>4, <1>5, <1>6, <1>7, <1>8, <1>9, <1>10

\* Every step keeps the types.
LEMMA TypeStep ==
  ASSUME TypeOK, Capacity, FreshPairs, [Next]_vars
  PROVE  TypeOK'
<1>1. CASE \E w \in Workers : RefreshStep(w) \/ LoseRefresh(w)
  BY <1>1, RefreshTypes
<1>2. CASE UNCHANGED vars
  BY <1>2 DEF vars, storage, backend, notifier, history, TypeOK
<1>3. QED
  BY <1>1, <1>2, CoreTypes, AuthTypes, NotifierTypes, CallNames DEF Next, ClientStep

-----------------------------------------------------------------------------
(* The backend's bound                                                      *)

\* Every step leaves the backend room for the pairs it is about to issue.
LEMMA CapacityStep ==
  ASSUME TypeOK, Capacity, [Next]_vars
  PROVE  Capacity'
<1> USE Numbers DEF storage, backend, notifier, history
<1> DEFINE Serving(p) == p \in {"found", "revoked"}
<1>u. ASSUME issued' = issued, Underway' = Underway PROVE Capacity'
  BY <1>u DEF Capacity
<1>v. ASSUME issued' = issued, worker' = worker PROVE Capacity'
  BY <1>u, <1>v DEF Underway
<1>m. ASSUME NEW w \in Workers, NEW p \in WorkerPhases, NEW n \in Nat, issued <= n,
             NEW t \in 0 .. n, To(w, p, t)
      PROVE  Underway' = IF Serving(p) THEN Underway \cup {w} ELSE Underway \ {w}
  <2>1. /\ worker'[w] = [phase |-> p, token |-> t]
        /\ \A v \in Workers \ {w} : worker'[v] = worker[v]
    BY <1>m, WorkerMoves
  <2>2. worker'[w].phase = p
    BY <2>1
  <2>3. QED
    BY <2>1, <2>2 DEF Underway
<1>s. ASSUME NEW w \in Workers, NEW p \in WorkerPhases, NEW t \in 0 .. issued, To(w, p, t),
             issued' = issued, Serving(p) => Serving(worker[w].phase)
      PROVE  Capacity'
  <2>1. Underway' = IF Serving(p) THEN Underway \cup {w} ELSE Underway \ {w}
    BY <1>s, <1>m
  <2>2. Underway' \subseteq Underway
    BY <1>s, <2>1 DEF Underway
  <2>3. Cardinality(Underway') \in Nat /\ Cardinality(Underway') <= Cardinality(Underway)
    BY <2>2, UnderwayFinite, FS_Subset, FS_CardinalityType
  <2>4. QED
    BY <1>s, <2>3, UnderwayFinite DEF Capacity
<1>1. ASSUME NEW w \in Workers, ReadRefresh(w) \/ RevokeRow(w) \/ CacheAccess(w) \/ CacheRefresh(w)
                                \/ LoseRefresh(w)
      PROVE  Capacity'
  BY <1>1, <1>s DEF ReadRefresh, RevokeRow, CacheAccess, CacheRefresh, LoseRefresh, WorkerPhases
<1>2. ASSUME NEW w \in Workers, FindRow(w) PROVE Capacity'
  <2>1. CASE worker[w].token \in live
    <3>1. Underway' = Underway \cup {w} /\ issued + Cardinality(Underway) < MaxPairs
      BY <1>2, <2>1, <1>m DEF FindRow, WorkerPhases
    <3>2. w \notin Underway
      BY <1>2 DEF FindRow, Underway
    <3>3. Cardinality(Underway') = Cardinality(Underway) + 1
      BY <3>1, <3>2, UnderwayFinite
    <3>4. issued' = issued
      BY <1>2 DEF FindRow
    <3>5. QED
      BY <3>1, <3>3, <3>4, UnderwayFinite DEF Capacity
  <2>2. CASE worker[w].token \notin live
    BY <1>2, <2>2, <1>s DEF FindRow, WorkerPhases
  <2>3. QED
    BY <2>1, <2>2
<1>p. ASSUME NEW w \in Workers, NEW owner, NewPair(w, owner)
      PROVE  issued' = issued + 1 /\ Underway' = Underway \ {w}
  BY <1>p, <1>m DEF NewPair, WorkerPhases
<1>3. ASSUME NEW w \in Workers, IssuePair(w) PROVE Capacity'
  <2>1. w \in Underway
    BY <1>3 DEF IssuePair, Underway
  <2>2. issued' = issued + 1 /\ Cardinality(Underway') = Cardinality(Underway) - 1
    BY <1>3, <1>p, <2>1, UnderwayFinite DEF IssuePair
  <2>3. QED
    BY <2>2, UnderwayFinite DEF Capacity
<1>4. ASSUME CreateAccount PROVE Capacity'
  <2>1. "register" \in Workers \ Underway
    BY <1>4 DEF CreateAccount, Underway, Workers
  <2>2. issued' = issued + 1 /\ Underway' = Underway
    BY <1>4, <1>p, <2>1 DEF CreateAccount
  <2>3. QED
    BY <1>4, <2>2, UnderwayFinite DEF Capacity, CreateAccount
<1>5. CASE SaveTokens \/ Resolve \/ GiveUp
  BY <1>5, <1>s DEF SaveTokens, Resolve, GiveUp, WorkerPhases, Workers
<1>6. ASSUME NEW r \in CoreRequests, Send(r) \/ Answer(r) \/ Fail(r) PROVE Capacity'
  <2>1. /\ issued' = issued
        /\ worker' = worker \/ (To("core", "reading", 0) /\ worker["core"].phase = "idle")
    BY <1>6 DEF Send, Answer, Fail, Unauthorized
  <2>2. QED
    BY <2>1, <1>v, <1>s DEF WorkerPhases, Workers
<1>7. ASSUME NEW c \in Calls,
             AnswerCall(c) \/ FailCall(c) \/ Retry(c) \/ AnswerRetry(c) \/ FailRetry(c)
      PROVE  Capacity'
  <2>1. /\ issued' = issued
        /\ worker' = worker \/ To("auth", "reading", 0) \/ To("auth", "idle", 0)
    BY <1>7 DEF AnswerCall, FailCall, Retry, AnswerRetry, FailRetry
  <2>2. QED
    BY <2>1, <1>v, <1>s DEF WorkerPhases, Workers
<1>8. CASE (\E c \in Reloads : Reload(c) \/ Reloaded(c)) \/ BootCheck \/ BootSecond
           \/ Logout \/ RevokeByJti \/ Forget \/ Expire
  BY <1>8, <1>v DEF Reload, Reloaded, BootCheck, BootSecond, Logout, RevokeByJti, Forget, Expire
<1>9. CASE BootFirst \/ BootRefresh
  <2>1. /\ issued' = issued
        /\ worker' = worker \/ To("boot", "reading", 0) \/ To("boot", "idle", 0)
    BY <1>9 DEF BootFirst, BootRefresh
  <2>2. QED
    BY <2>1, <1>v, <1>s DEF WorkerPhases, Workers
<1>10. CASE Register \/ Registered
  <2>1. /\ issued' = issued
        /\ To("register", "posted", 0) \/ To("register", "idle", 0)
    BY <1>10 DEF Register, Registered
  <2>2. QED
    BY <2>1, <1>s DEF WorkerPhases, Workers
<1>11. CASE UNCHANGED vars
  BY <1>11, <1>v DEF vars
<1>12. QED
  BY <1>1, <1>2, <1>3, <1>4, <1>5, <1>6, <1>7, <1>8, <1>9, <1>10, <1>11
     DEF Next, RefreshStep, ClientStep

-----------------------------------------------------------------------------
(* The access tokens of refreshes and replays                               *)

\* Every step keeps the tokens of the refreshes under way good.
LEMMA FreshStep ==
  ASSUME TypeOK, FreshPairs, [Next]_vars
  PROVE  FreshPairs'
<1> USE Numbers DEF storage, backend, notifier, history
<1>v. ASSUME expired' = expired, worker' = worker PROVE FreshPairs'
  BY <1>v DEF FreshPairs, Accepted
<1>m. ASSUME NEW w \in Workers, NEW p \in WorkerPhases, NEW n \in Nat, issued <= n,
             NEW t \in 0 .. n, To(w, p, t), expired' = expired,
             p \in {"found", "revoked"} => t # 0,
             p \in {"answered", "half", "saved"} => Accepted(t)
      PROVE  FreshPairs'
  <2>1. /\ worker'[w] = [phase |-> p, token |-> t]
        /\ \A v \in Workers \ {w} : worker'[v] = worker[v]
    BY <1>m, WorkerMoves
  <2>2. worker'[w].phase = p /\ worker'[w].token = t
    BY <2>1
  <2>3. QED
    BY <1>m, <2>1, <2>2 DEF FreshPairs, Accepted
<1>s. ASSUME NEW w \in Workers, NEW p \in WorkerPhases, NEW t \in 0 .. issued, To(w, p, t),
             expired' = expired,
             p \in {"found", "revoked"} => t # 0,
             p \in {"answered", "half", "saved"} => Accepted(t)
      PROVE  FreshPairs'
  BY <1>m, <1>s
<1>0. 0 \in 0 .. issued
  OBVIOUS
<1>1. ASSUME NEW w \in Workers, ReadRefresh(w) \/ LoseRefresh(w) PROVE FreshPairs'
  BY <1>1, <1>s, <1>0 DEF ReadRefresh, LoseRefresh, WorkerPhases
<1>2. ASSUME NEW w \in Workers, FindRow(w) PROVE FreshPairs'
  <2>1. worker[w].token \in live => worker[w].token # 0
    OBVIOUS
  <2>2. QED
    BY <1>2, <1>s, <1>0, <2>1 DEF FindRow, WorkerPhases
<1>3. ASSUME NEW w \in Workers, RevokeRow(w) PROVE FreshPairs'
  <2>1. worker[w].token # 0
    BY <1>3 DEF RevokeRow, FreshPairs
  <2>2. QED
    BY <1>3, <1>s, <2>1 DEF RevokeRow, WorkerPhases
<1>p. ASSUME NEW w \in Workers, NEW owner, NewPair(w, owner) PROVE FreshPairs'
  <2>1. Accepted(issued + 1)
    BY DEF Accepted
  <2>2. QED
    BY <1>p, <1>m, <2>1 DEF NewPair, WorkerPhases
<1>4. ASSUME NEW w \in Workers, CacheAccess(w) \/ CacheRefresh(w) PROVE FreshPairs'
  <2>1. Accepted(worker[w].token)
    BY <1>4 DEF CacheAccess, CacheRefresh, FreshPairs
  <2>2. QED
    BY <1>4, <1>s, <2>1 DEF CacheAccess, CacheRefresh, WorkerPhases
<1>5. CASE SaveTokens
  <2>1. Accepted(worker["core"].token)
    BY <1>5 DEF SaveTokens, FreshPairs, Workers
  <2>2. QED
    BY <1>5, <1>s, <2>1 DEF SaveTokens, WorkerPhases, Workers
<1>6. ASSUME expired' = expired,
             \/ worker' = worker
             \/ \E w \in Workers, p \in {"idle", "reading", "posted"} : To(w, p, 0)
      PROVE  FreshPairs'
  BY <1>6, <1>v, <1>s, <1>0 DEF WorkerPhases
<1>7. CASE Resolve \/ GiveUp \/ \E r \in CoreRequests : Send(r) \/ Answer(r) \/ Fail(r)
  BY <1>7, <1>6 DEF Resolve, GiveUp, Send, Answer, Fail, Unauthorized, Workers
<1>8. CASE \E c \in Calls : AnswerCall(c) \/ FailCall(c) \/ Retry(c) \/ AnswerRetry(c) \/ FailRetry(c)
  BY <1>8, <1>6 DEF AnswerCall, FailCall, Retry, AnswerRetry, FailRetry, Workers
<1>9. CASE BootCheck \/ BootFirst \/ BootRefresh \/ BootSecond
  BY <1>9, <1>6 DEF BootCheck, BootFirst, BootRefresh, BootSecond, Workers
<1>10. CASE Register \/ Registered
  BY <1>10, <1>6 DEF Register, Registered, Workers
<1>11. CASE (\E c \in Reloads : Reload(c) \/ Reloaded(c)) \/ Logout \/ RevokeByJti \/ Forget
  BY <1>11, <1>6 DEF Reload, Reloaded, Logout, RevokeByJti, Forget
<1>12. CASE Expire
  BY <1>12 DEF Expire, Quiet, FreshPairs
<1>13. CASE UNCHANGED vars
  BY <1>13, <1>6 DEF vars
<1>14. ASSUME NEW w \in Workers, IssuePair(w) PROVE FreshPairs'
  BY <1>14, <1>p DEF IssuePair
<1>15. CASE CreateAccount
  BY <1>15, <1>p DEF CreateAccount, Workers
<1>16. QED
  BY <1>1, <1>2, <1>3, <1>4, <1>5, <1>7, <1>8, <1>9, <1>10, <1>11, <1>12, <1>13, <1>14, <1>15
     DEF Next, RefreshStep, ClientStep

\* Every step keeps what is stored at the Completer's end good.
LEMMA StoredStep ==
  ASSUME TypeOK, FreshPairs, StoredIsFresh, [Next]_vars
  PROVE  StoredIsFresh'
<1> USE DEF storage, backend, notifier, history
<1> DEFINE At(p) == worker["core"].phase = p
<1>0. worker["core"].phase \in WorkerPhases /\ "core" \in Workers
  BY Numbers DEF Workers
<1>s. ASSUME expired' = expired, access' = access \/ access' = 0 \/ Accepted(access'),
             At("saved")' => At("saved"), At("half")' => At("half")
      PROVE  StoredIsFresh'
  BY <1>s DEF StoredIsFresh, Accepted
<1>c. ASSUME NEW p, NEW t, To("core", p, t)
      PROVE  At(p)'
  BY <1>c, <1>0 DEF To, TypeOK
<1>o. ASSUME NEW w \in Workers \ {"core"}, NEW p, NEW t, To(w, p, t)
      PROVE  worker'["core"] = worker["core"]
  BY <1>o, <1>0 DEF To, TypeOK
<1>t. ASSUME NEW w \in Workers, NEW p, p \notin {"saved", "half"}, NEW t, To(w, p, t)
      PROVE  (At("saved")' => At("saved")) /\ (At("half")' => At("half"))
  <2>1. CASE w = "core"
    BY <1>t, <1>c, <2>1
  <2>2. CASE w # "core"
    BY <1>t, <1>o, <2>2
  <2>3. QED
    BY <2>1, <2>2
<1>1. ASSUME NEW w \in Workers,
             ReadRefresh(w) \/ FindRow(w) \/ RevokeRow(w) \/ IssuePair(w) \/ LoseRefresh(w)
      PROVE  StoredIsFresh'
  <2>1. \E p \in {"posted", "refused", "found", "revoked", "answered"}, t \in Nat : To(w, p, t)
    BY <1>1, Numbers DEF ReadRefresh, FindRow, RevokeRow, IssuePair, NewPair, LoseRefresh
  <2>2. (At("saved")' => At("saved")) /\ (At("half")' => At("half"))
    BY <2>1, <1>t
  <2>3. expired' = expired /\ access' = access
    BY <1>1 DEF ReadRefresh, FindRow, RevokeRow, IssuePair, NewPair, LoseRefresh
  <2>4. QED
    BY <2>2, <2>3, <1>s
<1>2. ASSUME NEW w \in Workers, CacheAccess(w) \/ CacheRefresh(w) PROVE StoredIsFresh'
  <2>1. w # "core"
    BY <1>2 DEF CacheAccess, CacheRefresh, StoredIsFresh
  <2>2. worker'["core"] = worker["core"]
    BY <1>2, <2>1, <1>o DEF CacheAccess, CacheRefresh
  <2>3. access' = access \/ Accepted(access')
    BY <1>2 DEF CacheAccess, CacheRefresh, FreshPairs
  <2>4. expired' = expired
    BY <1>2 DEF CacheAccess, CacheRefresh
  <2>5. QED
    BY <2>2, <2>3, <2>4, <1>s
<1>3. CASE SaveTokens
  <2>1. Accepted(access') /\ expired' = expired
    BY <1>3, <1>0 DEF SaveTokens, FreshPairs
  <2>2. At("saved")'
    BY <1>3, <1>c DEF SaveTokens
  <2>3. QED
    BY <2>1, <2>2 DEF StoredIsFresh, Accepted
<1>4. ASSUME expired' = expired, access' = access \/ access' = 0,
             \/ worker' = worker
             \/ \E w \in Workers, p \in {"idle", "reading", "posted"}, t \in Nat : To(w, p, t)
      PROVE  StoredIsFresh'
  <2>1. (At("saved")' => At("saved")) /\ (At("half")' => At("half"))
    BY <1>4, <1>t
  <2>2. QED
    BY <1>4, <2>1, <1>s
<1>5. CASE Resolve \/ GiveUp \/ \E r \in CoreRequests : Send(r) \/ Answer(r) \/ Fail(r)
  BY <1>5, <1>4 DEF Resolve, GiveUp, Send, Answer, Fail, Unauthorized, Workers
<1>6. CASE \E c \in Calls : AnswerCall(c) \/ FailCall(c) \/ Retry(c) \/ AnswerRetry(c) \/ FailRetry(c)
  BY <1>6, <1>4 DEF AnswerCall, FailCall, Retry, AnswerRetry, FailRetry, Workers
<1>7. CASE BootCheck \/ BootFirst \/ BootRefresh \/ BootSecond
  BY <1>7, <1>4 DEF BootCheck, BootFirst, BootRefresh, BootSecond, Workers
<1>8. CASE Register \/ Registered
  BY <1>8, <1>4 DEF Register, Registered, Workers
<1>9. CASE (\E c \in Reloads : Reload(c) \/ Reloaded(c)) \/ Logout \/ RevokeByJti \/ Forget
  BY <1>9, <1>4 DEF Reload, Reloaded, Logout, RevokeByJti, Forget
<1>10. CASE Expire
  BY <1>10, <1>0 DEF Expire, Quiet, StoredIsFresh
<1>11. CASE UNCHANGED vars
  BY <1>11, <1>4 DEF vars
<1>12. CASE CreateAccount
  <2>1. worker'["core"] = worker["core"]
    BY <1>12, <1>o DEF CreateAccount, NewPair, Workers
  <2>2. QED
    BY <1>12, <2>1, <1>s DEF CreateAccount, NewPair
<1>13. QED
  BY <1>1, <1>2, <1>3, <1>5, <1>6, <1>7, <1>8, <1>9, <1>10, <1>11, <1>12
     DEF Next, RefreshStep, ClientStep

\* Every step sends a request again only with a token the backend accepts.
LEMMA RetryStep ==
  ASSUME TypeOK, FreshPairs, StoredIsFresh, RetryIsAccepted, [Next]_vars
  PROVE  RetryIsAccepted'
<1> USE DEF storage, backend, notifier, history
<1>0. request \in [CoreRequests -> [phase : RequestPhases, token : 0 .. issued]]
  BY DEF TypeOK
<1>1. ASSUME expired' = expired,
             \A r \in CoreRequests : request'[r] = request[r] \/ request'[r].phase # "retried"
      PROVE  RetryIsAccepted'
  BY <1>1 DEF RetryIsAccepted, Accepted
<1>2. CASE Resolve
  <2>1. Accepted(Stamp(worker["core"].token)) /\ expired' = expired
    BY <1>2 DEF Resolve, Stamp, FreshPairs, StoredIsFresh, Workers
  <2>2. \A r \in CoreRequests : \/ request'[r] = request[r]
                                \/ request'[r].token = Stamp(worker["core"].token)
    BY <1>2 DEF Resolve
  <2>3. QED
    BY <2>1, <2>2 DEF RetryIsAccepted, Accepted
<1>3. CASE GiveUp \/ \E r \in CoreRequests : Send(r) \/ Answer(r) \/ Fail(r)
  BY <1>3, <1>0, <1>1 DEF GiveUp, Send, Answer, Fail, Unauthorized, Settle, Idle
<1>4. CASE Expire
  BY <1>4 DEF Expire, Quiet, RetryIsAccepted
<1>5. ASSUME expired' = expired, request' = request PROVE RetryIsAccepted'
  BY <1>1, <1>5
<1>6. CASE \E w \in Workers : RefreshStep(w) \/ LoseRefresh(w)
  BY <1>6, <1>5 DEF RefreshStep, ReadRefresh, FindRow, RevokeRow, IssuePair, NewPair, CacheAccess,
                    CacheRefresh, LoseRefresh
<1>7. CASE SaveTokens
  BY <1>7, <1>5 DEF SaveTokens
<1>8. CASE (\E c \in Reloads : Reload(c) \/ Reloaded(c))
           \/ \E c \in Calls : AnswerCall(c) \/ FailCall(c) \/ Retry(c) \/ AnswerRetry(c) \/ FailRetry(c)
  BY <1>8, <1>5 DEF Reload, Reloaded, AnswerCall, FailCall, Retry, AnswerRetry, FailRetry
<1>9. CASE BootCheck \/ BootFirst \/ BootRefresh \/ BootSecond \/ Register \/ CreateAccount
           \/ Registered \/ Logout \/ RevokeByJti \/ Forget
  BY <1>9, <1>5 DEF BootCheck, BootFirst, BootRefresh, BootSecond, Register, CreateAccount, NewPair,
                    Registered, Logout, RevokeByJti, Forget
<1>10. CASE UNCHANGED vars
  BY <1>10, <1>5 DEF vars
<1>11. QED
  BY <1>2, <1>3, <1>4, <1>6, <1>7, <1>8, <1>9, <1>10 DEF Next, ClientStep

-----------------------------------------------------------------------------
(* The queue of the auth client                                             *)

Handled == {"handled", "retried", "stuck"}

\* A call that moves leaves the queue with a handler, if it joins it behind one and is none.
LEMMA QueueMoves ==
  ASSUME TypeOK, QueueHasHandler, NEW c \in Calls, NEW p, NEW t,
         call' = [call EXCEPT ![c] = [phase |-> p, token |-> t]],
         p = "queued" => Handling # {},
         call[c].phase \in Handled => p \in Handled
  PROVE  QueueHasHandler'
<1>1. call'[c].phase = p /\ \A d \in Calls \ {c} : call'[d] = call[d]
  BY DEF TypeOK
<1> SUFFICES ASSUME NEW d \in Calls, call'[d].phase = "queued"
             PROVE  \E h \in Calls : call'[h].phase \in Handled
  BY DEF QueueHasHandler, Handling, Handled
<1>2. PICK h \in Calls : call[h].phase \in Handled
  BY <1>1 DEF QueueHasHandler, Handling, Handled
<1>3. CASE h = c
  BY <1>1, <1>2, <1>3
<1>4. CASE h # c
  BY <1>1, <1>2, <1>4
<1>5. QED
  BY <1>3, <1>4

\* Every step leaves an error that queued up with a handler in front of it, and the call of the
\* bootstrap at rest while the bootstrap does not wait for it.
LEMMA QueueStep ==
  ASSUME TypeOK, BootWaits, RegistrationPasses, QueueHasHandler, [Next]_vars
  PROVE  QueueHasHandler' /\ BootWaits'
<1> USE CallNames DEF storage, backend, notifier, history
<1> DEFINE BootStays == boot' = boot /\ (call["boot"].phase = "idle" => call'["boot"].phase = "idle")
<1>0. call \in [Calls -> [phase : CallPhases, token : 0 .. issued]]
  BY DEF TypeOK
<1>b. BootStays => BootWaits'
  BY DEF BootWaits
<1>u. ASSUME UNCHANGED <<call, boot>> PROVE QueueHasHandler' /\ BootWaits'
  BY <1>u DEF QueueHasHandler, Handling, BootWaits
<1>m. ASSUME NEW c \in Calls, NEW p, NEW t, SetCall(c, p, t), boot' = boot,
             p = "queued" => Handling # {},
             call[c].phase \in Handled => p \in Handled,
             c # "boot" \/ call[c].phase # "idle"
      PROVE  QueueHasHandler' /\ BootWaits'
  <2>1. QueueHasHandler'
    BY <1>m, QueueMoves DEF SetCall
  <2>2. BootStays
    BY <1>m, <1>0 DEF SetCall
  <2>3. QED
    BY <2>1, <2>2, <1>b
<1>r. ASSUME NEW h \in Calls, NEW p \in {"ok", "failed"}, Release(h, p), boot' = boot,
             call[h].phase # "idle"
      PROVE  QueueHasHandler' /\ BootWaits'
  <2>1. \A c \in Calls : call'[c].phase # "queued"
    BY <1>r, CallsReleased
  <2>2. BootStays
    BY <1>r, CallsReleased
  <2>3. QED
    BY <2>1, <2>2, <1>b DEF QueueHasHandler
<1>i. ASSUME NEW c \in Calls, call' = [call EXCEPT ![c] = Idle], call[c].phase \in {"ok", "failed"}
      PROVE  QueueHasHandler' /\ call'[c].phase = "idle"
  BY <1>i, <1>0, QueueMoves DEF Idle, Handled
<1>k. ASSUME call["boot"].phase = "idle", SetCall("boot", "sent", access) PROVE QueueHasHandler'
  <2>1. call' = [call EXCEPT !["boot"] = [phase |-> "sent", token |-> access]]
    BY <1>k DEF SetCall
  <2>2. call["boot"].phase \notin Handled /\ "sent" # "queued"
    BY <1>k DEF Handled
  <2>3. QED
    BY <2>1, <2>2, QueueMoves
<1>1. CASE \E w \in Workers : RefreshStep(w)
  BY <1>1, <1>u DEF RefreshStep, ReadRefresh, FindRow, RevokeRow, IssuePair, NewPair, CacheAccess,
                    CacheRefresh
<1>l. CASE \E w \in Workers : LoseRefresh(w)
  <2>1. CASE UNCHANGED call
    BY <1>l, <2>1, <1>u DEF LoseRefresh
  <2>2. CASE SetCall("register", "queued", 0) /\ Handling # {}
    BY <1>l, <2>2, <1>m DEF LoseRefresh, RegistrationPasses, Handled
  <2>3. QED
    BY <1>l, <2>1, <2>2 DEF LoseRefresh
<1>2. CASE SaveTokens \/ Resolve \/ GiveUp \/ \E r \in CoreRequests : Send(r) \/ Answer(r) \/ Fail(r)
  BY <1>2, <1>u DEF SaveTokens, Resolve, GiveUp, Send, Answer, Fail
<1>3. ASSUME NEW c \in Reloads, Reload(c) PROVE QueueHasHandler' /\ BootWaits'
  BY <1>3, <1>m DEF Reload, Handled
<1>4. ASSUME NEW c \in Reloads, Reloaded(c) PROVE QueueHasHandler' /\ BootWaits'
  <2>1. QueueHasHandler'
    BY <1>4, <1>i DEF Reloaded
  <2>2. BootStays
    BY <1>4, <1>0 DEF Reloaded
  <2>3. QED
    BY <2>1, <2>2, <1>b
<1>5. ASSUME NEW c \in Calls, AnswerCall(c) \/ FailCall(c) PROVE QueueHasHandler' /\ BootWaits'
  <2>1. call[c].phase = "sent" /\ boot' = boot
    BY <1>5 DEF AnswerCall, FailCall
  <2>2. \E p \in {"ok", "handled", "queued", "failed"} :
          SetCall(c, p, 0) /\ (p = "queued" => Handling # {})
    BY <1>5 DEF AnswerCall, FailCall
  <2>3. QED
    BY <2>1, <2>2, <1>m DEF Handled
<1>6. ASSUME NEW c \in Calls, Retry(c) \/ AnswerRetry(c) \/ FailRetry(c)
      PROVE  QueueHasHandler' /\ BootWaits'
  <2>1. call[c].phase \in Handled /\ call[c].phase # "idle" /\ boot' = boot
    BY <1>6 DEF Retry, AnswerRetry, FailRetry, Handled
  <2>2. \/ Release(c, "ok") \/ Release(c, "failed")
        \/ SetCall(c, "retried", access) \/ SetCall(c, "stuck", 0)
    BY <1>6 DEF Retry, AnswerRetry, FailRetry
  <2>3. QED
    BY <2>1, <2>2, <1>m, <1>r DEF Handled
<1>7. CASE BootCheck
  <2>1. CASE refresh = 0
    BY <1>7, <2>1 DEF BootCheck, BootWaits, QueueHasHandler, Handling
  <2>2. CASE refresh # 0
    <3>1. call["boot"].phase = "idle" /\ SetCall("boot", "sent", access) /\ boot' = "first"
      BY <1>7, <2>2 DEF BootCheck, BootWaits
    <3>2. QueueHasHandler'
      BY <3>1, <1>k
    <3>3. QED
      BY <3>1, <3>2 DEF BootWaits
  <2>3. QED
    BY <2>1, <2>2
<1>8. CASE BootFirst \/ BootSecond
  <2>1. QueueHasHandler' /\ call'["boot"].phase = "idle"
    BY <1>8, <1>i DEF BootFirst, BootSecond
  <2>2. QED
    BY <2>1 DEF BootWaits
<1>9. CASE BootRefresh
  <2>1. CASE worker["boot"].phase = "saved"
    <3>1. call["boot"].phase = "idle" /\ SetCall("boot", "sent", access) /\ boot' = "second"
      BY <1>9, <2>1 DEF BootRefresh, BootWaits
    <3>2. QueueHasHandler'
      BY <3>1, <1>k
    <3>3. QED
      BY <3>1, <3>2 DEF BootWaits
  <2>2. CASE worker["boot"].phase # "saved"
    BY <1>9, <2>2 DEF BootRefresh, BootWaits, QueueHasHandler, Handling
  <2>3. QED
    BY <2>1, <2>2
<1>10. CASE Register \/ CreateAccount \/ Expire
  BY <1>10, <1>u DEF Register, CreateAccount, NewPair, Expire
<1>g. CASE Registered
  <2>1. call' = [call EXCEPT !["register"] = [phase |-> "idle", token |-> 0]] /\ boot' = boot
    BY <1>g DEF Registered, Idle
  <2>r. "idle" # "queued" /\ call["register"].phase \notin Handled
    BY DEF RegistrationPasses, Handled
  <2>2. QueueHasHandler'
    BY <2>1, <2>r, QueueMoves
  <2>3. BootStays
    BY <2>1, <1>0
  <2>4. QED
    BY <2>2, <2>3, <1>b
<1>11. CASE Logout
  <2>1. call["logout"].phase = "idle" /\ boot' = boot
        /\ (SetCall("logout", "ok", 0) \/ SetCall("logout", "sent", refresh))
    BY <1>11 DEF Logout
  <2>2. QED
    BY <2>1, <1>m DEF Handled
<1>12. CASE RevokeByJti
  BY <1>12, <1>m DEF RevokeByJti, Handled
<1>13. CASE Forget
  <2>1. QueueHasHandler'
    BY <1>13, <1>i DEF Forget
  <2>2. BootStays
    BY <1>13, <1>0 DEF Forget
  <2>3. QED
    BY <2>1, <2>2, <1>b
<1>14. CASE UNCHANGED vars
  BY <1>14, <1>u DEF vars
<1>15. QED
  BY <1>1, <1>l, <1>2, <1>3, <1>4, <1>5, <1>6, <1>7, <1>8, <1>9, <1>10, <1>g, <1>11, <1>12, <1>13,
     <1>14 DEF Next, ClientStep

\* A registration's error is never handled.
LEMMA RegistrationStep ==
  ASSUME TypeOK, RegistrationPasses, [Next]_vars
  PROVE  RegistrationPasses'
<1> USE CallNames DEF storage, backend, notifier, history, RegistrationPasses
<1>0. call \in [Calls -> [phase : CallPhases, token : 0 .. issued]]
  BY DEF TypeOK
<1>u. ASSUME call'["register"] = call["register"] PROVE RegistrationPasses'
  BY <1>u
<1>s. ASSUME NEW c \in Calls, c # "register",
             \/ \E p, t : SetCall(c, p, t)
             \/ call' = [call EXCEPT ![c] = Idle]
      PROVE  RegistrationPasses'
  BY <1>s, <1>0 DEF SetCall
<1>1. CASE \E w \in Workers : RefreshStep(w)
  BY <1>1 DEF RefreshStep, ReadRefresh, FindRow, RevokeRow, IssuePair, NewPair, CacheAccess,
              CacheRefresh
<1>2. CASE \E w \in Workers : LoseRefresh(w)
  BY <1>2, <1>0 DEF LoseRefresh, SetCall
<1>3. CASE SaveTokens \/ Resolve \/ GiveUp \/ \E r \in CoreRequests : Send(r) \/ Answer(r) \/ Fail(r)
  BY <1>3 DEF SaveTokens, Resolve, GiveUp, Send, Answer, Fail
<1>4. ASSUME NEW c \in Reloads, Reload(c) \/ Reloaded(c) PROVE RegistrationPasses'
  BY <1>4, <1>s DEF Reload, Reloaded
<1>5. ASSUME NEW c \in Calls,
             AnswerCall(c) \/ FailCall(c) \/ Retry(c) \/ AnswerRetry(c) \/ FailRetry(c)
      PROVE  RegistrationPasses'
  <2>1. c # "register"
    BY <1>5 DEF AnswerCall, FailCall, Retry, AnswerRetry, FailRetry
  <2>2. \/ \E p, t : SetCall(c, p, t)
        \/ Release(c, "ok") \/ Release(c, "failed")
    BY <1>5 DEF AnswerCall, FailCall, Retry, AnswerRetry, FailRetry
  <2>3. QED
    BY <2>1, <2>2, <1>s DEF Release
<1>6. CASE BootCheck \/ BootFirst \/ BootRefresh \/ BootSecond
  BY <1>6, <1>s, <1>u DEF BootCheck, BootFirst, BootRefresh, BootSecond
<1>7. CASE Register \/ CreateAccount \/ Expire
  BY <1>7 DEF Register, CreateAccount, NewPair, Expire
<1>8. CASE Registered
  BY <1>8, <1>0 DEF Registered, Idle
<1>9. CASE Logout \/ RevokeByJti \/ Forget
  BY <1>9, <1>s DEF Logout, RevokeByJti, Forget
<1>10. CASE UNCHANGED vars
  BY <1>10 DEF vars
<1>11. QED
  BY <1>1, <1>2, <1>3, <1>4, <1>5, <1>6, <1>7, <1>8, <1>9, <1>10 DEF Next, ClientStep

\* A step starts a handler only where there is none, and with it the refresh it waits for; the
\* refresh ends with the handler's step.
LEMMA HandlerStep ==
  ASSUME TypeOK, OneHandler, HandlerRefreshes, [Next]_vars
  PROVE  OneHandler' /\ HandlerRefreshes'
<1> USE CallNames DEF storage, backend, notifier, history
<1>0. /\ call \in [Calls -> [phase : CallPhases, token : 0 .. issued]]
      /\ worker \in [Workers -> [phase : WorkerPhases, token : 0 .. issued]]
  BY DEF TypeOK
<1> DEFINE Busy == worker["auth"].phase # "idle" => worker'["auth"].phase # "idle"
<1>w. ASSUME NEW w \in Workers, w # "auth", NEW p, NEW t, To(w, p, t) PROVE Busy
  BY <1>w, <1>0 DEF To, Workers
<1>u. ASSUME UNCHANGED call, Busy PROVE OneHandler' /\ HandlerRefreshes'
  BY <1>u DEF OneHandler, HandlerRefreshes, Handling
<1>m. ASSUME NEW c \in Calls, NEW p, NEW t, Busy,
             call' = [call EXCEPT ![c] = [phase |-> p, token |-> t]],
             p # "handled", p \in Handled => call[c].phase \in Handled
      PROVE  OneHandler' /\ HandlerRefreshes'
  <2>1. call'[c].phase = p /\ \A d \in Calls \ {c} : call'[d] = call[d]
    BY <1>m, <1>0
  <2>2. \A d \in Calls : call'[d].phase \in Handled => call[d].phase \in Handled
    BY <1>m, <2>1
  <2>3. OneHandler'
    BY <2>2 DEF OneHandler, Handling, Handled
  <2>4. HandlerRefreshes'
    BY <1>m, <2>1 DEF HandlerRefreshes
  <2>5. QED
    BY <2>3, <2>4
<1>r. ASSUME NEW h \in Calls, NEW p \in {"ok", "failed"}, Release(h, p), call[h].phase \in Handled
      PROVE  OneHandler' /\ HandlerRefreshes'
  <2>1. \A d \in Calls \ {h} : call[d].phase \notin Handled
    BY <1>r DEF OneHandler, Handling, Handled
  <2>2. \A d \in Calls : call'[d].phase \notin Handled
    BY <1>r, <2>1 DEF Release, Handled
  <2>3. QED
    BY <2>2 DEF OneHandler, HandlerRefreshes, Handling, Handled
<1>1. ASSUME NEW w \in Workers, RefreshStep(w) PROVE OneHandler' /\ HandlerRefreshes'
  <2>1. \E p, t : To(w, p, t) /\ p # "idle"
    BY <1>1 DEF RefreshStep, ReadRefresh, FindRow, RevokeRow, IssuePair, NewPair, CacheAccess,
                CacheRefresh
  <2>2. Busy
    BY <2>1, <1>0 DEF To
  <2>3. QED
    BY <1>1, <2>2, <1>u DEF RefreshStep, ReadRefresh, FindRow, RevokeRow, IssuePair, NewPair,
                            CacheAccess, CacheRefresh
<1>2. ASSUME NEW w \in Workers, LoseRefresh(w) PROVE OneHandler' /\ HandlerRefreshes'
  <2>1. Busy
    BY <1>2, <1>0 DEF LoseRefresh, To
  <2>2. QED
    BY <1>2, <2>1, <1>u, <1>m DEF LoseRefresh, SetCall, Handled
<1>3. CASE SaveTokens \/ Resolve \/ GiveUp \/ \E r \in CoreRequests : Send(r) \/ Answer(r) \/ Fail(r)
  <2>1. Busy
    BY <1>3, <1>w DEF SaveTokens, Resolve, GiveUp, Send, Answer, Fail, Unauthorized, Workers
  <2>2. QED
    BY <1>3, <2>1, <1>u DEF SaveTokens, Resolve, GiveUp, Send, Answer, Fail
<1>4. ASSUME NEW c \in Reloads, Reload(c) \/ Reloaded(c) PROVE OneHandler' /\ HandlerRefreshes'
  BY <1>4, <1>m DEF Reload, Reloaded, SetCall, Idle, Handled
<1>5. ASSUME NEW c \in Calls, AnswerCall(c) \/ FailCall(c) PROVE OneHandler' /\ HandlerRefreshes'
  <2>1. CASE SetCall(c, "handled", 0) /\ To("auth", "reading", 0) /\ Handling = {}
    <3>1. worker'["auth"].phase = "reading"
      BY <2>1, <1>0 DEF To, Workers
    <3>2. \A d \in Calls \ {c} : call'[d].phase \notin Handled
      BY <2>1, <1>0 DEF SetCall, Handling, Handled
    <3>3. QED
      BY <3>1, <3>2 DEF OneHandler, HandlerRefreshes, Handling, Handled
  <2>2. CASE \E p \in {"ok", "queued", "failed"} : SetCall(c, p, 0) /\ UNCHANGED worker
    BY <2>2, <1>m DEF SetCall, Handled
  <2>3. QED
    BY <1>5, <2>1, <2>2 DEF AnswerCall, FailCall
<1>6. ASSUME NEW h \in Calls, Retry(h) PROVE OneHandler' /\ HandlerRefreshes'
  <2>1. CASE Release(h, "failed")
    BY <1>6, <2>1, <1>r DEF Retry, Handled
  <2>2. CASE SetCall(h, "retried", access)
    <3>1. call[h].phase = "handled"
      BY <1>6 DEF Retry
    <3>2. \A d \in Calls \ {h} : call[d].phase \notin Handled
      BY <3>1 DEF OneHandler, Handling, Handled
    <3>3. call'[h].phase = "retried" /\ \A d \in Calls \ {h} : call'[d].phase \notin Handled
      BY <2>2, <3>2, <1>0 DEF SetCall
    <3>4. QED
      BY <3>3 DEF OneHandler, HandlerRefreshes, Handling, Handled
  <2>3. QED
    BY <1>6, <2>1, <2>2 DEF Retry
<1>7. ASSUME NEW h \in Calls, AnswerRetry(h) \/ FailRetry(h) PROVE OneHandler' /\ HandlerRefreshes'
  <2>1. call[h].phase \in Handled /\ UNCHANGED worker
    BY <1>7 DEF AnswerRetry, FailRetry, Handled
  <2>2. Release(h, "ok") \/ SetCall(h, "stuck", 0)
    BY <1>7 DEF AnswerRetry, FailRetry
  <2>3. QED
    BY <2>1, <2>2, <1>r, <1>m DEF SetCall
<1>8. CASE BootCheck \/ BootFirst \/ BootRefresh \/ BootSecond
  <2>1. Busy
    BY <1>8, <1>w DEF BootCheck, BootFirst, BootRefresh, BootSecond, Workers
  <2>2. \/ UNCHANGED call
        \/ call' = [call EXCEPT !["boot"] = [phase |-> "idle", token |-> 0]]
        \/ call' = [call EXCEPT !["boot"] = [phase |-> "sent", token |-> access]]
    BY <1>8 DEF BootCheck, BootFirst, BootRefresh, BootSecond, SetCall, Idle
  <2>3. QED
    BY <2>1, <2>2, <1>u, <1>m DEF Handled
<1>9. CASE Register \/ CreateAccount \/ Expire
  <2>1. Busy
    BY <1>9, <1>w DEF Register, CreateAccount, NewPair, Expire, Workers
  <2>2. QED
    BY <1>9, <2>1, <1>u DEF Register, CreateAccount, NewPair, Expire
<1>10. CASE Registered
  <2>1. Busy
    BY <1>10, <1>w DEF Registered, Workers
  <2>2. QED
    BY <1>10, <2>1, <1>m DEF Registered, Idle, Handled
<1>11. CASE Logout \/ RevokeByJti \/ Forget
  BY <1>11, <1>m DEF Logout, RevokeByJti, Forget, SetCall, Idle, Handled
<1>12. CASE UNCHANGED vars
  BY <1>12, <1>u DEF vars
<1>13. QED
  BY <1>1, <1>2, <1>3, <1>4, <1>5, <1>6, <1>7, <1>8, <1>9, <1>10, <1>11, <1>12 DEF Next, ClientStep

-----------------------------------------------------------------------------
(* The app-wide client alone                                                *)

\* Nothing brings back a time in which the app-wide client alone has refreshed.
LEMMA AloneBefore ==
  ASSUME TypeOK, [Next]_vars, untouched', ~contended'
  PROVE  untouched /\ ~contended
<1> USE DEF storage, backend, notifier, history
<1>0. ASSUME UNCHANGED <<untouched, contended>> PROVE untouched /\ ~contended
  BY <1>0, Zenon
<1>1. ASSUME NEW w \in Workers, ReadRefresh(w) PROVE untouched /\ ~contended
  <2>1. untouched' = untouched /\ contended' = (contended \/ w # "core")
    BY <1>1 DEF ReadRefresh
  <2>2. QED
    BY <2>1, Zenon
<1>2. ASSUME NEW w \in Workers, LoseRefresh(w) PROVE untouched /\ ~contended
  BY <1>2 DEF LoseRefresh
<1>3. CASE Logout
  BY <1>3 DEF Logout
<1>4. ASSUME NEW w \in Workers, \/ FindRow(w) \/ RevokeRow(w) \/ IssuePair(w)
                               \/ CacheAccess(w) \/ CacheRefresh(w)
      PROVE  untouched /\ ~contended
  BY <1>4, <1>0 DEF FindRow, RevokeRow, IssuePair, NewPair, CacheAccess, CacheRefresh
<1>5. CASE SaveTokens \/ Resolve \/ GiveUp \/ \E r \in CoreRequests : Send(r) \/ Answer(r) \/ Fail(r)
  BY <1>5, <1>0 DEF SaveTokens, Resolve, GiveUp, Send, Answer, Fail
<1>6. CASE (\E c \in Reloads : Reload(c) \/ Reloaded(c))
           \/ \E c \in Calls : AnswerCall(c) \/ FailCall(c) \/ Retry(c) \/ AnswerRetry(c) \/ FailRetry(c)
  BY <1>6, <1>0 DEF Reload, Reloaded, AnswerCall, FailCall, Retry, AnswerRetry, FailRetry
<1>7. CASE BootCheck \/ BootFirst \/ BootRefresh \/ BootSecond \/ Register \/ CreateAccount
           \/ Registered \/ RevokeByJti \/ Forget \/ Expire
  BY <1>7, <1>0 DEF BootCheck, BootFirst, BootRefresh, BootSecond, Register, CreateAccount, NewPair,
                    Registered, RevokeByJti, Forget, Expire
<1>8. CASE UNCHANGED vars
  BY <1>8, <1>0 DEF vars
<1>9. QED
  BY <1>1, <1>2, <1>3, <1>4, <1>5, <1>6, <1>7, <1>8 DEF Next, RefreshStep, ClientStep

\* A step of a refresh is the app-wide client's, and keeps its token.
LEMMA AloneRefresh ==
  ASSUME TypeOK, OthersWait, CoreHoldsToken, NEW w \in Workers, RefreshStep(w), ~contended'
  PROVE  OthersWait' /\ CoreHoldsToken'
<1> USE DEF storage, backend, notifier, history
<1>0. worker \in [Workers -> [phase : WorkerPhases, token : 0 .. issued]]
  BY DEF TypeOK
<1>1. w = "core"
  <2>1. CASE ReadRefresh(w)
    BY <2>1 DEF ReadRefresh
  <2>2. CASE ~ReadRefresh(w)
    <3>1. worker[w].phase \notin {"idle", "reading"}
      BY <2>2 DEF RefreshStep, FindRow, RevokeRow, IssuePair, CacheAccess, CacheRefresh
    <3>2. QED
      BY <3>1 DEF OthersWait, Workers
  <2>3. QED
    BY <2>1, <2>2
<1>2. ~CacheAccess("core") /\ ~CacheRefresh("core")
  BY DEF CacheAccess, CacheRefresh, CoreHoldsToken
<1>3. UNCHANGED <<refresh, status, boot, call>>
  BY <1>1, <1>2 DEF RefreshStep, ReadRefresh, FindRow, RevokeRow, IssuePair, NewPair
<1>4. \E p, t : To("core", p, t)
  BY <1>1, <1>2 DEF RefreshStep, ReadRefresh, FindRow, RevokeRow, IssuePair, NewPair
<1>5. \A v \in Workers \ {"core"} : worker'[v] = worker[v]
  BY <1>0, <1>4 DEF To
<1>6. OthersWait'
  BY <1>3, <1>5 DEF OthersWait, Workers
<1>t. ASSUME NEW p, NEW t, To("core", p, t)
      PROVE  worker'["core"].phase = p /\ worker'["core"].token = t
  BY <1>0, <1>t DEF To, Workers
<1>7. CASE ReadRefresh("core")
  <2>1. To("core", "posted", refresh) /\ live' = live /\ refresh \in live
    BY <1>7 DEF ReadRefresh, CoreHoldsToken
  <2>2. QED
    BY <2>1, <1>t, <1>3, <1>6 DEF CoreHoldsToken
<1>8. CASE FindRow("core")
  <2>1. worker["core"].token = refresh /\ refresh \in live
    BY <1>8 DEF FindRow, CoreHoldsToken
  <2>2. To("core", "found", refresh) /\ live' = live
    BY <1>8, <2>1 DEF FindRow
  <2>3. QED
    BY <2>1, <2>2, <1>t, <1>3, <1>6 DEF CoreHoldsToken
<1>9. CASE RevokeRow("core")
  <2>1. worker'["core"].phase = "revoked"
    BY <1>9, <1>t DEF RevokeRow
  <2>2. QED
    BY <2>1, <1>3, <1>6 DEF CoreHoldsToken
<1>10. CASE IssuePair("core")
  <2>1. worker'["core"].phase = "answered" /\ worker'["core"].token = issued + 1
    BY <1>10, <1>t DEF IssuePair, NewPair
  <2>2. issued + 1 \in live'
    BY <1>10 DEF IssuePair, NewPair
  <2>3. QED
    BY <2>1, <2>2, <1>3, <1>6 DEF CoreHoldsToken
<1>11. QED
  BY <1>1, <1>2, <1>6, <1>7, <1>8, <1>9, <1>10 DEF RefreshStep

\* Every other step leaves the app-wide client with its token and the others waiting.
LEMMA CoreAloneStep ==
  ASSUME TypeOK, CoreAlone, [Next]_vars
  PROVE  CoreAlone'
<1> USE CallNames DEF storage, backend, notifier, history
<1> SUFFICES ASSUME untouched', ~contended' PROVE OthersWait' /\ CoreHoldsToken'
  BY DEF CoreAlone
<1>0. OthersWait /\ CoreHoldsToken /\ untouched /\ ~contended
  BY AloneBefore DEF CoreAlone
<1>w. worker \in [Workers -> [phase : WorkerPhases, token : 0 .. issued]]
  BY DEF TypeOK
<1>c. call \in [Calls -> [phase : CallPhases, token : 0 .. issued]]
  BY DEF TypeOK
<1>t. ASSUME NEW w \in Workers, NEW p, NEW t, To(w, p, t)
      PROVE  /\ worker'[w].phase = p /\ worker'[w].token = t
             /\ \A v \in Workers \ {w} : worker'[v] = worker[v]
  BY <1>w, <1>t DEF To
<1>s. ASSUME NEW c \in Calls, NEW p, NEW t, SetCall(c, p, t), c # "logout"
      PROVE  call'["logout"] = call["logout"]
  BY <1>c, <1>s DEF SetCall
<1>k. ASSUME UNCHANGED <<refresh, live>>, worker'["core"] = worker["core"] PROVE CoreHoldsToken'
  BY <1>0, <1>k DEF CoreHoldsToken
<1>o. ASSUME UNCHANGED <<status, boot>>, call'["logout"] = call["logout"],
             \A v \in Workers \ {"core"} : worker'[v] = worker[v]
      PROVE  OthersWait'
  BY <1>0, <1>o DEF OthersWait, Workers
<1>1. CASE \E w \in Workers : RefreshStep(w) \/ LoseRefresh(w)
  <2>1. \A w \in Workers : ~LoseRefresh(w)
    BY DEF LoseRefresh
  <2>2. QED
    BY <1>1, <1>0, <2>1, AloneRefresh
<1>2. CASE SaveTokens
  <2>1. "core" \in Workers /\ worker["core"].token \in live /\ refresh' = worker["core"].token
    BY <1>2, <1>0 DEF SaveTokens, CoreHoldsToken, Workers
  <2>2. worker["core"].token # 0
    BY <2>1 DEF TypeOK
  <2>3. worker'["core"].phase = "saved" /\ \A v \in Workers \ {"core"} : worker'[v] = worker[v]
    BY <1>2, <2>1, <1>t DEF SaveTokens
  <2>4. UNCHANGED <<status, boot, call, live>>
    BY <1>2 DEF SaveTokens
  <2>5. CoreHoldsToken'
    BY <2>1, <2>2, <2>3, <2>4 DEF CoreHoldsToken
  <2>6. QED
    BY <2>3, <2>4, <2>5, <1>o
<1>3. ASSUME UNCHANGED <<refresh, live, status, boot, call>>, NEW p \in {"idle", "reading"},
             To("core", p, 0), worker["core"].phase \in {"idle", "saved"}
      PROVE  OthersWait' /\ CoreHoldsToken'
  <2>1. "core" \in Workers /\ refresh \in live /\ refresh # 0
    BY <1>3, <1>0 DEF Workers, CoreHoldsToken
  <2>2. worker'["core"].phase = p /\ \A v \in Workers \ {"core"} : worker'[v] = worker[v]
    BY <1>3, <2>1, <1>t
  <2>3. CoreHoldsToken'
    BY <2>1, <2>2, <1>3 DEF CoreHoldsToken
  <2>4. QED
    BY <1>3, <2>2, <2>3, <1>o
<1>4. CASE Resolve
  BY <1>4, <1>3 DEF Resolve
<1>5. CASE GiveUp
  BY <1>5, <1>0 DEF GiveUp, CoreHoldsToken
<1>6. ASSUME NEW r \in CoreRequests, Send(r) \/ Answer(r) \/ Fail(r)
      PROVE  OthersWait' /\ CoreHoldsToken'
  <2>1. CASE worker' = worker
    BY <1>6, <2>1, <1>k, <1>o DEF Send, Answer, Fail
  <2>2. CASE worker' # worker
    <3>1. worker["core"].phase = "idle" /\ To("core", "reading", 0)
      BY <1>6, <2>2 DEF Send, Answer, Fail, Unauthorized
    <3>2. UNCHANGED <<refresh, live, status, boot, call>>
      BY <1>6 DEF Send, Answer, Fail
    <3>3. QED
      BY <3>1, <3>2, <1>3
  <2>3. QED
    BY <2>1, <2>2
<1>7. ASSUME NEW c \in Calls, AnswerCall(c) \/ FailCall(c) PROVE OthersWait' /\ CoreHoldsToken'
  <2>1. UNCHANGED <<refresh, live, status, boot>> /\ c # "logout"
    BY <1>7, <1>0 DEF AnswerCall, FailCall, OthersWait
  <2>2. \E p, t : SetCall(c, p, t)
    BY <1>7 DEF AnswerCall, FailCall
  <2>3. call'["logout"] = call["logout"]
    BY <2>1, <2>2, <1>s
  <2>4. CASE worker' = worker
    BY <2>1, <2>3, <2>4, <1>k, <1>o
  <2>5. CASE To("auth", "reading", 0)
    <3>1. worker'["auth"].phase = "reading" /\ \A v \in Workers \ {"auth"} : worker'[v] = worker[v]
      BY <2>5, <1>t DEF Workers
    <3>2. OthersWait'
      BY <1>0, <2>1, <2>3, <3>1 DEF OthersWait, Workers
    <3>3. QED
      BY <2>1, <3>1, <3>2, <1>k DEF Workers
  <2>6. QED
    BY <1>7, <2>4, <2>5 DEF AnswerCall, FailCall
<1>8. \A h \in Calls : ~Retry(h)
  BY <1>0 DEF Retry, OthersWait
<1>9. ASSUME NEW c \in Calls, AnswerRetry(c) \/ FailRetry(c) PROVE OthersWait' /\ CoreHoldsToken'
  <2>1. UNCHANGED <<refresh, live, status, boot, worker>> /\ c # "logout"
    BY <1>9, <1>0 DEF AnswerRetry, FailRetry, OthersWait
  <2>2. Release(c, "ok") \/ SetCall(c, "stuck", 0)
    BY <1>9 DEF AnswerRetry, FailRetry
  <2>3. call'["logout"] = call["logout"]
    BY <2>1, <2>2, <1>s, <1>0, CallsReleased DEF OthersWait
  <2>4. QED
    BY <2>1, <2>3, <1>k, <1>o
<1>10. ASSUME NEW c \in Reloads, Reload(c) \/ Reloaded(c) PROVE OthersWait' /\ CoreHoldsToken'
  <2>1. UNCHANGED <<refresh, live, boot, worker>> /\ c # "logout"
    BY <1>10 DEF Reload, Reloaded
  <2>2. call'["logout"] = call["logout"] /\ status' \in {status, "authenticated"}
    BY <1>10, <2>1, <1>c DEF Reload, Reloaded, SetCall
  <2>3. OthersWait'
    BY <1>0, <2>1, <2>2 DEF OthersWait
  <2>4. QED
    BY <2>1, <2>3, <1>k
<1>11. CASE BootCheck
  <2>1. boot' = "first" /\ SetCall("boot", "sent", access) /\ UNCHANGED <<status, worker, refresh, live>>
    BY <1>11, <1>0 DEF BootCheck, CoreHoldsToken
  <2>2. call'["logout"] = call["logout"]
    BY <2>1, <1>s
  <2>3. OthersWait'
    BY <1>0, <2>1, <2>2 DEF OthersWait
  <2>4. QED
    BY <2>1, <2>3, <1>k
<1>12. CASE BootFirst
  <2>1. call'["logout"] = call["logout"] /\ UNCHANGED <<refresh, live>>
    BY <1>12, <1>c DEF BootFirst
  <2>2. CASE boot' = "done" /\ status' = "authenticated" /\ UNCHANGED worker
    <3>1. OthersWait'
      BY <1>0, <2>1, <2>2 DEF OthersWait
    <3>2. QED
      BY <2>1, <2>2, <3>1, <1>k
  <2>3. CASE boot' = "refresh" /\ To("boot", "reading", 0) /\ UNCHANGED status
    <3>1. worker'["boot"].phase = "reading" /\ \A v \in Workers \ {"boot"} : worker'[v] = worker[v]
      BY <2>3, <1>t DEF Workers
    <3>2. OthersWait'
      BY <1>0, <2>1, <2>3, <3>1 DEF OthersWait, Workers
    <3>3. QED
      BY <2>1, <3>1, <3>2, <1>k DEF Workers
  <2>4. QED
    BY <1>12, <2>2, <2>3 DEF BootFirst
<1>13. CASE BootRefresh \/ BootSecond
  BY <1>13, <1>0 DEF BootRefresh, BootSecond, OthersWait
<1>14. CASE Register \/ CreateAccount \/ Registered
  BY <1>14, <1>0 DEF Register, CreateAccount, Registered, OthersWait
<1>15. CASE Logout
  BY <1>15 DEF Logout
<1>16. CASE RevokeByJti \/ Forget
  BY <1>16, <1>0 DEF RevokeByJti, Forget, OthersWait
<1>17. CASE Expire
  BY <1>17, <1>k, <1>o DEF Expire
<1>18. CASE UNCHANGED vars
  BY <1>18, <1>k, <1>o DEF vars
<1>19. QED
  BY <1>1, <1>2, <1>4, <1>5, <1>6, <1>7, <1>8, <1>9, <1>10, <1>11, <1>12, <1>13, <1>14, <1>15,
     <1>16, <1>17, <1>18 DEF Next, ClientStep

-----------------------------------------------------------------------------
(* The theorems                                                             *)

\* A returning user and a new installation start with nothing under way.
LEMMA InitKeeps == Init => Inv
<1> SUFFICES ASSUME Init PROVE Inv
  OBVIOUS
<1>w. \A w \in Workers : worker[w].phase = "idle" /\ worker[w].token = 0
  BY DEF Init, Idle
<1>c. \A c \in Calls : call[c].phase = "idle"
  BY DEF Init, Idle
<1>r. \A r \in CoreRequests : request[r].phase = "idle"
  BY DEF Init, Idle
<1>1. TypeOK
  <2>1. issued \in Pairs /\ access \in 0 .. issued /\ refresh \in 0 .. issued
    BY MaxPairsAssumption DEF Init, Pairs
  <2>2. account \in [Pairs -> Pairs]
    BY MaxPairsAssumption DEF Init, Pairs
  <2>3. live \in SUBSET (1 .. issued) /\ expired \in SUBSET (1 .. issued)
    BY DEF Init
  <2>4. /\ [phase |-> "idle", token |-> 0] \in [phase : WorkerPhases, token : 0 .. issued]
        /\ [phase |-> "idle", token |-> 0] \in [phase : RequestPhases, token : 0 .. issued]
        /\ [phase |-> "idle", token |-> 0] \in [phase : CallPhases, token : 0 .. issued]
    BY <2>1 DEF WorkerPhases, RequestPhases, CallPhases, Init
  <2>5. /\ worker \in [Workers -> [phase : WorkerPhases, token : 0 .. issued]]
        /\ request \in [CoreRequests -> [phase : RequestPhases, token : 0 .. issued]]
        /\ call \in [Calls -> [phase : CallPhases, token : 0 .. issued]]
    BY <2>4 DEF Init, Idle
  <2>6. boot = "check" /\ status = "restoring" /\ contended \in BOOLEAN
    BY DEF Init
  <2>u. untouched = (1 \in live)
    BY DEF Init
  <2>b. (1 \in live) \in BOOLEAN
    BY SMT
  <2>v. untouched \in BOOLEAN
    BY <2>u, <2>b, Zenon
  <2>7. QED
    BY <2>1, <2>2, <2>3, <2>5, <2>6, <2>v DEF TypeOK
<1>2. Capacity
  <2>1. Underway = {}
    BY <1>w DEF Underway
  <2>2. Cardinality(Underway) = 0
    BY <2>1, FS_EmptySet
  <2>3. QED
    BY <2>2, MaxPairsAssumption DEF Init, Capacity
<1>3. FreshPairs
  BY <1>w DEF FreshPairs
<1>4. StoredIsFresh
  BY <1>w DEF StoredIsFresh, Workers
<1>5. BootWaits
  BY <1>c, CallNames DEF BootWaits
<1>6. RetryIsAccepted /\ QueueHasHandler /\ OneHandler /\ HandlerRefreshes /\ RegistrationPasses
  BY <1>r, <1>c, CallNames DEF RetryIsAccepted, QueueHasHandler, OneHandler, HandlerRefreshes,
                               RegistrationPasses, Handling
<1>7. CoreAlone
  <2>1. OthersWait
    BY <1>w, <1>c, CallNames DEF OthersWait, Workers, Init
  <2>u. untouched = (1 \in live)
    BY DEF Init
  <2>l. 1 \in live => refresh # 0 /\ refresh \in live
    BY DEF Init
  <2>2. untouched => refresh # 0 /\ refresh \in live
    BY <2>u, <2>l, Zenon
  <2>3. QED
    BY <2>1, <2>2, <1>w DEF CoreAlone, CoreHoldsToken, Workers
<1>8. QED
  BY <1>1, <1>2, <1>3, <1>4, <1>5, <1>6, <1>7 DEF Inv

\* Every reachable state satisfies the invariant.
LEMMA Invariance == Spec => []Inv
<1>1. Inv /\ [Next]_vars => Inv'
  <2> SUFFICES ASSUME Inv, [Next]_vars PROVE Inv'
    OBVIOUS
  <2>1. TypeOK'
    BY TypeStep DEF Inv
  <2>2. Capacity' /\ FreshPairs' /\ StoredIsFresh'
    BY CapacityStep, FreshStep, StoredStep DEF Inv
  <2>3. RetryIsAccepted' /\ QueueHasHandler' /\ BootWaits'
    BY RetryStep, QueueStep DEF Inv
  <2>4. RegistrationPasses' /\ OneHandler' /\ HandlerRefreshes'
    BY RegistrationStep, HandlerStep DEF Inv
  <2>5. CoreAlone'
    BY CoreAloneStep DEF Inv
  <2>6. QED
    BY <2>1, <2>2, <2>3, <2>4, <2>5 DEF Inv
<1>2. QED
  BY <1>1, InitKeeps, PTL DEF Spec

\* However many requests and reloads are under way, nothing stores, presents or stamps a pair the
\* backend has not issued.  [TokensService.rotate, TokenStore.save, AuthLocalDataSource]
THEOREM TypeCorrect == Spec => []TypeOK
<1>1. Inv => TypeOK
  BY DEF Inv
<1>2. QED
  BY <1>1, Invariance, PTL

\* A request is sent again with an access token the backend accepts, whoever writes the storage
\* between the save and the replay.  [RefreshInterceptor.onError, _replay; AuthInterceptor]
THEOREM RetriesAreAccepted == Spec => []RetryIsAccepted
<1>1. Inv => RetryIsAccepted
  BY DEF Inv
<1>2. QED
  BY <1>1, Invariance, PTL

\* An error that queued up in the auth client has exactly one handler in front of it, and this one
\* is either under way (it refreshes, or has sent its call again) or stuck with the error of its
\* retry: there is no other way for the queue to stand still.
\* [_AuthInterceptor.onError of auth_providers.dart]
THEOREM StandstillIsStuckRetry == Spec => []QueueHasOneHandler
<1>1. Inv => QueueHasOneHandler
  <2> SUFFICES ASSUME Inv, NEW c \in Calls, call[c].phase = "queued" PROVE QueueHasOneHandler
    BY DEF QueueHasOneHandler
  <2>1. PICK h \in Calls : h \in Handling
    BY DEF Inv, QueueHasHandler, Handling
  <2>2. Handling = {h}
    BY <2>1 DEF Inv, OneHandler
  <2>3. call[h].phase = "handled" => worker["auth"].phase # "idle"
    BY DEF Inv, HandlerRefreshes
  <2>4. call[h].phase \in {"handled", "retried", "stuck"}
    BY <2>1 DEF Handling
  <2>5. QED
    BY <2>2, <2>3, <2>4 DEF QueueHasOneHandler
<1>2. QED
  BY <1>1, Invariance, PTL

\* As long as the app-wide client alone refreshes, no call is lost and nobody logs out, the
\* session survives any number of refreshes and of requests refused at once.
\* [RefreshInterceptor._refreshToken, TokensService.rotate]
THEOREM SessionSurvives == Spec => []CoreAloneKeepsSession
<1>1. Inv => CoreAloneKeepsSession
  <2> SUFFICES ASSUME Inv, untouched, ~contended PROVE ChainHolds
    BY DEF CoreAloneKeepsSession
  <2>1. worker["core"].phase \in {"revoked", "answered"} \/ refresh \in live
    BY DEF Inv, CoreAlone, CoreHoldsToken
  <2>2. QED
    BY <2>1 DEF ChainHolds, Workers
<1>2. QED
  BY <1>1, Invariance, PTL
=============================================================================

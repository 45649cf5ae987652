--------------------------- MODULE ClientSession ---------------------------
(***************************************************************************)
(* The app's session: the pair of tokens in secure storage, the two HTTP   *)
(* clients that refresh it and the rotation of refresh tokens in the       *)
(* backend.                                                                *)
(*                                                                         *)
(* The app-wide client (ApiClientFactory, RefreshInterceptor) gates the    *)
(* refreshes of its requests with one Completer.  The auth feature builds  *)
(* a client of its own (auth_providers.dart), whose interceptor is a       *)
(* QueuedInterceptor: it handles one error at a time, and an error that    *)
(* occurs meanwhile waits.  AuthNotifier's bootstrap refreshes a third     *)
(* way.  All of them read and write the same storage.                      *)
(*                                                                         *)
(* A pair is a number, its access and its refresh token with it; 0 stands  *)
(* for no token.                                                           *)
(***************************************************************************)
EXTENDS Naturals, FiniteSets

CONSTANTS
  CoreRequests,   \* requests of the app-wide client
  Reloads,        \* the calls of AuthNotifier.refreshUser, by the auth client
  MaxPairs        \* bound: pairs the backend issues before it throttles

ASSUME MaxPairsAssumption == MaxPairs \in Nat \ {0}
ASSUME CallsAssumption == Reloads \cap {"boot", "logout", "register"} = {}

Pairs == 1 .. MaxPairs

\* The calls that pass through the auth client's queued interceptor.
Calls == Reloads \cup {"boot", "logout", "register"}

\* Who may be waiting for a new pair: the Completer of the app-wide client,
\* the interceptor of the auth client, the bootstrap, and the registration.
Workers == {"core", "auth", "boot", "register"}

VARIABLES
  access, refresh,  \* secure storage
  issued,           \* the backend's pairs are 1 .. issued
  account,          \* the account of each pair
  live,             \* the refresh tokens neither revoked nor run out
  expired,          \* the access tokens that have run out
  worker,           \* what each worker is doing, and with which pair
  request,          \* what each core request is doing, and its access token
  call,             \* the same of each call of the auth client
  boot,             \* how far AuthNotifier's bootstrap is
  status,           \* AuthNotifier's state
  untouched,        \* history: refreshes alone have changed the session
  contended         \* history: the auth client too has refreshed

storage == <<access, refresh>>
backend == <<issued, account, live, expired>>
notifier == <<boot, status>>
history == <<untouched, contended>>
vars == <<storage, backend, worker, request, call, notifier, history>>

WorkerPhases == {"idle", "reading", "posted", "found", "revoked", "answered",
                 "half", "saved", "refused"}
RequestPhases == {"idle", "sent", "waiting", "retried"}
CallPhases == {"idle", "sent", "queued", "handled", "retried", "stuck", "ok",
               "failed"}

Idle == [phase |-> "idle", token |-> 0]

\* A returning user, whose access token has or has not run out and whose
\* refresh token has or has not (30 days); or a new installation.
Init ==
  /\ \/ access = 0 /\ refresh = 0 /\ live = {} /\ expired = {}
     \/ access = 1 /\ refresh = 1 /\ live \in SUBSET {1} /\ expired \in SUBSET {1}
  /\ issued = 1
  /\ account = [p \in Pairs |-> 1]
  /\ worker = [w \in Workers |-> Idle]
  /\ request = [r \in CoreRequests |-> Idle]
  /\ call = [c \in Calls |-> Idle]
  /\ boot = "check"
  /\ status = "restoring"
  /\ untouched = (1 \in live)
  /\ contended = FALSE

To(w, phase, token) == worker' = [worker EXCEPT ![w] = [phase |-> phase, token |-> token]]
SetCall(c, phase, token) == call' = [call EXCEPT ![c] = [phase |-> phase, token |-> token]]

\* The call whose error the queued interceptor is handling.  It is still being
\* handled while it is sent again, and an error of that attempt waits for it.
Handling == {c \in Calls : call[c].phase \in {"handled", "retried", "stuck"}}

\* JwtAuthGuard: the access token's signature and expiry.
Accepted(token) == token # 0 /\ token \notin expired
-----------------------------------------------------------------------------
(***************************************************************************)
(* A refresh, whoever asks for it.                                         *)
(***************************************************************************)

\* The worker reads the refresh token it is going to present.
ReadRefresh(w) ==
  /\ worker[w].phase = "reading"
  /\ IF refresh = 0 THEN To(w, "refused", 0) ELSE To(w, "posted", refresh)
  /\ contended' = (contended \/ w # "core")
  /\ UNCHANGED <<storage, backend, request, call, notifier, untouched>>

\* The pairs that refreshes under way in the backend are about to issue.
Underway == {w \in Workers : worker[w].phase \in {"found", "revoked"}}

\* TokensService.rotate reads the row.  A token that is revoked already counts
\* as used twice: every token of its account is revoked.
FindRow(w) ==
  LET t == worker[w].token
      ofAccount == {p \in 1 .. issued : account[p] = account[t]}
  IN
  /\ worker[w].phase = "posted" /\ w # "register"
  /\ IF t \in live
     THEN issued + Cardinality(Underway) < MaxPairs /\ To(w, "found", t) /\ live' = live
     ELSE To(w, "refused", 0) /\ live' = live \ ofAccount
  /\ UNCHANGED <<storage, issued, account, expired, request, call, notifier, history>>

\* ... revokes it, whatever has become of it since it was read ...
RevokeRow(w) ==
  /\ worker[w].phase = "found"
  /\ live' = live \ {worker[w].token}
  /\ To(w, "revoked", worker[w].token)
  /\ UNCHANGED <<storage, issued, account, expired, request, call, notifier, history>>

\* Mutant of NewPair: the row is stored under an identifier not yet its own.
NewPairUncounted(w, owner) ==
  /\ account' = [account EXCEPT ![issued + 1] = owner]
  /\ live' = live \cup {issued + 1}
  /\ To(w, "answered", issued + 1)
  /\ UNCHANGED <<storage, issued, expired, request, call, notifier, history>>

\* The row of a new pair.
NewPair(w, owner) ==
  /\ issued' = issued + 1
  /\ account' = [account EXCEPT ![issued + 1] = owner]
  /\ live' = live \cup {issued + 1}
  /\ To(w, "answered", issued + 1)
  /\ UNCHANGED <<storage, expired, request, call, notifier, history>>

\* ... and stores the row of the new pair.
IssuePair(w) ==
  /\ worker[w].phase = "revoked"
  /\ NewPair(w, account[worker[w].token])

\* The call or its answer is lost, times out or is throttled.  A refresh has a
\* client of its own; a registration passes through the auth client, where its
\* error waits for the one being handled.
LoseRefresh(w) ==
  /\ worker[w].phase \in {"posted", "answered"}
  /\ To(w, "refused", 0)
  /\ IF w = "register" /\ Handling # {}
     THEN SetCall("register", "queued", 0) ELSE UNCHANGED call
  /\ untouched' = FALSE
  /\ UNCHANGED <<storage, backend, request, notifier, contended>>

\* RefreshInterceptor saves both tokens at once (TokenStore.save) ...
SaveTokens ==
  LET p == worker["core"].token IN
  /\ worker["core"].phase = "answered"
  /\ access' = p /\ refresh' = p
  /\ To("core", "saved", p)
  /\ UNCHANGED <<backend, request, call, notifier, history>>

\* ... the auth feature one after the other (AuthLocalDataSource.cacheTokens).
CacheAccess(w) ==
  /\ worker[w].phase = "answered" /\ w # "core"
  /\ access' = worker[w].token
  /\ To(w, "half", worker[w].token)
  /\ UNCHANGED <<refresh, backend, request, call, notifier, history>>

CacheRefresh(w) ==
  /\ worker[w].phase = "half"
  /\ refresh' = worker[w].token
  /\ To(w, "saved", worker[w].token)
  /\ UNCHANGED <<access, backend, request, call, notifier, history>>
-----------------------------------------------------------------------------
(***************************************************************************)
(* The app-wide client.                                                    *)
(***************************************************************************)

\* AuthInterceptor stamps a request with the access token in storage.  The
\* dashboard is drawn, and asks, while the session is still being restored.
Send(r) ==
  /\ request[r].phase = "idle"
  /\ status \in {"restoring", "authenticated"}
  /\ request' = [request EXCEPT ![r] = [phase |-> "sent", token |-> access]]
  /\ UNCHANGED <<storage, backend, worker, call, notifier, history>>

Settle(r) == request' = [request EXCEPT ![r] = Idle]

\* Mutant of Unauthorized: every refused request starts a refresh of its own,
\* and the one that was in flight is forgotten.
UnauthorizedUngated(r) ==
  /\ request' = [request EXCEPT ![r] = [phase |-> "waiting", token |-> 0]]
  /\ To("core", "reading", 0)

\* RefreshInterceptor._refreshToken: join the refresh in flight or start one.
Unauthorized(r) ==
  /\ request' = [request EXCEPT ![r] = [phase |-> "waiting", token |-> 0]]
  /\ IF worker["core"].phase = "idle" THEN To("core", "reading", 0) ELSE UNCHANGED worker

\* The answer to a request.  A 401 to a first attempt makes it wait for new
\* tokens; a retried request is settled by whatever comes.
Answer(r) ==
  /\ request[r].phase \in {"sent", "retried"}
  /\ IF request[r].phase = "sent" /\ ~Accepted(request[r].token)
     THEN Unauthorized(r)
     ELSE Settle(r) /\ UNCHANGED worker
  /\ UNCHANGED <<storage, backend, call, notifier, history>>

\* No answer, or one that is neither success nor 401.
Fail(r) ==
  /\ request[r].phase \in {"sent", "retried"}
  /\ Settle(r)
  /\ UNCHANGED <<storage, backend, worker, call, notifier, history>>

\* Mutant of Stamp: the token the refresh returned is not used.
StampStored(p) == access

\* A replay carries the token the refresh returned, until AuthInterceptor stamps
\* it with the one that is stored now.
Stamp(p) == IF access # 0 THEN access ELSE p

\* The Completer resolves: every waiting request is sent again.
Resolve ==
  LET p == worker["core"].token IN
  /\ worker["core"].phase = "saved"
  /\ request' = [r \in CoreRequests |->
                   IF request[r].phase = "waiting"
                   THEN [phase |-> "retried", token |-> Stamp(p)]
                   ELSE request[r]]
  /\ To("core", "idle", 0)
  /\ UNCHANGED <<storage, backend, call, notifier, history>>

\* Mutant of GiveUp: the Completer is dropped and never completed.
GiveUpSilently ==
  /\ worker["core"].phase = "refused"
  /\ access' = 0 /\ refresh' = 0
  /\ To("core", "idle", 0)
  /\ UNCHANGED <<backend, request, call, notifier, history>>

\* The refresh failed, for whatever reason: the session is cleared and every
\* waiting request fails with its 401.
GiveUp ==
  /\ worker["core"].phase = "refused"
  /\ access' = 0 /\ refresh' = 0
  /\ request' = [r \in CoreRequests |->
                   IF request[r].phase = "waiting" THEN Idle ELSE request[r]]
  /\ To("core", "idle", 0)
  /\ UNCHANGED <<backend, call, notifier, history>>
-----------------------------------------------------------------------------
(***************************************************************************)
(* The auth client.                                                        *)
(***************************************************************************)

\* Mutant of Release: the errors that queued up are left where they are.
ReleaseAlone(h, outcome) == SetCall(h, outcome, 0)

\* The handler of h returns.  Dio starts the next one before the handler's
\* "finally" has reset _retrying, so whatever is queued passes through as the
\* error it is.
Release(h, outcome) ==
  call' = [c \in Calls |->
             IF c = h THEN [phase |-> outcome, token |-> 0]
             ELSE IF call[c].phase = "queued" THEN [phase |-> "failed", token |-> 0]
             ELSE call[c]]

\* AuthNotifier.refreshUser, after the profile was saved.
Reload(c) ==
  /\ call[c].phase = "idle"
  /\ status = "authenticated"
  /\ SetCall(c, "sent", access)
  /\ UNCHANGED <<storage, backend, worker, request, notifier, history>>

\* The user that arrives counts as signed in, whatever has happened meanwhile.
Reloaded(c) ==
  /\ call[c].phase \in {"ok", "failed"}
  /\ call' = [call EXCEPT ![c] = Idle]
  /\ status' = IF call[c].phase = "ok" THEN "authenticated" ELSE status
  /\ UNCHANGED <<storage, backend, worker, request, boot, history>>

\* GET /users/me is answered.
AnswerCall(c) ==
  /\ call[c].phase = "sent" /\ c # "logout"
  /\ IF Accepted(call[c].token) THEN SetCall(c, "ok", 0) /\ UNCHANGED worker
     ELSE IF Handling = {} THEN SetCall(c, "handled", 0) /\ To("auth", "reading", 0)
     ELSE SetCall(c, "queued", 0) /\ UNCHANGED worker
  /\ UNCHANGED <<storage, backend, request, notifier, history>>

\* No answer, or one that is neither success nor 401: an error all the same.
FailCall(c) ==
  /\ call[c].phase = "sent"
  /\ SetCall(c, IF Handling = {} THEN "failed" ELSE "queued", 0)
  /\ UNCHANGED <<storage, backend, worker, request, notifier, history>>

\* The interceptor does not look at what the refresh returned but at the access
\* token in storage, which a failed refresh has left there.
Retry(h) ==
  /\ call[h].phase = "handled"
  /\ worker["auth"].phase \in {"saved", "refused"}
  /\ IF access = 0 THEN Release(h, "failed") ELSE SetCall(h, "retried", access)
  /\ To("auth", "idle", 0)
  /\ UNCHANGED <<storage, backend, request, notifier, history>>

AnswerRetry(h) ==
  /\ call[h].phase = "retried"
  /\ IF Accepted(call[h].token) THEN Release(h, "ok") ELSE SetCall(h, "stuck", 0)
  /\ UNCHANGED <<storage, backend, worker, request, notifier, history>>

FailRetry(h) ==
  /\ call[h].phase = "retried"
  /\ SetCall(h, "stuck", 0)
  /\ UNCHANGED <<storage, backend, worker, request, notifier, history>>
-----------------------------------------------------------------------------
(***************************************************************************)
(* AuthNotifier.                                                           *)
(***************************************************************************)

\* A session is restored only when there is a refresh token.
BootCheck ==
  /\ boot = "check"
  /\ IF refresh = 0
     THEN boot' = "done" /\ status' = "unauthenticated" /\ UNCHANGED call
     ELSE boot' = "first" /\ SetCall("boot", "sent", access) /\ UNCHANGED status
  /\ UNCHANGED <<storage, backend, worker, request, history>>

BootFirst ==
  /\ boot = "first" /\ call["boot"].phase \in {"ok", "failed"}
  /\ call' = [call EXCEPT !["boot"] = Idle]
  /\ IF call["boot"].phase = "ok"
     THEN boot' = "done" /\ status' = "authenticated" /\ UNCHANGED worker
     ELSE boot' = "refresh" /\ To("boot", "reading", 0) /\ UNCHANGED status
  /\ UNCHANGED <<storage, backend, request, history>>

BootRefresh ==
  /\ boot = "refresh" /\ worker["boot"].phase \in {"saved", "refused"}
  /\ To("boot", "idle", 0)
  /\ IF worker["boot"].phase = "saved"
     THEN boot' = "second" /\ SetCall("boot", "sent", access) /\ UNCHANGED status
     ELSE boot' = "done" /\ status' = "unauthenticated" /\ UNCHANGED call
  /\ UNCHANGED <<storage, backend, request, history>>

BootSecond ==
  /\ boot = "second" /\ call["boot"].phase \in {"ok", "failed"}
  /\ call' = [call EXCEPT !["boot"] = Idle]
  /\ boot' = "done"
  /\ status' = IF call["boot"].phase = "ok" THEN "authenticated" ELSE "unauthenticated"
  /\ UNCHANGED <<storage, backend, worker, request, history>>

\* Register an anonymous account: the onboarding does when there is no session,
\* once at a time (_anonInFlight).
Register ==
  /\ status = "unauthenticated" /\ worker["register"].phase = "idle"
  /\ status' = "registering"
  /\ To("register", "posted", 0)
  /\ UNCHANGED <<storage, backend, request, call, boot, history>>

CreateAccount ==
  /\ worker["register"].phase = "posted"
  /\ issued + Cardinality(Underway) < MaxPairs
  /\ NewPair("register", issued + 1)

Registered ==
  /\ worker["register"].phase \in {"saved", "refused"}
  /\ call["register"].phase # "queued"
  /\ To("register", "idle", 0)
  /\ call' = [call EXCEPT !["register"] = Idle]
  /\ status' = IF worker["register"].phase = "saved" THEN "authenticated" ELSE "unauthenticated"
  /\ UNCHANGED <<storage, backend, request, boot, history>>

\* Log out: revoke the stored refresh token in the backend, if there is one ...
Logout ==
  /\ status = "authenticated" /\ call["logout"].phase = "idle"
  /\ status' = "leaving"
  /\ IF refresh = 0 THEN SetCall("logout", "ok", 0) ELSE SetCall("logout", "sent", refresh)
  /\ untouched' = FALSE
  /\ UNCHANGED <<storage, backend, worker, request, boot, contended>>

RevokeByJti ==
  /\ call["logout"].phase = "sent"
  /\ live' = live \ {call["logout"].token}
  /\ SetCall("logout", "ok", 0)
  /\ UNCHANGED <<storage, issued, account, expired, worker, request, notifier, history>>

\* ... and, answered or not, forget the tokens.
Forget ==
  /\ call["logout"].phase \in {"ok", "failed"}
  /\ access' = 0 /\ refresh' = 0
  /\ status' = "unauthenticated"
  /\ call' = [call EXCEPT !["logout"] = Idle]
  /\ UNCHANGED <<backend, worker, request, boot, history>>
-----------------------------------------------------------------------------
\* Fifteen minutes pass.  A refresh and the calls it serves take less, so the
\* token in storage does not run out while one is under way.
Quiet ==
  /\ \A w \in Workers : worker[w].phase = "idle"
  /\ \A r \in CoreRequests : request[r].phase # "retried"
  /\ \A c \in Calls : call[c].phase # "retried"

Expire ==
  /\ Quiet /\ access # 0
  /\ expired' = expired \cup {access}
  /\ expired' # expired
  /\ UNCHANGED <<storage, issued, account, live, worker, request, call, notifier, history>>

RefreshStep(w) ==
  \/ ReadRefresh(w) \/ FindRow(w) \/ RevokeRow(w) \/ IssuePair(w)
  \/ CacheAccess(w) \/ CacheRefresh(w)

ClientStep ==
  \/ SaveTokens \/ Resolve \/ GiveUp
  \/ \E h \in Calls : Retry(h)
  \/ \E c \in Reloads : Reloaded(c)
  \/ BootCheck \/ BootFirst \/ BootRefresh \/ BootSecond
  \/ CreateAccount \/ Registered \/ RevokeByJti \/ Forget

Next ==
  \/ \E w \in Workers : RefreshStep(w) \/ LoseRefresh(w)
  \/ \E r \in CoreRequests : Send(r) \/ Answer(r) \/ Fail(r)
  \/ \E c \in Reloads : Reload(c)
  \/ \E c \in Calls : AnswerCall(c) \/ FailCall(c) \/ AnswerRetry(c) \/ FailRetry(c)
  \/ ClientStep
  \/ Register \/ Logout \/ Expire

\* Every call has a receive timeout, so each is answered or fails; the app's
\* event loop runs what an answer has made ready.
Fairness ==
  /\ \A w \in Workers : WF_vars(RefreshStep(w) \/ LoseRefresh(w))
  /\ \A r \in CoreRequests : WF_vars(Answer(r))
  /\ \A c \in Calls : WF_vars(AnswerCall(c) \/ Retry(c) \/ AnswerRetry(c))
  /\ WF_vars(SaveTokens \/ Resolve \/ GiveUp)
  /\ WF_vars(BootCheck \/ BootFirst \/ BootRefresh \/ BootSecond)
  /\ WF_vars(CreateAccount \/ Registered)
  /\ WF_vars(RevokeByJti \/ Forget)

Spec == Init /\ [][Next]_vars /\ Fairness
-----------------------------------------------------------------------------
TypeOK ==
  /\ issued \in Pairs /\ access \in 0 .. issued /\ refresh \in 0 .. issued
  /\ account \in [Pairs -> Pairs]
  /\ live \in SUBSET (1 .. issued) /\ expired \in SUBSET (1 .. issued)
  /\ worker \in [Workers -> [phase : WorkerPhases, token : 0 .. issued]]
  /\ request \in [CoreRequests -> [phase : RequestPhases, token : 0 .. issued]]
  /\ call \in [Calls -> [phase : CallPhases, token : 0 .. issued]]
  /\ boot \in {"check", "first", "refresh", "second", "done"}
  /\ status \in {"restoring", "authenticated", "unauthenticated", "registering", "leaving"}
  /\ untouched \in BOOLEAN /\ contended \in BOOLEAN

\* A request is sent again with an access token the backend accepts, not with
\* the one that was just refused.  Storage may be cleared (logout) or written by
\* others between the save and the replay.  [RefreshInterceptor.onError, _replay;
\* AuthInterceptor.onRequest]
RetryIsAccepted == \A r \in CoreRequests : request[r].phase = "retried" => Accepted(request[r].token)

\* Storage holds a refresh token the backend will take, or a refresh is about to
\* put one there.
ChainHolds ==
  \/ refresh \in live
  \/ \E w \in Workers \ {"register"} :
        worker[w].phase \in {"revoked", "answered", "half"}

\* As long as the app-wide client alone refreshes, no call is lost and nobody
\* logs out, the session survives any number of refreshes and of requests refused
\* at once: the Completer keeps a token from being presented twice, which the
\* backend would punish by revoking everything.  [RefreshInterceptor._refreshToken,
\* TokensService.rotate]
CoreAloneKeepsSession == (untouched /\ ~contended) => ChainHolds

\* The same, whoever refreshes.  "on every successful refresh the new pair
\* overwrites the old via [save], which keeps the rotation chain intact"
\* (token_store.dart:17-18).  It does not hold: the auth feature's client and the
\* app-wide one present the same token.
RotationChainIntact == untouched => ChainHolds

\* No request of the app-wide client waits for ever: the Completer is completed
\* whatever happens to the refresh, and all that wait on it go on.
\* [RefreshInterceptor.onError, _refreshToken]
RequestsSettle == \A r \in CoreRequests : request[r].phase # "idle" ~> request[r].phase = "idle"

\* An error that waits in the queue is let go: the handler in front of it ends,
\* and what queued up passes through.  There is one exemption: a handler that
\* waits for the error of its own retry, which waits for the handler, never ends,
\* and everything behind it waits for ever.  [_AuthInterceptor.onError of
\* auth_providers.dart]
QueueDrains ==
  \A c \in Calls :
    call[c].phase = "queued"
      ~> call[c].phase # "queued" \/ \E h \in Calls : call[h].phase = "stuck"

\* The restoration of the session comes to a decision.  "If validation fails
\* irrecoverably -> attempt an explicit refresh; if that also fails, fall back to
\* unauthenticated" (auth_provider.dart:43-44).  It does not hold: the retry of a
\* refused call is an error inside the handler its own error has to wait for.
BootstrapDecides == <>(boot = "done")
=============================================================================

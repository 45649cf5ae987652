# alarmapp: specifications, checks and proofs

alarmapp is an alarm clock for Android and iOS: a Flutter app over a native alarm
engine on each platform, and a NestJS backend.  A ring can only be dismissed by
passing missions (arithmetic, shaking, photographing an object).  This directory
holds TLA+ modules of the parts whose correctness is a matter of ordering,
interleaving and failure, the TLC configurations that check them, and proofs of
what matters most.

Paths are relative to the repository.  `K/` is
`apps/mobile/android/app/src/main/kotlin/com/alarmapp/`, `I/` is
`apps/mobile/ios/Runner/`, `L/` is `apps/mobile/lib/`, `B/` is `apps/backend/src/`.

## 1. The system's parts

| Part | State | Operations | Talks to |
| --- | --- | --- | --- |
| Android engine (`K/*.kt`) | `AlarmStore` (SharedPreferences), AlarmManager's triggers, the foreground service's player and current alarm, the static event sink and its one buffered event | method calls schedule, cancel, snooze, stop; the broadcasts ALARM_FIRED, BOOT_COMPLETED, MY_PACKAGE_REPLACED; service commands | Dart by a method channel and an event channel; AlarmManager |
| Next-trigger arithmetic (`K/AlarmTime.kt`) | none | `nextTriggerMillis` | the engine |
| iOS engine (`I/AlarmManager.swift`, `I/AppDelegate.swift`) | pending notification requests, the player, the buffered event | the same method calls; delivery and responses of notifications | the notification center, Dart |
| Ring session (`L/core/platform/alarm_ring_controller.dart`, `L/features/alarm_ring`, `L/features/missions`) | the active alarm, snooze counts, the ring screen, one mission sequence per alarm | announcements, start, snooze, mission reports, dismissal | native, the router, the missions API |
| Client session (`L/core/network`, `L/core/storage/token_store.dart`, `L/features/auth`) | access and refresh token in secure storage, the Completer of a refresh, the queue of a QueuedInterceptor, AuthNotifier's state | send, refresh, replay, bootstrap, register, logout | the backend |
| Backend authentication (`B/modules/auth`) | one row per refresh token | rotate with reuse detection, revoke, register | the clients |
| Alarm repository (`L/features/alarms`) | an alarm's copies: server, cache, operating system, the list on screen | CRUD, toggle, list | backend, engine |
| Gemini client (`B/integrations/gemini`) | one circuit breaker for all requests | execute, with attempts, timeouts and backoff inside | Gemini |
| Missions (`B/modules/missions`, `B/modules/object-detection`) | a math problem's answer in Redis, the history of attempts | generate, verify, record; verify a photo | Redis, Gemini client |
| Sleep (`B/modules/sleep`) | one row per user and night | report a night, statistics | the history |
| Daily AI mission (`B/modules/ai-mission`) | one row per user and day, the day's answer in Redis | today's mission, the hourly sweep, complete, a mission to order | Gemini client, the user's timezone |
| Subscriptions (`B/modules/subscriptions`) | the subscription's row, the user's premium columns, a cached status | validate a receipt, notifications of two stores | app stores, users |
| Notifications (`B/modules/notifications`, `B/integrations/firebase`) | a log row per push, BullMQ's job | enqueue, deliver with retries, mark read | Firebase, devices |
| Users, devices (`B/modules/users`, `B/modules/devices`) | one row per user, one per device token, a cached profile | update a profile, register, purge | Redis, Postgres |
| Subscription on the phone (`L/features/subscription`) | the store's unfinished transactions | buy, restore | app stores, backend |
| Screens, wiring, infrastructure | nothing that outlives a screen or a request | | |

`PROJECT.json` lists each part with its sources and whether it is modelled.

### What is hard about them

* **Queues of the operating system.**  AlarmManager's broadcasts and the service's
  start commands are delivered after the handler that caused them; `stopSelf()`
  takes effect behind the commands already queued; a killed sticky service comes
  back with a null intent.
* **Crashes and restarts.**  A reboot loses triggers and keeps the store, an app
  update keeps both and loses the memory, a kill loses the memory only.
* **One buffered event.**  The event bridge keeps one event for a Dart that does
  not listen yet; what is replayed must not be out of date.
* **Awaits.**  Dart and the backend run to completion between awaits, and read
  state before one that they use after it: the mission sequence's index, the ring
  screen's alarm, the refresh token, a row of `refresh_tokens`.
* **Asynchronous removal.**  iOS reports the pending requests to a completion
  handler, which removes by identifiers that meanwhile denote other requests.
* **Loaded entities.**  TypeORM's `save` writes over a row what its caller loaded
  and changed; whoever wrote in between is overwritten.
* **Retries behind a breaker, a queue and a cache.**  Calls that were let in go on
  after the breaker has opened, a job runs again after its push was sent, a cached
  answer outlives what it was made from.
* **A day that is not 24 hours of UTC.**  The daily mission belongs to a day of the
  user's zone, which changes to summer time, and the user may move.
* **Two clients, one session.**  Tokens are rotated by whoever is refused first,
  and the backend punishes a token presented twice.

The list with lines and the properties aimed at each is `hazards` in
`PROJECT.json`.

## 2. The modules

### AlarmTime

`NextTrigger` is `AlarmTime.nextTriggerMillis`: instants are ticks since some
Sunday, the scan over at most a week of days is the least element of `Hits`.
`IsNextOccurrence` says what the result should be without any scan: strictly in
the future, at the alarm's time on a selected day, nothing in between.  Days have
equal length; daylight-saving shifts are left out.  `ServerNextTrigger` is the backend's
own computation of `next_trigger_at` (`computeNextTriggerAt` in
`B/modules/alarms/alarms.service.ts`), whose scan compares only today's candidate with
the present.

### AlarmEngine, AlarmEngineProofs

One action per handler of the Android app; each handler runs to completion on the
main thread.  Between them lie `inFlight` (broadcasts sent and not yet received)
and `mailbox` (the service's start commands, the destruction `stopSelf` asks for,
the null-intent restart).

| State | Code |
| --- | --- |
| `store` | `AlarmStore.kt` |
| `trigger`, `snoozed` | the one PendingIntent of each alarm (`AlarmRescheduler.kt:26-53`); snoozes share it |
| `mailbox`, `serviceUp`, `currentAlarmId`, `foreground`, `mediaPlayer` | `AlarmForegroundService.kt` |
| `orphans` | players overwritten by `startRinging` (line 98) that no field holds |
| `listening`, `pendingEvent` | `AlarmSchedulerPlugin.kt:226-245` |

`Schedule`, `Cancel`, `Snooze`, `Stop`, `Listen` and `CancelListen` are the plugin's
calls; `Receive` is `AlarmReceiver`, `Boot` is `BootReceiver`; `OnStartRinging`,
`OnStopRinging`, `OnDestroy` and `OnStickyRestart` are the service; `Fire`, `Tick`,
`ProcessDeath`, `AppUpdated`, `PowerOff`, `PowerOn` and `CollectOrphan` are the
system's.

Left out: vibration, the wake lock and its ten minutes, permissions, collisions of
the `requestCode` hash, a store write that `apply()` had not flushed, a kill in
the middle of a handler, clock changes, a boot broadcast delivered twice.

### IosAlarmManager, IosAlarmManagerProofs

The iOS handlers.  `pending` is the notification center's set of requests, and
`callbacks` the completion handlers of `getPendingNotificationRequests` that have
not run: `Cancel` (also as the first half of `Schedule`) captures identifiers and
`RunCallback` removes them later.  A request may be delivered at any moment (time
is left out), with the app in the foreground or not; the user may respond, also to
a dead app.  Left out: authorisation, the system's 64 pending requests, the audio
session.

### RingSession, RingSessionProofs

The Dart side of a ring above a native engine reduced to the alarm that sounds.
`inbox` is what native has sent in order (announcements and replies to method
calls), `tasks` the continuations of the mounted screen, `recording` and
`failing` the mission reports awaiting their history entry.  The screen's State
survives a navigation between two rings, so it has the alarm of the widget
(`alarm`) and the alarm it loaded (`shown`).

An alarm that goes off (`Fire`) is emitted into the sink, and buffered when there is
none.  The sink is static: `onCancel` clears it (`LoseEngine`), while an engine that
dies without cancelling (`EngineDeath`) leaves it behind (`staleSink`), so the next event
is sent to nobody and not kept; only the death of the process (`ProcessDeath`) takes
sink and buffer along.  `unheard` remembers that the alarm that sounds was announced to
nobody who lives.  Native handles Dart's calls at once or fails, which `_invoke` swallows
(`CallNative`): then the sound goes on.  `OpenRing` is a tap on the notification of an activity that is
there (`onNewIntent`).  One engine at a time is followed.  The queues of the service are
AlarmEngine's business.  Left out: the soundtrack (`AlarmSound`), the inner steps of the
mission widgets.

### ClientSession, ClientSessionProofs

The tokens in secure storage, who refreshes them, and the rotation.  A pair of
tokens is a number.  Four workers may be waiting for a pair: `core` is the
Completer of `RefreshInterceptor`, `auth` the refresh inside the auth feature's
own interceptor, `boot` the explicit refresh of `AuthNotifier._bootstrap`,
`register` the registration of an anonymous account.  A refresh is `ReadRefresh`,
the backend's `FindRow`, `RevokeRow` and `IssuePair` (three steps, as in
`TokensService.rotate`), and the save: `SaveTokens` writes both keys at once,
`CacheAccess` and `CacheRefresh` one after the other, as the two storages do.
`LoseRefresh` is any lost, timed-out or throttled call.  `call` are the requests of
the auth client, the anonymous registration among them: its QueuedInterceptor (of the
package dio, modelled from how `auth_providers.dart` uses it) handles one error at a
time, an error that occurs while the handler runs waits (`queued`), and a handler that
waits for an error of its own is `stuck`.  A stuck handler never ends, and a registration
whose error waits behind it does not either.  Left out: password login, the cached user, the app being
killed, a platform failure of secure storage.  A lost answer that the backend is
still working on is `answered` and then lost.  An access token does not expire
within the seconds a refresh takes (`Quiet`).

### AlarmService, AlarmSync, AlarmSyncProofs

`AlarmService` is the backend's `AlarmsService`, one action per await: `ListCached`,
`ListMissed`, `ListFind`, `ListSet` are `findAllForUser`, `FindOne`, `Save`,
`SoftRemove` the writes of one row, `Count` and `Insert` the creation, `Invalidate`
and `GetOne` what ends them.  Of a row the switch and the soft deletion are kept.
TypeORM and Redis are modelled from their use: `save` writes back the whole entity
that was loaded before (with `deletedAt = null`, which revives a row deleted in
between), an expired key is gone when it is read, and what Redis fails to do the
cache service swallows.

`AlarmSync` EXTENDS it with the phone.  `cache` is SharedPreferences, `triggers` the
alarms armed in the operating system, `ui` the list of `AlarmsNotifier` (per alarm
its tiles, as `addCreated` may append one that is there; Riverpod keeps the value
while it loads), `calls` how far each call of `AlarmRepositoryImpl` is: `waiting` for
the server, then `native` once the cache is written, then done with the screen.
`Refresh`, `GetAlarm`, `Create`, `Update`, `Toggle` and `Delete` start calls where
the screens allow it; `GiveUp` is a `NetworkException`, after which the server may
still be at work; `LeaveForm` leaves a form that saves.  A cache write follows the
answer without another event in between, so the two are one step, and so are a
native call and the change of the screen that follows it.

`trouble` records what may set the copies apart: a lost answer to a write, a left
form, a platform or Redis call that failed, or two calls in flight of which one
writes what the other uses.  A refresh that ran alone and told the truth ends it.
The properties say that there is no other cause.

Left out: the calls on an alarm's missions, the forms' other fields,
`next_trigger_at`, a second device, the app being killed between two writes, errors
500 (which show an error instead of the list).

### GeminiClient, MathMission, MissionService, MissionServiceProofs

`GeminiClient` is the circuit breaker and the loop of attempts it wraps, shared by
the requests of `Callers`.  `Execute` is the breaker's admission (`Reject`, or `Admit`
with the first attempt), `Answered`, `AttemptFails` and `Resend` the ends of an attempt
and of a backoff; `OnSuccess` and `OnFailure` are the breaker's.  `cooling` is what is
left of the cooldown.  `hammered` counts the attempts sent through an open breaker.

`MathMission` is pure: for each difficulty the set of the puzzles its builder can make
over all random draws, and `ReadOff`, what a reader computes from what is shown.

`MissionService` EXTENDS both with the requests around them.  `Ask`, `Detected`,
`Designed` and `Unavailable` are photo checks (`verify`, `verifyDirect`) and missions to
order (`generateCustom`); `GenerateMath`, `StoreAnswer`, `VerifyMath`, `Get` and `Del` the
math problems with GETDEL and what happens when it fails; `CreateHistory` a recorded
attempt; `FindNight`, `ReadRate` and `SaveNight` the three awaits of `recordSession`, which
reads the history the other requests write.  Of a night's fields it is kept which report
said each (`known`), so that a value that is replaced differs from one that is kept: `Told`
takes over what a report says, leaves what it does not say, and derives the duration when
the report does not give it and both times are known, in place of one that another report
gave.  A problem is its id; whether an answer is
right is left out, how often one is compared is not.

### MissionPromise, DailyMission, DailyMissionProofs

`MissionPromise` is the abstract specification: a day's mission is chosen once, and
whoever asks is told that one.  `DailyMission` is the code: `GetToday`, `ReadCache`,
`FindMission`, `GenerateMission`, `Insert`, `SetCache` are `getToday` await by await,
`Sweep` the hourly cron's start for one user, `Complete`, `Resolve`, `SaveExpired`,
`SaveCompleted`, `Forget` are `complete`.  `Tick`, `Move` and `Evict` are the clock, a change
of the user's timezone and Redis' eviction.  A zone is an offset, a shift and the
instant of the shift; `EndOfLocalDay` is `endOfLocalDayUtc` with the offset it really
takes.  The refinement maps `rows` to `mission` by forgetting status and expiry, `told`
is the same on both sides, and every other step stutters.

### Entitlement, AccountProofs

Receipts and notifications, applied to `row` (subscriptions) and `paid` (the user's
columns).  `Verify` asks the store, which moves on by itself (`StoreMoves`);
`Passes` and `Check` are the two ways an answer may be refused; `Load`, `Write` and
`Commit` the transaction at READ COMMITTED, with the row's lock from the write to the
commit.  TypeORM's `save` writes the columns that differ from what it has read
(`change`), so two verdicts may each write a part.  `UpdateProfile` and `SaveProfile` save
the whole user as loaded.  `trouble` is history, as in AlarmSync.  The module's `Init`, `Next`
and so on carry its name (`EntitlementInit`), as one proof module extends it beside
PushDelivery.

### PushDelivery, AccountProofs

One notification.  `ResolveTokens`, `SaveQueued`, `NoDevices`, `AddJob` are `enqueuePush`;
`Take`, `Send`, `Purge`, `Save`, `SaveThrows`, `Catch` a worker in `deliver`, and `Ended` the
processor, which throws unless the delivery is done with; `Stall` is BullMQ's expired
lock, after which a slow worker goes on beside its successor.  `MarkRead` and
`SaveRead` are the user.  `pushes` counts what reached each device, `faults` the answers,
saves and locks that were lost.

## 3. The runs

| Run | Shows | Bounds |
| --- | --- | --- |
| `alarm_engine` | seven invariants of the Android engine | two alarms, a week of two days of two ticks, three settings (repeating, one-shot, switched off), a snooze of one tick; stop and snooze wait while a message is queued (`MailboxBound` 1): the receiver's and the service's messages still queue up behind it |
| `ios_alarms` | no request of old settings survives its removal; a replayed event is current | two alarms, one with three settings and two requests, one deleted of which only snoozes ring, two removals under way |
| `ring_session` | sequences stay within their missions, a ring that sounds is known but for three named ways out, a won ring is left (liveness) | two alarms, one with two missions (one that may report twice) and one with none that may be snoozed once, two messages, two reports under way |
| `ring_dismissal` | **violated**: the second ring of an alarm is dismissed without its missions | one alarm, one mission |
| `session` | an error that waits in the auth client's queue is let go, unless the handler in front of it is stuck (liveness) | one request, one reload, the bootstrap's calls, the logout and the registration, two pairs of tokens |
| `session_settle` | replays are accepted; every request settles (liveness); the app-wide client alone keeps the session through two rotations | two requests, three pairs |
| `session_chain` | **violated**: two clients present one token | the same |
| `alarm_sync` | server, cache, operating system, screen and Redis' list agree, and the free limit holds, unless something was lost, failed or overlapped | two alarms, three calls (one of them a refresh), two in flight at once, one fault |
| `missions` | the breaker's state and its counter agree whoever ends late, it lets the model back in (liveness), an open one is hammered only so much; puzzles are fair; a problem is judged once unless GETDEL failed; what a report said of a night stays but for an overlap and a derived duration | two requests, a threshold of two, one retry, a cooldown of one tick, one problem, two reports (one of the times and the quality, one of a duration), one row of history; of each random draw its two ends |
| `daily_mission` | the code implements `MissionPromise`; a completion is lost, and an expiry comes early, only in the one race and the one zone the properties name | two requests or sweeps, days of three ticks, one midnight, a user who moves between two zones whose dates differ; one puts its clocks forward at its next midnight, the other before |
| `entitlement` | row and user's columns tell the store's truth, and part only in named races | three requests, two periods, one notification waiting at a time |
| `push_delivery` | a push is repeated only after a fault; the row at rest is true | two devices, two workers, three attempts as in the code, one forgiven lock as is BullMQ's default |

### 3.1 Bounds

Two alarms suffice for what the modules say: alarms interact only through the one
service, the one buffered event and the one ring screen, and each of these holds
one alarm and loses another.  Two ticks in a day let an alarm be before, at and
after the present, two days let a week have a selected and an unselected day.
Three pairs give two rotations, the second starting from a token that the first
issued.  Three calls of `alarm_sync` are one that leaves something behind, one that
meets it, and the refresh that finds it; two alarms tell calls that conflict from
calls that do not.

Two requests of `missions` give the breaker a call admitted before it opened that ends
after it, with a threshold of two a count that is neither zero nor full, and `judged`
a second verification between another's GET and DEL.  The ends of a draw are where a
difference turns negative; every draw is covered by proof (section 4).  The zones of
`daily_mission` make `endOfLocalDayUtc` take an offset that the end of the day does not
have; a zone whose clocks go back over midnight is outside the run and inside the
proofs.  Its two handlers are a loser and a winner of an insert, or a completion and the
midnight that expires it.  Three requests of `entitlement` are two verdicts and the
profile update between them; a second period is a renewal, so an older verdict differs
from a newer one.  With three attempts a push may fail, be sent and be repeated, and
with two workers a job whose lock expired runs twice at once.

Deadlock is checked in `alarm_engine`, `ios_alarms` and `ring_session`.  It is not in the
others: with every call made, every attempt used up or the clock at its bound, the
system rests.

### 3.2 Fairness

RingSession: messages that arrived and continuations that are ready are run by Dart's
event loop; nothing is assumed of alarms, the user or the network.  ClientSession:
every call has a receive timeout (`ApiConstants`, `AppConstants`), so it is answered or
fails, and what an answer makes ready is run; nothing is assumed of what the app sends
or of the clock.  MissionService: weak fairness of the cooldown's clock and of the calls
that are under way, since `withTimeout` ends every attempt and a backoff is a timer;
that requests keep coming and that attempts stop failing are premises of `Recovers`
itself, since nothing in the code grants them.  The other modules state safety only.

### 3.3 What is refuted

Two runs are violations, and `findings` in `PROJECT.json` quotes what they contradict.

* `ring_dismissal`: the mission sequence of an alarm lives as long as the engine;
  the next ring finds it successful.
* `session_chain`: the auth feature has its own Dio with its own refresh, and the
  backend punishes the second presentation of a token.

Five more configurations, not among the runs, each refute one definition:

| Configuration | Refutes | Why |
| --- | --- | --- |
| `MC_AlarmEngine_stop.cfg` | `StopSilences` | `AlarmForegroundService.startRinging` (line 98) assigns a new MediaPlayer over one that still loops; a stop releases the last one |
| `MC_IosAlarmManager_schedule.cfg` | `ScheduledIsPending` | `AlarmManager.schedule` cancels first, but the cancelling happens in a completion handler and goes by identifiers that the new requests reuse |
| `MC_RingSession_open.cfg` | `RingCanBeOpened` | an alarm that fires during the awaits of `_releaseAndExit` is the active one without a screen, and every later announcement is a repetition |
| `MC_RingSession_sink.cfg` | `RingIsReplayed` | `onDetachedFromEngine` (`AlarmSchedulerPlugin.kt:52-55`) leaves the static `eventSink`, so an alarm that goes off after a death of the engine alone is sent to a dead engine and not buffered, against 27-30 |
| `MC_ClientSession_boot.cfg` | `BootstrapDecides` | the retry inside the QueuedInterceptor's handler fails, and its error is queued behind the handler that awaits it |

Where a passing property names causes, the code has what they cause.  Such a property
does not say that the bad outcome cannot happen; it says that there is no other way to it:

* `RingIsKnown` (RingSession): a ring whose engine died, one that went off over a sink that
  was left behind, and one whose ending call failed sound on without the controller until
  the notification is opened again.
* `QueueDrains` (ClientSession): whatever waits behind the stuck handler waits for ever, the
  registration and the bootstrap too.
* `CoreAloneKeepsSession` (ClientSession): a refresh whose answer is lost leaves the client
  with a token that the backend has replaced; the next refresh is taken for theft.
* `CopiesAgree`, `GhostNeedsTrouble`, `CachedListIsFresh` (AlarmSync): when the answer to a
  deletion is lost, the next refresh drops the alarm from cache and screen while
  `_rescheduleAll` touches only alarms the server lists, so a trigger stays that no
  screen shows; a toggle whose handler began before a deletion revives the row; a list
  read before a write may be cached after it, and re-arms what was switched off.  All
  this contradicts "so OS state, cache, and server never drift"
  (`alarm_repository_impl.dart:21-22`).
* `JudgedOnce` (MissionService): after a GETDEL that failed, two attempts may both read
  the answer.
* `LimitHolds` (AlarmSync): a creation that is sent again while the first is still at work
  counts before that one inserts, and exceeds the free limit.
* `ReportKept` (MissionService): a report that another one overlaps takes fields back to what
  it had found.  Without any overlap, a duration that the user reported is replaced by the
  derived one as soon as a later report leaves it out and both times are known; "Prefer an
  explicit duration" (`sleep.service.ts:53`) is true within one report only.
* `CompletionKept` (DailyMission): a completion is overwritten by a second request that
  loaded the mission before it and asks for the date after midnight, or after a move.
* `NotCutShort` (DailyMission): where the clocks change between the end of the local day
  and the same reading in UTC, the expiry is off by the shift; where they set the date back
  while an answer is made, by a day.
* `StaleNeedsTrouble`, `PartOnlyByRace` (Entitlement): an older verdict may be written
  last; a failed notification is answered 204 and not sent again; a profile update
  writes back the premium columns it loaded.  The two races of `PartOnlyByRace` contradict
  `subscriptions.service.ts:69-70` ("so they can never diverge from the subscription row")
  and 211-212 ("so they cannot diverge"): the transaction is atomic, but it neither locks
  the user's row against `updateProfile` nor orders two verdicts.
* `RepeatedOnlyAfterFault` (PushDelivery): a lost answer or save, or an expired lock,
  sends a push again.
* `RowIsTrue` (PushDelivery): a row stays 'queued' when its job was refused, and one that the
  user marks read while a worker is at it becomes 'sent' again.

AlarmEngine has two more outcomes of this kind that no property forbids, and
`SoundHasItsService` only bounds them: a start that was queued behind a stop is silenced by
`onDestroy`, and a service that comes back after a kill gets a null intent and rings no
more, against "recreate so the alarm keeps ringing until the user completes the mission"
(`AlarmForegroundService.kt:54-55`).

Met while reading, and not a matter of ordering.  A ring whose alarm cannot be
loaded because the server answers with an error has its start button disabled and
no snooze (`alarm_ring_screen.dart:177`), against the comment at 227-228.  The sweep
compares the hour a formatter prints with 0 (`ai-mission.util.ts:91-92`), while
`timezoneOffsetMinutes` allows for runtimes that print midnight as 24: there the sweep
starts for nobody (`Midnight` = 24 in DailyMission), and a mission is made when it is
first asked for.

A success of the phone's purchase stream is any answer of 200, and `SubscriptionNotifier.buy`
then says "You are now Premium", whatever status the answer carries
(`iap_datasource.dart:194-200`), against "only emit success when the backend confirms
entitlement" at 53-54.

## 4. What is proved

Eight modules hold the proofs.  They assume what the modules declare of their constants
(`GeminiAssumption`, `DailyAssumption`, `BoundAssumption`, ...), and every run evaluates those
assumptions; nothing else is assumed.  Sets of alarms, calls, requests and workers, and every
bound, are arbitrary.  `theorems` in `PROJECT.json` lists the results.

Each of the modules names its inductive invariant at the top (`Inv`, or parts that are proved
one after the other), and says of every part what it is for.  A proof that `Inv` is kept has one
lemma per action or group of actions; the last theorems take the properties out of it.

* **AlarmEngineProofs.**  First AlarmTime: `NextTriggerIsNextOccurrence`, for every time, set of
  days and instant the phone's trigger is the next occurrence.  `Division` and `ProductFacts` are
  the arithmetic, `CandidateCovers` says that every occurrence of a week is a candidate of
  the scan, `FirstHitFacts` that the scan takes the first.  `ServerAgreesWithPhone`: the
  server's scan, which compares less, finds the same and never null.  Then the engine:
  `TypeCorrect`; `RepeatingStaysArmed`, `NoTriggerOutlivesItsAlarm`
  and `ArmedForNextOccurrence` are proved together as `TriggerInv`, alarm by alarm
  (`AlarmArmed`); that a tick of the clock keeps an armed instant the next one is
  `NextAfterTick`.  `OneRingPerOccurrence` is inductive with
  `TypeOK`: a re-arming is never due at once, and a restart redelivers no message that was not
  sent (`RedeliveredMessages`).  `SoundHasItsService` and `ReplayedFireIsCurrent` need
  `ServiceInv`: besides the two, a restart stands first in the mailbox, and a listening
  Dart leaves nothing buffered.
* **IosAlarmManagerProofs.**  `OccurrencesAreCurrent` and `ReplayIsCurrent`.  The first is
  inductive with the types once it is known that the requests of one call differ in their
  identifiers (`RequestsMade`) and that adding them leaves one request for each (`AddKeeps`): a
  completion handler removes by identifiers, so it may take away a new request but never leave an
  old one that it names.  The second needs that nothing is buffered while Dart listens.
* **RingSessionProofs.**  `SequencesStayWithin` needs that a sequence which is shown, or of which
  a report is being recorded, exists (`SequenceExists`), and that what waits on the mounted screen
  waits on one that has loaded its alarm (`ScreenWaits`).  `RingStaysKnown` is not inductive:
  between the announcement and the controller lie replies of earlier rings that clear the active
  alarm.  `RingIsAnnounced` says that behind each of them comes the announcement of the alarm
  that sounds, `RingIsBuffered` that a ring without an engine is kept for the one that starts,
  unless a sink was left behind to take it.
* **ClientSessionProofs.**  `SessionSurvives`: as long as the app-wide client alone refreshes, no
  token is presented twice, over any number of rotations.  `CoreAlone` says what the single
  property leaves open at each step of a refresh: that the token presented is the stored one, that
  it is live until it is revoked and its successor afterwards (`CoreHoldsToken`), and that nobody
  else is past the reading of a token (`OthersWait`).  `RetriesAreAccepted` needs `FreshPairs`
  and `StoredIsFresh`: a pair that was issued is accepted while its refresh is under way, and what
  is stored when the Completer resolves is accepted too, or nothing.  That the queue
  drains is liveness and left to TLC; what is proved of it is `StandstillIsStuckRetry`: an error
  that waits has exactly one handler in front of it, which is refreshing, has sent its call again,
  or is stuck with the error of that retry.  It needs `OneHandler`, `HandlerRefreshes` (who
  refreshes for the auth client has a handler that waits for it), `RegistrationPasses` and
  `BootWaits`.
* **AlarmSyncProofs.**  `CopiesStayTogether`, `GhostsNeedTrouble` and `RedisIsFresh` speak of a
  system at rest, and say nothing of the calls that get it there.  `Agreed` is what holds on the
  way, as long as there was no trouble: no two calls in flight conflict (`Apart`), an alarm that
  nobody writes has the same copy everywhere (`Copied`), who writes one knows what is left to be
  done (`Writing`), a list that was read is what the rows are (`Reading`), and Redis has it, or
  somebody is about to invalidate it (`ListKept`).  `CleanRefresh` is what lets a refresh
  end a trouble.  `FreeLimitIsKept`, an action property, adds that creations are one at a time and
  that the place a creation has counted is still free when it inserts (`OneByOne`).
* **DailyMissionProofs.**  `KeepsPromise`, the refinement `Spec => OneMissionPerDay`.  Its
  invariant `Kept` says that what is cached, about to be told, or about to be completed is
  the row of its date; without it a cached answer could name another mission than the row.
  `TypeOK` and `Kept` are inductive only together, since `Complete` reads the row of a date
  that was told.  `RowStays` is the heart: no step replaces a row's mission.
  `EverybodyToldOneMission` is what the refinement is worth: the promise alone implies that of a
  day nobody is told two missions (`PromiseIsOneMission`), so the code does.
  `CompletionIsKept` needs `Loaded`: who is about to save has seen a mission not completed.
  `AnswersLastTheDay` needs `InTime`: a request has a date that its zone had reached when it came
  in, and its answer the end of a day reached by then; `DayEnds` gives the end of a day without a
  scan, `EndIsLate` compares the code's instant with it.  The attempt to prove it found an
  exception that the run's zones do not show: where the clocks set the date back (from 00:01 to 23:01,
  as Newfoundland's did) while an answer is made, it names the end of the day before, so
  `NotCutShort` asks for `Orderly` zones.  The zones are arbitrary offsets and shifts.
* **MissionServiceProofs.**  First MathMission: `EveryPuzzleIsFair`, of any draws within their
  bounds, and not of the ends the run draws.  Then the requests:
  `BreakerTripsByFailures` with the types of breaker and calls
  (`Breaker`), which no other part of the module touches; `RetriesAreBounded` counts as a set the
  retries that the calls under way have left (`Left`): while the breaker is open nobody is let in,
  so each one sent is one less, and the call that opens it has none; `TypeCorrect`; `PuzzlesShownAreFair`
  from `EveryPuzzleIsFair`; `ProblemJudgedOnce` from the lifecycle of a problem
  (`Lifecycle`: an id is being stored by one request only, who is between GET and DEL had a
  GETDEL fail, an answer still stored was not judged); `ReportIsKept`, field by field, from
  `SavesKeep`, which says that a save holds what its report said, the value its loaded row had,
  or a derived duration.
* **AccountProofs**, the push.  `RepeatsNeedFaults` counts: what a device got, the workers that are at
  a send, and the run the queue still owes without a lock having to expire (`Retry`) are together
  at most one more than the faults (`Budget`).  `RowTellsTruth` needs `RunsTell`: without a fault
  nobody runs the job beside the worker that holds it, and what a run is going to write is true;
  and `ReadStays`, that nothing under way could write over a row read while all was quiet.
* **AccountProofs**, the entitlement.  `StaleOnlyAfterTrouble` speaks of a store that has said all
  and of nothing under way.  `Told` is what holds before: unless there was trouble, what was last
  said is recorded, or a notification of it is being applied alone.  That the one applied alone
  records it needs `VerdictIsNow` (its verdict is still the store's, or another notification is to
  come), `ChangeCovers` (the columns that it found equal, and so will not write, are still those
  of the committed row) and `AloneIsAlone`: nobody can have written that row in between.
  `OverlapIsTrouble` keeps an overlapped verdict from passing for a clean one.  `CommitLeaves` says
  what a partial write makes of a row; `PartsOnlyByRace`, an action property, follows from it step
  by step: only `Commit` and `SaveProfile` write the user's columns, and a commit that is alone, that
  inserts, or that writes both period and status leaves the two in agreement.  Here no bound
  stays: requests at a time, periods and notifications are arbitrary.

Only model-checked: liveness (`SuccessLeavesScreen`, `RequestsSettle`, `QueueDrains`, `Recovers`), as the
prover has no rule for fairness.  Every invariant, action property and refinement that a passing
run checks is a theorem.  `ENABLED`, induction over data and RECURSIVE operators are out of the
prover's reach; no module here needs the last two.

## 5. Not modelled

* **Screens, wiring, generated code, infrastructure.**  They keep nothing that outlives a
  screen or a request.
* **The phone's subscription.**  Which transaction is unfinished and delivered again is the
  plugin's decision, which nothing in the repository tells; what the backend makes of a
  receipt is Entitlement.  The one stream of results that `buy` and `restore` share is worth
  a module (section 6).
* **Reads and pure functions** of modelled components: statistics, the catalogue of
  missions and plans, the wording and cleaning of prompts, fetching images, presigned
  URLs, the premium guard, the paging of the sweep.  The sweep is followed for one user, as
  users share nothing in it.
* **Cached copies of what has a row**: the subscription's status and the user's profile, each
  with a short life.  The list of alarms, whose cache does matter, is modelled.
* **Apple's verifier.**  It decodes a notification as if it were a transaction; the model
  follows one Google Play purchase.
* **The mission sub-resource of an alarm**, `next_trigger_at` as a column, password login.
* **Libraries** are modelled from their use and marked external: TypeORM's save writes the
  columns that differ from what it has read, BullMQ runs a job again after a failure or an
  expired lock, dio queues errors, Redis' GETDEL may be done though its answer is lost.
* `enqueuePush` has no caller yet, and its job id `push:<id>` may be refused by a queue that
  takes the colon for its own: `EnqueueFails` covers a refusal.  Nothing writes the status
  'delivered'.

## 6. The plan

Done: the engines, the ring and client sessions, the alarm's copies, and the backend's
stateful services, each with its run, and the proofs of all their safety properties.

Next, in this order:

1. `Purchase`: buy, restore and redelivery over one stream of results, composed with
   Entitlement's validation.
2. The missions of an alarm as part of AlarmService and AlarmSync.
3. An abstract ring (armed, ringing, dismissed) that AlarmEngine and IosAlarmManager both
   implement.

# OpenFamily: a verification development

TLA+ models of the parts of OpenFamily whose correctness depends on the order in
which things happen, TLC runs that check them on small instances, and proofs that
TLAPS checks for every instance. Source paths are relative to `src/`; "handlers/"
is short for `backend/internal/handlers/`, "services/" for `app/lib/services/`, "web/"
for `web/src/`.

## 1. The system

A Go server (HTTP + PostgreSQL), a Flutter app with a background isolate, a small
updater service, and a web panel in React for families and for the administration
of the platform. Everything the server knows is in PostgreSQL; the server adds goroutines (one per evaluated fix, one per
geofence event, one reconcile worker) and in-memory hubs of WebSocket clients.

| component | state | operations | hard behaviour | what makes it correct |
|---|---|---|---|---|
| geofence evaluation, `handlers/geofence_eval.go` | `geofence_states`, `geofence_events`; running goroutines; the worker's pass | `evaluateGeofences`, `processGeofence`, `reconcileLatestPoints`, `firePendingNotification` | fixes out of order, overlapping evaluations, a worker that selects first and locks later, failures that are only logged | reports alternate and keep their distance; a crossing held back is reported or withdrawn; the states settle on the newest fix |
| fences and places, `handlers/geofence.go`, `place.go` | `geofences`, `places` | create, update, delete; the reset of `geofence_states` | decisions made on a row read before the transaction; a place update of several statements; evaluations under way | no state outlives the fence, user or area it was computed for, but that of a fence moved beside its place's update |
| push delivery, `geofence_eval.go:626-897` | `geofence_event_devices`; sends under way | `createEventDeviceRows`, the event's goroutine, `redispatchFailedPushes` | crash between acceptance and mark, retries, changing targets | no double dispatch; every delivery is marked or given up; alerts arrive |
| location ingest, `handlers/location.go`, `location_batch.go` | `locations`, `member_positions` | `IngestLocation`, `IngestLocationBatch` | live reports race with backfills; time-outs; repeated batches | the position is that of the newest stored fix |
| outbox and reporters, `services/location_outbox.dart`, `location_reporter.dart` | `location_outbox_v1` in the preferences | `enqueue`, `drain`, `clear` | a read-modify-write around a network request; logout in the middle | a queued fix stays until the server has it |
| session, `handlers/auth.go`, `services/api_client.dart`, `token_storage.dart`, `session_gate.dart`, `background_location_service.dart` | token pairs in two stores; `users.token_version` | login, logout, refresh, gate, resume, revocation | two isolates that refresh, awaited writes, stores that fail, kills, lost answers, tokens that expire | a session ends only for a cause; a dead one ends |
| families, roles, invites, `handlers/family.go`, `invites.go`, `profile.go`, `admin_users.go`, `admin.go`, `auth.go` | `users.family_id`, `users.role`, `invite_codes`, `families` | thirteen transactions | row locks taken in different orders, counts, stale pre-reads | the last admin stays; invites are counted; nobody is in a family that is gone |
| live list, `handlers/hub.go`, `ws.go`, `admin_ws.go`, `services/family_service.dart` | clients by family, buffers; the app's socket, timer and list | register, unregister, broadcast, disconnect; fetch, connect, frames, watchdog | family read before registration; full buffers; snapshots, fetches and frames that overtake each other; half-open sockets | a stream is of its user's family; a photo never goes back; the list becomes right |
| alerts and SOS, `handlers/alerts.go`, `sms/` | `alerts` | trigger, resolve, fan-out | one deadline for pushes and SMS; resolution overtakes the alert | members and contacts are reached |
| location requests, limiter, devices | per-user windows, `devices` | reserve/release; record | check-then-act, lost updates | limits hold; no field is lost |
| server update, `updater/main.go` | job file, busy flag | start, recover | replaces itself while running | a job has one outcome, one update at a time |
| history, `handlers/history.go` | none (pure) | `downsampleTrail`, `detectStays`, ... | boundaries | agrees with its definition |
| app lock, `services/biometric_service.dart` | locked, prompting | life-cycle callbacks | a prompt's answer after a pause | never unlocked without an answer |
| web session and shell, `web/lib/auth.ts`, `api.ts`, `me.ts`, `App.tsx` | the pair in localStorage, per tab the cached identity and what the shell shows | sign in and out, calls with refresh and replay, `loadMe`, storage events | tabs that share one store; calls refused side by side; late answers | a session ends for a cause; the shell and the identity are the session's |
| web live map, `web/map/MapView.tsx`, `status.ts` | members, socket, reconnect timer, load | load, connect, frames, tick, retry, cleanup | frames that overtake each other; an effect re-run under its own awaits | settled, it shows what is stored; nothing outlives the page; silence is noticed |
| web bubbles and camera, `web/map/clustering.ts`, `MapView.tsx` | zoom, filter, expanded clusters, flights | cluster, expand, fit, recenter, request | thresholds while members move and the zoom changes | each member is in one bubble |
| web families, circle and users pages, `web/pages/FamiliesPage.tsx`, `UsersPage.tsx` | lists, rows, forms, edits under way | create, rename, delete, move, roles, leave, join, save | edits beside refetches; rows that come back as new instances; a save of two calls | an edit that was answered is never shown undone, but a circle's name and a row whose save failed half-way |
| web photos, `web/lib/useMemberAvatarUrls.ts`, `FamiliesPage.tsx` | revisions, updates, object URLs | load, overlay, revoke | loads that end after their reason is gone | the photo is current; URLs are revoked |
| web history, account and update cards, `web/pages/HistoryPage.tsx`, `SettingsPage.tsx`, `ServerUpdateCard.tsx` | selection and hash; profile and photo; status and polls | select, load, upload, save, poll, start | three sources of one selection; versions of a load; a server replaced while it is polled | what is shown is what is selected and stored; an end is noticed |
| administration reads, audit log, APK releases, the panel's other cards, deployment | - | reads, inserts, files | - | - |

The components meet in few places. An accepted fix (`location.go`) starts an
evaluation; a recorded event starts its goroutine in the same commit; the worker
runs both the reconcile and the redispatch passes. Fence, place and membership
handlers change what evaluations read, and nothing but row locks orders them. The
outbox is emptied by the session's `TokenStorage.clear`. Membership changes close
streams (`disconnectFamilyUser`). In the web panel every page calls through
`request`, which shares the pair of tokens with all tabs of the browser; a change
of the location's hash unmounts one page and mounts another; the server's streams
feed the map and, on the families pages, the photos. `PROJECT.json` lists every component with its
status, and every hazard at its line.

## 2. Plan of modules

Written, in this order:

1. `GeofenceConfig` <- `GeofenceEngine`, `AlertStream` (what it promises). The centre of the product and its most intricate state.
2. `PushDelivery`, `AlertDelivery` (what it promises): what becomes of an event.
3. `LocationStore` <- `LocationOutbox`: where fixes come from.
4. `Session`: tokens of the app against the server.
5. `Membership`: transactions on users, families and invites under row locks.
6. `FamilyStream`: hub, WebSocket handler and the app's `FamilyService`.
7. `WebApi` and `WebSession`: the web panel's calls, tokens, identity and gates.
8. `WebStatus` <- `WebMap`; `WebClusters`; `WebAsync` <- `WebFamilies`, `WebCircle`
   (which also extends `WebApi`), `WebAvatars`, `WebUsers`; `WebHistory`,
   `WebProfile`, `WebUpdates`; and `WebPanel`, which composes the nine pages.

Each has a proof module, which extends it and TLAPS: `GeofenceProofs`, `PushProofs`,
`LocationProofs`, `SessionProofs`, `MembershipProofs`, `FamilyStreamProofs`,
`WebSessionProofs`, and `WebPageProofs` for the panel's pages but the update card, and
for the panel that composes them.

To come:

9. `EmergencyAlert`: alert, fan-out under one deadline, resolution.
10. `PlaceLocks`: the lock orders of `UpdateGeofence` (`geofence.go:470`) and
   `UpdatePlace` (`place.go:466`), with the lock rules of `Membership`.
11. `Updater`: the job's file and the self-replacement, to implement the job of
   `WebUpdates`; the location-request gate; device updates; the app's lock.
12. Functions for `history.go` and the sliding window against their definitions.

Theorems to come are those of these modules: `PlaceLocks` has no cycle of waiting
transactions, and `Updater` implements the job that the update card polls.

## 3. The models

### Geofences: `GeofenceConfig`, `GeofenceEngine`

| in the model | in the code |
|---|---|
| `fence`, `place`, `member` | `geofences`, `places`, `users.family_id` of one family; ids are never used twice, so a deleted row stays as `"deleted"` |
| `row[f][u]` | `geofence_states`; `inside = "none"` is "no row"; `since` is the age of `last_notified_at` in ticks, saturating at the debounce interval; `basis` is history: the area `inside` was computed against |
| `told[f][u]` | the newest `geofence_events` row of the pair, its age, and how many there are |
| `edit[m]` | what a running `UpdateGeofence` read before its transaction |
| `placing` | the transaction of a running `UpdatePlace`: what the place becomes, the fences it has locked (`had` is history: those the place had then), the states its DELETE has taken (`doomed`), and the fences locked by an update that waits for one of these states (`held`) |
| `latest`, `unsent` | the newest row of `locations` per user; fixes on their way |
| `eval[e]` | a goroutine of `evaluateGeofences` (or the worker's call of it): user, position, and the candidates read by its query |
| `recon` | the worker's pass: points, then pending transitions, as its queries read them |

`UpdatePlace` is `PlaceLock`, `PlaceReset` and `PlaceCommit` (or `PlaceRollback`): it
locks the fences the place has (place.go:467), deletes their states in a statement that
sees what is committed by then (493), and commits, and anything else may run in
between that does not need a row it has locked. So a request that takes the family's
row waits until it is over, an update or deletion of a locked fence and an evaluation
that writes its states wait, but an update that moves another fence to the place and
an evaluation of that fence do not. Every other handler that runs in one transaction
under the lock of the row it decides on is one action; what is read outside a transaction (`evaluateGeofences`'
candidates, the worker's selections, `UpdateGeofence`'s row) is kept in a variable
and used later, when it may be stale. `processGeofence` is one action with one
disjunct per branch of the code: `Ignore`, `Baseline`, `Stay`, `Fire`, `Postpone`,
`FireOlder`, `Sync`. Coordinates are spots, and a place's circle is the set of
spots in it; time is a tick, and only the ages the code compares are kept.

`AlertStream` is what a family may rely on while its fences are left alone: a
stream of arrivals and departures per fence and user, of the kinds asked for,
alternating when both are asked for, a debounce window apart.

### Push delivery: `PushDelivery`, `AlertDelivery`

`row[e][d]` is `geofence_event_devices` (`push_sent`, `push_attempts`), `job[s]`
what a sender - an event's goroutine or the worker - has in hand: the deliveries
of its query, the one it is at and the step (`send`, `mark`, `bury`). A tick is the
time one device may take a goroutine (`pushDispatchTimeout` and the mark's five
seconds), and its query may take another, so the goroutine is through before
`MinAge` ticks if `MinAge` exceeds the number of devices and one: that is what
`pushRedispatchMinAge` = 15 minutes stands for (geofence_eval.go:46-53), and
`BudgetAssumption` of the module. `push_delivery` has two devices and `MinAge = 4`.
`AlertDelivery` is the promise for one event and one device.

### Reports: `LocationStore`, `LocationOutbox`

A fix is its time stamp. `stored[t]` counts its rows, `position` is
`member_positions`. A request stays on the server until it is done, whether the
device still waits or not. A live report is checked and stored under the user's
lock (two steps: another live report waits, a batch does not); a batch first reads
which fixes are stored and inserts the others later. On the device, `queue` is the
preference `location_outbox_v1`; a drain keeps the queue it `read` and writes back
`read \ batch` after the answer, over whatever was enqueued in between.

### Session: `Session`

Token pairs are numbered by issue; `store` holds the access token, the refresh
token and the background isolate's copy of the access token (`mirror`); `act[a]`
says where each actor is: calls, the user (login, logout), the shared refresh, the
start gate, the background isolate. Every awaited write or deletion is a step.
`Expire` waits for a pair that is being stored or used to repeat a call: an access
token lives for 15 minutes, these steps for milliseconds or one request. `Lapse` is the
end of a refresh token's 30 days (auth.go:188 refuses it then). Reads and writes of the
stores may throw: at the gate the app then shows the welcome screen
(main.dart:165-176), in a refresh or a login the tokens are half written.

### Membership: `Membership`

`Req` is the sequence of requests that may be made, each at most once. A request
goes through its transaction's statements: `user` (its own or the member's row, FOR
UPDATE), `code`, `family`, `fk` (the FOR KEY SHARE lock of a foreign key), `caller`
(a plain read), `target`, `count`, `drop` and `cascade` (DELETE FROM families and
the rows that refer to it), `write`. Under READ COMMITTED a statement sees what is
committed at its start, so the model's tables are the committed ones and a
transaction's writes are one step with its commit; row locks are held from their
statement on. `AbortDeadlock` is PostgreSQL's detector. A row that a request inserts
has an id (or a code) drawn for it, which no other request inserts and no row has at
the start: `FreshAssumption`; and a request names the rows its handler is called
with: `RequestAssumption`. The families at the start are those its users and invites
refer to (`StartFamilies`; `invite_codes.family_id` has a foreign key, too).

### The live list: `FamilyStream`

One viewer, one other member whose photo changes. `sock[k]` is a socket with both
its ends: the handler's place in `Stream` (`asked`, `read` the family, `up` once
registered, `open` once the snapshot is written), its entry in the hub (`in`), the
buffer `send`, the frames on the `wire`, and the network: `live`, `cut` (both ends
are told) or `silent` (half-open: neither is, until a ping or the watchdog). `chan`
is the socket the app listens to; a replaced one lives on at the server until its
handler returns. `cast[v]` is the broadcast of a version: the clients are copied
under the mutex and served one by one. `hasAny` and the copy are one step: when
`hasAny` finds nobody the copy at that moment would be empty, and when it finds
somebody the copy is taken later all the same. `fetch` is `GET /family/members`,
served and applied apart; the repair cycle's fetch connects afterwards.

### The web session: `WebApi`, `WebSession`

`WebApi` holds the panel's calls and the server's routes as two sets of paths, and
the rule that decides which path gets the prefix (`Sent`). A path is the sequence
of its segments.

| in the model | in the code |
|---|---|
| `version` | `users.token_version`, which a change of the password raises |
| `store` | the pair in localStorage, one for all tabs; a pair is its account and the version it was issued at |
| `tab[t].view` | what `App` shows behind `isAuthenticated`; `loading` is `useMe`'s, `cache` and `inflight` are those of `me.ts`, `told` the message of the password form |
| `tab[t].event` | a storage event the tab has yet to hear |
| `call[t][s]` | a call under way: the token it was sent with, and how far it is (`sent`, `refreshing`, `refreshed`, `replayed`); `app` says that `App`'s own `useMe` waits for it |

Every await of `request` and `refreshTokens` ends a step, so calls of one tab and of
several are refused, refreshed and repeated side by side, each with the token that
is stored by then. React's renders are part of the step that causes them: a write
to the store renders the `App` of its own tab, mounts what the new view shows and
runs those components' effects. An access token may expire before any first attempt
(`Denied` has no other guard), a refresh may be refused by the limiter or fail
(`Refused`).

### The pages of the panel: `WebPanel`

`page` is what is mounted. `Open` and `Leave` are hash changes, possible at any
time; answers to calls that were under way still arrive at the unmounted page.
Each page's data is left by `Leave` as a fresh visit would find it, so a run of many
visits stays finite. Pages share no state, and a page is opened when the last one's
calls have been answered (`Drained`), which keeps their products out of the state
space.

| module | state | steps |
|---|---|---|
| `WebAsync` | one query of `useAsync`: what is loading, shown, and still to come for a superseded run | operators the pages use |
| `WebStatus` | none | the functions of `status.ts` over classes of battery, accuracy and motion |
| `WebMap` | `row`, `casts`: the server; `sock`: both ends of the socket; `strays`: sockets nobody holds any more; `load`, `stale`: the effect's load, and those of effects that are over; `mapped`: React's state, the timer and the retries | reports, broadcasts, registration and snapshot; load, frames, close, timer, tick; faults |
| `WebClusters` | `view`: where members are on a line, filter, zoom, flight, expanded clusters | moves, filter, zoom, expansion, recentring, location requests; the loops of `clustering.ts` are functions of the round (`Rounds`) |
| `WebFamilies` | `famDb` (revisions), `fam`: list and row, `famEdits` | every handler of the page, served, answered or failed; others' edits |
| `WebCircle` | `circleDb` (roles, and the change that named it), `circle`, `circleEdits` | the same for the user's own circle, with the spinner of `refreshMe` |
| `WebAvatars` | `photoDb`, frames, `photo`: row, updates, loads, URLs | rows, frames, loads, revocation |
| `WebUsers` | `userDb`, `users`: rows and the save's two calls, each served, read for its answer, answered or lost | save, creation, refresh, others' changes of the account |
| `WebHistory` | `hist`: member, day, family, hash, loads | toolbar, hash changes, loads |
| `WebProfile` | `accountDb`, `account`: profile, photo, loads by version | load, upload, removal, name |
| `WebUpdates` | `updateDb`: job, API, sidecar; `update`: the card | status requests, polls, confirmation, start, outages |

An edit is `sent`, then `applied` or refused, then answered; its answer may come
after the list was fetched again, after the row has been replaced by a new instance
(`own` is then false), or never. Lists and rosters are revisions, so that "older"
and "newer" can be said of what is shown.

## 4. Runs

Every run takes at most about three minutes with two workers.

| run | checks | bounds |
|---|---|---|
| `geofence_steady` | `PendingIsSelectable`, `BeliefIsTold`, `ImplementsStream`, `EventsInOrder`, `PendingResolved`, `SelfHeals` | one fence in three shapes (family-wide both ways, one user arrivals only, departures only), one user, one goroutine beside the worker, two spots, fixes 1..4 in any order, a debounce of one tick, one fault |
| `geofence_edited` | `UnarmedHasNoRows`, `RowsFitFence` | two fences, three places, two users, one editor and one place update, step by step, two configuration requests, one fix per user |
| `geofence_pending_lost` | violation of `NoPendingLost` | as the first, fixes 1..5 |
| `push_delivery` | `NoDoubleDispatch`, `ImplementsDelivery`, `AlertArrives` | one event, two devices, one of them refused for good, three attempts, two retries, two faults, two configuration requests |
| `location_outbox` | `PositionIsNewest`, `FixIsKept`, `QueueIsDrained` | a reporter, two drains, two requests at once, three fixes, a queue of two, a batch of one, three faults, two sessions |
| `session` | `EndsForCause`, `SignedOutIsDead`, `DeadSessionEnds` | one call beside the user, refresher, gate and isolate; two pairs, one revocation or expiry of a refresh token, one fault (of the network, of a store, a kill or a resume) |
| `membership` | `InvitesAreCounted`, `AdminIsKept`, `RequestsEnd` | any three of nineteen requests, overlapping; two families and five accounts at the start, and one invite of one use; two families, three accounts and two invites to insert |
| `membership_role_change` | violation of `RoleNeedsAdminOfFamily` | the same |
| `family_stream` | `StreamsFollowMoves`, `AvatarNeverRegresses`, `ViewConverges` | two sockets, a buffer of one frame, one fetch at a time, two changes of the photo, one move, one fault (a lost connection, a failed snapshot or fetch, an unreadable token, a restart, a foreground refresh or a forced reconnect) |
| `web_session` | `SessionEndsForCause`, `ShellHasSession`, `IdentityIsOfSession`, `CallsReachRoutes` | two tabs, two accounts, one call per tab, one change of a password; tabs and accounts are symmetric |
| `web_login` | violation of `SignedInReachesPage` | one tab, one account, two calls |
| `web_panel` | `LastSeenNeverRegresses`, `SettledViewIsCurrent`, `NoSocketOutlivesMap`, `QuietMembersGoGrey` (map); `BubblesCoverMembers`; `EditsAreShown` (families); `RosterFollowsEdits` (circle); `PhotosAreCurrent`, `OnlyShownPhotosAreHeld`; `RowsFollowSaves` (users); `HistoryIsOfSelection`; `ProfileIsCurrent` (account); `UpdateEndIsSeen` (updates) | see below |

`web_panel` gives the map a clock of 0..2, one kind of report, a buffer of two, two
broadcasts at once, one reconnection, one fault and one change of the photo; the
bubbles three people in two families on spots 0..2 and zooms 0..2; the families page
two changes of the list and one edit under way; the circle two changes and two edits
under way; two changes of the photo; two families and two roles of an account and three
changes of the accounts; two walkers of two families and two days; two names and two pictures; one update, one
outage and two requests at once.

Some configurations are kept beside the runs and show what section 5 says:
`MCGeofenceTwoEditors` (`RowsFitFence` with two editors), `MCGeofencePlaceUpdate`
(`NoStateOfOldArea`), `MCOutboxLogout` (`QueueIsOfSession`), `MCSessionFailure`
(`EndsOnlyOnRefusal`), `MCWebPassword` (`StaysSignedIn`), `MCWebOutcome`
(`OutcomeIsShown`), `MCWebExpand` (`ExpandedStaysOpen`) and `MCWebPages`
(`CreateIsServed`, `MembersOnlyView`, `NameFollowsRename` and `FailedSavesAreShown`, to be
run with `-continue`) each end in a violation. The modules state a few more properties
than the runs check, which hold in the same configurations when they are added to
them. Section 6 has theorems for most of them: `NoPendingLostTwoWay`,
`OneKindOfFencePerPlace`, `DuplicatesNeedFaults`, `DrainedIsStored`,
`FamilyOfMembersIsThere`, `RoleNeedsAdmin`, `OrderedNeverDeadlock`, `WaitersAreServed`
and the modules' types. The others, `Resolved` and `GoneClientsAreForgotten`, are
liveness.

**Why the bounds are enough.** Four fixes are a baseline, a report, a crossing
inside the debounce window and the return, which is the longest path through the
branches of `processGeofence`; two overlapping evaluations of one user are the
goroutine and the worker. `geofence_edited` needs one fix per user, because what
it asks is whether a state is left behind, and two requests: one before and one
during an evaluation or an update. A delivery has one attempt of the goroutine and
two of the worker, and two faults leave it one. A queue of two with batches of one
reaches the size limit and leaves a remainder for an overlapping drain to write
back. Two pairs of tokens are the old and the renewed one. Two requests are enough
for any lock cycle of two, the third may move rows between them. Two changes of a
photo over a buffer of one frame reach the drop of a slow client and let two
broadcasts overtake each other; two sockets are the current one and a leftover.
Two tabs with a call each are one that ends or renews the session and one that is
answered late; calls of one tab race in `web_login`'s configuration, and for any
number in the proof. A map whose member is reported at time 1 and 2 has an old
frame, a new one, and a snapshot or load between them; a buffer of two with two
broadcasts and a snapshot reaches the limit. Three people on a line are the
smallest chain whose ends are not near each other. A page needs one edit under way
beside others' edits, the circle two: a role and the rename that overtakes it. Three
changes of the accounts are the two calls of a save and somebody else's between them.

**Deadlock.** It is checked in the geofence runs, where time always passes. The
others switch it off because they may really stop: all requests of `Req` made, no
fix to take, the user at the login screen with no pair left to issue, an app that
shows the newest photo over a quiet socket, a browser whose user does nothing more.

**Fairness.** Only what the code itself keeps going:
- geofence: started evaluations, the worker and time; nothing makes a device send,
  so `SelfHeals` rests on the worker alone. A fault may end an evaluation, a
  transaction or the process, a bounded number of times.
- push: started goroutines, the worker's passes and time. `AlertArrives` and
  `Resolved` assume in the formula that the fence stays enabled and the device in
  the family with a target.
- outbox: the server serves, answers arrive, and a queue that is not empty is
  drained again: the app drains after a successful report, when the network is
  back and from the background isolate. `QueueIsDrained` asks for a session that
  does not end.
- session: what was begun goes on, and the map screen keeps calling (its polls).
  Logging in and out, expiry, kills and revocation are not fair.
- membership: some statement that can run is run, or a deadlock is ended
  (`deadlock_timeout`). Nothing makes a request arrive.
- live list: handlers, writers, broadcasts, pings and begun moves go on; the app
  reads its socket, notices a dead one (onDone or the watchdog), its reconnect timer
  fires, and requests are answered. Uploads, moves and faults are not fair.
  `ViewConverges` is about viewers that are not moved.
- web panel: the map's interval fires (`Tick`), which is all `QuietMembersGoGrey`
  rests on; the update card's interval fires, its requests end, and the update and
  the outage end (`UpdatesFairness`). Nothing makes a user act, a frame arrive or a
  page be left. `WebSession` states that calls are answered and events delivered, but
  none of its checked properties needs it.

## 5. What the runs found

1. `geofence_pending_lost`. A fence that reports one direction only drops a crossing
   whose debounce window has passed when the user crosses back before the worker's
   pass: the branch at geofence_eval.go:346 clears it, against the comment at
   geofence_eval.go:296. Fences that report both do not (`NoPendingLostTwoWay`).
2. `membership_role_change`. `UpdateMemberRole` re-reads the caller's role in its
   transaction but not the family it belongs to (family.go:417, 372): a caller who
   by then leads another family changes a role in the one they left, against
   family.go:412-415. `CreateFamilyInvite` (invites.go:149) reads the same way.
3. `web_login`. `App` calls `useMe` also on the login page, where its effect runs
   without a token, fails and leaves `loading` set (me.ts:108-109); a sign-in changes
   none of the effect's dependencies, so the shell shows its spinner
   (App.tsx:71-76) until the page is loaded again, against App.tsx:4.

The configurations kept beside the runs show the following:

- `MCGeofenceTwoEditors`: `UpdateGeofence` decides the reset with the row it read
  before its transaction (geofence.go:525-533): of two overlapping updates the
  second may restore a user or place and keep the state of the one in between.
  The overlap rule of places (geofence.go:467) is checked on the same stale row,
  so `OneKindOfFencePerPlace` holds for one editor only, too (`OneKindIsKept`).
- `MCGeofencePlaceUpdate`: `UpdatePlace` locks the fences its place has (place.go:467).
  A fence that is moved there afterwards is not locked, so an evaluation of it does
  not wait: it reads the area that is committed, the old one, and a state it inserts
  after the DELETE (493) outlives the COMMIT (503). The next fix takes the change of
  area for a crossing, against place.go:462-465.
  A fence that is created waits, because its insert refers to the family's row,
  which the update has locked. `RowsFitFence` excepts these rows (`escaped`).
- `MCOutboxLogout`: a report in flight at the logout that fails afterwards enters the
  queue `TokenStorage.clear` has just emptied (location_reporter.dart:326 against
  location_outbox.dart:207-211).
- `MCSessionFailure`: a refresh that gets no answer makes `_recoverOrClear` take the
  expired access token for a recovered one; the repeated call is refused and ends
  the session (api_client.dart:614 against session_gate.dart:13-18).
- `MCWebPassword`: a change of the password raises the token version, so the page that
  says "You are still signed in here" (SettingsPage.tsx:294) loses its session at
  the next call.
- `MCWebOutcome`: a status answered while the updater cannot be reached, or read before
  the update was started and answered after, shows no running update and ends the
  polling; the outcome is seen only when the user asks.
- `MCWebExpand`: the flight of `expandCluster` goes to zoom 16 also from above it, which
  is a zoom out and collapses what was just expanded (MapView.tsx:604-606).
- `MCWebPages`, `CreateIsServed`: `createMyFamily` (api.ts:295) is sent to
  `/api/families`, because `families` is not among the heads of `isRootApiPath`; the
  server's route is `/families`. `CallsReachRoutes` says that this is the only such call.
- `MCWebPages`, `MembersOnlyView`: an administrator of a circle who makes themselves a
  member is still shown what administrators may do, because only the roster is read
  again (FamiliesPage.tsx:691-692).
- `MCWebPages`, `NameFollowsRename`: a rename of the circle has the roster read again,
  not the family (FamiliesPage.tsx:840-842), so the page goes on to show the old name,
  although `onChanged` is "called after a change that affects the caller's membership
  or the family" (789).
- `MCWebPages`, `FailedSavesAreShown`: a save of a user's row whose second call fails
  leaves the row as it was before the first, which was done (UsersPage.tsx:279-288).

Smaller observations, stated where they shape a property:
- the reconcile pass evaluates the newest stored fix, also one a batch stored,
  although location_batch.go:26-27 says a batch causes no evaluation;
- a drain writes back what it read before its request: a fix enqueued in between is
  lost; the window is the whole request. `FixIsKept` excepts exactly these;
- a refresh in flight at a logout the server did not hear of leaves tokens that
  still work; `SignedOutIsDead` is about logouts it did hear of;
- `push_attempts` is counted before the target is known to exist, so passes without
  a target use the attempts up (`AlertArrives` is about deliveries whose first
  attempt is ahead);
- `NoDoubleDispatch` needs the goroutine to end within fifteen minutes, as the
  comment on the constant says;
- a stream whose family was read before a move and which is registered after
  `disconnectFamilyUser` stays with the old family until its socket ends
  (ws.go:104 against ws.go:137): `StreamsFollowMoves` excepts exactly these;
- `LeaveFamily` and the deletion of an account close no stream; only
  administrators' moves do, and only they are modelled;
- `_connect` awaits the token and does not look at `_disposed` again
  (family_service.dart:218-251), so a dispose in between leaves a socket open;
- `location` frames are applied in order of arrival, whatever their `ts`, and each
  is broadcast by a goroutine of its own (location.go:251): unlike a photo, a pin
  may go back until the next report;
- accounts created or moved into an empty family make a family with no admin:
  `AdminIsKept` says a family that has one keeps one.

And of the web panel:
- a refresh that was under way at a logout stores its pair afterwards, and one that
  is refused late clears the pair of a new login: `SessionEndsForCause` says that the
  latter needs a changed password or a refresh that failed. The logout itself tells
  the server nothing;
- a refresh that the limiter or the network refuses ends the session like a refused
  one (api.ts:47-63): `excused` records it;
- `IdentityIsOfSession` excepts the answer to a call that was made for another account
  than is signed in by now: it fills the cache whoever is signed in (me.ts:30-33);
- another tab's refresh drops this tab's identity without asking for it again; until
  the next page the administrator is taken for nobody. The comment at me.ts:35-36
  says a refused `/me` drops the tokens; the code drops the cache only;
- the map's stream is not asked for a new token; after eight reconnections, counted
  from the last load, it gives up and keeps what it shows, as `SettledViewIsCurrent`
  (which asks for an open socket) allows;
- a `presence` frame sets the status to normal whatever the battery says, and
  `location` frames that overtake each other move the pin back: only the time and the
  photo are monotonic (`LastSeenNeverRegresses`);
- a refresh of the users' list that overlaps a save or a creation may show the row as
  it was, or the new account twice, and a creation whose answer is lost is not shown:
  `RowsFollowSaves` excepts them until the next refresh. What others change is shown
  by the next refresh or by the answer to the next save only;
- a name saved while an older profile is being loaded is shown undone
  (`ProfileIsCurrent` excepts it), and a picture's upload that ends after the page was
  left begins a load whose object URL nobody revokes (`ForgetAccount` drops it);
- one location request is shown at a time, so the answer to one replaces the message
  of the other (`RequestAnswered`);
- an invalid day in the history's hash makes `dayBounds` throw; the model's days are
  valid.

## 6. Proofs

| theorem | module | statement |
|---|---|---|
| `TypeCorrect` | `GeofenceProofs` | `Spec => []TypeOK` |
| `DisabledFencesForget` | `GeofenceProofs` | `Spec => []UnarmedHasNoRows` |
| `RowsFitTheirFence` | `GeofenceProofs` | `OneEditor` implies `Spec => []RowsFitFence` |
| `OneKindIsKept` | `GeofenceProofs` | `OneEditor` implies `OneKindOfFencePerPlace /\ Spec => []OneKindOfFencePerPlace` |
| `SteadyInvariant` | `GeofenceProofs` | `SteadySpec => []SteadyInv` |
| `PendingStaysSelectable` | `GeofenceProofs` | `SteadySpec => []PendingIsSelectable` |
| `BeliefMatchesEvents` | `GeofenceProofs` | `SteadySpec => []BeliefIsTold` |
| `EventsAreAStream` | `GeofenceProofs` | `SteadySpec => ImplementsStream` |
| `EventsKeepOrder` | `GeofenceProofs` | `SteadySpec => EventsInOrder` |
| `PendingIsNotLost` | `GeofenceProofs` | `SteadySpec => NoPendingLostTwoWay` |
| `TypeCorrect` | `PushProofs` | `Spec => []TypeOK` |
| `NeverDispatchedTwiceAtOnce` | `PushProofs` | `Spec => []NoDoubleDispatch` |
| `DuplicatesNeedAFault` | `PushProofs` | `Spec => []DuplicatesNeedFaults` |
| `DeliveryIsImplemented` | `PushProofs` | `Spec => ImplementsDelivery` |
| `PositionFollowsHistory` | `LocationProofs` | `Spec => []PositionIsNewest` |
| `QueuedFixesAreKept` | `LocationProofs` | `Spec => []FixIsKept` |
| `DrainsLoseNothing` | `LocationProofs` | `Spec => DrainedIsStored` |
| `TypeCorrect` | `SessionProofs` | `Spec => []TypeOK` |
| `LogoutIsFinal` | `SessionProofs` | `Spec => []SignedOutIsDead` |
| `SessionsEndForCause` | `SessionProofs` | `Spec => []EndsForCause` |
| `WaitersStayServed` | `SessionProofs` | `Spec => []WaitersAreServed` |
| `TypeCorrect` | `MembershipProofs` | `Spec => []TypeOK` |
| `LastAdminStays` | `MembershipProofs` | `Spec => AdminIsKept` |
| `InvitesCount` | `MembershipProofs` | `Spec => []InvitesAreCounted` |
| `FamiliesOfMembersAreThere` | `MembershipProofs` | `Spec => []FamilyOfMembersIsThere` |
| `RolesNeedAdmins` | `MembershipProofs` | `Spec => RoleNeedsAdmin` |
| `OrderedDoNotDeadlock` | `MembershipProofs` | `Spec => []OrderedNeverDeadlock` |
| `TypeCorrect` | `FamilyStreamProofs` | `Spec => []TypeOK` |
| `StreamsEndWithAMove` | `FamilyStreamProofs` | `Spec => []StreamsFollowMoves` |
| `NewerPhotosStay` | `FamilyStreamProofs` | `Spec => AvatarNeverRegresses` |
| `TypeCorrect` | `WebSessionProofs` | `Spec => []TypeOK` |
| `SessionsEndForCause` | `WebSessionProofs` | `Spec => []SessionEndsForCause` |
| `ShellsHaveSessions` | `WebSessionProofs` | `Spec => []ShellHasSession` |
| `IdentitiesAreOfSession` | `WebSessionProofs` | `Spec => IdentityIsOfSession` |
| `EveryCallReaches` | `WebSessionProofs` | `CallsReachRoutes` |
| `MapTypeCorrect` | `WebPageProofs` | `MapSpec => []MapTypeOK` |
| `NoStrayConnections` | `WebPageProofs` | `MapSpec => []NoSocketOutlivesMap` |
| `SettledViewsAreCurrent` | `WebPageProofs` | `MapSpec => []SettledViewIsCurrent` |
| `LastSeenAdvances` | `WebPageProofs` | `MapSpec => LastSeenNeverRegresses` |
| `HistoryFollowsSelection` | `WebPageProofs` | `HistorySpec => []HistoryIsOfSelection` |
| `EditsStayShown` | `WebPageProofs` | `FamiliesSpec => []EditsAreShown` |
| `RowsAreStored` | `WebPageProofs` | `UsersSpec => []RowsFollowSaves` |
| `RosterStaysCurrent` | `WebPageProofs` | `CircleSpec => []RosterFollowsEdits` |
| `CardStaysCurrent` | `WebPageProofs` | `AccountSpec => []ProfileIsCurrent` |
| `OnlyShownAreHeld` | `WebPageProofs` | `PhotosSpec => []OnlyShownPhotosAreHeld` |
| `PhotosStayCurrent` | `WebPageProofs` | `PhotosSpec => []PhotosAreCurrent` |
| `BubblesCoverAll` | `WebPageProofs` | `ViewSpec => []BubblesCoverMembers` |
| `PanelImplementsPages` | `WebPageProofs` | `PanelSpec` implies the specification of each page |
| `PanelIsCorrect` | `WebPageProofs` | `PanelSpec` implies each page's properties above |

Those of the geofences hold for any number of users, fences, places, spots, editors, goroutines and
fixes, any debounce interval and any number of faults, from `ConfigAssumption` and
`EngineAssumption` only: ids are what they are called, `Everyone` and `Worker` are
not among users and goroutines, bodies have at least one field, the debounce
interval and `MaxTs` are positive.

*Type correctness* has one lemma per action of `GeofenceConfig` and of
`GeofenceEngine`; `Spec` allows a configuration change before every step.

*Disabled fences forget.* `UnarmedHasNoRows` is inductive relative to `TypeOK`: a
fence that is created or enabled had no state before, and a state is written only
under `Concerns` or `StillDue`, which re-read the fence under its lock. The case that needs the argument is `UpdateCommit`: a fence that is
disabled by the update is reset because the body names `enabled`, whatever the
stale row says - which is why this property, unlike `RowsFitFence`, survives two
editors.

*Rows fit their fence* if updates of fences do not overlap, which `OneEditor` says
(with two, `MCGeofenceTwoEditors` ends in a violation). `EditsAreFresh` is what makes
`RowsFitFence` inductive: the row an update has read is still the fence's, or the
fence is gone, so the comparison that decides the reset compares with what the
transaction replaces. Whatever else changes a fence drops its states itself, and an
evaluation writes a state only of the user and the area it reads after the fence's lock.
Places need `LocksHold`: the fences a place update has locked stay on the place, and
once it has deleted their states they get no other before it ends. So the commit of
an area leaves no state of the old one, but for fences that came to the place after
the lock; their states are the ones `RowsFitFence` excepts (`escaped`), until they are
written again.

*One kind of fence.* That no place has fences for one user and for everyone at once
needs `EditsAreFresh`, too: the overlap rule of `UpdateGeofence` is checked on the row
read before the transaction, and with one editor that is the row it replaces. A place
is left alone by whatever edits another one's fences. It is proved from a table that
obeys the rule, as nothing in the code repairs one that does not.

*The stream.* The properties of the steady system are not inductive. `SteadyInv`
adds that `since` is the age of the newest event, or `Never` if there is none
(`WindowSinceReport`): without it the debounce test on `last_notified_at` says
nothing of the distance between events; that an event there is has a kind and an
age; and that evaluations hold flags the fences still have, since the flags are
read by the query and used in the transaction. The invariant is proved for one
row at a time (`Cell`), because every action changes one row or ages all of them,
and each branch of `processGeofence` gets a step. The refinement then maps `Fire`,
`FireOlder` and `FirePendingNotification` to `Announce`, `Tick` to `Pass`, and
everything else to a stutter. `EventsInOrder` needs `Ordered` for every fence and user:
no event is later than the row's newest fix, and a crossing held back is no older
than the last event. Types, cells and running evaluations are carried from the
invariant, the order is proved on top of it. `NoPendingLostTwoWay`
follows from `SteadyInv` and each step: the only branch of `processGeofence` that
drops a crossing held back without its event is for a kind the fence does not ask
for, and the flags an evaluation holds are the fence's.

*Push delivery.* The theorems hold for any number of events, devices, attempts,
retries, faults and changes. `PushAssumption` asks for at least two attempts
(`maxPushAttempts` is three: an event's goroutine takes the first and marks without
looking at the cap) and `BudgetAssumption` for finitely many devices that a goroutine
can serve within the minimum age. Two invariants:

- `Paced`: the senders and the ages alone. A goroutine's event is never older than
  the deliveries it has dealt with (`InTime`: its age and the number of deliveries
  still to do never exceed the number of devices and the tick of its query), and the
  worker only has deliveries of events that are `MinAge` old (`Seasoned`). The two
  cannot have the same delivery: `NoDoubleDispatch`.
- `Counted` adds one `Cell` for each event and device: what is in hand is not marked
  as sent, what the worker has yet to do has attempts left, and `taken`, the number of
  times the push service has accepted it, is at most one and the number of faults.
  It needs `Paced`: two senders that had the same delivery would send it twice.

The refinement maps the event's record to `Open`, a send that the service accepts to
`Take`, a mark to `Done`, and a last attempt, a burial or a change of the fence to
`End`; queries, refused sends and waiting are stutters. Each is shown for one pair of
event and device, the others staying as they are.

*Reports.* The theorems hold for any number of requests, reporters, drains, sessions,
fixes and faults, and any caps, from `OutboxAssumption`: reporters and drains are
different clients, `Nobody` is none, accounts are numbered from 1, and the bounds and
caps are numbers. `OutboxInv` adds to the types and to the two properties:

- `Senders`: a client waits for one request at most, and a drain's request carries the
  batch the drain has taken from the queue; so the answer a drain gets is of its batch;
- `Accepted`: what a batch found stored, and all of a batch that was accepted, is
  stored. A batch reads and inserts in two steps, and rows are never removed;
- `KeptByDrains`: a fix that is to be kept is stored or in the list that a drain under
  way has read. Without it `FixIsKept` is not inductive: the end of a drain writes that
  list back over the queue. A fix queued while the drain is under way is not in it,
  which is why `FixIsKept` excepts those.

That the newest of a set of times exists is `NewestOf`, from the well-foundedness of the
naturals; `NewestOfBoth` says that the position may be kept up to date without reading
the rows. `DrainedIsStored` is an action property that follows from the invariant; it
holds in TLC's instance of `location_outbox` too, as all of `OutboxInv` does (458,921
states).

*The app's session.* The theorems hold for any number of calls, of pairs, revocations,
expiries and faults. `Sound` is the types with `Storing`: a pair being stored has not expired.
`AllPairsDead` says that from a logout the server has learnt of until the next login
every pair issued is of an older version of the tokens; it is inductive because only
a login issues a pair of a new version and a refresh needs a live one, and it covers
what a refresh under way stores afterwards. `EndsForCause` needs to know who may be
doing what at once: `Orderly` says that the user's own steps have left their trace
(`UserMarked`), that nothing runs beside the gate at a start (`GateAlone`), and that a
login nobody ran into has the stores to itself (`LoginClean`). On top of it `Well` says that as long as there is no cause
every stored token and every token in hand is live, the refresh token that is stored
or sent has not lapsed, and nobody is clearing: a call that is refused then finds a
refresh that works. The expiry of a refresh token in use (`lapsed`) and an error of
the stores that the gate does not catch (`storage`) are among the causes, because the
code shows the login or the welcome screen for each of them alone. `Served` says of `WaitersAreServed` what a
refresh may be doing, and is inductive: whoever begins to wait finds a refresh under
way or starts one, and every end of a refresh wakes all who wait.

*Membership.* The theorems hold for any requests, in any number and order, any rows at
the start that keep the cap on invites, and any number of transactions at once. `Inv`
has four parts: `Book` (the types of transactions and locks), `Contents` (those of the
tables), `Locked` (an exclusive lock excludes all others, and a row that is yet to be
inserted is neither there nor locked) and `Mine(t)`, which says of each transaction
what it has read and still holds: its user and the family the user is in, the
families whose admins it counts, the invite and that it has uses left, the family it
enters, the rows a deletion takes with it, and - `AnotherLeads` - that a count that
let it pass still holds. The proof rests on one observation: a statement changes
nothing but its own transaction and locks (`Alone`), and a commit writes only rows its transaction has
locked or inserts; so what another transaction reads under its locks stays as it is.
`AdminIsKept` follows from `AnotherLeads` of the transaction that commits, and
`InvitesAreCounted` from a count that is kept for each invite (`Counted`): a commit
that lets somebody in by an invite holds the invite's row, where it has found a use
left. Three more arguments stand on `Inv`:

- `Attached`: a family that a transaction has locked, FOR UPDATE or FOR KEY SHARE, is
  there, and so is the one each user and invite refers to. The foreign keys make this
  so: who enters a family holds a key-share lock on it, and who deletes one holds it
  exclusively and takes the rows that refer to it along in the same commit.
- `CallerLeads`: since a role change has re-read its caller under the family's lock,
  a caller who is still in the family leads it, unless the platform's own routes,
  which do not ask, have overruled the family meanwhile.
- `Ordered`: a transaction has locked nothing above what it waits for, where users
  come before codes, codes before families and families before each other by id
  (`First` takes the least). `NoCycle` then says that of a set of transactions that
  wait for each other one waits for nobody in it. Role changes and the deletions of users and
  families do not keep this order, so the property is about the others.

*The live list.* The theorems hold for any number of sockets, fetches, photos, moves
and faults, and any buffer. `Streams` says of each socket that its frames fit the
buffer, that a client is in the hub only once its handler has registered it (`Fits`),
and that a client of another family than the viewer's is there only while the move
has yet to close its streams, or registered too late (`Follows`); `Others` has the
types of the rest. What an action does to one socket is one lemma, cited for every
action. `AvatarNeverRegresses` needs of this the types only: the list is written by
frames (a snapshot is one) and fetches, and all compare versions, unless they take
the member off the list or the member was not on it.

*The web session.* The theorems hold for any number of tabs, accounts, calls under way
and changes of passwords, from `WebSessionAssumption` only: `Nobody` is no account and
a tab may make a call. `SessionEndsForCause` is not inductive: that a session may
not be refused while no password was changed needs `Issued`, which says that every
pair stored, or travelling with a call, was issued at a version the account has
reached, and that only a pair is ever refreshed. With it a refresh without a cause
is of a valid pair, so its refusal is excused. `IInv == TypeOK /\ Issued` has one
lemma per action, which cite lemmas about the operators on tabs (`Stored`, `Emitted`,
`LoadMe`). `ShellHasSession` follows because the writing tab renders in the step of
the write and every other tab that is open gets an event; `IdentityIsOfSession`
because a cache is filled by an answer only, and emptied by whatever tells a tab of
a change of the store; it needs that a closed tab holds no call (`ClosedIsIdle`).
`CallsReachRoutes` is no property of a state: `EveryCallReaches` compares the calls of
`api.ts` with the routes of `main.go`, each kept as its source lists them, and shows
that `isRootApiPath` leaves the paths of all calls but one as they are.

*The live map.* The theorems hold for any reports, places, buffer, number of
reconnections, of broadcasts under way, of visits and of faults; no assumption on a
constant is used. They are about `MapSpec`, the map without the other pages, which
`PanelSpec` implements (see below). `MapInv` adds four parts to the types:

- `OneConnection`: who loads, waits for the timer, or is closed has no socket, so
  `connect`, which replaces `ws` without closing it, never replaces one;
- `NothingAhead`: neither a frame nor what is shown is newer than the server's row;
- `ReplacementsAreNewer`: the two things that replace a member, a load and the
  snapshot, are no older than what they replace. It holds because the snapshot is the
  first frame of its stream, and because nothing is received while a load is under way;
- `NewsIsUnderWay`: on an open stream, whatever the row has and the map has not is in a
  frame still to be broadcast or received. It holds because the client is registered
  before its snapshot is read, and it is `SettledViewIsCurrent` when nothing is left.

`MapInvStep` has one lemma per action, which cite lemmas on what each function of
`status.ts` makes of a member (`DerivedMember`, `LocatedMember`, `PresentMember`,
`RefreshedMember`). `LastSeenNeverRegresses` follows from `MapInv` and `OneMember`.
TLC checked every part of `MapInv` first, on a map of its own (1.6 million states).

*The history and the families.* `HistorySpec` and `FamiliesSpec` are these pages without
the others, as `MapSpec` is. The history needs of its constants that `Unset` is no
member; the property is inductive with the types and the facts that an open page has a
hash and loads only when a member is selected, and `SelectStep` proves it once for
every step that ends in `Select`. For the families `Within` says of a query that what
it shows, and what it has read and not yet shown, is among certain values. An answer
that tells of a change starts the list's next run and closes the row (`ListRefetched`),
so nothing read before it can be shown, whatever was under way (`EditAnsweredKeeps`).

*The users, the circle, the account and the photos* have a specification each, too, and
assume of their constants only that there is a family, a role and a name.

- Users: other administrators, family admins and users edit the account beside the
  page, so a row need not be what is stored now. `Known` says what it may be: what
  the account was at some revision, and at the newest one exactly what is stored.
  `ListIsRead` says that of the list's query, and that it holds the page's last call
  unless an edit overlapped with it; `SaveIsAnswered` says that a call's answer is the
  account at that call or later; `RowsFollow` is the property as the induction needs
  it. Of a save whose second call fails the row is still known, but may be older than
  the first call (UsersPage.tsx:275-286 shows neither answer): `halfway` tells this case
  from the others, and section 5 shows it.
- Circle: as for the families, `Within` bounds what is shown and has been read: the
  roster by the last answered edit, the family by the last answered change of who is
  in it, which makes the page begin anew. A rename changes the family's name, and the
  page re-reads the members only: nothing is claimed of the name (section 5).
- Account: `UrlIsHeld`; `OneMutation` (a mutation that awaits a load awaits the one
  that ends it); `PhotoFollows` and `NameFollows`, which say what the load that will
  land brings, because the property says nothing until it has landed.
- Photos: `RevsAreKnown` (nothing known of the photo is newer than the server's row),
  `UrlsFit` and `LoadsFit` (one URL, of what is wanted, as is what may replace it),
  `NewsComes` and `NewestIsAsked` (unless something was missed, the newest revision
  is known or coming, and its photo is held or loaded once it is wanted).

*The bubbles.* `clusterMembers` is two loops, one in the other, which the model writes
as functions of the round (`Rounds`), so that what a loop computes is an ordinary
induction over naturals. That the library's induction theorems are out of reach is no
obstacle: a set of rounds has a least element (`NatSets`), and the first round that
broke the claim would follow one that kept it. `RunsExist` and `Iteration` show that
the functions are what their equations say, `Passed` what one pass over the members
adds, and `GrownGroup` that the loop ends - each pass but the last adds somebody - in
the smallest group that has the seed and all who are near it. `ClustersAreComponents`
says that the clusters are the components of nearness, and `OneBubbleEach` that
expanding and filtering leave each member shown in one bubble. It is proved for any
finite set of members and any positions and zooms of the model.

*The panel.* `PanelImplementsPages` takes each step of `WebPanel` to a step or a
stutter of each page: a page's own steps, its mounting and unmounting by the router,
or a step of another page, which leaves its variables alone. So every theorem about a
page's specification is one about the panel, which `PanelIsCorrect` states. A page's
specification lets it be opened next to others, which the router does not; the map's
also asks that no load of an earlier visit is left (`stale`), as `Drained` does.

*Only model-checked*: the liveness properties (`PendingResolved`, `SelfHeals`,
`AlertArrives`, `Resolved`, `QueueIsDrained`, `DeadSessionEnds`, `RequestsEnd`,
`GoneClientsAreForgotten`, `ViewConverges`, `QuietMembersGoGrey`, `UpdateEndIsSeen`),
because liveness under fairness and ENABLED are beyond the prover; and with them the
update card (`WebUpdates`), of which liveness is all that is stated.

## 7. What is not modelled

- Alerts, limiter, location requests, updater, history, the app's lock:
  planned, see section 2.
- The panel's other cards and pages (SMS gateway, domain, builds, statistics, command
  menu, navigation, theme): forms over one read and one write each, or lists that are
  only read, with no state beyond `useAsync`, which is modelled; and the drawing of
  routes and trails. The history page of members who are no administrators, the
  automatic location requests after a load, the reset of a password on the users
  page, the display of invite codes, invites of a family's row (fetched as its
  members are), the geometry of fanned-out bubbles, and the text of the update's log.
- How the updater keeps its job over its own replacement, and checks for releases:
  `WebUpdates` has a job that runs and ends.
- Two pages of the panel at once: the shell mounts one.
- Statement by statement, of the transactions of `GeofenceConfig`, only `UpdatePlace`
  is modelled; the others are single steps that wait for its locks. That
  `UpdateGeofence` and `UpdatePlace` lock in opposite orders is in the model as
  either of them failing (`UpdateFails`, `PlaceRollback`); the cycle itself is for the
  planned lock module.
- `createEventDeviceRows` runs an INSERT with the SELECT's rows open on the same
  connection (geofence_eval.go:770). What the driver makes of it is outside the
  repository; the model takes the rows as inserted.
- Positions, presence, staleness and place labels in the live list; the admins'
  stream, which is the same hub with one group; pongs; the end of `FamilyService`.
- Age limits (48 hours), sharing switches and numeric validation of fixes; the two
  isolates' cached copies of the preferences, which the model takes as one store.
- Duplicate rows of `locations` by two deliveries of a batch are counted but no
  property is about them.
- Invites' expiry and creators, e-mail uniqueness (two accounts are two ids, drawn by
  the database), and the role `child`, which no condition tells from `member`.
- Registration's TOTP and password hashing, rate limits of the auth routes.
- Screens, pictures, administration statistics, audit log, releases and deployment:
  input and output without an order to get wrong, or third-party code.

# A TLA+ verification of edulution-ui

edulution-ui is a portal for schools: a React frontend, a NestJS API (`apps/api`)
and shared types (`libs`). The API keeps its documents in MongoDB and its caches
and job queues in Redis, and talks to Keycloak, LDAP, IMAP, WebDAV, the linuxmuster
API (LMN) and others. This directory holds TLA+ models of the parts of the API
where concurrency, failures and stale reads decide whether the program is
correct, the TLC configurations that check them, and proofs by TLAPS.

The API is one Node.js process. Code between two `await`s runs without
interruption, so what interleaves is: handlers at their awaits, timers, socket and
stream events, commands that databases and other systems serve in an order of
their own, and restarts. A step of every model is one such turn of the event loop,
or one command served elsewhere.

Contents: [1 Inventory](#1-inventory), [2 Modules](#2-the-modules-and-the-code),
[3 Runs](#3-runs-and-what-they-show), [4 Fairness](#4-fairness),
[5 Proofs](#5-proofs), [6 Findings](#6-findings),
[7 Limits](#7-what-is-not-modelled), [8 Plan](#8-plan), [9 How to run](#9-how-to-run).

## 1 Inventory

Paths are below `src/apps/api/src/` unless they begin with `src/`. `PROJECT.json` lists the same
components with their files, and every hazard at its line.

### Components with state of their own that outlives a request

| Component | State | Operations | What is hard | What makes it correct |
|---|---|---|---|---|
| Whiteboard sync, `tldraw-sync/` | `roomsMap`, `roomLocks`, one `TLSocketRoom` per room, documents in Mongo | connect, load under a lock, edit, leave, save on an interval | two loaders of one room; a room closed and reopened between two passes; saves nobody awaits; restarts | one live room per id; an edit is only lost where a crash, a failed or reordered save, or a reopening before the last save is stored explains it |
| SSE hub, `sse/` | `userConnections` (username to Subject), debounced list of usernames in the cache | subscribe, close, restore | close events that come late; Subjects shared by tabs; a write to the cache that is rejected; a restored list that is old | no completed Subject in the map; one username per Subject; every open response gets the events |
| Mail IDLE, `mails/mail-idle.service.ts` | `idleConnections`, timers for idle, reconnect and grace; per connection the last count and one pending range | start, error, reconnect, restart, presence events, exists events, fetch | timers and late events of clients that left the map, or did not enter it yet; two starts at a time; mails that come during a fetch | the mapped client was established and is renewed; retries end; no grace timer for a user who is online; new mails are announced |
| Notifications, `notifications/` | two collections without a transaction | upsert, sync of recipients, rollback, cascades, deletions, read marks, expiry, sweep | requests between two commands; half of a deletion; a bulk write that fails in part and is only logged | deleted stays deleted; recipients are what the last upsert said; orphans go |
| LDAP sync, `ldap-keycloak-sync/` with `groups/` | group list and member caches in Redis, flags of both services, Keycloak's groups | sync with a task per group, poll of Keycloak, direct updates, which create a missing group | parallel tasks that write the whole list; polls begun earlier; failed requests that are only logged | Keycloak is what the directory says; the cache is what Keycloak holds; admin groups stay |
| Surveys, `surveys/` | a survey with lists of participants and answers; an answer document per submission | submit, update, edit, delete | lists written back as a whole by whoever read them earlier | no second answer where one is allowed; listed answers exist; answers do not outlive the survey |
| Parent child pairing, `parent-child-pairing/` | codes under two cache keys, pairings, relations in LMN | create code, pair, accept, reject, set to pending | accept against reject; a save that fails after the LMN call; an accepted pairing set to pending; two calls of one user for a code | status and LMN agree; an old code does not resolve |
| Conferences, `conferences/` | `isRunning`, mirrored from BigBlueButton; a notification | create, start, stop, join, remove, list, poll | a check that is stale when acted upon; a start that ends after the removal | the mirror follows the meeting in the end; the notification goes with the conference |
| Bulletins, `bulletinboard/`, `bulletin-category/` | bulletins, a folder of temporary attachments, permission lists of categories with a cache, positions of categories | create, update, reorder, delete | editors sharing one folder; a list worked out before a change and cached after it; positions written one by one | attachments of a bulletin exist; a cached list is the current one; positions stay distinct |
| Request queues, `groups/queue/`, `lmnApi/queue/`, `notifications/queue/`, `queue/` | BullMQ jobs | enqueue, try, retry, give up | retries of what was done; a token that expires inside a retry | an accepted request is answered once; an idempotent one has its effect |
| App configuration, `appconfig/` | apps with their positions in the menus; a map of allowed groups in memory | insert, update, patch one field, delete, read the map anew | positions read before, written after others; several commands per change; a patch that shifts nothing and reads nothing anew; pages that show apps that are gone | the positions are 1, 2, ... without a gap; the map is what is stored |
| Access control, `common/guards/`, `auth/access.guard.ts` | cache of decisions taken from that map | decide, expire, clear | answers that replace the map in another order than they were asked for | a decision is the one the stored configuration asks for |
| Public shares, office tokens, QR logins, TOTP | single documents or short-lived entries | create, use, expire | expiry | read and written by one command each |

### Components without it

Requests of these are answered from another system or from one document and leave no state between
requests: Mails (IMAP commands), LMN API, file sharing, WebDAV, office editors, Docker, Veyon and VDI,
WireGuard, license, webhooks, global settings, users and preferences, file system,
metrics, health, mobile app, migrations (one after another before requests are served). The frontend
mirrors what the API returned last; two parts of it matter here, the SSE client's reconnects and
the survey editor, which writes back the lists it was opened with.

### How they interact

- `SseService` emits `SSE_USER_CONNECTED` and `SSE_USER_DISCONNECTED` synchronously; `MailIdleService`
  listens. The module `MailPresence` composes the two.
- Bulletins, surveys, conferences and mails call `NotificationsService.upsertNotificationForSource`
  and `cascadeDeleteBySourceId`; `Notifications` leaves the caller open (any source, any recipients).
- `LdapKeycloakSyncService` switches the polling of `GroupsService` off and on by an event
  (`handleLdapSyncActive`), reads its caches and writes them; both call Keycloak through a queue.
  `LdapGroupSync` models them as one module, since they share every variable.
- `ParentChildPairingService` reaches LMN through `LmnApiRequestQueue` only. `ParentChildPairing` EXTENDS
  `LmnRequestQueue`: every step of a job there is a step of the queue, and a call waits for the queue's outcome.
- `LdapKeycloakSyncService` and `GroupsService` reach Keycloak through `KeycloakRequestQueue`. What they rely on is
  `RequestPromise`: a result means that the request was performed, an error means nothing. `LdapGroupSync` takes a
  request as performed or failed in one step.
- After an insertion, update or deletion `AppConfigService` reads the configuration anew and emits `APP_ACCESS_MAP_UPDATED`;
  `AccessGuard` clears the decisions of all guards within that call. After `patchSingleFieldInConfig` it does neither.
  `AppAccess` models all of these.
- Most changes are announced to the users they concern by SSE events. The models leave the events
  themselves out; whether a response is reached is a property of `SseHub`.

## 2 The modules and the code

Each module has one `VARIABLE` per piece of state and one action per operation or turn; `map` in
`PROJECT.json` names the lines of every definition. Definitions marked "Faulty variant" are plausible bugs
(a dropped guard, a missing reset, a swapped difference); replacing the definition they vary by them must
break the property they belong to, which shows that the property depends on that code.

| Module | Code | State and actions |
|---|---|---|
| `SharedWhiteboard` | (abstract) | What the whiteboard promises those who draw: a room id is one document, with its members, whether it is shared, and the versions the store may answer with. `Join`, `Open`, `Draw`, `Leave`, `Keep`, `LoseMemory`. |
| `TldrawRooms` | `tldraw-sync/tldraw-sync.service.ts`, `tldraw-sync.gateway.ts` | `roomsMap`, `roomLocks`, `socketRooms`, `mongo` and the saves under way. `HandleConnection`, `LockReleased` are `makeOrLoadRoom` before and after waiting for the lock; `FindRoom`, `FindRoomFails`, `RoomLoaded` the load; `Edit` is `onDataChange`; `SessionRemoved` is tldraw's callback that closes an empty room; `HandleRoomPersistence` the interval; `SaveApplied`, `SaveFails` Mongo; `Crash` a restart. A document is the set of its edits. Implements `SharedWhiteboard` (`RoomIsOneDocument`): members are the connections with a session, the document is that of the mapped room, versions are what is stored, on its way or just read (`MembersOf`, `DocumentOf`, `VersionsOf`). |
| `SseHub` | `sse/sse.service.ts` | `userConnections`, the completed Subjects, the responses with "ended" between the completion and the close event, the debounce timer, the write under way and the cache. `SubscribeNew`, `SubscribeShared`, `ResponseClosed`, `PersistConnections`, `CacheStored`, `CacheFails` (a rejected `cacheManager.set`, called with `void` and not retried), `HubRestart`. |
| `MailIdle` | `mails/mail-idle.service.ts` | The three maps and the ImapFlow objects; an object carries what its awaiting caller does next (`after`). One action per awaited result, timer and event: `StartIdle`, `ConnectSucceeds`, `ConnectFails`, `ErrorWhileConnecting`, `ConnectionError`, `CleanedUp`, `ReconnectTimer`, `IdleTimer`, `GraceExpires`, `HandleUserConnected`, `HandleUserDisconnected`. `ConnectSucceeds` maps the client without asking whether its end was handled, as line 244 does. |
| `MailPresence` | both of the above | Composes `SseHub` and `MailIdle` with `INSTANCE`: the emitter calls the listener within the call that emits, so a subscribe or close and its handler are one step. |
| `Notifications` | `notifications/notifications.service.ts` | The two collections and, per request, the next Mongo command with what was found. Any command may be the last (`Abort`); `SyncAdd` may insert only some of the new entries and go on, as after the `MongoBulkWriteError` caught at line 314; `DeleteOwn` and `DeleteAllOwn` are the deletion by type and of type ALL; expiry, read marks and the nightly sweep run beside. |
| `LdapGroupSync` | `ldap-keycloak-sync/ldap-keycloak-sync.service.ts`, `groups/groups.service.ts` | Directory, Keycloak, the cached list and members, the flags, the calls of `sync()` by phase with one task per group, the poll by phase with one task per group. `Task*` is one group of a sync, `Sync*` the call around them, `Poll*` `GroupsService`, `LdapChange` the directory, `Direct*` the direct updates: `DirectCreate`, `DirectSearch`, `DirectAddList` make a group the cached list does not have, then `UpdateMembership` or `Reconcile` tells Keycloak. |
| `MailFetch` | `mails/mail-idle.service.ts` | The other half of an idle connection: the inbox, the count the service knows, the range being fetched and the one range remembered. `Arrive`, `DeleteMail` are the server's; `HandleExists`, `Fetched`, `Announce`, `AnnounceFails`, `Reopened` the service's. |
| `RequestPromise` | (abstract) | What a request queue promises its callers: outcomes, and the attempts whose effect took place. |
| `LmnRequestQueue` | `lmnApi/queue/lmn-api-request.queue.ts` | Jobs with attempts, the HTTP request of each attempt, what the caller is told. `Enqueue`, `Send`, `Answered`, `Refused`, `TimedOut`, `PerformRequest`, `LoseRequest`, `QueueRestart`. Implements `RequestPromise` (`KeepsPromise`). |
| `KeycloakRequestQueue` | `groups/queue/keycloak-request.queue.ts` | The same with the bootstrap of the token, the token all jobs share, and the second request inside an attempt. Implements `RequestPromise` (`KcKeepsPromise`). |
| `ParentChildPairing` | `parent-child-pairing/parent-child-pairing.service.ts` | EXTENDS `LmnRequestQueue`: status documents, LMN's relations, the calls of `updateParentChildPairingStatus` between reading, LMN and saving, to accepted, rejected or pending; the last asks LMN nothing. |
| `PairingCodes` | the same service | The two cache entries of a code and the calls that read, drop and store them one by one. |
| `Conferences` | `conferences/conferences.service.ts` | Documents with `isRunning`, BigBlueButton's meetings, notifications, and one record per request and per pass of the interval. `AskBbb`, `ChangeBbb` are BigBlueButton's answers; `UpdateFlag`, `Notify`, `DeleteConference`, `Cascade` what follows them. |
| `CategoryPermissions` | `bulletin-category/bulletin-category.service.ts` | Categories, who is permitted, the cached lists, and the calls that work a list out and store it later. |
| `BulletinAttachments` | `bulletinboard/bulletinboard.service.ts`, `filesystem/filesystem.service.ts` | Bulletins with the images they list, the temporary and the permanent folder, the dialogs. `DeleteUnused`, `ScanTemporary`, `SortFile`, `SortEnds`, `StoreBulletin` are one save; `WipeFiles`, `EraseBulletin` one removal. |
| `AppPositions` | `appconfig/appconfig.service.ts`, `appconfig.schema.ts`, the settings pages | The positions of the stored apps and, per request, the page it is sent from and the next Mongo command with what was read. `CountApps`, `InsertApp` are an insertion; `ReadForUpdate`, `ShiftApps`, `WriteApp` a move; `ReadForDelete`, `EraseApp`, `CloseGap` a deletion (`bulkWrite` is ordered, not atomic); `PatchPosition` is `patchSingleFieldInConfig`. |
| `AppAccess` | `appconfig/appconfig.service.ts`, `auth/access.guard.ts`, `common/guards/` | The apps stored as open to a user, the map in memory, the cached decisions, and the calls that read the configuration after a change and replace the map; `PatchAccessGroups` is the change nobody reads. |
| `Surveys` | `surveys/surveys.service.ts`, `survey-answers.service.ts`, the survey editor | The survey, its answer documents, the submissions and editors with the copy of the lists each holds, deletions between their two commands. |

`MC*` modules EXTEND them with the symmetry sets; `*Proofs` modules hold the theorems. `MCServices` holds the small
services that share no variable (pairings with the LMN queue, codes, the Keycloak queue, permissions, attachments, mail
fetch, positions of apps, access to apps): its variable `part` says which one a behaviour is about, so that their states add up instead of multiplying.

Abstractions to know when reading the modules:

- *Names of objects are reused* (`Instances`, `Subjects`, `Imap`): a name is free when nothing refers
  to its object. The number of names bounds how many objects are alive at a time, not how many there ever were.
- *Several promises settled in one turn* are one step: the continuation of an `await` on something already
  resolved runs before any other event.
- *A failure* is a choice of the step that may fail. Where a failure is caught and logged, the model
  continues; where it propagates, the call ends with what it wrote so far.
- *History.* `clean` and `quiet` in `LdapGroupSync`, `sent`, `stored`, `issued`, `loaded`, `opened` and the numbers of saves in `TldrawRooms`,
  `unsaved` in `SseHub`, `failed` in `Notifications`, `before`, `revived`, `aborted` and
  `strays` in `Surveys`, `disturbed` and `reopened` in `ParentChildPairing`, `overlapped` in `PairingCodes`, `unswept` in `Conferences`,
  `outdated` in `CategoryPermissions`, `taken` in `BulletinAttachments`, `disarranged` in `AppPositions`, `unread` in `AppAccess`, `arrived`, `skipped` and `interrupted` in
  `MailFetch`: no guard of the service's steps reads them, the properties do. Where a property names an exception ("unless calls
  overlapped"), the history variable marks exactly the object concerned and is cleared by the operation that repairs it, so
  that the property also says what repairs it.
- *A folder gone through with `Promise.all`* (`SortFile`) reports its failure when all files were tried; the code reports
  it at the first, while the others go on. The dialog is told the same.

## 3 Runs and what they show

| Run | Instance | Properties | What it shows |
|---|---|---|---|
| `tldraw_rooms` | 1 room, 3 connections, 2 room objects, 2 edits, 1 restart | `TypeOK`, `ChangesMarked`, `RoomIsOneDocument`, `EditsVanishOnlyInWindows`, `WaitersServed`, `ClosedRoomsLeave` | Everybody connected to a room id draws on the one document of it, which comes back as a version of itself; what Mongo was not given is marked; an edit is lost only in the five ways `LossWindow` lists; everyone waiting for a lock is served, even when loads fail; closed rooms leave the map. |
| `sse_hub` | 2 usernames, 3 responses, 4 Subjects, 1 restart | `HubTypeOK`, `MappedSubjectsLive`, `SubjectsPrivate`, `CacheCatchesUp` | The map never holds a completed or a foreign Subject; a change of it has a timer or write that will store it, unless the last write was rejected. |
| `sse_reached` | the same | `AllSubscribedReached` (violated) | See findings. |
| `mail_idle` | 2 users, 2 clients, cap 1, 2 attempts | `IdleTypeOK`, `MappedConnectionsRenewed`, `LeakedOnlyByOverlap`, `RetriesEnd` | The mapped client was established, is not being closed, and has its idle timer armed, so that a dead one that entered the map is replaced; a client is leaked only when two creations overlap; with the server down, reconnecting stops. |
| `mail_presence` | 1 user, 2 responses, 2 clients, 1 restart | `GraceOnlyWhenOffline` | Whoever is back has no grace timer running, also after a restart that restored old Subjects. What the other two runs check holds here too (`PresenceComposes`). |
| `notifications` | 2 requests, 2 notifications, 1 user | `NotificationsTypeOK`, `DeletedStaysDeleted` | No interleaving or crash brings a deleted notification back. |
| `notifications_alone` | 1 request, 2 notifications, 2 users | `SyncDelivers`, `OrphansSwept` | An upsert leaves no entry but those of its recipients, and misses only those Mongo did not insert in that sync; entries without a notification are swept. |
| `notifications_orphans` | 2 requests, 1 notification, 2 users | `OnlyOrphansCleaned` (violated) | See findings. |
| `ldap_sync` | 2 groups (one admin), 1 user, 1 call, 1 failure, 1 change or direct update | `GroupSyncTypeOK`, `CacheFollows`, `SyncDelivers`, `AdminGroupsKept` | From every state of directory and Keycloak: an undisturbed sync delivers and leaves the cache true; admin groups stay. |
| `surveys` | 3 submissions of a user or guests, 1 editor, 1 deletion | `SurveysTypeOK`, `SecondAnswerAllowed`, `ListedAnswersExist`, `LostOnlyByOverlap`, `OrphansOnlyByOverlap` | When a survey forgets a participant, lists an answer that is gone, or leaves one behind. |
| `conferences` | 1 conference, 3 requests, its interval, 1 restart | `OrphanOnlyByOverlap`, `MirrorRepaired` | Whatever late answers write, `isRunning` follows BigBlueButton in the end; a notification outlives its conference only when a start, a failure or a restart came between. |
| `services` | 2 pairing calls and attempts on 1 pair; 2 users, 3 codes, 2 calls; 1 Keycloak request with 2 attempts; 1 category, 2 members, 2 calls; 2 bulletins, 2 editors, 2 images; 5 mails, a feed of 2; 2 apps, one of them a default, 2 requests or pages; 2 apps and 2 changes for the guards; 1 stalled run per job | `TypeOK`, `AgreeUnlessDisturbed`, `OldCodesOnlyByOverlap`, `ListCurrentUnlessOutdated`, `ImagesLostOnlyByOthers`, `AppsArranged`, `DecisionsFollowConfig`, `NewMailsAnnounced`, `KeepsPromise`, `KcKeepsPromise` | When pairing and LMN relation differ, an old code resolves, a permission list is old, a listed image is missing, the positions of apps have gaps, a guard decides by an old configuration, or a new mail is passed over; and that both queues implement `RequestPromise`. |

Bounds and why they are enough:

- *Rooms.* Three connections are one loader and two waiters, or a session, a leaver and a newcomer who reopens; two room
  objects are one that was closed and its successor; two edits let an older save overwrite a newer. One room id: the
  safety properties are proved for any number of them, and liveness of one lock does not depend on another.
- *Event streams.* Three responses are two that share a Subject and one that reconnects before their close
  events; two usernames show sharing between users; four Subjects are one per response and one restored.
- *Mail.* Two clients are two overlapping creations of one user, or one connection of each of two users; the cap of one is
  reached, and so is `MaxReconnectAttempts`. More clients than connections are in scope of the theorems. Of five mails one is old;
  the others make a fetch, a remembered range, the range that overwrites it, and one longer than the feed of two.
- *Notifications.* Two requests interleave at every command; two ids show a second notification of a source.
  The recipients of an upsert need two users, and there one request at a time suffices, since
  `SyncDelivers` is about an upsert nothing interferes with. One source: requests of two sources touch
  different documents.
- *Groups.* Two tasks interleave at every write of the list; initial states are all pairs of directory and
  Keycloak; one failure may hit any request. One call of `sync()`: overlapping calls are covered by the
  theorem `AdminGroupsStay` for any number, and are excluded by the `clean` of the two other properties.
- *Surveys.* Three submissions are an accepted one and two that overlap; the editor is opened and saved at any time.
- *Conferences.* Three requests are a start, a removal and one more late answer; the interval passes beside them.
- *Pairings.* Two calls overlap on one pair; two attempts are a retry, and the last; one stalled run is a job that is run
  again after a restart. A second pair touches other documents and other relations.
- *Codes.* Two calls of one user or of two; three codes are two that are stored and one that is fresh.
- *Keycloak requests.* One request goes through every order of sends, refreshes, timeouts and restarts; requests share
  the token only, which may run out between any two steps anyway.
- *Bulletins.* Two dialogs on one bulletin or on two, each image in one of them or in both; two permission calls on one list.
- *Apps.* Two apps change places, one is deleted and created again, and a page shows one more than there are. Positions further
  apart need a third: the theorem covers any number. Two calls are two answers that replace the map in the wrong order.
- *Restarts, failures and changes* are bounded at one: each is an event after which the rest of the model runs
  on from an arbitrary reachable state. Two failures in a row are in scope of the theorems, which bound nothing.

`CHECK_DEADLOCK FALSE` is set for `surveys`, `conferences` and `services`: submissions, editors, conferences and image
files are made once, so these instances come to rest when all have ended. Symmetry is used in safety runs only;
in `services` the calls and requests are interchangeable.

## 4 Fairness

Only the runs with a liveness property assume any: `tldraw_rooms`, `mail_idle`, `notifications_alone`, `conferences`.

- `TldrawRooms!Fairness`: the interval timer ticks; `findOne` is answered, and while saves are under way one of them is, with success or
  failure (weak). `LockReleased` is strong for each connection: the service awaits the holder's promise, waiters are
  woken in order before any newcomer's event is handled, so no connection is passed over for ever. The
  model's lock is a set that newcomers may take first, hence strong rather than weak fairness.
- `MailIdle!IdleFairness`: connects end (`connectionTimeout`), logouts end, armed timers fire (weak). No
  success is assumed, and `RetriesEnd` is conditional on the server being down and nobody calling `startIdle`.
- `Conferences!ConfFairness`: a request or pass that has begun goes on to its end, since BigBlueButton and Mongo answer or
  the connection to them fails (the requests to BigBlueButton set no timeout of their own); the interval gets to each conference that is marked as running (weak).
  `MirrorRepaired` assumes that the meeting has ended for good; nothing is assumed of users, who may go on asking.
- `Notifications!FairSpec`: the cron job runs and its `deleteMany` is eventually answered (weak). Nothing is
  assumed of the requests.

## 5 Proofs

Everything listed here holds for all values of the constants that satisfy the named assumptions (mostly that
`None` is not a member of the other sets, that bounds are natural numbers, and that the mails found at the start are finitely many). TLC evaluates these assumptions in every
run of the module.

| Theorems | Argument |
|---|---|
| `TldrawRoomsProofs`: `TypeCorrect`, `LoadersExclude`, `RoomsAreShared` | `OneSharedRoom` is not inductive alone: a loader overwrites the map entry, so one must know that a room id whose lock is held has no open room. `RoomInv` adds `LockedNotOpen` and `SingleLoader`; the second look at the map inside the lock is what keeps it. |
| `ChangesAreMarked`, `DropsAreIssued` | `StoreInv` adds `MappedDistinct` (two ids never share a room object): without it an edit could mark the wrong entry. A dropped room was then either unmarked, hence handed over before, or saved in the same pass. |
| `EditsVanishInWindows` | From `StoreInv`: what is stored for a room id, in its room or on its way changes with few steps; each either keeps an edit somewhere (`EditKept`) or is one of the cases of `LossWindow`. For a save that is applied, `HistoryInv` says what the numbered saves of a room id contain: a room contains what it was loaded with and all it has sent, so a save that is neither overtaken nor from a room that read too early overwrites only what it contains itself. |
| `WhiteboardShared` | The refinement, from `StoreInv`. For each room id what the abstract variables become is stated of its connections, its mapped room and its versions (`SameRoom`, `OneClientSeen`); then every turn of the service is an abstract step or changes nothing (`LookupSeen`, `LoadSeen`, `EditSeen`, `SessionEndSeen`, `PassSeen`, `SaveSeen`, `RestartSeen`). `LockedNotOpen` makes a load an `Open`; `MappedDistinct` and `OneSharedRoom` make the sessions of a room object the members of its id (`SessionsAreMembers`), so that an edit reaches no other document and a room closes with its last member. |
| `SseHubProofs`: `HubTypeCorrect`, `SubjectsStayLive`, `SubjectsStayPrivate` | `HubInv` is the conjunction: liveness needs privacy, since a close handler completes its Subject and deletes only the entry of its own username. |
| `ChangesReachCache` | `CacheInv` adds that the timer is armed while a write under way is older than the map. The third way is `unsaved`: the last write was rejected, and every later change of the map arms the timer again. |
| `MailIdleProofs`: `MappedStayRenewed`, `IdleTypeCorrect` | `IdleInv` adds to the types that the continuation of `createIdleConnection` carries an attempt that may be made; beyond the last only `scheduleReconnect` sees the number. That the end of a mapped client was not handled yet does not hold: line 244 maps a client whose error came just before. What holds is that the timer that replaces it is armed. |
| `LeaksNeedOverlap` | By actions (`NobodyLeaks`): whatever leaves the map is logged out in the same step, but for the one that a second connect replaces. |
| `MailPresenceProofs`: `GraceOnlyOffline` | `PresenceInv`; no step of the mail connections alone starts a grace period, and each handler runs within the step that changes the map. |
| `PresenceComposes`, `PresenceKeepsHub`, `PresenceKeepsIdle` | Every step of the composition is a step of the hub, or leaves it alone, and likewise of the mail connections, since the handlers are called with usernames that `PresenceInv` knows. The theorems about each module are then cited for the composition, through instances of their proof modules. |
| `NotificationsProofs`: `NotificationsTypeCorrect`, `DeletedStay` | `IdsUsed`: entries, requests and the sweep speak of ids that were created, and a document that exists has a used id; only `Create` brings one into existence, with an unused id. |
| `AloneDelivers` | `DeliveryInv` follows one request with `Stands`: before, between and after the commands of the sync the entries are what it found, then what it removed, then what it added, without those whose insertion failed (`failed`). |
| `LdapGroupSyncProofs`: `GroupSyncTypeCorrect`, `AdminGroupsStay` | `NoAdminDoomed`: no task about to delete is one of an admin group, whatever the lists it was computed from looked like. |
| `CacheIsFollowed`, `SyncDoesDeliver` | `SyncInv`: an undisturbed call is alone (`CallStands`), its tasks go from directory, Keycloak and cache as they are (`TasksStand`), the updates collected are the difference between cache and directory (`UpdatesStand`), and what is left when they are applied is to be deleted (`DeletionsStand`). |
| `SurveysProofs`: `SurveysTypeCorrect`, `SecondAnswersAreAllowed`, `ListedAnswersDoExist`, `LossNeedsOverlap`, `OrphansNeedOverlap` | All rest on `History` (what began before what). `CreatesFirst`: a submission past the look-up had no answer of its user among those that ended before. `ListsBacked`: not only the survey but every copy a submission or editor will write back lists existing answers. `AcceptedKnown`: every copy taken after an acceptance shows it, unless it was overwritten. `DeletionComplete`: whoever may still create an answer was under way at the deletion. |
| `ServiceProofs`: `LmnQueueKeepsPromise`, `KeycloakQueueKeepsPromise` | The refinements. `QueueInv` and `KcInv`: the attempts still to come have left no request behind, so no send hides one that was performed. With it every step of a queue is a step of `RequestPromise` or changes nothing it speaks of. |
| `PairingsKeepPromise` | Every step of `ParentChildPairing` is a step of its queue or leaves it alone, so the promise holds where it is used. |
| `PairingsAgree` | `PairingInv`: `AloneInv` says what a call knows that nothing interfered with, `CalmInv` what is left of a call that is over: a retry or a late request only repeats what was already done. `Agree` is "accepted exactly if LMN has the relation", but for a pairing made pending from accepted (`reopened`), which has the relation and is not accepted. |
| `OldCodesGone` | `CodesInv`: the codes of a user whose calls do not overlap are `Tidy`: one call at a time, which knows the user's code and removes its second entry before it stores a new one. |
| `ConferencesTyped`, `OrphansOnlyByOverlap` | `ConfInv`: passes of the interval never reach the steps of requests (`PassOnly`), and a start of a removed conference was noticed when it was removed (`StartNoticed`). |
| `ListsCurrent` | `PermInv`: what a call is about to store is current unless a change was noticed since it read (`ReadCurrent`). |
| `ImagesLostOnly` | `ImagesInv`: an image belongs to one bulletin (`OwnersDiffer`); what a dialog has in its content is in a folder or known to be taken, and nothing of it is left in the temporary folder when all files were gone through (`EditorInv`). |
| `MailsAnnounced` | `FetchInv`: while nothing is deleted and nothing fails, the mails known at first and those told of are the first ones of the inbox (`Undisturbed`), the ranges fetched or remembered lie above the former and within the latter (`Within`), and every new mail told of is announced, skipped, or in one of those ranges (`NoneForgotten`). Ranges are positions, so the proof rests on lemmas about the number of mails up to a mail (`PositionsOrdered`, `PositionBounds`). |
| `PartsByThemselves`, `PartsTyped` | Every step of `MCServices` is one of the part it is about and leaves the variables of the others alone (`PartsStepAlone`), so each part behaves as its own specification says, and what is proved of it holds side by side. |
| `AppsStayArranged` | `PosInv`: at most one call acts unless the positions are given up (`disarranged`), what it has read is still so (`StillSo`), and while it is halfway it is the positions *after* its last command that have no gap (`After`). A patched position gives the positions up. `EndArranged`, `MoveArranged`, `DeleteArranged` are the three changes as facts about numberings. |
| `DecisionsFollow` | `AccessInv`: decisions are those of the map, and the map is what is stored, or a call is about to make it so, or it is known to be older (`unread`: an older answer came last, a read failed, or the groups were patched). |

Only model-checked: the liveness properties (`WaitersServed`, `ClosedRoomsLeave`, `RetriesEnd`, `OrphansSwept`,
`MirrorRepaired`), since the prover reasons neither about fairness nor about `ENABLED`, and the two violated properties of
section 6, which the runs refute. Every other property of a run is a theorem. `LoadersExclude`, `RoomsAreShared` and
`DropsAreIssued` are proved only: the first two are parts of the invariant the refinement rests on, and a
second room for one id (`MakeOrLoadRoomUnchecked`) breaks `RoomIsOneDocument` in the run. No module declares a recursive operator.

## 6 Findings

1. *A response that stays open gets no more events* (`sse_reached`). `sse.service.ts:113` deletes the entry of
   the username, not the entry that holds its own Subject. Two tabs share a Subject; the first close completes it and
   ends the second response; its client reconnects before the close event of that response is handled; the event then
   deletes the new Subject. The test `sse.service.spec.ts:138` expects an event to reach all subscribed users.
   The frontend recovers when its heartbeat monitor misses the pings.
2. *A deletion removes somebody else's notification* (`notifications_orphans`).
   `notifications.service.ts:588` looks up notifications without entries and line 608 deletes them by id; an
   upsert of the same source that inserts an entry for another user in between loses its notification. The run has two users: the entry
   that is left without its notification belongs to neither the one who deleted nor anybody who asked for a deletion, though the method and
   the test `notifications.service.spec.ts:311` speak of cleaning up orphans.

Other behaviour that may surprise, and that contradicts no document: two overlapping `startIdle` calls leave a
connected client without an entry (`LeakedOnlyByOverlap` admits exactly this); a submission or an editor save that
overlaps another erases its participant from the survey (`LostOnlyByOverlap`); the survey editor recreates a survey
that was deleted during the save (`revived`); edits of a whiteboard that is reopened within the 5 s of the interval, or
before the save of the closed room has reached Mongo, are lost (`EditsVanishOnlyInWindows`); a rejected write of the list of users
is not retried, so the cache stays behind until the map changes (`CacheCatchesUp`; Node may end the process on the unhandled
rejection, which is a restart, and the model lets it do either); a mail client whose error is handled between `mailboxOpen` and its
continuation is mapped all the same, and announces nothing until its idle timer replaces it (`MappedConnectionsRenewed`); after a
`MongoBulkWriteError`, which is logged only, recipients of an upsert have no entry (`SyncDelivers`); after a failed Keycloak request the cache claims a membership that does not
exist (`CacheFollows` requires that nothing failed).

Likewise, each of these is the exception its property admits and no more: a pairing is "accepted" without a relation in
LMN, or the other way round, after overlapping updates, a failed save or a lost answer, and the next update that
asks LMN repairs it, and an accepted pairing that is set to pending keeps its relation, also when it is rejected afterwards
(`AgreeUnlessDisturbed`); a code stays usable after a refresh when two calls for a code overlap
(`OldCodesOnlyByOverlap`); a permission list worked out before a change may be cached after it, until it expires or is
dropped (`ListCurrentUnlessOutdated`); saving one bulletin deletes from the shared temporary folder what another
editor has just uploaded (`ImagesLostOnlyByOthers`); mails of a range that is overwritten in `pendingFetch` are never
announced (`NewMailsAnnounced`); a start that ends after the removal of its conference leaves a notification
(`OrphanOnlyByOverlap`); two changes of apps that overlap, one that ends between its commands, a patched position, or a page that still shows a
deleted app leave gaps in the positions, which nothing repairs (`AppsArranged`); and when the configuration was read twice at a
time and the older answer came last, or a read failed, or `accessGroups` were changed by `PATCH`, the guards decide by the old one until the next change or restart
(`DecisionsFollowConfig`).

## 7 What is not modelled

- *Inside modelled components:*
  - whiteboards: the activity log, the permission to enter, the messages before the load;
  - event streams: `sendEventToUsers` and pings;
  - mails: the master key, flag events, the feed. `idleConnections` bounds the mapped connections, not the connects under
    way (`mail-idle.service.ts:144`), and a user who leaves during a reconnect gets no grace timer (line 481): the models have both
    behaviours, and no document says otherwise, so there is no property about them;
  - notifications: listing queries, push debouncing, the status field. Two upserts of one source that both find nothing create two
    notifications (`notifications.service.ts:229`, there is no unique index): the model has it, no property forbids it;
  - the LDAP sync: paging, nested groups, attributes beyond whether they are written, school caches, and two entries with
    the same CN (`ldap-keycloak-sync.service.ts:206`), which a path per group excludes;
  - surveys: questions, templates, attachments, and choice limits, which the code does not apply when answers are written
    (`survey-answers.service.ts:106`);
  - the Keycloak queue: `fetchAllPaginated`, a loop of requests each of which is one in the model;
  - pairings: the listings, and how a code becomes the other user of a pairing;
  - conferences: joining, passwords, attendees, and the configuration of the server;
  - bulletins: text, visibility, dates, and their notifications (which are `Notifications` with any source); the positions of
    categories, written one by one; `resolveUsersWithPermission` reads the category and its groups in one step of the model.
  - app configuration: migrations, which run before requests are served, proxy files, the landing page, and what `patchSingleFieldInConfig` does to fields other than
    `position` and `accessGroups`;
  - access control: administrators, who are always let in, and changes of the groups of a user, which come with a new token.
- *Requests that keep no state* (the components without state above): one request to another system or one command
  each; there is nothing to interleave. They, the pages of the frontend and the shared types make up most of the repository.
- *The push queue.* Jobs are added and never awaited; a job with one failed chunk is retried as a whole, so the devices of
  the other chunks get the push twice (`push-notification.queue.ts:127`). No state of the system depends on it.
- *Other systems* (Mongo, Redis, BullMQ, Keycloak, LMN, BigBlueButton, LDAP, IMAP, tldraw's `TLSocketRoom`) appear as far as the
  code in `src/` uses them: a command is served atomically, at some time, possibly never. BullMQ runs a stalled job again once
  (`MaxStalls`) and keeps jobs over a restart.
- *Several API processes.* The maps, locks and timers of the services are in the memory of one process, and nothing in
  the repository coordinates a second one.

## 8 Plan

What is left, in order of importance:

1. `FileJobs`: a queue and worker per user with progress events; `SseClient` composed with `SseHub`: is a client that keeps
   reconnecting eventually reached?
2. `CategoryPositions`: positions that stay distinct when one of several updates fails.
3. `LdapGroupSync` takes its failures from `KeycloakRequestQueue` instead of a step of its own, and gets a liveness run for the
   repair of list and cache by polling, with the two timers.
4. Abstract specifications: `Presence` (who is online) implemented by `SseHub` up to finding 1; `CachedAnswer` (a cached
   answer is a true one, or one whose reading a change overtook), to be implemented by `CategoryPermissions` and `AppAccess` alike.

Modules to be proved about take their parameters as CONSTANTS with named assumptions and use no recursive operators.

## 9 How to run

    tlc -workers 2 -config MCTldrawRooms.cfg MCTldrawRooms
    tlapm TldrawRoomsProofs.tla

and likewise for the other configurations and proof modules. Each run takes at most three minutes.

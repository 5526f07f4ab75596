# Verification of kanada-auth-gateway in TLA+

The program is a Node.js process between browsers and one iRidium server. It
logs users in (password, then TOTP or a recovery code), keeps users, sessions
and scopes in Postgres, lets administrators change them, multiplexes all
browser WebSockets over one upstream connection, and stores the backups that
the iRidium server streams to it.

The specifications are TLA+ modules, checked on small instances with TLC
(`tlc -config X.cfg M`), and their safety properties are proved for every instance
with TLAPS (`tlapm M.tla`). `PROJECT.json` lists the runs, the source lines every
definition stands for, the hazards and the theorems. Paths below are relative
to `src/src/`.

## The system

One process, one event loop. A handler runs without interruption up to its next
`await`, callback or return, so that is the grain of every action; what
interleaves are handlers between their awaits, SQL statements of several
requests, timers, and messages of the upstream server.

| component | state | operations | interacts with |
|---|---|---|---|
| Upstream link (`services/wsGateway/UpstreamConnection.ts`) | socket, `connected`, reconnect timer, queue, cache of device rooms | `connect`, `send`, the socket's events, the timer | gateway (`onMessage`, `onStatusChange`), iRidium server |
| Command throttle (`CommandThrottle.ts`) | per key: `lastSentAt`, `pendingRaw`, timer | `schedule`, the timer | gateway above it, link below it |
| Browser gateway (`WsGatewayService.ts`, `connectionRegistry.ts`) | open connections, each with the user row, scopes and rate limiter | upgrade, message, close, broadcasts, `disconnectUser` | all of this directory, sessions, users, scopes |
| Scope filter, client messages, rate limiter | none; none; one window per connection | pure functions; `allow` | gateway |
| Login and lockout (`LoginService.ts`) | `failed_login_attempts`, `locked_until` | `login` | challenge, sessions |
| Second login step (`LoginChallengeGate.ts`, `RecoveryCodeService.ts`, `TwoFactorAuthService.ts`) | `auth.login_challenges`, `auth.totp_recovery_codes` | `verifyTwoFactor`, `verifyRecoveryCode` | login, sessions |
| Two-factor setup (`TwoFactorAuthService.ts`, `resetUserTotp`) | `totp_secret_enc`, `totp_enabled`, recovery codes | begin, confirm, reset | second login step |
| Sessions (`SessionService.ts`) | `auth.sessions`, cookies | issue, resolve, revoke | login, every route, upgrades |
| User administration (`AdminService.ts`) | `auth.users`, `auth.user_scope_access` | create, update, delete, scopes | gateway (`disconnectUser`) |
| Backups (`BackupService.ts`) | three maps of pending things, files | stream of a backup, manual backup, list, restore, timeouts | link, administrators, notifications |
| Admin notifications (`AdminNotificationService.ts`) | `auth.admin_notifications` | notify, list, mark read | gateway (`serverError`, push), backups |
| Audit log, HTTP application, configuration, utilities, migrations, scripts | | | |

What makes it hard: requests that overlap between two statements; rights read
before an `await` and used after it; a link that closes with messages queued or
in flight; timers that fire late; backups that overlap, fail between file and
acknowledgement, or answer after the timeout; and statements that fail halfway
through an operation without a transaction.

What makes each component correct, in a line: the link loses nothing that is
queued and reorders nothing; the throttle keeps the last value and bounds the
rate; the login steps bound the guesses and use a code once; setup never
enables an unconfirmed secret; administration never removes the last
administrator and never restricts one; open connections have current rights; an
acknowledged backup is on disk, and whoever asked for one is answered once; a
reset ends the sessions of the factor it removed; an administrator's list misses
no notification; the rate limiter bounds bursts and silences nobody below its limit.

## Modules

| module | what it is |
|---|---|
| `Outbox` | abstract: an ordered outbox. `submitted`, `backlog`, `flight`, `delivered` |
| `UpstreamConnection` | the link; implements `Outbox` (`ImplementsOutbox`) |
| `LatestValue` | abstract: per key, what was asked last and what is shown |
| `CommandThrottle` | the throttle; implements `LatestValue` |
| `InboundRateLimiter` | the fixed-window counter of one connection |
| `CommandPath` | composes the two: a command's way through limiter and throttle, under one clock |
| `DoubleTap` | extends `CommandThrottle` with two taps on one scene's run button |
| `LoginLockout` | first login step of one user |
| `LoginChallenge` | second login step of one user |
| `TwoFactorSetup` | setup and reset of two-factor authentication of one user |
| `Sessions`, `SessionsMC` | extends it with that user's logins and sessions; the MC module adds symmetry |
| `AdminUsers`, `AdminUsersMC` | administration; the MC module adds the symmetry of operations |
| `ScopeLists` | extends `AdminUsers` with the lists that were sent |
| `WsAccess` | extends `AdminUsers` with browser upgrades and connections |
| `WsGateway`, `WsGatewayMC` | messages between browsers and link, scope filter, cache of rooms; the MC module adds symmetry |
| `AdminNotifications` | notifications, and what one administrator's browser knows of them |
| `ServerErrors` | composes `UpstreamConnection` with `AdminNotifications` |
| `BackupRequests` | abstract: what is promised to whoever asks for a backup or a restore |
| `BackupService` | backups, manual requests, restores, restarts; implements `BackupRequests` |
| `Outbox_proofs`, `Sessions_proofs`, `WsGateway_proofs` | theorems about the module of that name; `Sessions_proofs` those of the setup, too |
| `CommandPath_proofs` | about the throttle, the limiter and their composition |
| `ServerErrors_proofs` | about the link, the notifications and their composition |
| `Login_proofs` | about both login steps |
| `AdminUsers_proofs` | about the operations, and the connections of `WsAccess` |
| `BackupService_proofs` | about the backups |

**UpstreamConnection.** `socket`, `connected`, `reconnectTimer` and
`pendingOutgoing` are the fields of the class; `readyState` and `wire` belong to
the WebSocket objects, and `received` to the server. `OnOpen`, `OnError`,
`OnClose`, `ReconnectTimerFires` and `Send` are the handlers. `OnError` stands
for the `error` event, whose handler calls `close()`, and for a close frame of the
server: in both cases `close` is still to come. The n-th `send()` carries
message n, so that order and duplicates are visible. A closed WebSocket object
may be used again as the next one, hence two objects are enough for any number
of reconnects: the code keeps one reference, and a second live one would already
violate `OneUpstream`. The cache of rooms is in `WsGateway`.

**CommandThrottle.** Time is relative: `since` is `Date.now() - lastSentAt`, cut
off at the interval, and `timer` what is left of the delay. Nothing else bounds
time, so the instance covers every length of history. A timer at 0 is due and
may fire late. `latest`, `out` and `gaps` are history. The clock is assumed to
run forward.

**InboundRateLimiter, CommandPath.** `elapsed` is `Date.now() - windowStart`, cut
off at the window, `count` the counter, cut off at one more than the limit (the
code compares it with the limit only). `ages` is history: how long ago the last
messages were let through. `CommandPath` is the `message` handler: `Refuse`, or
`Allow` and then possibly `Schedule`; other connections have limiters of their
own and share the throttle (`OtherCommand`). One tick is a tick of both clocks.

**LoginChallenge.** `row`, `attempts` and `unused` are columns; `loadable` is
what `loadChallengeUser` asks of the user; `req` are requests between their
awaits. Each SQL statement is one action, and `StatementFails` ends a request
before any of them. `Expire`, `UserChanges` and `DeleteRecoveryCodes` are what
time and other routes do meanwhile. A deleted user takes his challenges with
him; the module leaves that out, a request then behaves as after `UserChanges`.

**LoginLockout.** `RegisterFailedLogin` is one UPDATE and counts from the column,
not from the row loaded. The column is a SMALLINT, so the UPDATE fails at its
limit; `lost` counts failures no statement recorded. `guesses` counts wrong
passwords since the last lock or login. `Logins` are the slots in which requests
are handled at the same time; each serves one after another.

**TwoFactorSetup.** The row that `requireAuth` loads is the start of both
requests; a reset is its four awaits, the last of which (`RevokeSessions`) changes
no column of this module. Any number of requests of the user run at once, and
nothing in the code keeps them apart; the history variables name what its
properties except. `crossed`: a confirmation that is not yet enabled has overlapped
a setup or a reset that changes the secret it goes by. `doubled`: a confirmation
has overlapped another or a reset, or a reset has failed before it deleted the
codes. A reset that runs beside no confirmation ends both.

**Sessions.** `session` are the rows that `findActiveSessionByTokenHash` can
find, each with the secret that admitted it; `login` are logins between the row
they go by and `issueSession`. A login is `late` when sessions were revoked
meanwhile: its session comes after, and nothing in the code prevents that. A
request of `TwoFactorSetup` needs an active session only when it begins, as
`requireAuth` does. Resets are made by administrators, whose own sessions are not
of this user. `taken` and `retired` are history. A row that ends (logout,
expiry, a deleted user) may stand for another later, hence two are enough.

**AdminNotifications.** `note` is how far `notify()` has got with each
notification; ids are taken in the order of the INSERTs, which may commit in any
order. `browser`, `told` and `before` are one administrator's connection and the
pages it asked for: the page is not part of this repository, so it is assumed to
ask for pages after it has connected, each from the last row of the one before,
as `hasMore` and `before` of the route are made for; one that asks before it
connects can miss what is pushed in between. `mark` is the one mark under way, between its
UPDATE and its push; `crossed` are the notifications a mark overlapped between
INSERT and push, where the push says `unread` although the table says read, or the
other way round. What the list says of a notification is not compared: an answer
travels beside the pushes, without an order.

**ServerErrors.** A `serverError` arrives on an open socket; its INSERT goes on
when the socket closes. `Restart` ends the process: the list of connections, the
marks and pushes under way are gone, and a new link connects. The two parts meet
in the socket only, so commands and notifications are explored one or the other
(`NoNotesYet`, `NoCommands`): the link with its commands while nothing has been
notified, or notifications while nothing has been sent.

**AdminUsers.** An operation is a record that walks through its awaits:
`started`, `counting`, `writing`, `replacing`, `deleting`, `inserting`,
`disconnecting`. `replaceScopesForUser` is a transaction under READ COMMITTED:
`StartDelete` takes the snapshot of the DELETE, `DeleteScopeRows` waits for row
locks of another transaction, `CommitScopes` shows the result. Ids are not used
again: a deleted user stays deleted. The history variables name the exceptions of
the properties: `overlapped` are the users two operations on whom have overlapped,
`cutShort` those of an operation that failed halfway, and `crossed` says that two
removals were past their check together. The rule that an
administrator does not demote or delete himself (`AllowedTarget`) and the count
of administrators protect the last one twice when operations do not overlap.

**WsAccess.** A connection takes the steps of `handleUpgrade`; the operations of
`AdminUsers` end with `disconnectUser`, which closes what is open. `raced` marks
the upgrades it could not see.

**WsGateway.** `conn` is `browserConnections`, with the scopes a connection was
given when it opened (any set, or `Null` for none: how they are read is
`WsAccess`) and two things the browser remembers, the last status it was told and
the devices of the last list it was sent. `FilterForConnection` and
`IsCommandAllowed` are the two functions of `scopeFilter.ts`, over the kinds of
messages the code tells apart. A message whose type the code does not know is
`unknown`, and `text` is what is no JSON object. A `devices` or `sceneDetail` message
has a list or, malformed, something that is no array (`NoList`): then a restricted
browser is sent an empty list, and the cache stays as it was
(`UpstreamConnection.ts:102`, `scopeFilter.ts:32`), which `unlisted` remembers until
the next list. A list gives an item one room, a room that is no number (`NoRoom`,
which the filter drops and the cache skips), or leaves it out. An item whose id is no
string (`Nameless`) is filtered by its room like the others, but is not cached: its
live status reaches no restricted browser, and no command can name it. Ids are
assumed to be unique in a list and not empty. What a browser shows is forgotten
when its connection begins to close. `OnMessage` is the socket's
handler: cache first, then `handleUpstreamMessage`. `FromBrowser` is the `message`
handler up to the call of `throttle.schedule` or `upstream.send`, where
`CommandThrottle` and `UpstreamConnection` begin; both accept any sequence of
calls, so nothing of them depends on this module. The rate limiter is the
alternative in which a message is dropped. `sent`, `incoming` and `passed` hold
what the present step did, so that properties can speak of it; `lastList` is
history. A command is judged when it is passed on: what waits in the throttle is
not judged again.

**BackupService.** A file is modelled by the second in its name and a content:
nothing, garbled, or the dump of a set of tables. `BackupFails` is the catch
clause, at any of the awaits. `Crash` empties the maps and keeps the files.
`BackupRequests` is the administrator's view: what was acknowledged, whom it is for,
and the one answer to every request; the refinement mapping reads `acks` and the
request of every backup.

Some definitions have a sibling just above them that is not used by the
specification, such as `OnOpenWithoutFlush` above `OnOpen`: the same operation
with a slip a change of the code could introduce. Replacing the one by the other
makes TLC report the property that guards it (`mutants` in `PROJECT.json`).

## Runs

| run | instance | what it shows |
|---|---|---|
| `upstream` (`ServerErrors`) | 2 WebSocket objects, 5 sends; 2 notifications, pages of 1 | `OneUpstream`, `InOrder`, `QueueIsKept`; that the link comes back and the queue drains; the refinement of `Outbox` with its fairness; `NothingUnseen`, `PushesAgree` |
| `throttle` (`CommandPath`) | 2 keys, 2 values, interval 2; limit 2, window 2 | `FinalValueKept`, `BurstBound`, the refinement of `LatestValue` with its fairness; `TwiceTheLimit`, `HeardBelowLimit` |
| `double_tap` | 1 scene | finding: the scene plays twice (`WsGatewayService.ts:334-336`) |
| `challenge` | 3 requests, 1 challenge, 1 code, 2 attempts | `AttemptsBound`, `LateComersRefused`, `CodeDeadOnceUsed` |
| `lockout` | 3 requests, limit 3, column up to 5, 2 lost | `GuessesBound` |
| `setup` (`SessionsMC`) | 2 requests, 3 secrets, 2 codes a set, 1 login, 2 sessions, symmetric | `SecretConfirmed`, `CodesOfOneSetup`, `ResetEndsSessions` |
| `admin` | 2 users, 2 operations, 1 scope | `AdminRemains`, `AdminUnrestricted`, `NoStaleScopes`, and that scope rows belong to existing users (in `TypeOK`) |
| `scope_lists` | 2 operations, 2 scopes | finding: two replacements leave the union (`UserScopeAccessRepository.ts:17-19`) |
| `gateway` | 2 connections, 2 devices and 1 item without an id, 2 rooms, symmetric | `StatusTruth`, `HearsItsRooms`, `CommandsItsRooms`, `ShownIsCommandable`, `NothingMissed` |
| `access` | 1 operation, 1 connection | `FreshUnlessRaced` |
| `access_at_once` | the same | finding: an upgrade under way keeps old rights (`AdminService.ts:169-170`) |
| `backup` | 2 backups, 1 request, 1 restore, 2 tables, 3 seconds, retention 1 | `AckedOnDisk`, `AnsweredWithFile`, the refinement of `BackupRequests` with its fairness |

The bounds are chosen so that the case of interest happens and one case beyond
it does not exist in kind. Three requests on a challenge of two attempts: one
too many, at every statement. Five sends: queue, wire and a reconnect with
messages behind both. Interval 2: a timer of one or two ticks, due and late.
Limit 2 and window 2: bursts on both sides of a boundary, and windows that begin
between two ticks of the throttle. Two notifications and pages of one: a page with
more behind it, one inserted while the browser pages, and two that commit or are
pushed in reverse (three with pages of one and two were checked without the link).
Two requests of the setup and one login: every pair of setup, confirmation and
reset, statement by statement, beside a login that goes by an older row; three
secrets let one setup follow two that overlap. What a third request adds is
proved. Two connections, devices and rooms:
connections of every pair of rights, one of them opening after a list, and
devices that move, lose their room or disappear, with lists that are none in
between; handlers treat each connection and each item on its own. Two operations that overlap everywhere: the code has no step that reads the
state of a third. The limit of 3 wrong passwords with 3 requests: the limit is
reached with 0, 1 or 2 others in flight, and the column's limit 5 is reached
after several locks. The instance of `WsAccess` has one operation at a time; that
several at once do no harm is proved (`RightsStayFresh`).

Deadlock is checked for the link with the notifications, the throttle with the limiter, the gateway, the login challenge
and the setup with the sessions, and switched off where the system of the instance is allowed to stop: no
administrator is left, or every backup, tap or recorded failure has been spent.

### Fairness

`UpstreamConnection`: weak fairness of the timer and of `close` (Node fires a timer
that is due, and ws emits `close` for a socket that is closing, after its own
timeout at the latest); of the server, it is assumed that it reads from a
connection that lasts and, strongly, that it does not refuse connections for
ever; `ServerErrors` assumes the same of its link and nothing of notifications.
`CommandThrottle` and `CommandPath`: time passes, and a due timer fires.
`BackupService`: the timer of a request that waits fires; nothing is assumed of
the server, which may never answer. All other modules have only safety properties
and assume no fairness.

### Findings

The three runs marked *finding* check what a comment of the code says and show a
behaviour of the code that contradicts it. Next to each there is a property
that says what does hold: `OnlyLatestSent`/`BurstBound`, `NoStaleScopes`,
`FreshUnlessRaced`. More facts are exceptions of a property:
the name of a backup has a resolution of one second, so two backups that end in
one second share a file (`Shared` in `AckedOnDisk`); two administrators who demote or
delete each other at once may both be gone (`crossed` in `AdminRemains`);
two confirmations of one setup at once insert eight recovery codes each, although
`RecoveryCodeService.ts:23` counts on eight, and a reset that fails before it deletes
the codes leaves them to the next setup (`doubled` in `CodesOfOneSetup`);
a confirmation that overlaps a setup or a reset enables a secret nobody confirmed, or
none (`crossed` in `SecretConfirmed`);
after a `devices` message without a list, restricted browsers show nothing while
the cache still lets them command the devices of the list before (`unlisted` in
`ShownIsCommandable`);
operations on one user that overlap may leave scope rows of a user who is not
restricted (`overlapped` in `NoStaleScopes`);
a login that overlaps a reset of the same user may end in a session that the
reset did not revoke (`late` in `ResetEndsSessions`); a notification that a mark
overlaps may be shown as unread although it is marked, until the list is asked for
again (`crossed` in `PushesAgree`). The limiter stands in front of the throttle:
the last position of a slider may be the message it drops, although
`CommandThrottle.ts:7-9` wants the last value kept; `FinalValueKept` speaks of what
the throttle was given.

## Proofs

| theorem | states |
|---|---|
| `TypeCorrect`, `NeverTwoUpstreams`, `NothingDropped` | `TypeOK`, `OneUpstream`, `QueueIsKept` of the link |
| `LinkIsOutbox`, `OutboxOrdered`, `NeverReordered` | the link implements the outbox's safety; the outbox delivers in order; hence the link does |
| `ThrottleTypeCorrect`, `NothingForgotten`, `Throttled`, `OnlyLatestSent` | `TypeOK`, `FinalValueKept`, `BurstBound`, the throttle implements the latest-value register's safety |
| `BurstsBounded`, `SlowOnesHeard`, `PathKeepsBoth` | `TwiceTheLimit`, `HeardBelowLimit`; the path of a command is a behaviour of limiter and throttle |
| `SetupTypeCorrect`, `OnlyConfirmedSecrets`, `OneSetOfCodes` | `TypeOK`, `SecretConfirmed`, `CodesOfOneSetup`, for any number of requests at once |
| `ResetEndsAll`, `SetupBesideSessions` | `ResetEndsSessions`; a behaviour with sessions is one of the setup |
| `AllSeen`, `PushesTrue` | `NothingUnseen`, `PushesAgree` |
| `LinkAcrossRestarts`, `NotesBesideLink` | with the notifications, and restarts of the process before a command: the link's four safety properties; a behaviour of both is one of the notifications |
| `ChallengeTypeCorrect`, `AttemptsBounded`, `NoLateComers`, `UsedCodesDie` | `TypeOK`, `AttemptsBound`, `LateComersRefused`, `CodeDeadOnceUsed` |
| `LockoutTypeCorrect`, `GuessesBounded` | `LockoutTypeOK`, `GuessesBound` |
| `GatewayTypeCorrect`, `StatusAlwaysTrue`, `HearsOnlyItsRooms`, `CommandsOnlyItsRooms`, `CommandsWhatItShows`, `ShownIsHeard` | `TypeOK`, `StatusTruth`, `HearsItsRooms`, `CommandsItsRooms`, `ShownIsCommandable`, `NothingMissed` of the gateway |
| `AdminTypeCorrect`, `LastAdminRemains`, `AdminNeverRestricted`, `NoRowsLeftBehind` | `TypeOK`, `AdminRemains`, `AdminUnrestricted`, `NoStaleScopes` |
| `RightsStayFresh`, `AdminBesideConnections` | `FreshUnlessRaced`; a behaviour with connections is one of the operations |
| `BackupTypeCorrect`, `AckedFilesKept`, `AnswersTrue` | `TypeOK`, `AckedOnDisk`, `AnsweredWithFile` |
| `BackupsKeepPromise` | the backup service implements the safety of `BackupRequests` |

Each is proved for all values of the constants that satisfy the named
assumption of its module (`UpstreamAssumption`, `ThrottleAssumption`,
`LimiterAssumption`, `ChallengeAssumption`, `SetupAssumption`, `NotesAssumption`,
`GatewayAssumption`, `AdminAssumption`, `LockoutAssumption`, `BackupAssumption`),
which say that null values are no members of their sets, that bounds are numbers,
that requests (users) are finitely many, that the lockout's limit fits its column,
and that no restore has the id of a manual backup. Those ids are made of `Date.now()`
and `Math.random()` (`BackupService.ts:271`), so nothing forbids two equal ones, but
they would have to be drawn in the same millisecond, with the same random part.
The connections of `WsAccess` need no assumption of their own.

- *Link.* `LinkInv` adds to `OneUpstream` that a socket which is not open has
  nothing on the wire, and that an open one leaves nothing in the queue: without
  the latter, a message sent directly could overtake a queued one. `InOrder` is
  not proved of the link: `OutboxInv` (all three sequences increase, and each is before the
  next) is inductive in the outbox and comes through the refinement.
- *Link over restarts.* A restart begins with an empty queue and new sockets.
  `ServerErrors` lets it happen before the first command only, where
  `Silent` says that nothing is queued or on the way, so a restart is a step of
  the outbox that changes nothing. What a restart loses of a queue is no promise of
  the code, and left out.
- *Throttle.* `NoSecondShortGap` explains why only one pair of commands can be
  close: after a short gap, the timer that is still set is not due before a full
  interval has passed.
- *Limiter.* The messages heard in the present window are the latest ones and no older
  than it, all others are older (`WindowsApart`), and those beyond one limit more are older
  than `WindowMs` (`OlderGone`), so 2 * limit + 1 messages reach into a third
  window. `SlowOnesHeard` rests on the first part.
- *Setup.* `RowAsRead`: while no confirmation has crossed a setup or a reset, one
  that is not enabled yet goes by the secret that is still in the row, no other
  request is about to change it, and no setup holds a new secret once a secret is
  enabled; `VerifiedConfirmed` makes that secret a confirmed one. For the codes,
  unless `doubled`: a confirmation that still has to insert them is the only one,
  beside no reset, and finds none (`AloneConfirming`), for there are codes only while
  two-factor authentication is enabled, or until the reset's second statement
  (`CodesOwned`).
- *Sessions.* `LateOnes` says of logins what `ResetEndsSessions` says of sessions.
  It is preserved because a secret that a reset took out of the row never comes back
  (`NeverBack`: every setup generates a new one and stores it once), so that no
  login goes by it once the sessions have been revoked.
- *Notifications.* `ToldSoFar`: while a browser pages, it knows everything from
  `before` up but what is still to be pushed. A page keeps that, because it is the
  latest rows below `before`, and all of them when there was no row beyond the limit.
  `PushesAgree` needs that what is stored and not yet pushed is unread
  (`UnpushedUnread`), and that a mark has set what it will announce (`MarkedIsRead`),
  unless the two overlapped.
- *Lockout.* `WindowCounted`: as long as the user is not locked, every wrong password
  of the window is in the column, about to be counted, or lost. A column beyond the
  limit counts for none of them: it is left from an earlier window, and the next
  UPDATE locks. A request that compares is not about to be counted, so the requests
  in flight are shared out between the two, and one that reaches the limit locks.
- *Challenge.* `AttemptsAccounted`: comparisons made and still to be made have a
  reserved attempt each. That is true of any number of requests, because the
  reservation tests and counts in one statement. `ClosedIsDeleted`: a request that
  is about to issue a session has deleted its challenge, and so has every one that
  did. A deleted row stays so and admits nobody, and a session takes its request out
  of those admitted. `AcceptedIsMarked`: a code that let somebody in is marked, and
  a request matches only codes it has read.
- *Gateway.* `ListInv`: the cache holds the rooms of the last list, and every open
  browser that was sent a list shows the part of the last list its scopes allow, or
  nothing of it since a message without a list.
  The code keeps the two apart (the filter reads the list, commands and live
  status are judged by the cache), so their agreement is what the other
  properties rest on.
- *Administration.* `Guarded`: while no two removals have been past their check
  together, a removal past its check leaves another administrator, and is alone.
  `Fresh`, of each user on whom no two operations have overlapped, whatever runs on
  the others: the one operation on him is alone, so a replacement of scopes finds the
  rows and the restriction it has read, and an unrestricted user with rows is
  one whose update has still to clear them, or failed before it did.
- *Rights of connections.* `TrueOrPending`: what an upgrade has read is what the
  tables say, or an operation on that user has reached its writes and will
  disconnect him or be cut short. Each step of the operations either leaves both
  alone, or leaves such an operation behind (`Spared`); the disconnection, which
  ends one, closes or marks every connection of the user that has read the row, and
  so it does not matter which of several operations it belongs to.
- *Backups.* `Named`: a backup has a file from `OpenFile` on, and is acknowledged only
  with one. What another backup writes goes to the file of its own name, so only one that
  shares the name touches the file, and only the retention lets it be pruned. `OneBackupEach`, `InStep`
  and `Served` follow a request through its one backup: who was answered with a file
  has a backup that is over, so that the catch clause can no longer run for it.
- *Promise of backups.* Every step of the service is mapped to one of
  `BackupRequests` or to none. What needs the invariants: a file is answered only in
  `Prune`, after the acknowledgement (`InStep`), and a backup begins for a request that
  has none (`OneBackupEach`).

Not proved: `AlwaysReconnects`, `QueueDrains`, and the fairness part of the three
refinements. They are about ENABLED and liveness, which the provers cannot treat, and
TLC checks them. Every safety property of the passing runs is proved. The three
findings are counterexamples, which need no proof.

## Not modelled

- The validation of a message's fields in `clientMessage.ts`: pure functions over
  JSON, whose result `WsGateway` takes as the set of messages they let through.
- The order in which a pending command is overtaken by one that is not throttled:
  the code promises an order per key only.
- `migrate.ts`: applies files in order, each with its record in one transaction, and
  is run by hand; the modules take the tables as they are afterwards.
- The audit log: inserts nothing reads. A failing insert makes a route answer
  with an error after its effect; no state depends on it.
- HTTP parsing, CSRF, CORS, the rate limits of `express-rate-limit`, cookies,
  hashing, encryption, TOTP itself: libraries or pure functions. A wrong and a
  right code, password or signature are the inputs of the actions.
- Configuration, Docker, scripts.

## Plan

1. `WsGateway` with the throttle's pending commands, to state what is judged when
   a command waits.
2. Proofs: what `BackupRequests` and `LatestValue` promise by themselves (one
   answer for good, the last value shown), carried over by the refinements.
3. The contents a restore sends, and an abstract store of files.

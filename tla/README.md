# talawa-api in TLA+

Talawa-api is the GraphQL server of an organization management platform: a
Fastify process over PostgreSQL, Redis (or Valkey) and MinIO, with background
workers in the same process and plugins loaded at run time. This directory holds
TLA+ models of its core, the TLC configurations that check them, and TLAPS proofs.

    tlc -config Series.cfg MCRecurringSeries      # model-check a run
    tlapm RecurringSeries_proofs.tla              # check the proofs
    tlapm RecurringSeries_losses.tla              # and so for every *_proofs module

Contents: 1 Inventory, 2 Plan, 3 RecurringSeries, 4 EmailQueue and Delivery,
5 Plugins, 6 Attendance, 7 Members, 8 Campaigns, 9 Sessions, 10 Runs, 11 Proofs,
12 Divergences and observations, 13 Not modelled.
Paths are relative to `src/src/` of the repository.

## 1 Inventory

The server handles requests concurrently on one event loop: every `await` is a
point where another request, a timer or a background job may run. Several
servers may share the database. PostgreSQL runs at its default isolation (READ
COMMITTED): a transaction is atomic, but what a handler read before it may be
stale when it starts.

| Component | State | Operations | Correct when |
|---|---|---|---|
| Recurring events (`graphql/types/Mutation/*Event*`) | templates and rules, materialised instances, action items | create, move, cancel, cut, split, erase a series | instances are unique, complete, belong to a live rule, and go only when asked for |
| Event generation (`services/eventGeneration`, `workers/eventGeneration`) | generation windows, the jobs of a run | discover windows that need work, expand a rule, find existing instances, insert the rest | every occurrence is on the calendar in time, and once |
| Event cleanup (`workers/eventCleanupWorker.ts`) | none of its own | delete instances past retention | only the expired ones go |
| Occurrence calculation (`occurrenceCalculator.ts`, `utilities/recurringEvent`) | none | rule and window to dates | agrees with the recurrence a user asked for |
| Action items | rows tied to an instance or a template, exceptions per instance | create, complete, delete | follow their instance |
| Plugin manager, registry, lifecycle (`plugin/`) | loaded plugins, extension registry, hooks, `isInstalled`/`isActivated` rows | discover, install, load, activate, deactivate, unload | registry, memory and database agree; a failed step leaves nothing behind |
| GraphQL schema manager | current schema, rebuild flag | rebuild on plugin change | the schema reflects the last change |
| Refresh tokens (`services/auth`) | token rows: hash, expiry, revoked | sign in, rotate, revoke, log out | a revoked or rotated token grants nothing; one session, one live token |
| Email queue (`services/email`) | notification rows: pending, sent, failed, retries; the `isProcessing` flag | poll, send, mark, retry | each mail is sent once or given up after the last retry |
| Rate limiters | leaky bucket in Redis; windows in memory | take tokens, refill, reset | no more than the capacity in a window |
| Cache and data loaders (`services/caching`) | Redis entries with TTL, one loader per request | get, fill after a miss, invalidate after a mutation | no entry is older than the last committed change for long |
| Funds, campaigns, pledges | pledges, `amountRaised` per campaign | create, update, delete a pledge | the total is the sum of the pledges |
| Memberships and requests | membership rows, requests with a status | request, accept, reject, join, remove | one membership a user; status and membership agree |
| Attendees, check-in, invitations | attendee rows, visits, invitation status | invite, accept, register, check in and out | one attendee a user and event; visits alternate |
| Volunteers, agendas, venues, tags | rows | guarded insert, update, delete | references exist |
| Posts, comments, votes, chats | rows | insert, update, delete | unique votes (index) |
| Subscriptions, notifications | none durable | publish after commit | best effort |
| Object storage, metrics, HTTP, configuration | - | pass-through | - |

How they interact. GraphQL mutations call the generation service directly for
the first instances of a series and leave the rest to the worker, which finds its
work only through `event_generation_windows`. The cleanup worker deletes what both
inserted. Mutations and workers meet only in the database: no lock and, for
instances, no unique index. Plugins change the schema through the schema manager;
mutations invalidate the cache after they commit; the email queue and event
notifications are fed by mutations and drained by timers.

The hard behaviours are the same everywhere: a read before a transaction and a
write in it (*stale state*), find-then-insert without an index (*atomicity*), two
copies of a timer job (*interleaving*), a step done twice or not at all because a
process stops between an effect and its record (*crash recovery*), and work that
should eventually happen (*liveness*). `PROJECT.json` lists every one we know of,
at its line, under "hazards".

## 2 Plan

Most important first. The core of the product is the calendar, and it is the place
where clients, a worker, a cleanup job and history meet; so it comes first.

1. `RecurringSeries` - templates, rules, instances, windows and everything that
   writes them. Done, with proofs.
2. `EmailQueue`, and `Delivery`, the abstract specification it implements. Done,
   with proofs, the refinement included.
3. `Plugins` - the plugin manager, its registry and the schema manager in one module,
   because a rebuild reads the registry. Done, with proofs.
4. `Sessions` - refresh tokens, password resets, lockout. Done, with proofs.
5. `Members` - memberships, membership requests, blocks. Done, with proofs.
6. `Attendance` - attendees and invitations of an event. Done, with proofs.
7. `Campaigns` - pledges and the amount raised. Done, with proofs.
8. `Occurrences` - the calendar algorithm itself as a function, against a
   reference definition over bounded inputs: byDay, month overflow, the iteration
   cap, and what becomes of a count when a series is split. Open.
9. `CacheAside` - fill after a miss against invalidation after a commit. Open.
10. `RateLimit` - the leaky bucket as Redis commands interleave. Open.

`RecurringSeries` would take its `OccurrencesIn` from `Occurrences`. The other modules
share tables only where one deletes what another references: the deletion of a user,
which cascades to most tables. `EmailQueue`, `Members`, `Campaigns` and `Sessions` each
model what it does to their rows; `Attendance` does not (section 13), and plugins and
series do not belong to a user.

Next theorems: every safety property a passing run checks is proved by now (section 11). What
could be added: that the sessions and the memberships implement abstract
specifications of their own, as the queue does; premises weaker than
`SerialGeneration` for `NoDuplicates` (a lock around the run instead of a single
run); and the theorems of `Occurrences` once that module exists.

How the modules are written. A request is a record `calls[c]` (`reqs[r]`): its `pc`
names the code after the next `await`, the other fields what it has read. One
action is the code between two awaits, so everything that other requests do may
come between. A transaction is one action where its statements take row locks or
are guarded by constraints. An action `Begin...` or one named for a mutation reads
and checks; `Commit...`, `Write...` or `Insert...` writes. *History variables* (the
comments of the modules name them) record which requests overlapped or failed:
the code has no locks, so that the honest property is "this holds unless two
requests about the same thing overlapped", and the history says for which
things they did. They are as narrow as TLC allows: `outlived`, for instance, holds the
sessions that were signed out while one of their tokens was being exchanged.
Operators marked `Fault:` are plausible bugs, used only to show that the
properties would notice them.

## 3 RecurringSeries

One module for the whole life of a series, because its parts meet in the
same tables and every property is about their interplay.

### State

| Variable | Code |
|---|---|
| `windows` | `event_generation_windows`: organization, `currentWindowEndDate`, `lastProcessedAt`. More than one for an organization is possible, as in the code. |
| `rules` | `recurrence_rules` together with the template in `events`; they are always created and deleted in one transaction. `series` is `originalSeriesId`. |
| `rows` | `recurring_event_instances`: `slot` is `originalInstanceStartTime`, `start` and `end` are `actualStartTime` and `actualEndTime`, `cancelled`. `copy` numbers the instances ever inserted for a slot and stands for the random part of the id. |
| `items`, `orphans` | action items that point at an instance; those whose `recurringEventInstanceId` the foreign key set to NULL |
| `request` | what a mutation in flight has read before its transaction, per client |
| `jobs` | jobs a run still has to do, with the phase and the occurrences found so far |
| `now`, `nextRule` | the clock, and the identifiers already given |
| `made`, `history` | history variables: instances ever inserted, the series a rule began in and the earliest end it ever had |
| `budget` | what is left of the bounds on requests, faults and items |

Time is counted in slots, one for each possible occurrence. An end date is kept as
`until`, the first slot it *excludes*: "one millisecond before this instance"
(`updateThisAndFollowingEvents.ts:275`) and a date a user picks between two slots
then have the same exact representation. A recurrence input is `[every, until,
count, yearly]`; `yearly` is kept apart because the code treats it apart. An
exception (`eventExceptions`) that moves an instance is the instance's own `start` and
`end`. A move takes each of the two from the input, or from the instance as it was read
before the transaction; a new start alone keeps the length. `Lengths` bounds the
lengths that an input gives.

### Actions

| Action | Code |
|---|---|
| `BeginCreate`, `CommitCreate` | `createEvent`: the window is looked up outside the transaction, and made in it when missing; the first instances are generated up to the end date or the hot window |
| `BeginOnRow`, `CommitCancel` | `deleteSingleEventInstance` |
| `BeginOnRow`, `CommitMove` | `updateSingleRecurringEventInstance` |
| `BeginOnRow`, `CommitCut` | `deleteThisAndFollowingEvents` |
| `BeginSplit`, `CommitSplit` | `updateThisAndFollowingEvents`: cut, delete, new template, rule, window if missing and instances, in one transaction |
| `BeginErase`, `CommitErase` | `deleteEntireRecurringEventSeries` |
| `Rollback` | any check or statement that fails, or the server stopping, before the commit |
| `AddItem` | `createActionItem` for an instance |
| `Discover` | `discoverEventGenerationWorkloads`: windows due, at most `maxOrganizations`, one job a rule |
| `ReadRule`, `FilterFound`, `InsertFound` | `generateInstancesForRecurringEvent` and `createNewGeneratedInstances`, an `await` between each |
| `LoseRule`, `FailJob` | a job whose rule is gone; a job that fails for another reason and is logged |
| `Cleanup` | `cleanupOrganizationInstances` |
| `Tick` | the clock |

A mutation is two steps, what it reads before its transaction and the transaction
itself, and any number of steps of others may come between. A transaction is one
step: what it reads and writes is small and the write is a single statement for
each table; that READ COMMITTED lets two of them interleave inside is not modelled.
The worker has no transaction, so each of its database calls is a step. A run's
jobs go in any order. Identifiers are never reused (UUIDs). `Workers` are runs
that overlap: cron ticks, the run at start-up, or several servers.

### Properties

* `TypeOK` - the tables and what is in flight keep their shape.
* `NoDuplicates` - no occurrence is twice on the calendar.
* `NothingLeftBehind` - since jobs start where the organization's window ended,
  what lies before that was generated by the mutation that made the series.
* `RowsMatchRules` - every instance has a live rule, its series, and a slot of it.
* `NoRowLost` - an instance disappears only past retention or by a mutation
  that covers it.
* `OrphansOnlyByRetention` - mutations take the action items along.
* `LeadKept` - liveness: an occurrence is generated after it comes within the
  look-ahead, or is no longer owed.
* `SplitsShareSeries`, `CutIsFinal` - promises of the documents that the code does
  not keep (section 12).

## 4 EmailQueue

`EmailQueue` models `EmailQueueProcessor` of one server with the rows it works on;
`Delivery` is what those who queue a mail may rely on, without rows or calls.

| Variable | Code |
|---|---|
| `rows` | `email_notifications`: `status`, `retryCount`, `createdAt` (as the order of insertion) |
| `server` | whether the process runs and its timer is set |
| `isProcessing` | the flag of the processor |
| `calls` | calls of `processPendingEmails` in flight: the batch, the counts read with it, the results so far |
| `tries`, `accepted`, `gone`, `faults` | history: how often the provider was asked, how often it took a mail; mails whose row was deleted; exits in a call, updates that failed, answers that were lost |

| Action | Code |
|---|---|
| `Enqueue` | `NotificationEngine.createEmailNotifications`, `createDirectEmailNotification`: one insert for all recipients |
| `DeleteUser` | `deleteUser`, `deleteCurrentUser`: the cascade from `users` deletes the rows `Addressed` to the user, pending ones and those a call has read among them; mails to external addresses have no `userId` |
| `Tick` | the timer: the flag, and the query of the oldest pending rows, at most `BatchSize` |
| `Answer` | one result of `sendBulkEmails`; the mails of a batch are sent at the same time |
| `Record`, `RecordFails` | one turn of the loop over the results, with `handleEmailFailure`; the update of a row that is gone changes nothing; an update that throws |
| `Start`, `Stop`, `Exit` | the Fastify plugin, `stopBackgroundProcessing` (a call in flight goes on), the end of the process |

A call that has read the rows of a user sends them although the user is deleted
while it waits. `Delivery` says so: a mail may be withdrawn at any time (`Withdraw`), and
one that had an attempt under way is `leaving` until that is made (`LastAttempt`) or
dropped with the process (`Forget`). After that nothing is sent to it.

Properties: `ReadIsCurrent` (what a call read stays true while it waits, which is what
`isProcessing` is for, unless the row is deleted), `DuplicatesExplained` and
`RetriesBounded` (at most once, and at most `maxRetries` times, but for faults), `Delivers`
(the refinement: a mail settles once, as sent only if the provider took it, as failed
only after enough attempts, and a withdrawn mail is attempted at most once more), and
`Settles` (liveness: once the server stays up, every mail is sent, given up or deleted
with its user).

## 5 Plugins

One module for the plugin manager, its lifecycle, its extension registry, the schema
manager and the mutations that reach them. Everything in it meets in two places: the
`plugins` table and the memory of the process.

| Variable | Code |
|---|---|
| `row`, `files`, `tables` | `plugins` rows (`pluginId`, `isInstalled`, `isActivated`), plugin directories, tables a plugin created |
| `up`, `loaded`, `registry` | whether the process runs; `loadedPlugins` with the status; `extensionRegistry.graphql.builderExtensions` |
| `rebuild`, `builder`, `offered` | a rebuild of the schema (the array it iterates over, whether the registry still holds that array), the fields registered with the one Pothos builder of the process (`graphql/builder.ts`), and the fields of the current schema |
| `reqs` | requests: the next step, what follows it, extensions left to load, the status read, whether the object it holds has left the map, under which plugin id the row it read stands by now, and what an update will write |
| `missed`, `excused`, `overlapped`, `incomplete` | history: whether the last rebuild refused a request; plugins a step of which failed or whose id an update gave or took, and plugins two requests worked on at once, both since the process started; plugins whose installation or deletion did not finish, or whose row says installed without one |

| Action | Code |
|---|---|
| `CreatePlugin` | `createPlugin` |
| `InstallPlugin`, `Mark`, `Install` | `installPlugin`: the row is read, then written, then the lifecycle creates the tables |
| `UpdatePlugin`, `Check`, `Clash`, `Write` | `updatePlugin`: the row is read; a new plugin id is looked up, which the unique column repeats; all fields are written, those that the input leaves out as they were read |
| `UploadPluginZip`, `Extract`, `Record` | `uploadPluginZip`, `installPluginFromZip` |
| `DeletePlugin`, `RemoveDirectory`, `Delete` | `deletePlugin`, around the lifecycle's `Uninstall` |
| `Activate` / `SetActive` / `StoreActive`, `Deactivate` / `SetInactive` / `StoreInactive`, `Uninstall`, `TriggerRebuild` | `PluginLifecycle`, at each await |
| `Load`, `Read`, `Extend`, `ExtendFails`, `Loaded` | `PluginManager.loadPlugin`, `ExtensionLoader` |
| `CallRebuild`, `TakeExtensions`, `RegisterExtension`, `FinishRebuild`, `Rebuilt` | `GraphQLSchemaManager`; `Rebuilt` ends an operation, and the event of a deactivation starts one more rebuild |
| `Start`, `Exit` | `initialize` (all plugins at the same time), `gracefulShutdown` or a crash |

An update may rename a plugin: the row moves to another plugin id, and what is in memory
stays under the old one. A request that read the row before writes it by its id, wherever
it stands by then (`at`). An update may also write `isInstalled` without an installation.
An upload replaces the files; that the code already loaded stays in memory is part of
the model (`loaded` does not change), what it does is not. The insertion of a row by an
upload always fails: its id is a ulid (`installation.ts:101`) and the column a uuid
(`drizzle/tables/plugins.ts:20`), so an upload only updates a row that it found.
JavaScript's arrays matter: a rebuild that iterates sees what is pushed to the array, and
does not see that a removal put a filtered copy in its place (`detached`). The builder
is never reset, so a schema has the fields of every plugin that was active at some
rebuild of this process. That registering a field again is refused by the library and
only logged (`schemaManager.ts`, the `catch` around each extension) is taken
from how the code uses it.

Properties: `SchemaCurrent` (the schema offers the fields of the active plugins; of other
plugins' fields nothing is said, since no rebuild removes them), `Agreement`,
`RegistryExact`, `InstalledHasTables`; each relates two of the places (row, map,
registry, schema, tables) at rest. Two requests about one plugin that overlap and a step
that fails do leave it in disagreement, so `Agreement` and `RegistryExact` leave such a
plugin out, and the two ids of a rename, until the process starts anew. What they rule out
is all the rest: that requests, failures, removals and rebuilds of one plugin disturb
another, that one request after another leaves it wrong, and that anything that was cut
off by a crash survives the next start. `InstalledHasTables` makes no exception for overlaps:
a plugin is left out only while `incomplete`, that is, until an installation works again.

## 6 Attendance

The rows of attendees of one event, which has no unique index on user and event, and
the invitations by mail. `rows`, `fresh` (row ids), `invitations`, `members`,
`isRegisterable`, `calls`; history: `raced` (users about whom two mutations overlapped,
other than two acceptances of one invitation), `strays` (users who registered after
a check-in had created a row for them), `removed`, `left`.

`AddEventAttendee`, `InviteEventAttendee`, `RegisterForEvent`, `RegisterEventAttendee`,
`CheckIn`, `CheckOut`, `RemoveEventAttendee` and `AcceptEventInvitation` read; `Insert`,
`Create`, `Update`, `Delete`, `Lock` and `Commit` write. An acceptance is two steps:
`Lock` updates the invitation, whose row lock then keeps a second acceptance
waiting until `Commit` (`Locked`), and inserts the membership.
`SendEventInvitation`, `Join`, `Leave`, `UpdateEvent` are the surroundings.

Properties: `OneRow`, `OutAfterIn`, `AcceptedAttends`, `NothingUndone` (no mutation takes
back what another one noted in a row, whatever it had read).

## 7 Members

Users, memberships, membership requests and blocks of one organization: `accounts`,
`members`, `requests` (unique for a user), `required` (`userRegistrationRequired`), `blocked`,
`calls`; history: `raced` (requests two decisions overlapped on), `admitted` (whom a
request made a member). Actions are named for the mutations and their writes. The
primary key of a membership and the foreign keys are `MayInsert`; a transaction
that violates them rolls back as a whole, which is how `CommitAccept` leaves a request
pending.

Properties: `NothingDangles`, `ApprovedJoined`, `AdmittedOnRecord`, `DecidedOnce`.

## 8 Campaigns

Funds, campaigns with `startAt`, `endAt` and `amountRaised`, pledges (unique for campaign
and pledger), the clock. The mutations read, then commit. Only the difference by which
an update adjusts `amountRaised` comes from a stale read; creation and deletion use
what the transaction itself wrote or deleted (`Taken`), and the sum is adjusted by an
SQL expression. `amountRaised` is a 32-bit column: an overflow rolls the
transaction back (`Fits`, with `MaxInt` for 2^31-1). History: `drifted` (campaigns an
update adjusted by an amount that had changed meanwhile, or a pledger of which was
deleted, which cascades to the pledges and leaves the sum), `crossed` (two updates of
one campaign overlapped).

Properties: `RaisedIsPledged`, `WindowInOrder`, `NothingDangles`.

## 9 Sessions

Everything about the sessions of one user. A *session* begins with a sign-in and goes
on through exchanges of its refresh token; `root`, the token it began with,
names it (the code keeps no such column: a family of tokens exists only in the
model's view, and no action reads `root` to decide anything).

| Variable | Code |
|---|---|
| `account` | the row of the user; deleting it cascades to both token tables |
| `attempts`, `lockedUntil` | `users.failedLoginAttempts`, `users.lockedUntil` |
| `tokens` | `refresh_tokens`: revoked, expired; `issuer` tells JWTs of the REST routes from random tokens of GraphQL. The hashes of both are in one table: the mutation `refreshToken` takes either, and `POST /auth/refresh` verifies a JWT first, so that it refuses the others |
| `resets` | `password_reset_tokens`: used, expired |
| `answers`, `held`, `unanswered` | refresh tokens that were issued and are to be returned; those that a client has; those whose answer was lost |
| `calls` | requests in flight |
| `wrongs`, `lost`, `ended`, `lapsed`, `forked`, `outlived`, `uses`, `doubled` | history (see the module) |

| Action | Code |
|---|---|
| `SignUp`, `RestSignUp` | `signUp`, `createUser`, `signInWithOAuth` of an unknown user; `POST /auth/signup` |
| `SignIn`, `RecordWrong`, `RecordRight`, `StoreToken` | `signIn`: the lock and the count are read, the password verified, then written |
| `SignInWithOAuth`, `RestSignIn` | `signInWithOAuth`; `POST /auth/signin` |
| `Exchange`, `RefreshToken` | the mutation `refreshToken`: look up, then revoke and store in a transaction |
| `Exchange`, `PersistRefreshToken`, `RevokeRotated` | `POST /auth/refresh`, `rotateRefresh`: store, then revoke; a failing revocation is logged |
| `RevokeRefreshToken`, `Logout` | `revokeRefreshToken`, `POST /auth/logout`; `logout` |
| `UpdateUserPassword` | `adminUpdateUserPassword` (signs out), `updateUserPassword` (does not) |
| `RequestPasswordReset`, `StoreReset`, `ResetPassword`, `CommitReset` | `requestPasswordReset`, `resetPassword` |
| `Answer`, `AnswerLost` | the reply of any of these with a new token arrives, or does not: the connection or the process ended first |
| `LockPasses`, `Expire`, `ExpireReset`, `DeleteUser`, `Exit` | the clock, `deleteUser`, the end of the process |

A request ends in the database before the client hears of it. Both ways of exchanging a
token revoke the old one first and return the new one afterwards (`refreshToken.ts:102-146`,
`authService.ts:251-260` with `routes/auth.ts:178-191`), so a lost answer leaves the client
with a revoked token: the session is lost, and the model has these behaviours.

Properties: `OneLive` (one live token a session), `StillSignedIn` (overlapping exchanges,
failed revocations and crashes lose no session: its live token is with a client, on its way,
or was in the answer that was lost), `EndedStaysEnded`, `ResetOnce`, `LockoutHolds` and
`NothingDangles`.

## 10 Runs

The first six runs are about `RecurringSeries`. They use a calendar of six slots (0..5). Dates a user picks are at most
`Latest`, so that a series, the hot window (2 slots) and the job window beyond it
fit. The look-ahead is one slot, shorter than the hot window as in the code (1
month against 12). The definitions of the constants are in `MCRecurringSeries`.

| Run | Instance | Shows |
|---|---|---|
| `series` | one organization, two clients, one worker, two rules, three mutations, an endless and a counted rule (every second slot), moves to a length of 1, clock to 3 | `TypeOK`, `NoDuplicates`, `NothingLeftBehind`, `RowsMatchRules`, `NoRowLost` hold in about 2.4 million states |
| `life` | an organization without a window at first, one client, one series, action items, one failing job, moves to a length of 2, retention 2, clock to 4 | `LeadKept` under `FairSpec`, and `OrphansOnlyByRetention` |
| `yearly` | one yearly rule with a count of two | `NoDuplicates` fails |
| `split` | one series that is split | `SplitsShareSeries` fails |
| `cut` | one daily series, one job | `CutIsFinal` fails |
| `starve` | two organizations, `MaxOrgs` 1 | `LeadKept` fails |
| `mail` | three mails, two of them of users that may be deleted, two calls, batches of two, `MaxRetries` 2, one fault | the safety properties, the refinement `Delivers` and `Settles` (0.7 million states) |
| `plugins` | two plugins with one extension each, two requests at a time, three in all, one fault | four agreements at rest (4.3 million states) |
| `attendance` | one user, one invitation, three rows, two mutations at a time, no bound on their number | four properties (0.8 million states) |
| `members` | two users, three requests ever, two mutations at a time | four properties (1.2 million states) |
| `campaigns` | one fund and campaign, two users, three pledges ever, amounts 1 and 2, `MaxInt` 3, times 0 to 2 | three properties (1.2 million states) |
| `sessions` | three refresh and two reset tokens, two requests at a time, four in all, threshold 2, one crash, lost answer or failed revocation | six properties (1.1 million states) |

*Why these bounds.* Each hazard of this component involves one rule, the rule it
was split from, one slot, and at most two mutations and a job between their steps.
Two rules give a split and its origin; three mutations a create and two that race;
two clients the race itself; clock 3 lets a window that ends at 2 come due and be
processed; `MaxCopies` 2 lets an occurrence be inserted twice, which is what
`NoDuplicates` forbids. The bounds limit what is started (`Tick`, `Begin`,
`NewSeries`, `Insert`, `FailJob`, `AddItem`), never what a started step does.

The other components. Two requests at a time give every race of a pair, and
the properties are about pairs: one row and two writers, a check and what passes it
by. Ids are consumed, so that `Ids`, `PledgeIds`, `Tokens` and `Resets` bound how
often something is created: three are an old one, its successor and another one made
by a request in between. `Extensions` is one in `plugins`; that extensions load
one by one matters only for a failure half-way, which excuses the plugin. In
`mail`, three mails and batches of two make one mail wait for a second batch, and one that
is not `Addressed` shares a batch with one that is deleted. Three requests in `plugins` are
one that installs or renames a plugin and two that race on it, or on another one.
`MaxFaults` 1 in each run lets a failure meet every other step once. `MaxInt` 3 is the
smallest that two pledges reach and overflow. `Threshold` 2 and `MaxAttempts` 2 let a
wrong password count from one to the lock. `MaxBegun` bounds requests only where
the state space needs it.

*Deadlock.* `mail` can come to rest, when every mail is settled and the server has
exited for the last time within its bounds. For the series, the bounded clock and requests let an instance come to rest too; these
runs say `CHECK_DEADLOCK FALSE`. In the other runs TLC checks that some step is
always possible. Nothing waits on anything, but a second acceptance of an invitation
for the first one.

*Symmetry.* The clients of `series`, and the ids and requests of the later runs but
`mail`, are interchangeable; `series` and these runs check safety only.

*Fairness.* `FairSpec` assumes weak fairness of `Discover` and of the steps of the
jobs of each run: cron starts a run every hour for ever, and a run works through
its jobs. Nothing is assumed of clients, the clock, the cleanup or failures. A job
may fail at most `MaxFaults` times: with unlimited failures nothing could be
promised. The hourly `lastProcessedAt` condition is `processedAt < now`: one slot
is much longer than an hour. In `starve` fairness of `Discover` is no help: a run
that takes the same organization each time is a fair run.

The fairness of `mail` is weak fairness of the calls: the timer fires every 30 seconds for ever, the
provider's client has time-outs, and what is awaited comes back. Nothing is assumed of
those who queue mails, nor that the server starts: `Settles` asks for the mails
only when it stays up from some point on.

*Premises that matter* for the series, found by TLC with other constants:

* Two overlapping runs (`Workers <- TwoWorkers`) break `NoDuplicates`: both
  find a slot empty and both insert. Nothing in the code prevents overlap.
* An organization without a window and two clients break it with one worker: both
  creates find no window and insert one each, and each window yields a job for the
  same rule.
* A start date before the organization's window was created (`Earliest` negative)
  breaks `NothingLeftBehind`: a split generates from the earlier of its start and
  now, for the length of the hot window, and the gap to the frozen window end stays.
* A cut at an instance that had been moved past the end of its rule makes the end
  later, which is why `history` keeps the earliest.
* An instance the cleanup deleted is generated again when its slot is not before
  the window end. With the real constants (3 months against 12) this takes an
  organization whose window was never extended, which is every organization.

## 11 Proofs

The theorems hold for every value of the constants that meets the named assumptions:
bounds are natural numbers and `None` is none of the values it stands beside; for the
series, slots are integers and yearly inputs have an end, as the validation
requires (`ConstantsAssumption`, `NoneIsNoRule`); a plugin has finitely many extensions
(`ExtensionsAssumption`). The history variables that appear in a property are part of
what the theorem says: it holds unless two requests about the same thing overlapped.

`RecurringSeries_proofs`:

* `TypeCorrect` and `RowsAlwaysMatchRules`, from one inductive invariant
  `SeriesInv == TypeOK /\ RowsMatchRules /\ FreshRules /\ JobsMatchRules`.
  `RowsMatchRules` alone is not inductive: a job inserts slots it computed
  earlier, so the invariant must say that what it found are slots of the rule
  *whatever happened since* (`JobsMatchRules`). That holds because a cut changes
  only a rule's end (`Keeps`, `CutKeeps`, `SameGrid`) and because identifiers are
  fresh (`FreshRules`), so no job is ever about a rule created after it.
* `NoDuplicatesWhenSerial`, under `SerialGeneration`: runs do not overlap, windows
  exist from the start, no recurrence is yearly. These are exactly the premises
  whose absence lets TLC break it. The invariant adds that each organization keeps
  one window, hence one job a rule (`OneWindowEach`, `JobsDistinct`), and that what
  a job has filtered is still missing when it inserts: no other step adds
  instances to an existing rule (`RowSteps`).

`RecurringSeries_losses`:

* `NoInstanceLost` and `OrphansComeFromRetention`, action properties, without any
  premise on the number of runs. They need that a split which read a rule before
  its transaction still has the right series in hand (`SplitsMatchRules`) and
  that identifiers are unique (`IdsUnique`); an instance updated in place is then
  not a lost one.
* `NoneLeftBehind`: `NothingLeftBehind` holds in every behaviour in which no
  organization gets a second window and no rule starts before the window was created
  (`WindowsFirst`, the two premises whose absence lets TLC break it, section 10). The
  invariant `Covered` goes by the earliest end a rule ever had and not by the
  one it has, because a split may give it a later one (`Tightens`, `CutTightens`);
  `WindowsReach` says that no window ends later than a mutation of today generates,
  and that a rule has a window from its first transaction on. `AllOccur` is the
  arithmetic: the count of a rule excludes nothing before the end computed from it.
* `NoneLeftBehindFromStart` derives `WindowsFirst` from constants: every organization
  has its window from the start and no date before that is picked, as in the run
  `series`.
* `CutsAreFinalBetweenReads`: `CutIsFinal`, which the run `cut` finds violated, holds
  in every behaviour in which no rule gets a new end between the step in which a job
  reads it and the step in which the job inserts (`NoCutMeanwhile`). So that
  interleaving is the only cause, and a lock or a second look at the rule the cure.

`EmailQueue_proofs`: from the inductive invariant `QueueInv`, `TypeCorrect`, `ReadsCurrent`,
`Duplicates`, `Retries`, and `Implements`, the refinement of `Delivery`. What makes it
inductive is that at most one call is not idle while the flag says so, and for each
mail an account of its attempts: those noted in `retryCount`, one for an answer that is
not recorded yet, and one for each fault. The refinement maps each step to a `Queue`,
an `Attempt`, a `Settle`, a `Withdraw`, a `LastAttempt`, a `Forget` or a stutter; that
`Settle` has its reason is the account again, which a mail that is gone keeps.

`Attendance_proofs`: `AttendanceInv` gives `OneRowEach`, `OutOnlyAfterIn`,
`AcceptanceIsWhole` and `TypeCorrect`. It says what a mutation that has read a row, or
found none, may still rely on (the row is the one of its user or is gone; nobody
else inserted one unless the user has raced) and which acceptance holds the lock of
its invitation. `UndoesNothing` is an action property from the same invariant.

`Members_proofs`: `MembersInv` gives `DeletedLeaveNothing`, `ApprovalAdmits`,
`AdmissionsRecorded`, `TypeCorrect`; `OneDecision` is an action property. It adds that ids of
requests are used once (`IdsApart`), that what a decision read is still so unless
two raced (`Current`) and that two decisions on one request have raced (`Serial`).

`Sessions_proofs`: four invariants, each inductive given the one before. `TypeInv` (with
what requests have in memory) gives `TypeCorrect` and `DeletedLeaveNothing`; `LockInv`
(the count is right as long as no wrong password was lost) gives `AccountLocks`; `ResetInv`
(nothing is usable while a new token is about to be stored, and the one request that
has a token is the only one to use it) gives `OneReset`. `ChainInv` gives
`OneLiveToken`, `ClientsStaySignedIn` and `SignedOutForGood`: in a session that is not
forked one request exchanges a token and what lives is what it has (`Straight`), a session
that ended has neither a live token nor such a request (`Over`), and what the route
has stored, and not returned, is the next token of the session of the old one (`Stored`).
The lemma `OneSession` says once that a step with a token of one session leaves the
others as they are.

`Campaigns_proofs`: the sum of the pledges is a fold over a set, so the first part proves
what such a sum is: it is a number, equal amounts have equal sums, and taking out any
one pledge takes out its amount (`SumType`, `SumSame`, `SumSplits`). The induction rules of
the library take an operator as a parameter, which the provers cannot instantiate;
these lemmas take instead a smallest set for which they would fail (`SmallestSet`, from
`NatLessThanWellFounded`) and refute it. Then `CampaignsInv` gives `SumsAreRight`
(`RaisedIsPledged`), `WindowsInOrder`, `NoneDangles` and `TypeCorrect`. It adds what a request
in flight may rely on (`InMemory`: the campaign of a pledge it has read does not change),
that an update of the dates that was not crossed leaves the times in order that it
finds when it writes (`Updates`), and that only finitely many rows ever existed.

`Plugins_proofs`: four invariants, because the four places are written by different
steps. `ServerInv` gives `TypeCorrect`: each request is at a step its kind has (`Route`) and
what it knows of row and object is right, wherever an update moved the row (`Knows`); a
stopped server has no requests and nothing in memory. `TablesInv` gives
`InstalledComplete` (`InstalledHasTables`): an installed plugin has its tables, or a request
is about to create them or to delete the row (`Placed`). `SchemaInv` gives `SchemaRight`
(`SchemaCurrent`): unless a request still owes a rebuild or one was refused, the schema
offers what is active, or the rebuild in flight has registered or still has to register
it (`Followed`). `MemoryInv` gives `StatusesAgree` (`Agreement`) and `RegistryRight`
(`RegistryExact`): what row, object and registry are at each step of a request that works
on its plugin alone (`Phase`), with each extension once in the registry. `Outcomes` and
`StepFrames` say once where each step leaves its request, and what every step leaves alone
for the other plugins; `Following` says what a row that is moved or deleted does to the
requests that have read it. The invariants are proved from these.

Each module has one lemma for each action or group of actions, and each theorem ends
in a temporal step. Lemmas fail where the code would: with the registry entries kept by
`uninstall`, or the first instances not generated, the proof stops at that action.

*Model-checked only:* the liveness properties `LeadKept` and `Settles`: liveness under
fairness and `ENABLED` are out of the prover's reach. `LeadKept` also rests on the worker's
being fair, which is an assumption on cron. `SplitsShareSeries` fails on every split, so
there is nothing to prove about it.

## 12 Divergences and observations

Four statements of the repository that the code does not meet, each a run that TLC
finds violated:

1. `yearly`: "before inserting, generation checks for existing
   `original_instance_start_time` within the window to avoid duplicates"
   (`events-overview.md:199`). A yearly rule is expanded without regard to the
   window (`occurrenceCalculator.ts:59`), and the check looks only within it, so a
   worker run inserts the earlier years again.
2. `split`: the new rule "inherits this ID from the original series"
   (`recurrenceRules.ts:126`); `updateThisAndFollowingEvents.ts:423` gives it its
   own. Erasing or cutting the series from one part does not reach the other.
3. `cut`: "We set the current rule's `recurrence_end_date` to just before this
   occurrence (effectively trimming the series)" (`events-overview.md:165`). A job
   that expanded the rule before inserts beyond the new end afterwards.
4. `starve`: a run does "Update housekeeping (window end, last processed counts,
   etc.)" (`events-overview.md:102`). `updateWindowAfterProcessing` has no caller,
   windows stay where they were created, and with more organizations than a run
   takes the same ones may be taken in every run.

Observed while modelling, where no document says otherwise; the models contain
each of them:

* *Email.* Two servers would send the same pending rows, since `isProcessing` belongs
  to a process. `email.md` describes a last failure as "`retryCount: 2 -> 3`, status
  'pending' -> 'failed'" and an exponential backoff; the code does not write the count
  with the last failure, and tries again at the next tick of 30 seconds. The status of the
  notification log stays "pending".
* *Plugins.* The builder is a module singleton (`builder.ts:10`) that
  `registerBuilderExtensions` only adds to and `toSchema()` is called on
  (`schemaManager.ts:80`), so the fields of a plugin that was deactivated or deleted stay in
  the schema until the process ends. The comments say otherwise: "Listen for plugin
  deactivation to remove fields" (`schemaManager.ts:32`). `FinishRebuild` follows the code, and
  `offered` grows until `Exit`. A rebuild that is refused because one is running is not made
  up for (`missed`), also with one client: the rebuild that a deactivation starts in the
  background refuses the one of the next activation. Renaming an active plugin leaves
  the old id active in memory without a row. `updatePlugin` may write `isInstalled` without
  an installation, or write back the value it read before an await. A plugin activated
  without being installed is not loaded after a restart. A load that fails half-way leaves
  its registry entries; deleting a plugin that is installed but not loaded leaves its
  tables; a deletion whose row was replaced meanwhile drops the tables of the plugin that was
  installed anew; a directory that cannot be deleted leaves an installed row without tables;
  without a manifest an uninstallation does nothing and the deletion goes on. An upload of a
  plugin that has no row fails at its insertion (a ulid for a uuid).
* *Attendance.* No unique index: overlapping mutations insert two rows, and so does
  `registerForEvent` after a check-in of somebody not registered (`registerForEvent.ts:176-216`
  updates a row that is invited, refuses one that is registered, and else inserts). `checkOut` then picks any of them. An acceptance
  whose row was deleted in between commits without an attendee.
* *Members.* The pending status is checked before the write, and the write goes by id
  alone, so that overlapping decisions decide twice (`raced`). A decided request stays,
  and its user can never ask again. `sendMembershipRequest` does not look for a
  membership, `createOrganizationMembership` and acceptances of invitations do not look at
  `userRegistrationRequired`, and joins do not look at blocks.
* *Campaigns.* `updateFundCampaignPledge.ts:166-172` adjusts the sum by an amount it read
  before its transaction. Deleting a user cascades to pledges and leaves the sum.
* *Sessions.* The mutation `refreshToken` does not look at whether its revocation found
  the token live, so that two overlapping exchanges make two branches of a session, and
  an exchange in flight continues a session over a sign-out. Two overlapping
  `requestPasswordReset` leave two usable tokens, and `resetPassword` does not look
  again at its token in the transaction. Wrong passwords at the same time count once.
  A client whose answer to an exchange is lost has only a revoked token left.
  The REST sign-in does not take part in the counting. `updateUserPassword` does not sign
  out, `adminUpdateUserPassword` does.

## 13 Not modelled

* `updateEntireRecurringEventSeries` rewrites names and descriptions only;
  standalone events have no generation.
* byDay, byMonth, byMonthDay, month lengths and the iteration cap of the occurrence
  calculation: planned as `Occurrences`.
* `retentionStartDate`, `hotWindow` settings per organization and processing
  priorities: written with fixed values, and never used to decide anything.
* Authorization and roles (`updateOrganizationMembership` with them), attachments, agenda
  folders, notification texts: they guard or follow the steps above and change none of
  this state.
* Isolation inside a transaction: one action each, except where a row lock decides
  (`Attendance.Lock`).
* Plugins: the column `backup`, which is written and which nothing here reads; hooks,
  webhooks, Docker, module caches, and a rebuild that throws.
* Sessions: access tokens, cookies, email verification and rate limits; the times of
  expiry are replaced by the event of expiring.
* Attendance of recurring instances: the same code with another key. The deletion of a
  user or an event, which deletes the rows of attendees: for the properties of one user
  it is a removal and a departure at once, and an insertion after it violates a foreign key.
* The cache is best effort by design and bounded by a time to live; the rate limiters
  promise a rate in real time. Both are the next items of the plan, with `Occurrences`.
* Volunteers, agendas, venues, tags, posts, comments, votes, chats: single-row writes
  behind checks, of which `Members` and `Attendance` model the pattern.
* Subscriptions, object storage, metrics, configuration, installation: pass-through, or
  best effort with no promise to check.

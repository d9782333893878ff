# Fortytwode: specifications, model checks and proofs

Fortytwode is a Go web server over PostgreSQL. A student authorizes it with 42's
OAuth, it fetches their 42 data, and it shows the result as a profile page that can
be kept as an account. This directory holds TLA+ modules for the parts of the program
where the order of steps matters, the TLC configurations that check them on small
instances, and proofs, checked by TLAPS, for every size of instance.

All source paths below are relative to `src/internal/`.

## Inventory

| Component | State it keeps | Operations | Talks to |
|---|---|---|---|
| Account and session tables (`store/store.go`, `store/schema.sql`) | `accounts` with four token/sent-at column pairs, `email_verified`, `pending_email`; `sessions` | one SQL statement per method; each is atomic but `ConsumeEmailChange` | called by every handler |
| Account handlers (`web/handlers.go`, `web/verify.go`, `web/delete.go`, `web/auth.go`) | none of their own: a goroutine per request | sign-up, verification and its resend and correction, magic-link and 42 login, e-mail change, deletion, logout | tables, mailer, limiters |
| Purge loop (`web/server.go`) | none | every 30 minutes: stale cooldowns, expired sessions, unverified accounts | tables |
| Job registry (`web/jobs.go`) | map from job id to job, under one mutex; each job under its own | create, evict, sweep, delete, fail, finish, linkAccount | callback, stream, sign-up |
| Sync (`web/oauth.go`, `startSync` in `web/handlers.go`) | a goroutine per job, independent of the request | pre-check, reserve, fetch, identity check, update, link, finish, release | registry, cooldowns, accounts, 42 API |
| Sync cooldowns (`store/store.go`) | `sync_cooldowns`: 42 id, time of last sync | ReserveSync, ReleaseSync, SyncCooldown, PurgeStaleCooldowns | sync |
| Rate limiters (`web/auth.go`, attemptLimiter) | per-key windows in memory, under one mutex | take, allowed, recordFailed, clear, prune | handlers, alerts |
| Alerts and secret expiry (`web/alerts.go`, `web/secret_rotation.go`) | the limiter's marks | send once per window, forget on failure | mailer |
| 42 API client (`api42/client.go`) | a token bucket shared by all syncs | request with retries, paging, photos | 42 API |
| Fetch (`fetch/fetch.go`) | none | `/me`, then each collection; a failing collection is skipped | client, sync |
| Token exchange (`auth/auth.go`) | the latch between two client secrets; the CLI's cached token | exchange, refresh, authorize in a browser | 42 OAuth |
| Migrations (`store/migrate.go`) | `schema_migrations` | apply in order, each in a transaction, under an advisory lock | PostgreSQL |
| Snapshot (`snapshot/snapshot.go`) | none: pure | curate, scrub | store |
| View (`view/build.go`) | none: pure | build the page's model under the visibility rules | handlers |
| Profile, settings, photo (`web/handlers.go`) | `is_public`, `visibility`, `account_photos`; the browser's photo cache | save, restore, show, serve a photo | view, tables |
| Statistics, campus zones (`store/store.go`) | counters and a map in memory beside their tables | increment, load, note | handlers |
| Mail, pages, routes, configuration, static files | none | I/O and rendering | |

What is hard here, and where a test would hardly reach:

* Handlers read an account, decide, and write later, statement by statement, next to
  every other handler of the same account (double clicks, two browsers, a link followed
  while a resend is in flight).
* Links live in mailboxes for as long as anybody likes, are lost or late, and are
  followed after they were superseded, expired, or their account went.
* A sync outlives its request, its cookie, its job's place in the registry, and
  sometimes its cooldown; the account it resolved may be gone when it writes.
* A page, its photo and the snapshot behind both are read and written in separate
  statements, and the browser keeps the photo for a day.
* What was stored by an earlier version of the program is still read: snapshots without
  zones or lists of feedback, settings that say nothing of a section.
* The process may stop between any two steps. Jobs and limiters are in memory only.
* `PROJECT.json` lists each hazard at its line, with the properties that watch it.

What makes each component correct, in short: a link acts once, for its account and purpose,
while outstanding; an account is verified only by a link; nobody removes an account but its
owner or the grace window; nothing of an account outlives it; an e-mail change that is answered
has signed every earlier session out, or logged that it could not. One running sync per client,
no live sync lost to eviction, every job ends, data of a 42 user lands only on that user's
account, a cooldown is held by a sync that earned it, and is not held twice. An alert goes out
once per window and again while its cause lasts. A viewer sees what the owner chose, nothing
stored names a stranger, and what memory says agrees with the tables through restarts.

## Modules

| Module | What it is |
|---|---|
| `AccountStore` | the tables `accounts` and `sessions`; an operator per SQL statement |
| `Accounts` | the handlers over those tables, a statement per action |
| `OneTimeLink` | abstract specification: what an emailed link promises |
| `MCAccounts` | TLC instances of `Accounts` |
| `AccountsProofs` | its safety properties and its refinement of `OneTimeLink`, proved |
| `SyncJobs` | registry, callback, background sync, cooldowns |
| `MCSyncJobs` | TLC instances of `SyncJobs` |
| `SyncJobsProofs` | its safety properties, proved |
| `AttemptLimiter` | the sliding-window limiter, as operators on its map |
| `RateLimits` | mail budgets and bad-token budgets over it |
| `RateLimitsProofs` | their caps, and that they refuse nobody without cause, proved |
| `MaintainerAlerts` | the client-secret alerts over it |
| `TokenExchange` | the exchange of a grant at 42 with two client secrets |
| `SignIn` | `TokenExchange` and `MaintainerAlerts` in one process, composed |
| `SignInProofs` | safety of the exchange, of the alerts and of their composition, proved |
| `CliToken` | the command line's token file and login |
| `Migrate`, `MCMigrate` | the runner of schema migrations, in several processes |
| `SchemaHistory` | abstract specification: how a schema grows, and who serves it |
| `MigrateProofs` | its safety properties and its refinement of `SchemaHistory`, proved |
| `Pull`, `MCPull` | one account's syncs seen from the data: retries, pages, curation, merge |
| `PullProofs` | what is fetched is whole and what is stored is not lost, proved |
| `Profiles` | settings, profile pages and photos, seen by any viewer |
| `ProfilesProofs` | its safety properties, proved |
| `Curation` | pure: what is kept and shown of an evaluation |
| `Snapshots`, `MCSnapshots` | stored snapshots over `Curation`, campus zones, counters |
| `SnapshotsProofs` | what is removed from texts, authors, zones and counters, proved |

`RateLimits` and `MaintainerAlerts` extend `AttemptLimiter`, as their Go code holds its
limiters. `SignIn` extends `TokenExchange` and instantiates `MaintainerAlerts`: a request
that `TokenExchange` ends rejected is what starts a `Rejected` of `MaintainerAlerts`.
`Snapshots` stores what `Curation` makes of an evaluation. The other components meet in
their effects only: `SyncJobs` has the outcomes of `Pull` (refused after `/me`, failed,
done), and `Profiles` takes from it that the cooldown keeps two syncs of a user apart.

### Accounts

*State.* `accounts` maps the ids of the table's rows to records: address, 42 id, `verified`,
pending address, and a slot per kind of link (verify, login, change, delete). A slot is a
(token hash, sent-at) column pair. A sent-at is represented by the only thing a statement asks
of it: whether it lies within the link's TTL (`fresh`), is past it (`expired`), or, for
verification, is past the grace window as well (`stale`); `none` is NULL. `sessions` maps
unexpired session ids to accounts. `created` is the SERIAL sequence. `reqs` holds the handlers
in flight: a program counter, the account and address the handler has read, and for a confirmed
e-mail change the cookie's session, the session it rotated to, the token it has matched, the
sessions open when the change applied, and whether a failure was logged. `links` is what the
inboxes hold, `redeemed` a history of tokens that acted.

*Actions.* A handler's reads before its first write are one action with that write's
guard when nothing of theirs is used later; otherwise the value read stays in the
request record and each statement is an action. So `VerifyResend` reads the account
(`requireUnverified`) and `IssueVerification` later writes on what it read;
`SettingsEmail`, `ProbeChange`, `IssueEmailChange` are the read, the probe and the write
of `handleSettingsEmail`; `ConfirmEmailConsume`, `PromoteEmail`, `OwnBrowser`, `RotateSession`,
`DropRotated`, `DropOthers`, `Respond` are the steps of `handleConfirmEmailConsume`. The first
two are one SQL statement, `ConsumeEmailChange`: its WITH query matches the token's hash, as of
the start of the statement, and the UPDATE joins on the id alone, so under READ COMMITTED a
`SetEmailChange` that commits in between has its address promoted by the older link
(`Promotable`, `PromotePending`). The other redemptions compare the hash on the row they update
and are one step. `RotateFails` and `DropFails` are the failures that this handler only logs
before it goes on to the answer, with the statement done or not. A
42 login and a returning user's sync sign-in share `LoginFlow` and `StartSession`.
`Abort` stands for a failing statement, a client that disconnects (`r.Context()`) and the
process being stopped: the request goes, what it wrote stays. A statement that commits
and reports an error is an abort after it. A mail that is never delivered is a link
nobody follows.

*Left out.* The limiters (a refused request changes nothing here), the pages, the GET
handlers that only peek at a token, and the columns no flow of this module decides on:
snapshot, visibility and photos (in other modules), theme, `ft_login` (which follows the
42 id).

*Bounds.* The model has no counters: ids and tokens are the bound. Account ids and
tokens are never reused, so their numbers cap sign-ups and links issued in a behaviour.
Session ids are reused once nothing refers to them. Slots age independently of each
other, which allows more than clocks would; no property compares two sent-at times.

### Sync

*State.* `jobs` is the registry's map; `pulls` the goroutine of each job, which may outlive the
job's entry; `claimed` the handlers about to delete a job they used; `slots` the cooldown
table; `accounts` reduced to the 42 identity bound to it and the identity whose snapshot it
holds. Two histories: `fetches`, the syncs that reserved within the last cooldown and have not
failed, each with whether a foreign release deleted its slot (`robbed`) and whether the process
went down under it (`killed`), and `leaked`, identities whose slot was left behind by a sync
that came to nothing. Ages are counted in ticks and stop where the code no longer distinguishes
them (`Older`'s cap).

*Actions.* `Callback` is one critical section of the registry (`create`), which decides both
refusals, and starts the pull; `PreCheck` the early look at the cooldown; `Reserve` the
single-statement claim once `/me` has answered; `Fetched`, `WrongIdentity`, `Lookup`,
`UpdateSnapshot`, `LinkAccount`, `Finish` the rest of `startSync`; `FailEarly` and `FailLate`
its failures before and after the reservation; `ReserveUnanswered` a reservation that took
effect and was answered with an error, after which `reservedID` is not set and nothing is
released; `Release` the deferred `ReleaseSync`, which may itself fail; `UpdateFails` a
statement that failed or whose answer was lost (`WriteData` or nothing); `Signup`,
`SyncSignin`, `DeleteJob` what the browser does with a job; `Sweep`, `PurgeStaleCooldowns`,
`DeleteAccount`, `Tick` and `Crash` (a restart) the rest. Fetching is one step with three
outcomes: the 42 API and paging are `Pull`'s. Photos are in `Profiles`; progress and the slow
flag are left out.

### Limiters and alerts

`AttemptLimiter`'s map holds a set of attempts for a key, each with its age and a number among
those of its tick: the code's list of times, of which no order is asked. An operator is a
critical section of its mutex. `RateLimits` has the two ways handlers use it. A mail budget is
one `take` (`RequestSend`). A bad token is two critical sections with the database between
them: `Present` (`tokenAttemptAllowed`), then `BadToken` (`recordBadToken`) or `NotCharged`.
`granted` and `failed` are histories of what happened, whatever the limiter remembers. The four
mail limiters differ in their numbers only and share the variable `sends`.

`MaintainerAlerts` has `sendMaintainerAlert` in two steps, as the mail goes out without
the lock: `StartAlert`, then `MailOut` or `MailFailed`. Its senders are the periodic check
(`DueAlert` is `secretExpiryAlert`) and requests whose exchange was rejected. `MailFailed` is a
call that reported an error: its mail may have been delivered, as when the answer of the mail API
was lost, and the server clears the mark all the same. `mails` has the mails whose call
succeeded. A mail call may straddle one tick, as it ends within 15 seconds and the window is a day.

### Token exchange and command line

`TokenExchange`: each request goes `Begin`, a round trip with one of the secrets
(`Accepted`, `Rejected`, `Failed`), for a rejected current secret one more, and `Latch`.
`phase` is 42's rotation and external. `spent` is the codes 42 has spent, also where its
answer got lost. `Again` is a later visitor, with a code of their own.

`SignIn` puts it beside the alerts. `Refuse` is a rejection: the last one of a request
starts the goroutine of its alert (`toReport`), which runs later (`Report`) and may find
the key muted. `Answer` has the other steps of requests; `Redeploy` restarts both halves at
once, with the same configuration for both.

`CliToken`: `file` is `.token.json` by what can be done with it; a run reads it, refreshes or
logs in, and truncates and writes it. `visit` and `results` are the callback handlers of
`waitForCode` and its channel: one result is received and one waits in it, so a third handler
blocks, and the run with it (`Crowded`), until the user gives up (`Interrupt`). A browser
repeats a redirect once now and then; a third request is counted as trouble. `troubles` counts
what goes wrong without need, up to `MaxTroubles`. A run of the command line is alone: two at
once are not modelled.

### Migrations

`Migrate` has a process per start of the program (`Open`), each from some build, a
function from migration numbers to what their files say. A process takes the advisory
lock (`Lock`), creates and reads `schema_migrations` (`Look`, `CreateTable`,
`ReadApplied`), and goes through its files in order: `Skip`, `Modified`, or one
transaction of `Exec`, `Record` and `Commit`; every return unlocks (`Unlock`). `lock` is
held by a connection other than those that do the work, so `LockLost` lets a second
process in while the first goes on; then the primary key of `schema_migrations` is what
keeps a migration from taking effect twice, and an `INSERT` waits for another of the same
version (`Inserting`). `CREATE TABLE IF NOT EXISTS` is two steps, as it is in PostgreSQL,
which is external. `runs` and `torn` are histories; `troubles` counts failures, lost
answers and crashes up to `MaxTroubles`. Left out: what a migration's statements do (so
also 0001's `IF NOT EXISTS` on a database populated by hand), names that are no number,
and two files of one number, which no build has.

`SchemaHistory` is what a deploy counts on, without locks, reads and transactions. The schema
grows by one migration at a time (`Grow`), and only if every earlier file of the build it comes
with is in the schema as that build has it; its statements take effect then and never again. A
server starts serving only on a schema that agrees with its build (`Serve`), and as rows stay,
goes on so. The mapping is `rows` to `table`, `effects` to `runs`, and `serving` to the
processes that are `done`, with their builds (`InService`).

### Pull

A pull asks for `/me`, the photos, and page after page of each collection; `upstream`, 42's
data, changes at any moment. `Curated` keeps the collections `Curate` knows and could unmarshal
(`malformed` is any set of the others). It is not key by key: evaluations carry the id of
their project only and take its name from the same pull's `projects_users` (`Named`). `Store`
merges what comes out (`Merged`, `data || $2`), `StoreFailed` is a statement that failed or whose
answer was lost, and photos are saved one by one. Of a photo only its presence matters, of a
record only its identity, of a stored evaluation also whether it has its project's name: a project
and the evaluation of it are the same member of `Records`.

### Profiles

One profile and one browser. `row` is the account: its visibility settings and `synced`,
the fetch its `fetched_at` is from; `photos` maps stored variants to the fetch that found
them. `Save` posts the settings form with any boxes changed, `Restore` the other form of
the page, which holds a hidden field for each default; `ParseVisibilityForm` makes of both
what `UpdateVisibility` stores. `SignUp` and `Sync` write the row and leave the variants to
`SavePhoto`, one statement each and in any order, or `SaveFails`.

A visit has the steps of two requests: `Open` is `currentAccount`, `ReadProfile` the row
and everything `Build` makes of it, `LinkPhoto` the second query (`setPhotoURLs`), which
may find another state (the page links the small variant and the original, of which the visitor's
browser asks for one), `ReadPhoto` and `ServePhoto` the request for the photo, whose
viewer is looked at after the row. `cache` is the browser's, by URL. `choice` is what the
owner last posted and `raced` the URLs whose answer came between a snapshot and its
photo. Sections are members of a set with or without data; what is inside a section is
left out, as is the login in the URL, which a profile has one of.

### Snapshots

`Curation` is pure. A text is a sequence of letters and of the possessive a generic team name
holds; a login is a sequence of letters. `FromTheLeft` and `Erase` are `strings.ReplaceAll`:
each occurrence that does not overlap the one replaced before it becomes marks, one for each
letter, so that positions do not move (the code writes the word `[redacted]` once). A login
that is a part of that word (`red`) is left out: the code finds it again in its own
marks, and marks them. `Scrub` is `loginScrubber`, one login after the other in the order of
`LongestFirst`, `EvalFrom` is `evalFrom` and `BuildEntries` the loop of `buildEvals`.
`LegacyEvalFrom` is what an earlier version stored. The reference they are compared with,
`NamesMasked`, knows neither passes nor an order: some of the logins of strangers in the
original text are masked and nothing else is, no two of them overlap, and each login that is
not masked overlaps a masked one that is at least as long.

`Snapshots` has one evaluation of the owner, and a mate of the same campus. `Store` is a sync
of either: it may bring a zone or none, the evaluation or not. The zone is noted in memory
after the row is written (`NoteCampusZone`) and loaded at start. In `StoreUnanswered` the row
is written and the statement reports an error, as when the visitor who signs up disconnects:
the zone is then not noted, and `unnoted` has the row until its next sync or the next start. A
download counts in memory and starts the statement that adds to the table (`writing`), which
lands in any order, fails or dies with its process (`Restart`).

## Runs

Every run takes at most two minutes with two workers. `CHECK_DEADLOCK` is left on: no
model here stops, since time, sign-outs, restarts or a next run are always possible.

| Run | Instance | What it shows |
|---|---|---|
| `accounts` | 2 accounts, 2 addresses, 2 identities, 2 tokens, 2 session ids, 2 requests | `LiveTokenIsMailed`, `VerifiedByLink`, `IdentitiesUnique`, `SessionsOfLiveAccounts`, `GatedLinks`, `ChangeSignsOut`, `RemovedOnPurpose`; `Accounts` implements `OneTimeLink` (`ImplementsOneTimeLink`) |
| `links_settle` | 1 account, 2 addresses, 3 tokens, 1 request, fair | `LinkSettles`, `SignupRecovers` |
| `reaps_verified` | 1 account | violated, see Findings |
| `superseded_change` | 1 account, 3 addresses, 3 tokens, 2 requests | violated, see Findings |
| `sync_jobs` | 2 jobs, registry of 1, one client key, 2 accounts, 2 identities, TTL and cooldown of 2 ticks | `SnapshotIsOwn`, `MatchedIsOwn`, `CooldownIsEarned`, `LiveSyncKept`, `RefetchOnlyIfRobbed` |
| `rate_limits` | 1 key, 3 requests, 2 attempts per window of 3 ticks, fair | `SendCap`, `BadTokenCap`, `LockoutIsEarned`, `BudgetReturns` |
| `sign_in` | 2 sign-ins at a time and the check, window of 2 ticks and lead of 1, fair | `LatchEarned`, `NoNeedlessRejection`, `OncePerWindow`, `MutedOnlyByMail`, `OutageReported`, `RefusalsReported` |
| `cli_token` | 3 callback requests, 2 troubles, fair | `LoginReturns`, `Served` |
| `migrate` | 2 processes, 2 migrations, an old, a new and an edited build, 2 troubles, fair | `ServedSchema`, `Serialized`, `Deployed`; `Migrate` implements `SchemaHistory` (`ImplementsSchemaHistory`) |
| `pull` | the projects and evaluations of them, lists of 2 and 3 records, pages of 2, 1 retry, fair | `FetchedWhole`, `SkippedIsKept`, `PullEnds` |
| `profiles` | 2 sections, one private by default, 2 fetches | `SeenAsChosen`, `PhotoFresh` |
| `snapshots` | evaluations of 4 people whose logins contain or overlap each other, 2 accounts, 2 downloads | `StrangersRemoved`, `AuthorsTrue`, `ZoneKnown`, `CountersAgree` |

*Why the bounds suffice.* Two accounts are enough for a competition over an address or an
identity, and a statement touches the row of one account. Two tokens are a superseded and a
live link, or the verification and the change link that a sign-out needs; a third, in
`links_settle`, is one more resend. Two session ids are a session to sign out and the one it is
rotated to, or two to sign out by a browser without one. Two requests interleave in every pair
of handlers; a third only repeats a pair, as no property relates more than two. For syncs, two
jobs are the one whose slot outlives it or is reserved beside it and the one that reserves it,
releases it or refuses to make room for it; a job id is free again once its entry, its
goroutine and what it counts for are gone, so a behaviour has any number of syncs, two at a
time. Keys of a limiter do not touch each other, so one key is enough; three requests overrun a
budget of two. Lists of two and three records in pages of two have an empty and a short last
page, and each lacks or reorders a record of the other, so that a project goes and comes back.
Three requests to the callback are one more than the login can take. Two troubles are a lost
lock and a crash inside it. A request of `sign_in` begins again when it ended, so two of them
are any number of refusals, two at a time. Two fetches of a profile are one before a visit and
one that races with it, or two sign-ups with a deletion between them; a section of either
default suffices, as each is decided by itself. The logins of `snapshots` are `a`, `ab`, `ba`
and the owner's `b`: one is the beginning of another, two overlap in `aba`. Two downloads are
two updates that land in the other order. The proofs below remove the bounds for every safety
property.

*Symmetry.* The sets of ids are interchangeable and no definition picks among them
(no CHOOSE), so the safety runs use symmetry. Liveness runs do not.

*Fairness.* `Accounts!FairSpec`: the verification slot of a row ages (clocks advance), the
purge runs (a goroutine that ticks every half hour and whose failure is retried at the next
tick, `web/server.go`), and a request in flight continues or is dropped (a goroutine that is
scheduled). Nothing is assumed of people: links need never be followed. `SignupRecovers` adds
in its statement that the owner comes back (`OwnerPersists`): logs in through 42 and asks for a
link, again if a step of that fails, and old sessions expire; strong fairness, as each of these
steps may be interrupted. `RateLimits!FairSpec`: time passes. `SignIn!SysFairSpec`: time
passes, the check runs (`web/server.go:89`), the goroutine of an alert runs, a mail call ends,
and the mail API does not err for ever (strong fairness on `MailOut`); nothing is assumed of
visitors or 42. `RefusalsReported` adds in its statement that sign-ins keep being refused and
deployments end. `CliToken!FairSpec`: a run and its handlers proceed, somebody who wants a
token runs it again, approves the login, and interrupts one that hangs (`Interrupt`, without
which `Served` would not hold); what fails is bounded. `Pull!FairSpec`: a request is answered
or times out. `Migrate!FairSpec`: a process at work proceeds, one that failed is started again
(by whoever deploys: `make prod`, `make migrate`), and PostgreSQL grants the lock in the order
of requests (strong fairness on `Lock`). Nothing is assumed of syncs, time and clients in
`SyncJobs`, whose properties are safety properties; nor in `Profiles` and `Snapshots`.

## Findings

*A verified account can be reaped* (`reaps_verified`). A resend or correction acts on an
account it read as unverified; if the link is followed in between, `SetVerifyToken`
un-verifies the account, and the purge deletes it a week later unless the new link is
followed as well. `web/server.go:64` speaks of accounts that were never verified.

*A superseded link promotes the newer address* (`superseded_change`). An owner who asked for
one address asks for another while the first link is being redeemed. `ConsumeEmailChange`
(`store/store.go:405`) matched the first token's hash; `SetEmailChange` commits; the UPDATE, which
joins on the id alone, applies to the row as it is now, promotes the second address and clears its
link. That address was never shown to receive mail, and the account is a verified one.
`store/store.go:365` says the real e-mail is untouched until the link sent to the new address is
consumed. What does hold, and is proved, is `ImplementsOneTimeLink`: the token that acts was
outstanding when its redemption began, and acts once.

Other disagreements with comments were met while modelling. Each is the exception
that a checked property, as it is worded, leaves room for:

* `web/handlers.go:842` says a confirmed e-mail change signs out all sessions unconditionally. A
  failing rotation or `DeleteOtherSessions` is only logged, and the change is answered as complete
  with the old sessions open: `ChangeSignsOut` says that an answer without a logged failure means
  that all are gone.
* `web/handlers.go:93` says the slot is released if a sync fails. It stays for a cooldown if
  `ReleaseSync` fails, if `ReserveSync` took effect and its answer was lost, or if the process
  stops under the sync: `CooldownIsEarned` says that these are the only ways.
* `web/alerts.go:20` says an alert is mailed at most once per window. The mail call gives up after
  15 seconds (`email/email.go:60`) and has no key by which a repeat would be known, so a call that
  errs may have delivered its mail, and the next one mails again: `OncePerWindow` says that of two
  mails within a window the first one's call had reported an error.
* `snapshot/snapshot.go:161` says a resource that is absent from a re-sync keeps its value. It
  does, but evaluations that are renewed without it lose their projects' names, which an earlier
  sync had stored (`snapshot.go:183` knows that names then do not resolve): `SkippedIsKept` says
  that nothing else is lost, and the names only so.
* `store/store.go:647` says one account that has a zone saved tells it for every other. A row that
  is written by a statement whose answer is lost (a sign-up whose visitor disconnects) does not,
  until its next sync or the next start: `ZoneKnown` leaves out these rows and those just written.
* `web/auth.go:314` says an account stays unverified until it follows a link delivered to
  its address. A login link sent before `handleVerifyEmailChange` moved the account to
  another address still verifies it: `VerifiedByLink` asks for a link of the account.
* `web/server.go:68` says the purge frees the address and identity of never-verified
  accounts. A sign-up that stops before its first verification link has a NULL
  `verify_sent_at`, which the purge spares: `LinkSettles` starts where a link was issued,
  and `SignupRecovers` says that its owner is not locked out.
* `store/store.go:536` speaks of one fetch per cooldown. `ReleaseSync` deletes whatever
  reservation its user has, also one that a later sync made after the first one's
  cooldown passed: `RefetchOnlyIfRobbed` says that this is the only way.
* `auth/auth.go:265` says `waitForCode` resolves once the redirect came. Of three requests
  to the redirect URI the first is received, the second fills the channel and the third
  blocks, and the deferred `Shutdown` waits for it until the user gives up: `LoginReturns` says
  that a login hangs in no other way.
* `web/handlers.go:552` says a re-synced photo is not served from cache. A browser that
  opens the page between `UpdateSnapshot` and `SavePhotos` keeps the old photo under the
  new URL for a day: `PhotoFresh` leaves out the URLs that were answered in between.
* `view/build.go:79` says the e-mail row is dropped for everybody but the owner. It follows
  the toggle of the section "Contact", as the settings page says: `SeenAsChosen`.

## Proofs

A theorem is about every value of the constants, finite or not, that satisfies the
assumptions of its module; each is named below with what rests on it.

| Theorem of `Accounts!Spec` | Statement |
|---|---|
| `TypeCorrect` | `[]TypeOK` |
| `TokenIntegrity` | `[]LiveTokenIsMailed` |
| `VerifiedOnlyByLink` | `[]VerifiedByLink` |
| `GateHolds` | `[]GatedLinks` |
| `NoOrphanSessions` | `[]SessionsOfLiveAccounts` |
| `RemovalHasCause` | `RemovedOnPurpose` |
| `ChangeRevokesSessions` | `[]ChangeSignsOut` |
| `UniqueIdentities` | `[]IdentitiesUnique` |
| `LinksAreOneTime` | `ImplementsOneTimeLink` |

*The inductive invariant* is `TypeInv`. Types alone are not inductive: confirming an e-mail
change writes `pending_email` to `email`, which is an address only because the change slot
holds a token, and a token is in a slot only with its pending address. That is part of
`LiveTokenIsMailed`, which in turn needs `LinkIds`, that a token was mailed once, and that a
request past some step has resolved an account and an address (`ReqsInv`). That a request about
to promote has matched an e-mail change link of its account is `ClaimInv`: whatever the row
holds by then, the token that is redeemed was mailed. The table changes come in three shapes,
each a lemma: a link is issued (`IssueLink`), redeemed (`RedeemLink`), or rows go
(`RemoveRows`). Assumed is that the null values are not among the values they stand beside
(`SentinelAssumption`, `HandlerSentinels`).

The other properties add to it. `GateInv`: a request past the verified gate names an account
that was proved once, and that is a fact about the past, which stays true (`ProvenStays`)
though `verified` itself may be reset. `SignOutInv`: the session a change keeps is not one it
found, as its id was fresh when three sets of ids were excluded; it asks for the sign-out only
where no failure was logged. `SessionsOfLiveAccounts` is inductive as it stands;
`RemovedOnPurpose` is a property of steps that needs `Followed`, that a link which matches a
row's token was mailed for that row and not redeemed.

`TableStep` says what the tables can do in a step, whichever handler takes it: a row is
inserted, rows go, or one is assigned (`Assigned`) a slot that is not fresh or holds the token
just mailed, and an address that is its own or nobody's. Uniqueness is that last clause. So is
the refinement: the life of a token follows from whether it was mailed, redeemed and is in a
fresh slot (`Outstanding`), of which a step changes the first and the second for one token at
most (`MailStep`, `RedeemStep`) and gives a slot to no token but a new one (`OutstandingStep`),
so that a token which left its slot never returns (`LinkStep`). A token that dies while a
request has claimed it may still be redeemed, which `OneTimeLink` allows its claims only.

| Theorem of `TokenExchange!Spec` | Statement |
|---|---|
| `TypeCorrect` | `[]TypeOK` |
| `LatchIsEarned` | `[]LatchEarned` |
| `RetriesHaveCode` | `[]RetryHasCode` |
| `RejectionsAreTrue` | `NoNeedlessRejection` |

*Its inductive invariant* says what a request knows while it is under way (`Knows`): one that
presents the next secret does so because 42 rejected the current one in this process, and one
that is about to set the latch saw the next one accepted. With 42's rotation running one way, a
rejected next secret then means that neither is accepted. Nothing is assumed of its constants.

| Theorem of `SignIn!SysSpec` | Statement |
|---|---|
| `CompositionImplementsParts` | `Spec /\ Alerts!Spec` |
| `AlertsOncePerWindow` | `[]OncePerWindow` |
| `MutesAreEarned` | `[]MutedOnlyByMail` |

The first carries the theorems about `TokenExchange` over to the process that runs both. The
alerts' *inductive invariant* is `AlertInv`: a key has one mail call in flight at most
(`OneCall`), which holds a mark of its own age (`CallIsMarked`), as does every mail of the
window whose call succeeded (`MailIsMarked`), so that nobody else's `take` succeeds; such mails
of before a call are a window older (`CallIsLater`), and a window apart (`MailsApart`); and as
long as the inbox is configured a mark is that of a mail or of a call (`MarkHasCause`), which
is why a failed one has to be cleared. Assumed is `AlertAssumption`, with the one alert per
window of `web/server.go`.

| Theorem of `RateLimits!Spec` | Statement |
|---|---|
| `LimitersRemember` | `[]RateInv` |
| `SendsAreCapped` | `[]SendCap` |
| `BadTokensAreCapped` | `[]BadTokenCap` |
| `LockoutsAreEarned` | `[]LockoutIsEarned` |

*The inductive invariant* is `RateInv`. A cap speaks of what happened and the limiter of
what it remembers: `Remembers` is that the recent part of a key's list is the history, which
counting, pruning and ageing keep. It rests on `NotedList`, that an attempt which is noted
is one more: attempts of a tick are numbered without gaps, so the next number is new. It gives both
directions: a limiter that forgot an attempt would break a cap, and one that kept an expired one,
or charged a refused one, would lock somebody out. Assumed
are `LimiterAssumption` and `RateAssumption`: a positive maximum and window, and finitely many
requests.

| Theorem of `Migrate!Spec` | Statement |
|---|---|
| `TypeCorrect` | `[]TypeOK` |
| `OnceApplied` | `[]AppliedOnce` |
| `SchemaServed` | `[]ServedSchema` |
| `TakeTurns` | `[]Serialized` |
| `SchemaGrowsInOrder` | `ImplementsSchemaHistory` |
| `HistoryKeepsPromise` | `History!Spec => []History!Promise` |

*Its inductive invariant* has three parts. `Rows` is what the transactions keep true with
the lock or without: a version about to be committed is not in the table, and one process
at most is about to commit it. `Knows` is what a process established by itself: rows never
change once they are there (`RowsStay`), so what it read, compared or committed stays
true whoever else is at work. `Turn` is what the lock adds while no lock connection has
broken: nothing happened since the process looked. `ServedSchema`, `AppliedOnce` and the
refinement rest on the first two only, which is why they survive a lost lock. In the refinement
every step is a commit, which is a `Grow` (`GrowStep`: what the process passed is in the table as
its files say, and what it is about to commit is not), or leaves the table alone, and then a
process comes to serve, stops, or neither (`ServeStep`). What the abstract specification is good
for is `HistoryKeepsPromise`: from its steps alone follow what `AppliedOnce` and `ServedSchema`
say. Assumed is
`MigrateAssumption`: numbers are naturals, and the null values stand apart.

| Theorem of `SyncJobs!Spec` | Statement |
|---|---|
| `SyncTypes` | `[]TypeOK` |
| `SnapshotsStayHome` | `[]SnapshotIsOwn` |
| `SigninIsOwn` | `[]MatchedIsOwn` |
| `CooldownsAreEarned` | `[]CooldownIsEarned` |
| `OneFetchPerCooldown` | `[]RefetchOnlyIfRobbed` |
| `LiveSyncsAreKept` | `LiveSyncKept` |

*Its inductive invariant* is `Types` with two additions that do not need each other. `Types`
says beside the types what a sync knows by how far it has come (`Progress`): a user once it has
reserved, an account once it has one to refresh. `Owned`: a job runs exactly while its sync is
short of a release (`UnderWay`); the account a sync asked for and the one it refreshes are,
while they exist, of the user it expects and the user it fetched (`ClaimKnown`, `TargetKnown`),
which is what the check of the identity buys; and a job is matched by the last step but one
(`MatchedLast`), so a failed one never is. `Earned`: a fetch is counted for the user its sync
reserved (`CountedAsOwn`), and one whose slot nobody deleted has that slot still, no older than
itself (`SlotHeld`), so the statement that reserves finds it and refuses. A restart turns the
fetches under way into killed ones, which earn nothing, and notes their slots as left behind.
Assumed is `SyncAssumption`: the null values stand apart, and the limits are positive numbers.

| Theorem of `Profiles!Spec` | Statement |
|---|---|
| `ViewersSeeTheChosen` | `SeenAsChosen` |
| `PhotosAreFresh` | `[]PhotoFresh` |

*Its inductive invariants* do not need each other. `Chosen`: what the row says of each
section, through the defaults where it says nothing, is what the owner last chose.
`FreshInv`: what the browser keeps, or is being served, under a URL of the current snapshot
is the stored photo unless it came from a race (`Fresh`), for which no URL may be of a fetch
still to come (`Dated`). Assumed is `ProfileAssumption`.

| Theorem of `Pull!Spec` | Statement |
|---|---|
| `TypeCorrect` | `[]TypeOK` |
| `WholeCollections` | `FetchedWhole` |
| `NothingIsLost` | `SkippedIsKept` |

*The inductive invariant* is `TypeOK`, `Gathered` and `Sound`. While a collection does not
change, what was got of it is its beginning, as long as the pages before this one. `NextPage`
is what one more page makes of that: all of the list if the page is short, the beginning one
page longer if it is full, and then `PageIsLast` that stopping at the total stops at the end.
`PagesSuffice` is that the model's saturating page number never has to saturate on a full page.
`SkippedIsKept` is a property of steps that needs `Sound`: what was fetched are sequences, and
an evaluation is stored with its project's name throughout or without it throughout, as one
sync brought it (`NamedBy`, `MergedAt`), so that losing the name takes a sync that renews it.
Assumed is `PullAssumption`: collections hold sequences of records, there is a longest, pages
are not empty, and projects are kept and are not evaluations.

| Theorem of `Snapshots!Spec` | Statement |
|---|---|
| `AuthorsAreTrue` | `[]AuthorsTrue` |
| `StrangersAreRemoved` | `[]StrangersRemoved` |
| `ZoneStaysKnown` | `[]ZoneKnown` |
| `CountersStayTrue` | `[]CountersAgree` |
| `NoLoginLeft` (of every text) | what `Scrub` leaves holds no login of the people it is given |
| `LongestIsWhole` (of every text) | an occurrence of a login longer than all that overlap it is masked whole |

*Their inductive invariants* do not need each other. `EvalInv`: what is stored is what one
version or the other makes of 42's record, and this one's if a sync of this one brought it.
`ZoneKnown` is inductive as it stands. `CounterInv` adds that an update under way goes by a
count memory has reached, so that the next one is new. Assumed are `PeopleAssumption` and
`SnapshotAssumption`: the owner is somebody, nobody is not, the mate is somebody else, logins
are not empty, letters are not the two symbols, and there are finitely many people.

*What is removed from texts* is shown by induction over data, which here has to be over sets:
a set of naturals that has 0 and with each number the next has them all (`Induction`, from the
least element of what it lacks, `Least`). So the occurrences `FromTheLeft` and the order
`LongestFirst` choose exist (`LeftmostExists`, by the last position looked at,
`LongestFirstExists`, by the number of logins), and the loop of `Scrub` is a function
(`ScrubbedExists`). Its invariant (`IsMasked`) is that a set of occurrences in the original text
is masked, none of which overlap, and that each login of the passes so far overlaps one at
least as long. It is kept because a login found in a masked text was there before and touches
no mark (`OccurrencesLeft`), masks add up (`MaskTwice`), and the next login is no longer than those
before it. The last pass gives `NamesMasked` (`ScrubMasks`).

*Only model-checked:* every liveness property (`LinkSettles`, `SignupRecovers`,
`BudgetReturns`, `OutageReported`, `RefusalsReported`, `LoginReturns`, `Served`, `Deployed`,
`PullEnds`), so all of `CliToken`: these rest on fairness and ENABLED, which are out of the
prover's reach. Every safety invariant, action property and refinement of the runs is a theorem.
No module has a RECURSIVE operator. The types (`TypeOK` of `Accounts`, `TokenExchange`,
`Migrate`, `SyncJobs` and `Pull`), `RetryHasCode` and `AppliedOnce` are proved and not run.

## Plan

1. Done: all modules above, and proofs of every safety property the runs check.
2. Next: `RequestLimiter` (the two shared buckets of `api42/client.go:30`, whose burst adds
   to the refill), two syncs of one account at once in `Pull`.
3. Pure parts, against reference definitions: the order of cursus and projects on the
   profile, and the pass bar of piscine gradings (`snapshot.go:267`).
4. Theorems: that the tables of `Accounts` and the sync's view of them in `SyncJobs` agree, as
   `SignIn` composes its parts. A cooldown as a lease with an owner is not among them: a release
   deletes the slot of whoever reserved last, so `SyncJobs` implements no such lease, and
   `RefetchOnlyIfRobbed` says how far it falls short.

## Not modelled

The mailer, page rendering, routing, configuration and static files keep no state and
decide no order; `schema_prettify` is a development tool. Of modelled components: the
theme (one column, written and read back), the field-by-field mappers of resources that
name nobody, rows and formatting inside a section, validation of photos, the length of
backoffs, and the shared request limiter, which is in the plan.

Smaller things a reader may look for:

* `RateLimits!BadToken` is any charged attempt; that of an e-mail change also when its link
  matched and the address was taken (`web/handlers.go:811`).
* `CliToken` has a token in the file expire, but none revoked at 42 before.
* `GetAll` has no limit on pages. `PullEnds` is about collections of bounded length, which may
  change at any time; one that grows by a page for every page fetched is outside the model.
* In `Snapshots` the updates under way end with the process; one that PostgreSQL still carries out
  after that, when the next one has already read the table, is left out.
* In `Profiles` a URL carries the number of its fetch, where the code has seconds: fetches of one
  user are a cooldown apart.

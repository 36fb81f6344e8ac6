# LeadSignal: specifications, model checks and proofs

LeadSignal collects Reddit posts, classifies them with large language models and
turns those that show an intent to buy into leads of a workspace. It is a NestJS
API (`apps/api`), worker processes that reuse the API's services (`apps/worker`),
a Next.js web client (`apps/web`) and a browser extension (`apps/extension`),
around PostgreSQL and Valkey (BullMQ queues, counters). Everything that is hard
about it happens between two statements: nearly every operation is a sequence of
SQL statements, Valkey scripts and HTTP or SMTP exchanges, run by several requests
and worker processes at once, each of which may die anywhere. The modules here are
cut along those statements: **one action is one statement, transaction, script or
exchange**, with the reads a request made before it kept in the request's local state.

Paths below are relative to the repository root; `service.ts` names are unique.

## Inventory

| component | state it keeps | hard behaviour | what makes it correct | module |
|---|---|---|---|---|
| Identity and sessions (`production.service.ts`, `production.guard.ts`; cookies: `proxy.ts`, `auth-actions.ts`) | users, `AuthSession` rows with `familyId`, `replacedById`, `revokedAt`; the browser's cookies | concurrent refreshes of one token; reuse detection against a rotation that is not committed; lost replies; renewals of parallel page loads | one rotatable row per family, no false alarms, a user stays logged in, logout leaves no session | `SessionFamily`, `WebSession`; registration: `Invitations` |
| Extension devices (`extension-auth.service.ts`, `reddit-session-sync.service.ts`) | pairing codes, devices, challenges, tickets, memberships | check-then-write against the member limit, single use of three kinds of object, revocation between read and write | single use; limits exceeded only by requests in flight; revocation is final | `DeviceAuth` |
| Signed ingestion (`ingest`, `extension-source-config.service.ts`) | nonce rows with expiry | clocks of device and hosts, sweep against delayed requests | a message is accepted at most once | `ReplayGuard`; the batch itself: `LeadPipeline` |
| Posts, queue, leads (`ingest`, the collector's `persist`, manual ingest, `queue.service.ts`, worker `main.ts`) | posts, discoveries, classifications, leads; BullMQ jobs | crash between statements, two runs of one job, a queue that forgets | a lead is backed by a recorded verdict; a settled job tells the truth; jobs settle | `LeadPipeline`, `LeadLedger` |
| Email outbox (`email-outbox.service.ts`, worker timer) | rows with attempts, lock, `availableAt` | stale locks against slow workers, lost SMTP answers, aborted batches | bounded deliveries, duplicates only for named causes, every mail ends | `EmailOutbox` |
| LLM routing (`llm-pool-router.service.ts`, `slot-manager.service.ts`) | slot counters with expiry, execution rows | expiry under a holder, release without an identity, dead holders | limits hold up to one expiry's holders; executions settle; calls end | `LlmRouter` |
| LLM connections and OAuth (`llm.service.ts`, `production.service.ts` 397-746) | connections, tokens, OAuth states, policies and routes | concurrent refreshes of a token that rotates, callback against removal, find-then-create | the stored token works, a removed connection stays so, duplicates are bounded | `LlmConnections`, `ModelRoutes` |
| Invitations and memberships (`production.service.ts` 79-131 and 349-395, `invitation.service.ts`; pairing codes and bootstrap: `extension-auth.service.ts`) | accounts, workspaces, memberships, invitations, codes | acceptance is three statements without a transaction, with an undo; registration, pairing and bootstrap write memberships too | an accepted invitation made one membership; a role is that of the account or of the invitation accepted last | `Invitations` |
| Reddit sources (`prisma-reddit-source.repository.ts`, `extension-source-config.service.ts`, `reddit-source-url.ts`) | source and configuration rows | three writers with different rules, edits that merge, find-then-create | a source keeps its page, is found again, can be switched off | `SourceSettings`, `RedditCollector` |
| Collector (`reddit-public-collector.service.ts`, `reddit-detail-enricher.ts`, worker timer and queue) | lease row, statuses | lease not renewed, deletion under a collection, crash while RUNNING | one timer per lease; RUNNING is honest; failures are contained; the crawl is faithful | `RedditCollector`, `RedditCrawl` |
| Reddit login (`background.js`, `reddit-session-sync.service.ts`, `reddit-session-store.ts`, `reddit-browser-profile.ts`) | cookies, timers, one session file, the backend's browser profile | overlapping synchronisations, two browsers and one file, logins that end | the file is stale only for a named reason; a synchronisation is asked for only when one is needed | `RedditSession` |
| Rate limiter, encryption, parsing, provider HTTP, pages, read models, seed | | | | not modelled (see the end) |

Components interact through the database, through the queues (ingest and collector to
worker), through Valkey counters, through the session file, and by HTTP with tokens.
There are no shared in-process structures between requests, apart from the worker's
flags and the extension's timer.

## Modules

| module | models | state in the module and in the program |
|---|---|---|
| `LeadLedger` | the promise of the pipeline: verdicts are appended to a pair's record, a lead shows one recorded qualifying verdict, is changed only by publishing or by a user, and neither is lost except with its pair | `classified` and `leads` |
| `LeadPipeline` | ingest of batches and single posts, discovery and enqueueing, BullMQ jobs, the worker's handler, source removal | `sources`, `posts`, `discoveries`, `classified`, `leads` are tables; `job`, `finished`, `dead` the queue and its retention lists; `ingest`, `run` requests and handler invocations with the statement that comes next |
| `SessionFamily` | refresh, reuse detection, logout, expiry | `session` is the table of committed rows, `lock` the row locks of open transactions and of statements that still wait for more, `req` the requests, `known` the tokens clients have received |
| `WebSession` | renewal by the proxy, login, ticket exchange, logout | `cookies` are the browser's; `server`, `live` a family's latest token and whether it can be exchanged; `request` the requests of the browser |
| `ReplayGuard` | timestamp check, nonce lookup, nonce insertion, sweep | `nonce[m]` is the expiry of m's row, `now` the server's clock, `stamp[m]` the device's timestamp |
| `DeviceAuth` | pairing, bootstrap, challenge, verification, ticket exchange, session upload, revocation | columns of the tables, and the requests |
| `EmailOutbox` | enqueue, claim, deliver, record sent, record failed, ticks | `sent`, `attempts`, `wait`, `lockedBy`, `lockAge` are columns; `todo`, `cur` a worker's batch |
| `LlmRouter` | routes, connections, slots, executions, retries, expiry | `count`, `ttl` are a key's value and expiry; `rows` the executions of a call |
| `LlmConnections` | OAuth start, callback and exchange, storing, token refresh, API keys, removal, verification | `conn`, `cred`, `oauth` are tables; `valid`, `rotates` the provider; `call` the requests |
| `ModelRoutes` | `syncRoutes` statement by statement while connections come and go | the policy, `routes` with their tier, the fallback; `sync` the requests that call `syncRoutes` |
| `Invitations` | register, pairing codes, bootstrap, invite, accept with its undo, expiry | `account`, `role`, `inv`, `code` are tables; `call` the requests |
| `RedditCollector` | the form, the settings and batches, the timer with its lease, jobs, `collect()` | `life`, `feed`, `shown`, `lease` are rows (`feed` is type, subreddit and query together); `job` the queue; `run` the collections |
| `SourceSettings` | what is written to a source and how it is read, over classes of text | `row` is the stored source |
| `RedditCrawl` | the crawl loop and the reading of details | `crawl` is the local state of `collectSource`, then of `enrichRedditPostDetails` |
| `RedditSession` | the extension's synchronisations, the session file, the check of the backend browser | `jar`, `timer` are the browsers'; `sync` the requests; `temp`, `file` files; `profile`, `check` the backend browser |

`LeadPipeline` composes with `LeadLedger` by refinement (`RefinesLedger`, an
`INSTANCE` whose variables have the same names). The other modules meet at an
interface that each states for itself: `ReplayGuard` has one action for the batch
that `LeadPipeline` opens up; `WebSession` knows of a family what `SessionFamily`
lets a client see (the latest token, whether it can be exchanged, and that a refused
token revokes the family unless a rotation escapes it); `RedditSession` has paired
devices and tickets as `DeviceAuth` issues them; `RedditCollector` leaves to
`RedditCrawl` what a page yields and to `SourceSettings` what a row says.

Variables under the comment "history" have no counterpart in the program: actions
write them and only properties read them.

Postgres runs at READ COMMITTED. Where it matters (`SessionFamily`) a statement has a
snapshot of the committed rows, waits for a row locked by another transaction and
evaluates its condition again on the committed row; elsewhere a single statement with
a condition on the row it changes is atomic.

A comment "Variant with a fault" marks an operator that no specification uses. It is
what a definition would be with a plausible programming error; putting it in the place
of that definition makes the named property fail, which is how the sensitivity of each
property was established.

## What the runs check

Safety runs use symmetry over interchangeable model values where no property tells them
apart; liveness runs do not.

| run (configuration) | instance | properties | why it is enough |
|---|---|---|---|
| `pipeline` (`MCLeadPipeline`) | 1 pair, 2 ingests, 2 handler runs, 2 attempts, 1 stall, retention 1 | `SettledJobsAreHonest`, `UnqueuedIsPendingOrDropped`, `RowsAreBounded`, `OnlyHangsRegress`, `RefinesLedger`, `JobsSettle` | two runs are what it takes for a stalled handler to come back, two ingests for each to leave a discovery to the other; jobs of other posts evict this one from the retention lists |
| `session` (`MCSessions`) | 3 tokens of a family and 3 requests; 2 logins, 2 requests of a browser, 3 tokens each | `AtMostOneRotatable`, `NoFalseAlarm`, `OnlyRevocationsDeadlock`, `RotationIsFinal`; `NoSessionIsLeft`, `StaysLoggedIn` | one request rotates, one reuses, one logs out, and a third generation shows that a chain does not fork; a revocation takes its rows one by one, so two of them close a circle and a third request waits behind it; two requests overlap, and a second login takes the place of the first |
| `session_reuse` (`MCSessionFamily_reuse`) | 2 requests | `RevokedFamilyIsDead`: **violated** | see Divergences |
| `replay` (`MCReplayGuard`) | 2 messages, 2 requests, window 2, lifetime 4, skew 1, delay 1, time to 8 | `NoReplay` | the slack is used up exactly, so an off-by-one at any of the three comparisons shows; time 8 lets a message be signed, used, swept and presented again |
| `device` (`MCDeviceAuth`) | 1 workspace of at most 2, 3 devices, 3 codes, 1 challenge, 2 tickets, 2 requests, 1 invitation | `SecretsAreSingleUse`, `OvershootIsBounded`, `RevocationIsFinal` | the owner and two overlapping pairings already overshoot; a third code shows that it stops there; login, upload and revocation interleave; the one workspace's bootstrap never competes with pairings for a place |
| `outbox` (`MCEmailOutbox`) | 2 workers, 2 emails, batch 2, 2 attempts, lock life 1 tick | `DeliveriesAreAccounted`, `LostOnlyWhenStale`, `LatestClaimRecords`, `EveryEmailEnds` | a batch of two makes the second email wait for the first; two attempts let a row be claimed, lost and claimed by the other worker while the first goes on |
| `router` (`MCLlmRouter`) | 2 calls, 1 connection of limit 1, 2 routes of which one is the rule engine, 1 retry, expiry 2 ticks | `LimitIsKept`, `ExecutionsSettle`, `SlotsFreeUp` | two calls exceed the limit of one only through an expiry; every branch of an execution, the retry and the fallback |
| `sources` (`MCRedditCollector`) | 2 sources of a feed, 2 workers, 2 collections, 1 job, 1 request, 1 fault | `RunningIsHonest`, `LeaseIsExclusive`, `DisabledStaysQuiet`, `FailureIsContained` | two collections overlap, with or without a lease; a source is removed under one of them; one failure at a time |
| `source_requests` (`MCRedditCollector_requests`) | 3 sources, 4 pages of which two are forms of one custom address, 2 requests, 2 uses of the form | `DuplicatesAreBounded` | two requests look before either writes; edits make a source one of another page, or disable it, between them; a third source would be one too many |
| `source_life` (`MCRedditSource`) | every class of input in every order over one source; limits on both sides of their bounds; pages of up to 3 posts, 4 scrolls, targets to 3, up to 4 stalls (the default); 2 browsers, 2 synchronisations, 2 names of temporary files, 1 login | `SourceKeepsItsPage`, `SourceCanBeSwitchedOff`; `CrawlIsFaithful`; `StaleForAReason`, `SyncRequiredIsHonest` | edits reach every combination of type and leftover text; four scrolls are two for the fallback and two after it; two synchronisations overtake each other, under one name of their temporary file or two |
| `llm` (`MCLlmConnections`) | 2 connections, 2 OAuth states, 2 calls, 3 tokens; 3 models, 2 calls | `StoredTokenWorks`, `OAuthConnectionsAreBounded`, `RemovedIsFinal`; `RoutesAreBounded`, `SyncedIsRouted` | two refreshes of one token and two callbacks at once; a provider that rotates and one that does not; two calls of `syncRoutes` may read pools that differ in one or two models, and so give a model two tiers |
| `invitations` (`MCInvitations`) | a registered user and one paired or bootstrapped, 1 code, 2 invitations, 2 calls, `MAX_PRIVATE_USERS` 2 | `AcceptedMeansJoined`, `RolesFollowAcceptance` | both kinds of account; two invitations of different roles to one user, accepted in either order or at once, to an owner too; one user tries the other's |

`MCSessions`, `MCLlmConnections` and `MCRedditSource` check modules that share no state
side by side: a behaviour is a behaviour of one of them. Type invariants are checked in
`DeliveriesAreAccounted` and `LimitIsKept`, and proved for the modules with proofs.

Bounds that the program does not have are named in the modules (`MaxRequests`,
`MaxPresent`, `MaxTime`, `MaxJoins`, `MaxFaults`, `MaxTokens`, `MaxChanges`, `MaxScrolls`,
`MaxTarget`, `MaxStallRounds`, `Asked`, `Emails`, and the finite sets of ids); where a
behaviour stops only because a bound is reached the configuration disables the deadlock
check. `MaxScrolls`, `MaxTarget` and `MaxStallRounds` are the largest limits a source may
have, `Asked` the roles that requests ask for. `LockLife`, `TTL`, `Window`, `Lifetime` and
`MaxWait` scale real durations down; only their order and the boundaries between them are
used. In the run of `SourceSettings` one limit of a source differs from the usual one at a
time (`MaxUnusual`) and an input gives the texts or one other field; the theorems are
about inputs that give any of them.

### Fairness

- `LeadPipeline`: a job that stays waiting is taken by some worker, a delayed job is
  promoted, a job whose worker died is found stalled, and a handler's next statement
  happens. BullMQ does the first three periodically, and a worker process is restarted
  by its container. Stalls of *living* handlers are a fault that is never forced. That
  attempts and stalls are limited is what ends the retries.
- `EmailOutbox`: time passes, and a worker's next step (its timer, a statement, an
  SMTP exchange with its timeouts) happens. Death of a worker and failing statements
  are never forced and never excluded.
- `LlmRouter`: time passes and a call's next step happens; provider calls have timeouts.

The other modules state no liveness: what they do is done by requests, which may die
anywhere without anybody repeating them.

## Divergences between the code and what the repository says

`session_reuse` ends in a counterexample on purpose: "Refresh token reuse detected;
session family revoked" (`production.service.ts`), and the test that says
'refresh-token reuse revokes the whole family'. The revoking UPDATE does not see the
successor that an uncommitted rotation inserts, and so leaves it usable.

The models were written from the code. Where a sentence of the documentation says
something else, the property states what holds:

- README.md:169 "Revoked devices cannot authenticate or ingest": the status is read
  before the ticket is spent, so requests in flight still succeed. `RevocationIsFinal`
  says that nothing is granted once they have ended. The maximum size of a workspace and
  the bootstrap code are read and written apart in the same way (`OvershootIsBounded`).
- docs/backend-reddit-crawler.md:13 "New discoveries are sent to the classification
  queue": the discovery is committed before `queue.add`; if that fails, later requests
  see the row and skip the queue (`UnqueuedIsPendingOrDropped`).
- docs/reddit-public-collector.md:12 "falls back once to old Reddit pagination for empty
  subreddit pages": not with `maxStallRounds` 1, where the loop ends first
  (`CrawlIsFaithful` asks for two empty pages and a round left).
- docs/reddit-public-collector.md:14 "does not import browser sessions": the session
  file is such an import (`RedditSession`).
- docs/reddit-source-configuration.md:15 "`FOLLOWING` is always forced to `EXTENSION`
  mode": a trigger makes every configuration row PUBLIC. The same document, line 11,
  restricts CUSTOM_URL to reddit.com, but subdomains are accepted that the collector's
  resolver refuses; such a source fails in every collection (`Unreachable`).
- A CUSTOM_URL that the settings create is stored in canonical form and looked for as it
  was given, so one that differs is created again by every request (`IsFoundAgain` is
  about canonical ones, `DuplicatesAreBounded` about those that are `Findable`); a source
  that a batch made of a type the form does not know cannot be edited or switched off
  (`SourceCanBeSwitchedOff`).
- docs/production-secrets.md:48 "mark the connection invalid": a refresh token the
  provider refuses leaves the connection ACTIVE; a verification or a call of the router
  that fails later marks it.
- Reuse of a token revokes the family in one UPDATE that locks the rows in no order: two
  requests that detect reuse in one family at once may wait for each other, and the one
  that Postgres ends answers with an error instead of the refusal
  (`OnlyRevocationsDeadlock`: nobody else is in such a circle).
- extension-login-actions.ts:43 "Never replace that privileged dashboard session": only
  the access cookie is looked at, which expires before the refresh cookie; then the
  device's session does replace the owner's (`ExchangeTicket`, and the last reason of
  `NoSessionIsLeft`).
- background.js:144 'No existing Reddit browser session was found' is said only when there
  are no cookies at all: a browser that is logged out at Reddit sends its anonymous
  cookies, over another workspace's login in the one file (`StaleForAReason`).
- Renewals: any failure, an outage of the API too, deletes the cookies, and two pages
  opened at once with an expiring token revoke their own family (`StaysLoggedIn` lists
  these). A logout without an access cookie never reaches the API.

## What is proved

`tlapm` checks the proofs in the `*Proofs` modules, for all values of the constants
that satisfy the named ASSUMEs: every invariant and action property that a passing run
checks is a theorem. Each component follows the same argument: an inductive invariant
(stated in the specification module, a conjunction of named parts), `Init => IInv`,
lemmas for `IInv /\ [Next]_vars => IInv'`, one per action, then a theorem that the
specification keeps it and a corollary per property. It was checked with TLC before.
The second component of a proof module has names of its own (`OutboxIInv` for
`OutboxSpec`, and so on).

- **LeadPipelineProofs**: `TypeOK`, `SettledJobsAreHonest`, `UnqueuedIsPendingOrDropped`
  and `Spec => RefinesLedger`. The properties are about finished work; `IInv` says what
  unfinished work may rely on: a run that has recorded a verdict points at its own row
  (`RunsAreBacked`), every job being worked on was queued (`WorkIsQueued`), a job that is
  not failed has attempts and stalls left (`JobsHaveBudget`), and who is about to skip a
  discovery it found is covered by who made it (`FoundIsAccounted`). None of it assumes
  that a run still holds its job. `RowsAreBounded` needs a budget: the rows of a pair,
  the runs that will add one and the times its job can still be taken stay within what
  its fresh jobs allow (`RowsAreBudgeted`). `OnlyHangsRegress` is an action property:
  while no job of a pair stalled under a live run, its only run is the job's holder and
  publishes the newest row (`UnhungRunsHold`), which also needs that forgetting a settled
  job never takes a job from a run (`RetainedAreSettled`).
- **SessionFamilyProofs**: `TypeOK`, `AtMostOneRotatable`, `NoFalseAlarm`,
  `RotationIsFinal`, `OnlyRevocationsDeadlock`. A rotation in progress holds the lock of the
  family's rotatable row, so a second one cannot commit; that reuse is never reported
  falsely needs counts of presentations and a reason for every revoked row. Who holds a
  row (`LocksAreHeld`) is a renewal with nothing left to wait for or a revocation of the
  row's family; so whoever waits and is waited for is a revocation, and all of a circle
  are of one family. For
  `WebSession`: `NoSessionIsLeft` and the action property `StaysLoggedIn`, from
  `WebIInv`: a request of a session that nothing interfered with is the browser's only
  one (`UndisturbedIsAlone`), what it may still write is of the session the cookies are
  of (`CookiesFollowRequests`), and the session's latest token is with it, or else in the
  cookies (`LatestTokenIsKept`).
- **ReplayGuardProofs**: `TypeOK`, `NoReplay`. What carries it is `SlackAssumption`:
  clock skew + window + delay <= lifetime. With the code's 5-minute window and 10-minute
  lifetime that allows 5 minutes for skew and delay together.
- **DeviceAuthProofs**: `TypeOK`, `SecretsAreSingleUse`, `OvershootIsBounded`,
  `RevocationIsFinal`. The bounds count the requests that have passed a check and not yet
  written: members plus those never exceed the limit by more than the requests in flight
  less one (`RoomIsShared`), and likewise for the bootstrap (`BootstrapIsShared`).
- **InvitationsProofs**: `TypeOK`, `AcceptedMeansJoined`, `RolesFollowAcceptance`. The
  conditional UPDATE lets one request hold an invitation, and it joins only as the user
  the invitation was sent to (`ClaimsAreExclusive`). Who joins has an account already, so
  that no pairing code or bootstrap writes that user's first role afterwards, and what
  came before a claim has joined before it (`MembersHaveAccounts`). For `EmailOutbox`:
  `DeliveriesAreAccounted`, `LostOnlyWhenStale`, and `LatestClaimRecords` of its steps,
  from `OutboxIInv`: deliveries and the attempts claimed and not made are no more than the
  attempts counted (`AttemptsCoverDeliveries`), no attempt is two workers'
  (`AttemptsAreExclusive`), a worker that lost a row has a batch older than the lock's
  life (`LocksFollowClaims`), and a row without a mishap stays locked from its delivery
  until it is marked (`DeliveredIsMarked`). `PowerAssumption` is not about the program:
  it is the type of the powers of two of the back-off, which the provers do not know.
- **LlmConnectionsProofs**: `TypeOK`, `StoredTokenWorks`, `OAuthConnectionsAreBounded`,
  `RemovedIsFinal`. A token that was just issued is known to one call until it is stored,
  and belongs to one connection afterwards (`TokensAreOwned`); callbacks that found
  nothing count as the connections they will make (`PeakIsShared`).
- **LlmRouterProofs**: `TypeOK`, `LimitIsKept`, `ExecutionsSettle`. Scripts change a
  counter and its holders by one together, every other statement only lets holders go,
  and a key that expires leaves its holders to the debt (`HoldersAreCounted`); only a key
  that expires has a value (`KeysExpire`), which is why nothing else resets a counter.
  For `ModelRoutes`: `RoutesAreBounded` and `SyncedIsRouted`, from `RoutesIInv`: a model's
  routes and the calls about to add one are no more than the calls, for it is found
  without a route only while it has none (`RoutesAreCounted`), and what a call has checked
  is routed (`CheckedAreRouted`). The tier a call inserts at is free (`NextTierIsFree`).
- **RedditCollectorProofs**: `TypeOK`, `RunningIsHonest`, `LeaseIsExclusive`,
  `DuplicatesAreBounded`, `DisabledStaysQuiet`, `FailureIsContained`. A timer that is not
  late holds the lease in its worker's name (`TimersHoldTheLease`). For a page that can be
  found again, the enabled sources made for it and the requests about to make one are no
  more than the requests, whatever edits do to other sources (`RoomIsShared`). For
  `RedditSession`: `StaleForAReason` and `SyncRequiredIsHonest`, from `SessionIInv`: a
  browser that is not excused has one synchronisation at most, and its present cookies are
  with that one or the timer is set (`SyncsAreCurrent`), or else in the file
  (`FileIsCurrent`); while the file keeps an accepted login the profile gets it
  (`KeptIsUsed`). The first attempt at this proof failed, rightly: two synchronisations
  may write their temporary files under one name, and then one renames the other's. The
  property names this reason now, and the run has two names to meet it. For `RedditCrawl`:
  `CrawlIsFaithful`, from `CrawlIInv`: the posts are all that the pages had until there
  are enough (`PostsAreSeen`); the counter of stalls is the number of the last pages that
  brought nothing, and no smaller one (`RoundsAreCounted`), so reading ends neither early
  nor late; and as many posts' pages are open as may be until the last one is
  (`WorkersAreBusy`). For `SourceSettings`: `SourceKeepsItsPage` and
  `SourceCanBeSwitchedOff`, for inputs that give any fields and any numbers. Here the
  types are nearly all of the invariant; the proof is that the form accepts no source
  whose text its type has no use for.

Out of the prover's reach and only model-checked: liveness (`JobsSettle`,
`EveryEmailEnds`, `SlotsFreeUp`). The proofs use no induction over data; where a bound
has to be found (the largest tier, the first card at which a crawl has enough), it is by
the well-foundedness of the natural numbers. The theorems say nothing of what the models
abstract (see below), nor of texts outside the classes of `SourceSettings`.

## Not modelled

- **Rate limiter**: one atomic INCR of a key that names its window decides; a crash
  before the EXPIRE leaves a key of a past window behind.
- **Password reset and email verification** (and the choice of a workspace):
  single statements on tokens of the same kind as those of `DeviceAuth`. A renewal answers
  with the oldest membership's workspace, whatever was chosen before.
- **Creation of the extension's key pair** (`crypto.js`): its check and its store are
  apart, so a pairing during the installation may register a key that is then replaced.
  **The script of the login page**: it pairs only an extension without a device, and
  nothing clears the device's id, so a revoked extension cannot be paired again.
- **Contents**: posts, cookies, prompts, verdicts and scores are abstracted to what
  decides; cryptographic checks are taken to decide correctly.
- **Parsing of pages, provider HTTP formats, rendering, queries that change nothing,
  health checks and deployment files.** Their outcomes are nondeterministic. The seed
  (`seed.ts`) gives the demo user the role of OWNER when it is run by hand, whatever it was.
- `ProductionService.invite` is not called by any controller (`InvitationService.invite`
  is), and `content-reddit.js` is not registered in the extension's BACKEND_ONLY mode.

# Verification of the Depth Dashboard API

TLA+ models of the Depth Dashboard API, the Node.js back end of a private-debt
dashboard: an administrator records investors and the loans they fund, the
system computes repayment schedules and keeps a ledger of payments, and
investors read it through an authenticated HTTP API. The models are translated
from the TypeScript under `src/src/` and checked on small instances with TLC; what
the runs check, liveness and one refinement aside, is proved with TLAPS for every value of the constants.

Paths below are relative to `src/src/` unless they start with `src/`.

- [The system](#the-system)
- [The modules](#the-modules)
- [The runs](#the-runs)
- [Proofs](#proofs)
- [Where the code disagrees with what it says](#where-the-code-disagrees-with-what-it-says)
- [What is not modelled](#what-is-not-modelled)
- [What could come next](#what-could-come-next)

## The system

One Node.js process (`server.ts`) serves HTTP with Express and keeps its state in
MongoDB; Redis holds tokens, one-time passwords, counters and caches, and BullMQ
queues on it carry mail and notifications to workers of the same process. A cron
scheduler runs daily jobs. A handler is an `async` function: it may be interleaved
with any other at each `await`, and nothing in the code opens a database
transaction.

| component | state | operations | what makes it correct | hard part | model |
|---|---|---|---|---|---|
| **Schedule engine** `utils/schedule.engine.ts` | none (pure) | level payment, schedule, remaining schedule | no cent of principal is lost; level prices; a balloon left for the end; a rebuilt tail is the tail | rounding per row, grace, off-by-one of sequence and month | `ScheduleEngine`, `RepaymentSchedule` |
| **Business calendar** `utils/businessCalendar.ts` | none (pure) | Easter, holidays, next business day, policy | a due date is the next business day and instalments stay in order | year boundaries, moving feasts | `BusinessCalendar` |
| **Investment ledger** `services/investment.service.ts` | `investments`, `payments`, `timeline_events` | create, update, remove, regenerate, mark paid, cancel, early repayment, list | balance, repaid principal, rows and timeline agree; completed rows are final; one next payment | long histories of legal requests; capped reads; requests interleaved or failing at awaits | `InvestmentLedger`, `InvestmentRequests`, `SerialRequests`, `OrderlyServicing`, `LoanAccount` |
| **Investor totals** `services/investor.service.ts` | `investors.totalInvested`, `.outstandingBalance` | `syncTotals`, `remove` | the cached sums are the sums | five handlers must remember to sync; read, then write | `InvestmentLedger`, `InvestorTotals` |
| **Paged lists** `repositories/base.repository.ts` | none | `findMany` | a client that walks the pages sees every document once whose key no other shares | page and count are two queries; writes between pages; no tie-breaker in the order | `PagedLists` |
| **Repositories and base model** `repositories/*.ts`, `models/base.model.ts` | the collections | find, update, soft-delete, restore | callers see what they ask for | page cap of 100, no version check on `findOneAndUpdate` | as each service uses them |
| **Scheduled jobs** `cron/index.ts` | none | overdue sweep, clean-up of tokens, purge of accounts | what is late is flagged, and nothing else | races with requests | in `InvestmentLedger`, `RefreshTokens`, `UserDirectory` |
| **Tokens and sessions** `services/token.service.ts` | Redis `refresh:*`; Mongo `refresh_tokens` | issue, rotate, revoke one, revoke all | one successor per token; an ended session stays ended; the stores agree | two stores, no atomic step | `RefreshTokens` |
| **Authentication, lockout** `services/auth.service.ts`, `models/user.model.ts` | `users.loginAttempts`, `.lockUntil`, a Redis counter | login, change and reset of the password | an account locks at the maximum and unlocks in time | concurrent failures, `VersionError`, INCR then EXPIRE | `SignIn` |
| **One-time passwords** `services/otp.service.ts` | Redis `otp:*`, a map in memory | generate, verify, exchange, reset | used once, a bounded number of guesses | read-modify-write around awaits, two stores | `OneTimeCodes` |
| **Accounts and profiles** `services/user.service.ts`, `investor.service.ts`, seeders | `users`, `investors` | register, create, restore, delete, purge | one account per e-mail; profile and account together | checks before writes, two writes | `UserDirectory` |
| **Roles, permissions, access** `services/role.service.ts`, `permission.service.ts`, middlewares, policies | `roles`, `permissions`, access tokens, black list | assign, create, delete, authorise | a request passes with what its user holds | guard and policy read different things; changes beside requests | `AccessControl` |
| **Caches** `services/cache.service.ts`, `middlewares/cache*.ts` | Redis `cache:*`, `http:cache:*` | read-through, delete by pattern, invalidate after the answer | a cache that was cleared holds what was read afterwards | a fill racing an invalidation, two layers, writes that clear nothing | `ResponseCache` |
| **Connections, life cycle** `config/database.ts`, `config/redis.ts`, `server.ts` | connections, timers, flags | connect, reconnect, start, shut down | shutdown ends, and cleanly | a signal during the start, outages | `ServerLifecycle` |
| **Queues, workers, events** `queues/*.ts`, `jobs/*.ts`, `events/*.ts` | BullMQ jobs, an inbox in memory | add, process, retry | every job settles; effects once without faults | at-least-once delivery, crashes | `JobQueue` |
| **Documents** `services/document.service.ts`, upload middlewares | `documents`, the upload directory | upload, check, create, assign, download, remove | a document keeps its file; a file goes to those entitled to it | file before document, an unchecked `fileUrl`, failures in between | `DocumentLibrary` |
| **Exports, dashboards** `services/document.service.ts` | `export_history` | payment export, dashboards | what is shown disagrees by the markings met and the rows beyond the page at most; exports are recorded | several queries beside two-write markings, the page cap | `Statements` |
| **Sockets** `sockets/*.ts` | rooms | open, close, emit | closed with the process | – | opening and closing in `ServerLifecycle` |
| **HTTP edge, configuration, mail, storage, status page, seed data** | none | – | – | – | not modelled, see below |

How they meet: routes call controllers, which call services; `InvestmentService`
calls the schedule engine (which asks the business calendar for dates), its
repositories, and `InvestorService.syncTotals` at the end of most handlers; the cron
updates payments, tokens and users directly; authentication calls tokens, one-time
passwords and users; a password change revokes the sessions; the cache middleware and
the cache service share Redis keys. `PROJECT.json` lists each component with its status,
and each hazard of this code with its line.

## The modules

### ScheduleEngine and RepaymentSchedule – the schedule engine

Amounts are cents (each amount the engine stores has gone through `round2`), the
monthly rate is a rational, and dates are months: the engine always advances by
whole months. `GenerateRepaymentSchedule` and `RegenerateRemainingSchedule` are
the two exported functions; the balance after each row is a recursive *function*
(`Balances`), so the module can be used in proofs. They are the operators of
`ScheduleEngine`, which the ledger uses as well; in `RepaymentSchedule` a tiny state machine
asks for a schedule (`Generate`) and then for tails of it (`Regenerate(f)`), as the ledger does.
JavaScript's `Math.round` on a binary floating-point number is modelled as exact
rounding of the rational it approximates; a half-cent that floating point puts on
the other side is outside the model. Moving a due date to a business day
(`nextBusinessDay`) belongs to `BusinessCalendar`.

### InvestmentLedger – the core

An action is a whole HTTP request or a whole sweep, with every write its handler
performs, in order; requests are interleaved in `InvestmentRequests`, not here. The state is
what the handlers keep:

| variable | code |
|---|---|
| `today` | the month of `new Date()` |
| `investors[v]` | `live` (soft deletion), `totalInvested`, `outstandingBalance` |
| `investments[i]` | the document: investor, schedule fields (`terms`), `outstandingBalance`, `principalRepaid` (`repaid`), `interestEarned` (`earned`), `status`, `monthlyPayment`, `nextPaymentDate` |
| `payments[i]` | the rows of the investment, a function of `sequence`: the unique index on `{investment, sequence}` |
| `events[i]` | sequences that have a schedule event in the timeline |
| `closings[i]` | how many LOAN_CLOSED events there are |

| action | request or job | handler |
|---|---|---|
| `Create` | `POST /investments` | `create` → `generateSchedule` → `syncTotals` |
| `UpdateTerms`, `UpdateStatus` | `PATCH /investments/:id`, with or without a schedule field | `update` → `regenerateSchedule`, `syncTotals` |
| `Remove` | `DELETE /investments/:id` | `remove` → `syncTotals` |
| `RegenerateSchedule` | `POST …/regenerate-schedule` | `regenerateSchedule` |
| `MarkPaid`, `MarkPaidOfDeleted` | `POST /payments/:id/mark-paid` | `markPaid` → refresh or regenerate → `syncTotals` |
| `CancelPayment` | `POST /payments/:id/cancel` | `cancelPayment` → refresh |
| `EarlyRepayment`, `EarlyRepaymentRefused` | `POST …/early-repayment` | `earlyRepayment`; the second when the unique index refuses its row |
| `ListPayments` | `GET …/payments` | `listPayments`, which marks overdue |
| `SweepOverdue` | daily cron, and a sweep after start | `markOverduePayments` |
| `RemoveInvestor` | `DELETE /investors/:id` | `InvestorService.remove` |
| `MonthPasses` | the clock | – |

Helpers keep the names of the code where they have one: `MarkedOverdue`
(`markOverdue`), `RefreshedRows`/`RefreshedMeta` (`refreshInvestmentPaymentMeta`, its row
updates and its document update), `RegeneratedRows`/`RegeneratedMeta`/
`RegeneratedEvents` (`regenerateSchedule`), `SyncTotals`. `Visible` is the page cap:
`findByInvestment` asks for 500 rows, `findMany` returns at most 100. `InsertFails` is
`insertMany` running into the unique index on a row the page did not show.

The engine is the constant operator `Plan`; the module relies only on its contract
`PlanAssumption` (as many rows as months; total = principal + interest; balances fall
by exactly the principal; the last row clears). TLC gives it the real engine
(`MCEngine`), and evaluates the contract for it.

Left out: the `loans` collection and timeline entries other than the two kinds
above (they are written and never read back by a decision of this service); names,
notes and payment methods; the interest rate beyond what the engine makes of it.
Paying all but 0.009 of a total counts as paying it, which in cents is paying it.

### LoanAccount and OrderlyServicing – what the ledger promises

`LoanAccount` is the abstract specification: a loan is opened once, what is owed only
falls, each fall is booked as repaid in the same step, a withdrawn loan is
frozen. `OrderlyServicing` restricts the requests of `InvestmentLedger` to an orderly
back office and shows that the ledger implements `LoanAccount` under the mapping
`owed = outstandingBalance`, `repaid = principalRepaid`.

The restriction matters, and each part of it excludes requests that do break a
property of the module:

- *The oldest unpaid row is paid first, in full.* `markPaid` sets
  `outstandingBalance` to the paid row's `remainingBalance` (`investment.service.ts:486`)
  while it adds the row's own principal to `principalRepaid`: paid out of order, the
  two move apart (see the finding on line 487). A partial payment is followed by a
  regeneration that takes the row's `remainingBalance` as the remaining principal, as
  if the row had been paid in full.
- *Nothing is cancelled.* A cancelled row repays nothing but still counts among the
  unpaid ones; regeneration deletes it.
- *The principal of a running loan is not rewritten.* `update` does not change
  `outstandingBalance`, and once a row is paid the new principal plays no part.

The other requests – early repayments, new rates and terms, regenerations, sweeps,
listings, removals, loans whose start lies in the past – come at any time.

### InvestmentRequests – the same requests, one statement at a time

The handlers await every database statement. A request in flight is a record in
`requests[slot]`: `todo`, the statements it has still to execute; its parameters; and
what it has read: `inv` (an investment document), `row` (a payment), `rows` (a page of
payments), `sums`. `Begin…` starts a request; after that each action executes the
statement at the head of `todo`: one `findById`, `updateMany`, `deleteMany`, `insertMany` or
`findOneAndUpdate`, with the computations between it and the next `await`.
`LoadPayment` and `LoadOutstanding` append the statements of the branch the handler takes.

| statements | code |
|---|---|
| `LoadInvestment`, `ReadRows`, `DeleteUnpaid`, `InsertRows` | `regenerateSchedule` |
| `DeleteAll`, `InsertSchedule` | `generateSchedule` |
| `ClearEvents`, `WriteEvents` | `syncScheduleTimelineEvents` |
| `MarkOverdue`, `ChooseNext`, `Demote`, `Promote`, `WriteMeta` | `refreshInvestmentPaymentMeta` |
| `SumTotals`, `WriteTotals` | `syncTotals` |
| `LoadInvestor`, `InsertInvestment` | `create` |
| `WriteTerms`, `WriteStatus`, `SoftDelete` | `update`, `remove` |
| `LoadPayment`, `WritePayment`, `FindInvestment`, `Credit`, `Announce` | `markPaid` |
| `WriteCancelled` | `cancelPayment` |
| `LoadOutstanding`, `InsertEarly` | `earlyRepayment` |

Two things matter here that the ledger does not see. A row is written by its `_id`, and a
row deleted and inserted again under the same sequence has another one: `held` is the set of
sequences whose row is still the one the request knows, and a deletion takes its rows out
of every request's `held`. And an update of a document writes only the fields it
names (`$set`), with values computed from a document read earlier: `Credit` writes
`q.inv.repaid + …` into `investments[i]`, not into the document it came from.

`FailingNext` adds `Fail`: a statement throws, or the process stops, and the request
goes no further. Nothing is rolled back, because nothing in the code is.
`PairNext` is the same system with a schedule for the requests: a loan is made, two requests
service it beside each other, then its schedule is regenerated alone. `MCFaultyRequests`
explores the two side by side.

A bulk statement (`updateMany`, `insertMany`) is one step, although MongoDB applies it
document by document; `insertMany` stops at the first row that clashes, with the rows
before it inserted. The clock moves only while no request is in flight, so a request does
not see two days.

### SerialRequests – the statements implement the ledger

With one request at a time, and sweeps and removals of investors between requests, the
statements of a request must amount to the action of `InvestmentLedger`, with its error
paths. `before` is a history variable: the ledger as it was when the request began. It
takes the new state with the request's last statement, and `ServesLedger` says that each
of its changes is a step of `InvestmentLedger` (`Serial == INSTANCE InvestmentLedger WITH …`).
The two modules were translated from the code separately, one by what a handler
achieves and one by what it executes; this refinement is what ties the proofs about the
first to the second.

### LedgerClaims

Two sentences of the source, stated as properties that the ledger does not have;
see [the findings](#where-the-code-disagrees-with-what-it-says).

### InvestorTotals – `syncTotals` in its two steps

`InvestmentLedger` has `syncTotals` as part of each request. Here it is what the code
executes: `ReadInvestments`, a page of the open investments and their sums, then
`WriteTotals`. Changes of investments interleave with it, a request may be cut short
before its synchronisation, and of more investments than a page only the newest are summed.
`stale` remembers a synchronisation that overlapped another or was cut short while none
has run alone since; `TotalsCatchUp` promises the sums in every other case.

### RefreshTokens – the sessions of one user

Redis is what a refresh token is checked against (`live`), Mongo has a copy of each (`copy`).
A token is a number, a `family` the token its session began with. A request is a record with
the place `at` which it stands; one action per await: `StartLogin`, `StartRefresh`,
`StartLogout` and `StartForAll` (logout everywhere, a changed or reset password), then
`ReadToken`, `DeleteToken`, `FindCopy`, `RetireCopy`, `LoadUser`, `StoreToken`, `BackupToken`,
`SaveDevice`, `Reply`, and `ReadForLogout`, `ForgetToken`, `FinishLogout`, `SavePassword`,
`ScanTokens`, `SweepKey` (or `SweepFails`, when Redis is away by then), `RevokeCopies` for the others. `Refuse` is a token Redis does not
have: the reuse detection. The environment loses Redis and gets it back, cuts a request short
(`Crash`), deactivates the user (`ToggleActive`); `CleanupExpiredTokens` is the cron.

- `SessionsKept`: `OneSuccessor` – a token is replaced once; `HeldTokenWorks` – a client that
  refreshes one request at a time keeps a token that works, whatever older token is replayed.
- `SessionsEnded`: `StoresAgree` and `RevokedSessionsStayClosed` – after a logout, or a
  revocation of all without a key prefix, no token of the session is accepted.

Each promise names what it excludes: sessions whose requests overlapped, calls that failed.
`RedisStore` holds the helpers of `utils/redis.helper.ts` as operators on a set of keys: they
answer as if a key were missing when Redis is away, and the key prefix is added to the keys of
commands but not to the pattern of a scan.

### OneTimeCodes – password recovery

The entry of a code lives in Redis or, while Redis is away, in the memory of the process;
a wrong guess reads the entry and writes it back with one more attempt, two awaits. A code
buys a reset token (`resetTokens`, `pointer`), the token a new password. `RecoveryRules`:
a code and a token are accepted once, guesses are bounded, only the newest code and token
work, and a completed reset kills the codes sent before it. Most of it holds while no two
requests met and the connection did not change (`Steady`); the bound on guesses also
while Redis is away for good.

### SignIn – the lock of an account and the brute-force counter

`AuthService.login` await by await, with the user document the request loaded
(`request[s].attempts`, `.lock`) and whether somebody saved it since (`stale`: the save then
raises `VersionError`, `SaveRefused`). Beside logins, the password is changed or reset, an
administrator unlocks or deactivates, locks lapse and Redis goes away. `hits` and `expires`
are the counter, INCR and EXPIRE being two commands. `Lockout`: no attempt that was
answered is lost by a save (`AttemptsNotLost`), an account at the maximum is locked, a guesser
alone gets at most the maximum of comparisons, a session nobody was given takes an overlap, and
the counter expires unless an outage fell between its commands. `LimitLifted` is its
liveness: who reached the limit may try again.

### ResponseCache – two caches, one in front of the other

A page followed by the behaviour (`view`) is computed from the `version` of each resource it
joins; `cache["service"]` and `cache["response"]` are the two entries. A read looks up, computes and
fills; a write changes the database, clears the service keys (by name or by pattern), answers, then
`cacheInvalidator` clears both. What a write clears is a choice (`Clearings`), because the program has writes
of each sort: `verifyEmail` (`auth.service.ts:442`), the save of a sign-in (`:186`), the investor service's edit and
soft delete of a user (`investor.service.ts:138`, `:164`) and the seeders clear nothing; a user who edits the own
profile leaves the service's lists to `cacheInvalidator`; a write of a resource that the page only joins clears
other pages.

`WritesReachTheCaches` is about clearings: `floor[c]` is the version of the page's own resource in the database when
`c` was cleared last, and what `c` holds is no older, in any interleaving, with any outage. The
one exception is a page read before a clearing and stored after it (`late`, which goes with the page from the service's cache into
the responses): nothing in the code prevents that. With a key prefix a clearing by pattern matches nothing and
is not one. `CachesBecomeFresh` is about the rest: late pages, writes that clear nothing, joins and outages
are repaired by the times to live, and by nothing else.

### UserDirectory – accounts and their profiles

Users and investor profiles in the order of their creation, and the handlers that create,
restore, delete and purge either: `Check…`, `CreateAccount`, `CreateProfile`, `SeedAdmin`,
`RestoreAccount`, `PromoteAccount`, `RemoveInvestor` then `RemoveAccount`, `SoftDeleteUser`,
`AdminUpdateUser`, `CleanupSoftDeletedUsers`. Two facts the code leaves open are
nondeterministic: whether the unique index on the e-mail exists (its partial
filter may be rejected when it is built), and which of a deleted and a live account
`findOne` returns. `AccountsConsistent`: one live account per e-mail; a profile and its account
are live or deleted together.

### AccessControl – who may do what

An access token carries the permissions of its sign-in. A request to `/users` is four steps, with anything between
them: `PresentToken` (the black list is asked), `LoadUser` (the user must be there, active and not locked), `Guard`
(`requirePermission`, which accepts the exact slug among what the documents gave and what the token carries, or an
administrator), and `Serve`, which runs the policy of the service and then reads, updates or deletes the target. The policy reads
the documents alone and accepts the slug, `user:manage` or `system:manage`. `deleteMe` (`DELETE /users/me`) passes no guard.
Meanwhile administrators change roles, permissions and accounts, accounts are locked (`Lock`, `LockLapses`),
tokens expire and Redis goes away.

`GrantsDecide`, an action property, compares the step with the past. `heldSince` is what a user held at some
time since its token was issued, `heldNow` what the user of a request held between its arrival and the loading of the
user. The guard is passed by administrators and with a permission held since the token was issued; somebody
else's account is changed or deleted only with a grant held after the request arrived, which a stale token does not
give; and the token of a user that logged out authenticates nothing as long as Redis was not lost.

### DocumentLibrary and Statements

`DocumentLibrary`: a file reaches the disk (`Upload`) before its content is checked
(`ValidateMagicBytes`) and its document written (`CreateReport`, `CreateContract`); a body may bring a `fileUrl`
instead (`PostWithoutFile`). That `fileUrl` is stored unchecked on create and update (`document.service.ts:97`,
`:117`, `:200`, `:220`): it may name nothing, or the file of another document (`Addresses`), so documents
may share a file. Only files whose upload is still in flight cannot be named, because their names are made up by multer
and not told before the document exists. `LibraryConsistent`:

- `UploadedFilesServed` – nothing takes a file off the disk that a document names or a download is about to send; the
  check of the content is the only code that removes files, and documents with uploads of their own share none;
- `SentToEntitled` – an investor is sent a file only if some document with that file was ever assigned to
  them. It cannot say "the document they asked for": repointing gives the readers of one document the file of another;
- `OrphansExplained` – every other file on the disk was left by a refusal, a failure or a rewritten address.

`Statements`: the payment export and the two dashboards read the investment and its rows with
queries of their own while markings write them one after the other. Export and dashboard list the rows through
`findByInvestment`, one page of them (`Listed`, `PageLimit`); the figures of the administrator aggregate all. `met` counts the markings that
were in flight at some time since a reader began. `StatementsSound`: what a reader shows of the investment and what
it shows of the rows differ by the rows beyond the page (`Beyond`) and by the markings met at most
(`WholeStatements`), in the direction the order of the two queries allows; and an export that
was answered is in the history (`ExportsRecorded`).

### ServerLifecycle – the process

`start()` and `shutdown()` step by step (`ConnectDatabase`, `ConnectRedis`, `StartBackground`,
`InitSockets`, `Listen`; `StopWorkers`, `CloseSockets`, `CloseHttp`, `DisconnectRedis`,
`DisconnectDatabase`, `ForceExit`), a signal at any moment, outages of Redis, reconnections and
the readiness probe. `ProcessSafe`: an exit with code 0 of a server that was serving has closed
everything; Redis is given up because of failed retries after exactly `REDIS_MAX_RETRIES` reconnections that failed since
the client was last ready (with 0, at the outage itself): `ReconnectStrategy`, like the function in `config/redis.ts`, is called
with 1 when the connection closes. The other ways to give it up are an absence at the start, and a
probe during a reconnection.
`ProcessSettles`: a start, a shutdown and a reconnection end.

### JobQueue, BusinessCalendar, PagedLists

`JobQueue`: listeners put jobs in one by one, workers take them out; `performed` is a job whose
effect is done and whose completion is not yet recorded. A crash kills listeners and
workers, and a stalled job is given out once more. BullMQ is external, modelled from the options `queues/*.ts`
set. `JobsDelivered`: effects once without faults, an event whose listener was not cut
short becomes all of its jobs; `JobsSettle`.

`BusinessCalendar`: dates are days since 1970; the properties compare Easter with an independent
definition (the Sunday after the ecclesiastical full moon), and a due date with the next
business day.

`PagedLists`: a client walks the pages of a list while documents come, go, and change their status or sort field
(`CreateOne`, `RemoveOne`, `ChangeOne`; a document whose status the filter does not match is not in the list). A list is sorted
by one field without a tie-breaker (`investment.service.ts:436`, `base.repository.ts:72`), so each query
may answer in any of the `Orders` that field allows: documents with equal keys can be repeated or missed between two pages even
of a list nobody writes to. `tied` remembers them. `WalkFaithful`: `NothingMissed` and `NothingTwice` for the others, unless a
document left its place (or came between a page's count and its documents), or came to one; and the
`RightNumber` of rows, ties included, for a list nobody wrote to.

### MC modules

`MCEngine` turns `ScheduleEngine` into the constants `Plan` and `Instalment` and builds
loans at a tenth a month, so that interest is visible on loans of a hundred
cents. `MCInvestmentLedger`, `MCOrderlyServicing`, `MCLedgerClaims`, `MCRequests`, `MCFaultyRequests` and
`MCSerialRequests` instantiate the ledger. `MCPlatform` and `MCServices` put the other components
side by side: `part` says which of them a behaviour is about, the variables of the others keep
their initial values. The parts share nothing, so the states of the run are those of its parts
added up; `MCPlatform` has the parts whose properties are invariants, with the request slots
interchangeable, `MCServices` those with liveness and without symmetry. The bounds of every
part are CONSTANTS that the configuration gives values to, so that the theorems about these
compositions are about any bounds. `PlatformParts` holds the instances of six parts of
`MCPlatform`, with their variables; the ledger and the sessions are instances of the modules
with their proofs.

### Modules of proofs

| module | about |
|---|---|
| `FiniteSums` | the sums of `FiniteSetsExt` and `Functions` over finite sets: what is added, removed or changed in a summand |
| `InvestmentLedgerProofs` | the ledger |
| `OrderlyServicingProofs` | orderly servicing, and the refinement to `LoanAccount` |
| `RefreshTokensProofs` | the sessions |
| `InvestmentRequestsProofs` | the requests of the ledger in flight |
| `PlatformPartsProofs` | totals, documents, statements, recovery, accounts, lists and the schedule engine, a section for each |
| `PlatformProofs` | the composition `MCPlatform`: the engine under the ledger, the calendar, each part within it, and the types of all |
| `ServicesProofs` | signing in, access, caches, process and queues, and the composition `MCServices` |

## The runs

| run | checks | shows |
|---|---|---|
| `one_loan` | `TypeOK`, `LedgerCoversRows`, `NextPaymentFresh`, `AtMostOneUpcoming`, `LastRowClears`, `CompletedRowsFinal` | every order of every request on one loan of three months, with partial payments and early repayments of a third |
| `overdue` | `LateRowsFlagged` (liveness) | a loan longer than the page `findMany` returns, with requests refused by the unique index: a late row is flagged, whatever else happens, when the cron keeps running |
| `orderly` | `ImplementsLoanAccount`, `ScheduleAmortisesOutstanding`, `RowsInOrder`, `TimelineAnnounced` | the refinement, and what orderly servicing keeps |
| `serial` | `ServesLedger` | served one at a time, the statements of every request implement the ledger; the term may grow, and the page shows one row, so that insertions meet rows the request has not seen |
| `requests` | `RequestsTypeOK`, `RegenerationRepairs`, `FailuresLeaveRowsSound` | a request may stop before any of its statements, with sweeps between them; and two requests on one loan interleaved at every statement, then a regeneration on its own |
| `platform` | `PlatformTypeOK` and 14 invariants: `PrincipalConserved`, `InstalmentsLevel`, `BalloonLeftForTheEnd`, `TailReproducesSchedule`, `TotalsFresh`, `TotalsCatchUp`, `SessionsKept`, `SessionsEnded`, `RecoveryRules`, `AccountsConsistent`, `LibraryConsistent`, `StatementsSound`, `WalkFaithful`, `DueDatesSound` | the engine over 14 400 loans and every tail of each, two investors with two investments, and the other components whose properties are invariants, their requests interleaved at every await, with outages and requests cut short |
| `services` | `ServicesTypeOK`, `Lockout`, `WritesReachTheCaches`, `ProcessSafe`, `JobsDelivered`, `GrantsDecide`; `LimitLifted`, `CachesBecomeFresh`, `ProcessSettles`, `JobsSettle` (liveness) | signing in, caches, access control, the process and the queues: what a step may do, and what must happen |
| `cancelled_claim`, `fully_repaid_claim`, `lost_update`, `paid_twice`, `revoke_all` | one property each | a violation each: the findings below |

`platform` and `services` do not check deadlock, because their parts may stop at their bounds or
(the process) have exited, and `revoke_all` for the same reason. The deadlock check of the
others says little, since a sweep is always possible there.

What the less obvious properties say:

- `LedgerCoversRows` relates `principalRepaid` and `interestEarned` of the document to
  the sums over the rows. It is an inequality: cancelling a partially paid row and
  regenerating deletes the row while the ledger keeps the money, and an early
  repayment deletes nothing that was paid.
- `NextPaymentFresh` holds although listings and the sweep change row statuses without
  refreshing the document: what they change to `overdue` is what the refresh would
  have chosen.
- `AtMostOneUpcoming` is not obvious because the normalisation is skipped when the
  next payment is overdue (`investment.service.ts:683-696`).
- `ImplementsLoanAccount` would fail if the balance and the repaid principal, computed
  from two different sources by `markPaid` and by `earlyRepayment`, ever
  moved by different amounts.
- `RowsInOrder` says that the rows of an orderly loan are 1, 2, 3, … and that its next
  payment is the oldest unpaid one; `TimelineAnnounced`, that every unpaid row has
  its event, and that LOAN_CLOSED is there exactly when nothing is outstanding.
- `RegenerationRepairs`: whatever failed requests or two interleaved ones have left –
  a loan without rows, half of a schedule, two upcoming rows, a ledger that lost an update –
  a regeneration that runs on its own gives a schedule whose last row clears the loan and
  that has one upcoming row at most. The administrator has that button
  (`POST /investments/:id/regenerate-schedule`); this is why it is enough.
- `FailuresLeaveRowsSound`: one next payment at most, and completed rows kept, hold
  *between* the statements of a request too, because `regenerateSchedule` deletes before it
  inserts and `refreshInvestmentPaymentMeta` demotes before it promotes, and by `_id`. With
  two requests in flight neither is promised: two refreshes may promote two rows, and see
  finding 4.
- Properties of components whose requests race state what they exclude – an overlap, an
  outage, a request cut short – with a variable that remembers it. What is excluded is what
  the code does not promise; each such variable is set in the runs, and the property is
  about the states in which it is not, or no longer.

### Bounds, and why they are enough

- **Loans.** One or two loans of one to three months. The rules that can go wrong
  distinguish a first, a middle and a last row, paid or unpaid, before or after
  today: three rows give each. Loans do not interact except through an
  investor's totals, for which `platform` has two investors and two investments.
- **Amounts.** A request carries an amount below an instalment (partial), the exact
  total (always offered), or more than the loan (capped); interest portions of 0 and 10
  cover interest-only and mixed early repayments.
- **`PageLimit`.** 100 in the code. 100 stands for "everything is seen"; 1 in
  `overdue` and `serial` stands for a loan with more rows than the page: the validator
  puts no maximum on `termMonths`, so such loans exist.
- **`MaxSeq`, `MaxMonth`, `MaxCollected`, `MaxClosings`.** Cap the counters: `RegenerateFits`
  and the guards of `EarlyRepayment` stop a schedule from growing past `MaxSeq` rows,
  `CollectsWithin` stops the money collected, `AnnounceClosing` the LOAN_CLOSED events,
  `MonthPasses` the calendar. `MaxMonth` lets the
  first row (in `overdue` the first two) of the three-month loan become late, before or after
  it is paid; `MaxSeq` leaves room for an
  early repayment beyond the original term where the run is about that.
- **`Slots`, `MaxRequests`, `MaxFailing`.** One request in flight for the refinement and for
  failures, two where requests race; a race of two requests is a race of two statements, and a
  third request adds no order of two. Three or four requests in a run: the loan, one or two that
  damage or change it, one that must cope. The pair of `requests` starts after
  the loan exists (its id is not known before) and races only requests that service a loan;
  the two slots are interchangeable (`SYMMETRY`: invariants and action properties only).
- **The parts of `platform`.** Two slots everywhere, for the same reason. Sessions: three tokens
  (a first, its successor, and one more of the same or another session), three requests, one shock –
  an outage, a failed call, a crash, a clean-up or a deactivation. Codes: two codes, two guesses allowed, five
  requests (ask, guess wrong, guess right, reset, and one more). Accounts: one e-mail, three
  accounts (two live and a deleted one), five requests. Documents: two readers, two
  documents of either kind, two files. Statements: schedules of one to three rows and a page of two
  (`MaxTerm`, `StatementPage`), so that some have a row beyond it, and four requests. Lists: two documents at the start, two
  writes, two keys, so that ties come and go, and pages of one or two (a client that asks for nine gets the
  `ListPage` of two). Totals: three investments and a page of two, four changes. One shock each:
  a second one meets a system that has already been through one, and no property promises more
  then.
- **The parts of `services`.** Signing in: two attempts to the lock, two to the limit, three requests.
  Caches: two pages, one joining another's resource, two requests at a time and two writes, so that a write that clears
  nothing meets one that does. Access: one
  request at a time beside three changes, two users, and four bundles of permissions a role may be given: none, the exact
  slug, a slug with `user:manage`, a slug with `system:manage`. The process: two
  attempts to reach MongoDB, one retry of Redis, two outages, so that the retries of one outage could be
  mistaken for those of another. Queues: two events, three jobs, two attempts, one shock.
- **Calendar.** Every day of 2024, 2028 and 2038: leap years and a common one, early and late Easters.
- **Engine.** Terms up to five months, four rates including zero, grace up to and past
  the term, balloons below and above the principal, principals from a cent. Properties
  on prices exclude loans whose instalment is no larger than what rounding may drift by over their term
  (`LoanDrift`): such an instalment can exhaust the loan before its last month.

### Fairness

| specification | weak fairness of | because |
|---|---|---|
| `InvestmentLedger!FairSpec` | `SweepOverdue` | the cron runs it daily (`cron/index.ts:147`) and after every start (`cron/index.ts:185`) |
| `SignIn!FairSpec` | `CounterLapses`, the steps of a request in flight | Redis expires the counter; an awaited call settles |
| `ResponseCache!FairSpec` | `Expire(c)` of each cache, the steps of a request in flight | entries are written with a time to live |
| `ServerLifecycle!FairSpec` | `Start`, `Reconnect`, `ProbeEnds`, `ForceExit` | attempts and timers end; the 15-second timer fires |
| `JobQueue!FairSpec` | `Work(j)` for each job | workers run and back-offs end |

Nothing is assumed of users, clients or the environment: nobody has to pay, list, write, log in or
bring Redis back, and time need not pass in the ledger.

## Proofs

| theorem | statement | assumes of the constants |
|---|---|---|
| `PlatformPartsProofs!EngineTyped` | `Spec => []TypeOK` | that loans are loans (`RequestsAssumption`) |
| `PlatformPartsProofs!PrincipalAlwaysConserved` | `Spec => []PrincipalConserved` | the same |
| `PlatformPartsProofs!TailAlwaysInPlace` | `Spec => []TailInPlace`, the positions of `TailReproducesSchedule` | the same |
| `PlatformPartsProofs!LevelUntilAlwaysCleared` | `Spec => []LevelUntilCleared`, the amounts of `InstalmentsLevel` | the same |
| `PlatformPartsProofs!InstalmentsAlwaysLevel` | `Spec => []InstalmentsLevel` | the same |
| `PlatformPartsProofs!BalloonAlwaysLeft` | `Spec => []BalloonLeftForTheEnd` | the same |
| `PlatformPartsProofs!TailAlwaysReproduces` | `Spec => []TailReproducesSchedule` | the same |
| `InvestmentLedgerProofs!LedgerTyped`, `LedgerAlwaysTyped` | `Spec => []LedgerTypeOK`, `Spec => []TypeOK` | the four of `InvestmentLedger` |
| `InvestmentLedgerProofs!OneNextPayment` | `Spec => []AtMostOneUpcoming` | the same |
| `InvestmentLedgerProofs!CompletedStays` | `Spec => CompletedRowsFinal` | the same |
| `InvestmentLedgerProofs!LedgerAlwaysCoversRows` | `Spec => []LedgerCoversRows` | the same |
| `InvestmentLedgerProofs!NextPaymentIsFresh` | `Spec => []NextPaymentFresh` | and `MaxSeq <= PageLimit` |
| `InvestmentLedgerProofs!LastRowAlwaysClears` | `Spec => []LastRowClears` | and `MaxSeq <= PageLimit` |
| `InvestmentLedgerProofs!TotalsAlwaysFresh` | `Spec => []TotalsFresh` | and `MaxSeq <= PageLimit` |
| `OrderlyServicingProofs!ScheduleAlwaysAmortises` | `OrderlySpec => []ScheduleAmortisesOutstanding` | and `MaxSeq <= PageLimit` |
| `OrderlyServicingProofs!RowsAlwaysInOrder` | `OrderlySpec => []RowsInOrder` | and `MaxSeq <= PageLimit` |
| `OrderlyServicingProofs!TimelineAlwaysAnnounced` | `OrderlySpec => []TimelineAnnounced` | and `MaxSeq <= PageLimit` |
| `OrderlyServicingProofs!OrderlyImplementsLoanAccount` | `OrderlySpec => ImplementsLoanAccount` | and `MaxSeq <= PageLimit` |
| `InvestmentRequestsProofs!RequestsAreTyped`, `FaultyRequestsAreTyped` | `FailingSpec => []RequestsTypeOK`, `FaultySpec => []RequestsTypeOK` | the four, and `MixedTermsAssumption` |
| `InvestmentRequestsProofs!RegenerationsRepair`, `FaultyRegenerationsRepair` | `FailingSpec => []RegenerationRepairs`, `FaultySpec => []RegenerationRepairs` | and `MaxSeq <= PageLimit` |
| `InvestmentRequestsProofs!FailuresLeaveRows` | `FaultySpec => FailuresLeaveRowsSound` | those of the types |
| `PlatformProofs!EngineKeepsContract` | the engine keeps `PlanAssumption` for every loan, principal, term and grace | none |
| `PlatformProofs!PlatformSchedulesSound` | `PlatformSpec => []PrincipalConserved` and the other three properties of schedules | that loans are loans (`RequestsAssumption`) |
| `PlatformProofs!PlatformTotalsFresh` | `PlatformSpec => []TotalsFresh` | there are investors, and no more investments than a page of 100 |
| `PlatformProofs!PlatformTotalsCatchUp` | `PlatformSpec => []TotalsCatchUp` | `TotalsPage \in Nat` |
| `PlatformProofs!PlatformRecoveryRules` | `PlatformSpec => []RecoveryRules` | `MaxAttempts`, `MaxCodes \in Nat` |
| `PlatformProofs!PlatformAccountsConsistent` | `PlatformSpec => []AccountsConsistent` | none |
| `PlatformProofs!PlatformLibraryConsistent` | `PlatformSpec => []LibraryConsistent` | `MaxFiles \in Nat` |
| `PlatformProofs!PlatformStatementsSound` | `PlatformSpec => []StatementsSound` | `StatementPage`, `MaxTerm \in Nat` |
| `PlatformProofs!PlatformWalkFaithful` | `PlatformSpec => []WalkFaithful` | `Asked \subseteq Nat`, `Keys \subseteq Int`; `ListPage`, `AtStart \in Nat` |
| `PlatformProofs!EasterAfterTheMoon` | a Sunday, one to seven days after the tables' full moon | a year from 1 on |
| `PlatformProofs!NextBusinessDayFound` | the first business day on or after any day, at most four days later | a day from 1970 on |
| `PlatformProofs!PlatformDueDatesSound` | `PlatformSpec => []DueDatesSound` | `CalendarYears`: years from 1970 on |
| `PlatformProofs!PlatformTyped` | `PlatformSpec => []PlatformTypeOK` | `PlatformBounds`: the limits and the principals are natural numbers, the keys of the lists integers, a page asked for has at least one row, and the assumptions of the rows above on the ledger, the sessions and the calendar |
| `RefreshTokensProofs!SessionsAlwaysKept` | `Spec => [](SessionsKept /\ SessionsEnded)` | `MaxTokens \in Nat \ {0}` |
| `PlatformProofs!PlatformSessionsKept`, `PlatformSessionsEnded` | `PlatformSpec => []SessionsKept`, `[]SessionsEnded` | the same |
| `ServicesProofs!ServicesLockout` | `ServicesSpec => []Lockout` | `AttemptBounds`: a maximum of at least two attempts |
| `ServicesProofs!ServicesGrantsDecide` | `ServicesSpec => GrantsDecide` | `Bundles \subseteq SUBSET Permissions`; here and below `AttemptBounds` too, because `MCServices` has signing in |
| `ServicesProofs!ServicesWritesReachTheCaches` | `ServicesSpec => []WritesReachTheCaches` | and `MaxWrites \in Nat` |
| `ServicesProofs!ServicesProcessSafe` | `ServicesSpec => []ProcessSafe` | and `RedisRetries \in Nat` |
| `ServicesProofs!ServicesJobsDelivered` | `ServicesSpec => []JobsDelivered` | and `MaxJobs \in Nat` |
| `ServicesProofs!ServicesAreTyped` | `ServicesSpec => []ServicesTypeOK` | `AttemptBounds`, and `ServicesBounds`: the limits are numbers, the bundles sets of permissions, and start() and the queues try at least once |

The four assumptions of `InvestmentLedger` are `BoundsAssumption`, `TermsAssumption`, `PlanAssumption`
and `InstalmentAssumption`: what the sets are, and the contract of the engine. TLC evaluates them in
every ledger run, with the real engine; `EngineKeepsContract` proves the contract for the engine, so
that the theorems of the ledger are about the ledger with its engine. The theorems hold for any
number of loans, users, requests in flight, documents and jobs, and for any value of the bounds that
only keep TLC's instances finite.

**Composition.** A behaviour of `MCPlatform` or `MCServices` is one of each of its parts: the initial states
are initial states of the part, and a step of another part changes none of its variables (the
lemmas `…InPlatform`, `…InServices`). Hence each theorem about a part is one about the composition,
and the properties of the runs `platform` and `services` are proved as the runs check them.

**Sums.** The library's operators for sums are folds, about which nothing is known. `FiniteSums` shows,
by induction over a finite set (`SetInduction`, an instance for sets of the induction over the
naturals), that a sum is what one expects when a summand is added, removed or changed.

**The engine.** The balance after row `k` is a recursive function. `PaysOff` says what the rows do with
it: each takes its principal off the balance, and the last takes the rest; a row's principal is
clamped to the balance, so it never becomes negative. The level instalment covers the interest of
the whole loan at every rational rate (`InstalmentCovers`) because the quotient of powers it
multiplies the first interest with is at least one, and rounding is monotone (`RoundMonotone`).

**Drift.** Each row rounds its interest, and the instalment is rounded once; what a row is off by bears interest to
the end. `Astray` is twice the distance between a balance and the one no rounding would have left, times
`den^k`, so that everything is a whole number. A month multiplies it by the growth and adds at most half a cent
(`DriftStep`), so after `n` rows it is at most what half a cent a month grows to (`LevelledNear`). The rounded
instalment is off by as much (`InstalmentNear`), and together they are what a cent a month grows to,
`((1 + r)^n - 1) / r`, which is `Drift` (`DriftIs`). The last row therefore costs the instalment up to `Drift`
(`LastNear`); an instalment above `Drift` cannot have exhausted the loan before, so all rows before the last cost it
exactly (`LevelledPrices`). A tail starts from a balance that is that far off, and computes an instalment of its
own, off from the first by one cent and half the drift at most: no more than the drift, which is two cents or more
as soon as two months are left (`InstalmentStays`). With a balloon the balances are, row for row, at least
those of the loan without the balloon and the balloon on top, as interest grows with the balance
(`InterestMonotone`, `BalloonStays`). A bound of a fixed number of cents a month would be false: 360 months at
one per cent can drift by several cents a month, since early cents bear interest for decades.

**The ledger.** `LedgerTypeOK` is the types of documents and rows together with
`RowsOfCreated` – an investment that was not created has no rows – without which
`Create`, which replaces `payments[i]`, could erase completed rows. The heart is the
relation `RowsStep(old, new)`: types are kept, completed rows are kept, and one
upcoming row stays one. It is transitive, and each building block of the handlers
(marking overdue, normalising, deleting the unpaid rows, inserting a regenerated
tail, writing a payment) is shown to be such a step; a handler is a composition of
them. For that, `RegeneratedRow` must choose one upcoming row *and* the rows kept must hold
none, which they do because only paid rows are kept, and the normalisation must pick a row
that is not completed. None of this depends on what a page shows, so the theorems
hold for any page size.

**What was booked.** `Covers` compares what a document has booked with the sum over its rows. What is
deleted or rewritten without a payment receives nothing (`NothingReceived`); a payment and an early
repayment add the same amount to both sides or more to the document, because a row's share of
principal is capped by what is left of the row.

**The next payment.** `NextPaymentFresh` is not inductive: the sweep and the listings change rows
without touching the document. What saves it is an order (`Ordered`): the rows ahead come after every
row due next, and rows become overdue in that order, so that marking one overdue never finds
a next payment earlier than the document's. With the last row clearing (`Clears`) and the document
agreeing with its rows (`Fresh`), this is `Serviced`, shown of each handler as a whole. It takes
schedules that fit the page: beyond it `findByInvestment` shows a part of the rows and the
document follows that part; `overdue` and `serial`, the runs with a shorter page, do not promise it.

**Totals.** The cached sums follow every request of the ledger because `SyncTotals` makes them right for the
investor it is called for (`TotalsFreshFor`), and no handler changes what counts for another
(`SameFor`). In `InvestorTotals`, a synchronisation that is alone has read the investments
as they still are, because nobody changes one beside it (`TotalsSole`, `TotalsReadAlone`); one that is
not alone has left `stale` behind (`TotalsMarked`); and a page that is long enough shows everything
(by cardinalities).

**Orderly servicing.** `Amortises(owed, lent, rows, n, k)` says that rows `1..k` are paid and rows
`k+1..n` wait, that each row takes its principal off the balance before it, that row `n` leaves
nothing, and that the balance after row `k` is what is owed. A payment of the oldest row moves `k` by one;
an early repayment inserts a paid row after the paid ones and rebuilds the tail from a smaller balance;
a regeneration rebuilds it from the same. `InOrder` adds the timeline. `ScheduleAmortisesOutstanding`
follows by summing the principals of the tail, and the steps of `LoanAccount` are read off `k` and
`owed`: `Lent`, `Repaid` with the part by which `owed` falls, `Withdrawn`, or a stutter.

**Requests in flight.** In `InvestmentRequests` any number of requests execute their statements in any
order, and any of them may stop short. What a statement relies on – that a row was read, that
the investment it writes into is the one it loaded – was established by statements before it, so the
invariant is about the statements a request has still to execute: `Follows(a, b)` lists which statement comes
after which, `Chained` says that `todo` is made of such pairs, and `TodoOK` adds what the rest of the list needs of
the request (a row for the statements that read one, a status for those that write one, rows enough to skip when
a statement skips). The rest of such a list is one again (`TodoLater`), so each statement keeps `TodoOK`, and
`RequestsTypeOK` follows for every interleaving. `MixedTermsAssumption` says that terms mixed with those an investment has are terms: an update may name any
of them, and the validator checks them one by one (`domain.validator.ts:42-49`).
`RegenerationRepairs` assumes nothing of the rows a regeneration finds, because failed and overlapping
requests leave about any. `Repairing` says what it has made of them at each statement: after
deleting what is unpaid the paid rows are those it had read; from the insertion on there are rows, the last of
which clears the loan and one at most of which is upcoming (`RowsLeft`); and when it writes the
next payment no other row is upcoming (`OnlyChosen`). A sweep between any two statements keeps `RowsLeft`, and
no other request runs, by the definition of `alone`. Beyond the page limit this fails:
the rows past the page are not read, so the insertion meets them.
`FailuresLeaveRowsSound` is proved of every request, from what its next statement relies on (`RowsSound`): the
rows are the paid ones when new ones are inserted, none when those of a new loan are; the row a payment or a
cancellation writes is not completed; the completed rows are among those the request chose the next payment
from, and when it writes that one no other row is upcoming (`Sound`). `GoesTo` says after which statements
these come, so each is what the statement before it found or left, and a sweep in between keeps it
(`SoundMarked`). The first rows of a loan need a chain of their own: a request runs before its investment is
there only if it creates it (`Made`), an investment that is there stays (`CreatedStay`), and rows exist only
of those (`RowsOfCreated`). A request that fails leaves nothing that relies on anything.

**Sessions.** While no two requests worked for a session at a time (`TokenTurns`), it has one live token,
the one its client holds or is about to be answered (`TokenLone`, `TokenKept`); the request that works for it
relies on what it has read (`TokenTurn`): a token it deletes is live, one it found the copy of has no
successor yet. A revocation of all that scans has seen every live token (`TokenSwept`), because nobody
logs in or refreshes beside it.

**Recovery.** The entry of a code is in one store as long as the connection did not change (`CodeHome`); it
counts the wrong guesses (`CodeCounted`), except for requests that met while Redis was up; a request alone
relies on what it read (`CodeAlone`); and what is live was not used (`CodeUnused`).

**Accounts.** With the unique index, or as long as creations did not cross and no deleted account stands
beside a live one, an e-mail has one account (`UserUnique`); a request knows what its check saw
(`UserChecked`); a profile has the state of its account, unless a removal stands between its two writes
(`UserPaired`).

**Documents.** A file has an owner – some documents, or the one request that uploads it – until it is left over
(`LibraryServed`), and the file of an upload in flight is nobody else's (`LibraryOwners`), because a `fileUrl` cannot name it yet. The check of the
content removes files of such requests only, so no document loses one. `LibraryScopes` says that who a document is assigned
to is entitled to its file; assigning, creating and repointing all keep it.

**Statements.** A marking writes the row before the investment, so what the investment accounts for and the
markings in flight are together at most the rows paid, and exactly those while no marking was cut short or met another
(`StatementMarking`). A reader has met the markings in flight, so what it has read of either side is off by
those at most (`StatementRead`); a page leaves out at most the rows beyond it, by the cardinality of an interval. What was sent
and what is in the history differ by the exports in flight (`StatementExports`).

**Lists.** In every order a query may answer in, a document whose key no other shares stands behind exactly the
documents with smaller keys (`WalkRank`), whatever the ties do. What there was at the beginning is therefore given to the client, or
its rank is ahead of where the client has come, as long as nothing leaves its place (`WalkNoneLost`); a count that is no less
than the list leaves nothing ahead of the last page (`WalkCounted`); what was given stays behind the client as long as nothing
comes (`WalkOnce`), since ranks then only fall; and of a list nobody writes to as many rows are given as were
read (`WalkNumbered`).

**The calendar.** A year is cut into four hundreds, hundreds, fours and ones (`YearParts`), with which the length of
a year and the first day of the next follow by linear arithmetic, and every day lies in one year only (`OneYear`), among the four the code
builds the holidays of. Of Easter, `PaschalMoon` shows that Gauss's `h` is the epact of the church tables, counted from the
other end (`(e + h) % 30 = 23`), and `EasterIsSunday` that `l` fills up the week; so the code's Easter is
the Sunday after the tables' full moon in every year, not in those TLC computes. Five days in a row are never all off, by cases over the weekday
on which the Christmas and Easter holidays fall (`NeverFiveDaysOff`); the search therefore ends, at the least of the business
days it is given, and the least is monotonic, which keeps due dates in order.

**Signing in.** A save that succeeds is of a copy nobody has saved since, so the copy is the document
(`Copies`); with that, attempts are not lost although each request computes from its own copy.
`Alone` and `Watched` carry what a guesser alone and a running EXPIRE need.

**Access.** What a token carries was held since it was issued: what administrators change is added to
`heldSince` and never taken from it (`AccessHeld`). While a request waits for its user, what the user holds is
added to `heldNow` (`AccessLoading`), so the user that is loaded holds part of it, and the guard and the policy read that copy
(`AccessCarried`). The token of a user that logged out is on the black list until it expires (`AccessListed`).

**Caches.** `floor` only grows, and is no larger than the version in the database, because versions only grow
(`CacheFloors`). A page computed now is therefore above every floor; one computed before a clearing is marked late by it
(`CacheHeld`). A page may go from the service's cache into the responses, which is sound because the responses' floor is never the higher of the two.

**The process.** The invariant says what has been opened and closed at each place of
`start()` and `shutdown()`; the interleaving of both is what makes it necessary. While the client reconnects, the argument of the
strategy is one more than the reconnections that failed, which gives the bound.

**Jobs.** The effects of each job are those its state, its doubtful mail errors and its stalls allow;
and, until a listener is cut short, the jobs wanted are those added and those the listeners
still hold, which counts by cardinality.

**Types of the platform.** Each theorem above rests on the types it needs; `PlatformTyped` adds what those leave open.
Some of it counts requests in flight: a request of the recovery may still issue a reset token, so the
tokens issued and the requests in flight are no more than the requests begun (`CodeMore`); an export
may still be recorded, a row is marked by a request (`StatementMore`); documents are created by writes (`WalkMore`). One slot moves at a time, so that each count moves by one
at most (`OneSlotMoves`). A refresh token replaces one that was signed before it, and no copy is written of
a token that was not signed (`TokenOrder`).

**Types of the services.** That counters keep within their bounds is not a matter of types alone: `start()`
tries again only while an attempt is left, a Redis client fails in a row no more often than its retries, a job has an attempt left as long as it is not done, and the versions of the database are as many as the
writes begun, less those on their way. `MONGODB_MAX_RETRIES` of zero, which `env.ts:51`
accepts, is excluded: the loop of `database.ts` would not try at all.

Only model-checked:

- Liveness: `LateRowsFlagged`, `LimitLifted`, `CachesBecomeFresh`, `ProcessSettles`, `JobsSettle`. Fairness
  and ENABLED are out of the prover's reach.
- The refinement `ServesLedger` of the ledger by its statements. See below.

## Where the code disagrees with what it says

Each is found by a run in a few steps.

1. `cancelled_claim`, line 681 – cancel a row when no other is upcoming or overdue: the
   refresh of the same request takes the cancelled row for the first unpaid one
   and makes it upcoming; it can then be paid, although "Cancelled payments
   cannot be marked paid" (line 449).
2. `fully_repaid_claim`, line 487 – pay the last row first: its `remainingBalance` of zero
   becomes the balance, the loan is closed and "Loan Fully Repaid" is announced.
3. `lost_update`, `base.repository.ts:109` – `update` is a `findOneAndUpdate` without a version,
   so two payments of one loan credited at the same time lose one credit: what is
   booked as repaid falls. `base.model.ts:10` speaks of optimistic concurrency, which
   covers `save()`.
4. `paid_twice`, `investment.service.ts:445` – two requests for one payment both pass
   "Payment already completed", and the second records its amount over the
   completed row.
5. `revoke_all`, `token.service.ts:233` – the scan for the refresh tokens of a user uses a pattern
   without `REDIS_KEY_PREFIX`, which the client adds to the keys of commands and not to the
   pattern of SCAN (`cacheKeys.ts:3` says the prefix is applied): with a prefix, logging out everywhere
   or changing the password leaves every refresh token accepted. With an empty prefix
   `RevokedSessionsStayClosed` holds.

Smaller observations, made while modelling, without a run of their own. They are why some properties
name the cases they exclude.

- "Clear unpaid rows first so early repayment sequences stay contiguous"
  (`investment.service.ts:588`): after row 2 was paid before row 1, an early
  repayment deletes row 1 and becomes row 3; `RowsInOrder` is therefore a property
  of orderly servicing only.
- `findByInvestment` asks for 500 rows (`domain.repositories.ts:53`) where `findMany` caps at 100
  (`base.repository.ts:56`): with a small `PageLimit`, `orderly` finds
  `ScheduleAmortisesOutstanding` violated, because a longer loan is rebuilt from the balance
  after the last row of the page. Investments of an investor are summed over such a page too.
- A `fileUrl` in the body of a document is stored as it is: a document may name the file of another one, and its
  readers are then sent that file.
- Lists are sorted without a unique field: rows with equal due dates may come twice or not at all between two pages.
- `verifyEmail`, sign-ins and the investor service write users and clear no cache of users; only the time to live does.
- An export or a dashboard of a loan longer than 100 rows shows one page of them beside the totals of all.
- The reuse of an older refresh token revokes the Mongo copies of its family, while Redis, which decides,
  keeps the successor. `StoresAgree` excludes families with a reuse.
- The password is saved before the sessions are revoked (`auth.service.ts:500`): when the second fails the
  first stays.
- `createPlatformAdmin` for the e-mail of an account that is not an administrator returns that account as it is.
- Nothing keeps one active administrator, and a role that users have may be deleted.
- A readiness probe while the client reconnects may turn Redis off for the rest of the process.
- Closing Socket.IO closes the HTTP server it is attached to, so that closing the HTTP server itself
  then is an error.
- The events of `user.events.ts` have listeners, and nothing under `src/src/` publishes them.

## What is not modelled

- *A day that begins inside a request*, and bulk statements observed half-way.
- *What two ledger requests in flight promise* beyond `RegenerationRepairs`, types aside: most
  properties of the ledger are lost (findings 3 and 4).
- *The `loans` collection* (a copy of some fields of an investment with handlers of its own) and the timeline
  entries no decision reads.
- *Days inside the ledger.* Its due dates are months; business days are `BusinessCalendar`'s, and the order of
  instalments checked there (`InstalmentsStayInOrder`) is what allows months.
- *Floating point.* See `RepaymentSchedule`.
- *E-mail verification*: tokens written and read once.
- *Lists of documents*: one query, with the filter `assertAssigned` repeats.
- *Edits of names, preferences, avatars*, and marking notifications as read: nothing depends on them.
- *Emissions to sockets*: fire and forget. The rooms of a socket are those of its token when it connected.
- *Export formats* (CSV, Excel, PDF) and *exports of users*: layout without state.
- *HTTP edge*: parsing, headers, error formatting; the validators bound the inputs of the models, and the rate
  limiters of a library count in the memory of the process.
- *Configuration, mail, storage, container, status page, API documentation*: set-up and I/O without state that a
  property could be about.
- *Seeded data, scripts, factories*: run by hand on an empty database. The seeders of administrators and
  roles, which run with the server, are part of `UserDirectory` and `AccessControl`.

## What could come next

- A proof of `ServesLedger`: `RowsSound` says what a request relies on of the rows; the refinement needs what it
  has computed so far as well, one branch of a handler at a time.
- Two requests in flight in the ledger: which properties are regained when the second ends.
- Composition of sessions, sign-in and recovery in one specification, for a password reset that meets a
  refresh and a login; today each sees the others as steps of its own environment.

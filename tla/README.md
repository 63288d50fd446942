# A TLA+ model of the data crawler backend

TLA+ modules for the part of this repository that is hard to test: crawl jobs
that a queue runs, retries and gives up on while users read, cancel and delete
them; quotas that are counted before a job is inserted; schedules that several
workers look at; deliveries that are retried and asked for again; sessions,
roles and caches that several servers change at once; files beside rows. TLC
checks each module on small instances, TLAPS proves most of the safety
properties for every value of the constants. Paths below are relative to the
repository's `src/` directory unless they begin with `README` or `docs`;
*processor* is `queues/crawl.worker.processor.ts`, *service* and *repository*
are those of `modules/crawl-jobs`.

## The system and its parts

A Node/TypeScript backend: Express handlers and BullMQ workers share a
PostgreSQL database (through Prisma) and Redis. A client asks for a crawl; a
row is stored and a BullMQ job queued; a worker has the Firecrawl provider
crawl, polls it, stores pages, makes an export and a report and dispatches
webhooks. Nothing but single statements and a few transactions is atomic: every
`await` is a point where the other processes go on.

| Part | State it keeps | Operations | How others meet it | Correct when |
|---|---|---|---|---|
| Crawl jobs (`modules/crawl-jobs`, `queues/crawl.*`) | row `crawl_jobs`, BullMQ job, a counter of event streams | create, list, view, cancel, delete, rerun, event streams; `processCrawlJob` | called by schedules; calls pages, provider, exports, webhooks | cancellation is final and heard, a queued job gets an outcome, nothing is announced that did not happen |
| Provider client (`modules/firecrawl`) | none; the crawl at the provider | start, poll, cancel | `shouldCancel` and the abort signal are callbacks into the worker | polling ends |
| Lock (`common/redis/redis-client.ts`) | a Redis key with a time to live, a table per process | acquire, release | around create, triggerRun, rerun | only the owner gives the key back |
| Admission and limits (in service, `modules/crawl-schedules`, `modules/users`) | counts over `crawl_jobs`, limit columns of users and roles | count per day, count active, insert; copy and reset limits; report | under the lock, ticks without | quotas hold, and the report says what create does |
| Schedule calculator (`common/helpers`) | none | `calculateNextRun` | called with the settings of a row | earliest wanted instant |
| Crawl schedules (`modules/crawl-schedules`, `queues/schedule.worker.ts`) | row `crawl_schedules` | create, update, toggle, delete, triggerRun, processDueSchedules | creates crawl jobs | a slot is run once, by the settings of the row |
| Webhooks (`modules/webhooks`, `queues/webhook.*`) | rows `webhook_configs`, `webhook_deliveries`, BullMQ jobs | dispatch, test, redeliver, send, markFailed | dispatched by the worker | each delivery gets its outcome, and a true one |
| Pages and assets (`modules/crawl-pages`, `crawl-assets`) | rows per page | upsert, quality check | written by the worker, read by exports | counters agree with rows |
| Sessions (`modules/auth`, `token-blocklist.helper.ts`) | user row, refresh tokens, API keys, blocklist in Redis or memory | register, login, refresh, logout, reset, deactivate | middleware of every request | what is revoked stays revoked |
| Users, roles, permissions | rows | create, update, delete, assign, revoke, replace; roles and their grants | fill and invalidate the authorization cache | there is always a super administrator |
| Authorization, configuration and template caches | maps per process | get, set, invalidate over pub/sub | every request | no stale entry outlives its invalidation |
| Cron (`modules/cron`, `queues/cron.*`) | a map of statuses in the configuration, BullMQ schedulers | toggle, register at the start, run, clean up | deletes old exports, tokens, pictures | map and schedulers agree |
| Exports, change detection (`modules/crawl-exports`, `exports`, `change-detection`) | files and rows | generate, compare, delete, expire | at the end of a run, by clients | a row has its file; the files agree; the diff is a diff |
| Dashboard, health, audit, mail, storage, HTTP layer, seed | little or none | queries, I/O, validation | - | - |

What is hard: an attempt that times out goes on executing beside its successor;
a worker that dies or loses its lock leaves a job to another; readers and
handlers write on the strength of an earlier read; Redis can fail between
setting a key and saying so; time passes between a count and an insert; calls
are retried after they have taken effect; an answer is cached after the news
that made it out of date. `PROJECT.json` lists each of these places with its
line.

## Modules

| Module | What it is |
|---|---|
| `JobRow` | The row of a crawl job as a value, and every statement the repository runs on it, guards included (`updateStatus` refuses a CANCELED row, `findById` hides deleted ones). |
| `CrawlJob` | One row, its BullMQ job, the runs of `processCrawlJob` and the clients' handlers. Extends `JobRow`. |
| `JobLifecycle` | Abstract: the status and deletion of a job, and the steps they may take. `MCCrawlJob` instantiates it over the row of `CrawlJob`. |
| `EventStreams` | The event streams of one user and the counter they share. |
| `DistributedLock` | `acquireDistributedLock` and `releaseDistributedLock` as operators on a lock value: the Redis key and the local tables. |
| `JobAdmission` | The three ways to create a job under the two quotas. Instantiates `DistributedLock` with the requests as tokens. |
| `UserQuotas` | The limits of one user, copied from a role, given, reset; the jobs counted against them; the report of `getUsage`. |
| `ScheduleCalculator` | `calculateNextRun` over a calendar that is a parameter: daily, weekly, monthly and cron plans, zones whose clocks may change. |
| `CrawlSchedule` | One schedule row, workers and handlers; assumes of the next slot what `ScheduleCalculator` checks of the calculator. |
| `WebhookDelivery` | One delivery row, its callers, their BullMQ jobs and the worker's runs. |
| `PageStore` | Which pages a run saves while it polls and at its end, and the counters of the job. |
| `PageRecords`, `ExportContents` | The columns a page is stored with and what a retry leaves of them; what each export writer makes of the rows. |
| `ExportFolder` | The folder that all exports of one job write to and pack. |
| `StoredFiles` | Files of exports, reports and pictures beside the rows that name them. |
| `ChangeDetection` | The report of a job: what its pages are compared with, when, and how. |
| `ConfigCaches` | Settings and templates in the database and in the memory of each process. |
| `CronJobs` | The map of statuses against the BullMQ schedulers. |
| `TokenBlocklist` | The marks of revoked access tokens as a value, in Redis or in a process. |
| `Sessions` | One user's account, refresh tokens, API keys, mails, and the handlers of `auth.service.ts`. Instantiates `TokenBlocklist`. |
| `Roles` | Users and roles under concurrent administrators, and the permission cache of each process. |
| `Registration` | One address: register, resend, verify, and an administrator. |
| `MCCrawlJob`, `MCJobAdmission`, `MCScheduleCalculator`, `MCCrawlSchedule`, `MCExports` | Values of constants and symmetry for TLC. |
| `MCSettles`, `MCBackground`, `MCAccounts`, `MCOperations` | Several modules that share no state in one specification: the variable `part` says which one moves, the others stay as they began. |
| `CrawlJobClaims` | A sentence of a document that the code does not keep. |
| `CrawlJobProofs`, `JobAdmissionProofs`, `CrawlScheduleProofs`, `WebhookDeliveryProofs`, `JobsProofs` (`EventStreams`, `PageStore`, `ChangeDetection`, `PageRecords`, `ExportContents`), `OperationsProofs` (`CronJobs`, `StoredFiles`, `ConfigCaches`, `ExportFolder`, `ScheduleCalculator`, `MCOperations`), `AccountsProofs` (`Registration`, `UserQuotas`, `MCAccounts`), `AccessProofs` (`Sessions`, `Roles`) | Theorems. |

Operators introduced by a comment "Seeded fault" are wrong variants of the
definition that follows them; the specifications do not use them. Put in its
place, each makes TLC find the named property violated, which shows that the
property depends on that line of code.

A variable or field marked *history* in its declaration is not in the code. It
remembers that a behaviour has left what the code is meant for (a process died
between two statements, Redis lost a message, two handlers overlapped), so that
a property can say what holds as long as that has not happened, and what still
holds after it.

### CrawlJob

A step is what happens from one `await` on shared state to the next.
`run[r].pc` names the statement a run is about to execute; the order of
statements, and which mode takes which branch, is `NextPC` and `Goto`. `Load`
is the read of the row and the write of RUNNING (processor 323-347), `Poll`
and `Check` the provider loops with `shouldCancel`, which reads the row on
every `PollEvery`-th poll (5 in the code), `Validate`, `Finally` and the like
the tail of the run. `Timeout` is `withTimeout` (38-66): it aborts the signal
and fails the BullMQ attempt, and the run goes on, so that it notices the
signal only where the code looks. `LockLost` and `Stalled` are BullMQ's: a run
whose lock is gone keeps executing while the job is run again. `Open`,
`AutoComplete`, `CancelWrite`, `RemoveBullMQJob` and `Purge` are the handlers,
split where they use what they have read. The finally block (903-961) reads the
row and the flag `feature.webhook.deliveries.enabled` before it dispatches;
where deliveries are switched off, or one of the two reads fails and its error
is logged, it ends without an announcement (fault "unheard"), and `skipped`
keeps the outcome that it had. `run[r].late` counts the polls after a
cancellation, `run[r].seen` is the status the finally block has read.

`EventStreams` is `streamEvents` of the controller (388 and on): a stream takes
a place in the user's counter and gives it back in `Cleanup`, which the end of
the response, of the request, of its timer and of its job can each call.

Left out: the search mode; `rerun`, which is create with another key; and a
database that refuses a write of the row, which the code meets with one more
write of FAILED or with BullMQ's next attempt.

### JobAdmission and UserQuotas

Each request is a `create`, a `trigger` or a `tick`, in some process, and goes
through lock, the two statements of `countJobsSince`, `countConcurrentJobs`,
insert and release. `Acquire` has every outcome of Redis: it answers, it does
not, it sets the key and then fails; `SetLocal` is the fallback table. Jobs end,
fail by a lost connection (which waives them from the daily count), are taken
up again by the next attempt, grow older than two hours, are deleted. A trigger
counts nothing when its user cannot be read (crawl-schedule.service.ts:322-331
swallow that error) or when an administrator triggers another user's schedule:
`SkipQuota`. `exposed` is the history of who was let in without the Redis key,
or has outlived it, of those nobody counted for, and of jobs that were taken up
again; properties speak of the others. Time is counted in half days.

`UserQuotas` has what `JobAdmission` takes for given: where the limits come
from, the instant `quotaResetAt` from which jobs count, and the other place
that does the same arithmetic, `getUsage`. The lock and its failures are not in
it. Administrators copy the limits of a role to its users (`ReadRole`,
`CopyLimits`), reset the instant with or without the limits (`ResetQuota`), and
write the columns that a request gives and no others (`UpdateUser`, `given`),
so that a user may have one limit of an administrator's and the other of a
role.

### ScheduleCalculator and CrawlSchedule

The calculator is an operator, checked for every plan and instant of a small
calendar against the definition "the earliest instant after now that the plan
names". Hour and minute are one number, minutes of the day. Where the search of
a cron expression finds nothing, `calculateNextRun` throws: no schedule is
saved, and a worker leaves the row alone (`HasRun`). `CrawlSchedule`
takes its result as an assumption on `Slots`. A worker's pass is `StartPass`,
`Find`, `Claim`, `CreateJob`, `AddJob`, with `Skip` for users without quota; a
handler opens the row, computes a next run, and writes what it computed.
`served` and `queued` are the slots claimed and handed to the queue. A plan is
the columns that always have a value (`time`) and those that may be null
(`day`): an update computes the next run by the row it has opened merged with
the request, but `?? undefined` keeps the null ones from being written
(`Merged`, crawl-schedule.service.ts:268-272), so that two updates beside each
other can leave a next run that is not of the row's plan. `foreign` holds from
such an update, or from a trigger that had opened the row before its settings
changed, to the next claim or update; `late` remembers that a handler wrote a
time that had passed.

### WebhookDelivery

One row; the first caller creates it by dispatching or testing, others
redeliver it. Each has its own BullMQ job, and every run writes the one row.
`Pick`, `Stall` and `LoseLock` are BullMQ's, `CaughtBy` the catch block of
`webhook.worker.ts` that marks the last attempt. `lost` remembers that someone
who owed the row an outcome is gone: a caller or test that crashed, a job
stalled once too often, a test that failed. Left out: secrets and signatures,
the error columns, and `isActive` switched off after the dispatch (the code
sends all the same).

### Pages and exports

`PageStore` handles one page a step: `SaveIncrement` and `ShowProgress` are
`persistIncrementalPages` (processor 202-274), `BatchPage`, `BatchOther` and
`BatchNext` `persistBatchResults`; `flight` holds the counter writes nobody
waits for, which arrive (`Land`) in any order. Each attempt starts a crawl of
its own at the provider (`crawl[r]`), which may find other pages, while the rows
of the attempt before stay; `counts.by` is the attempt that wrote the status.
`PageRecords` keeps the row of each address as the columns `normalize` and
`normalizeFailedPage` give, and `Upsert` leaves a column alone that is not
given, as Prisma does; a text is a sequence of lines of words, so that counting
and stripping can be done. `ExportContents` is each writer as an operator over
those rows. `ExportFolder` keeps of each file only the edition of the rows it
was written from; the workbooks are streams, which empty the file when they open
it, the other files are written at once. `StoredFiles` is about existence:
`generate`, the deletions, the clean-ups, `uploadAvatar` and the report, each
cut where the file or the row changes. `ChangeDetection` compares sets of pages
by their normalised addresses, as `comparePageSets` does, where of two pages
with one key the one read later counts. A job that has failed, or was completed
by a run that crashed, is taken up again (`RunAgain`, processor 895-901 and
347-350) and stores its pages anew, and a reader may have read them before:
`late`.

### Caches and periodic jobs

`ConfigCaches`: a fill is `Read`, `Fetch`, `Fill`; a write is `Find`, `Write`
(or `Sync`), `Tell`; a message arrives in `Hear`. A worker that is a process of
its own subscribes to the templates' channel only. An entry is `late` when the
answer it was made from was out of date before its entry was cleared.
`CronJobs`: a toggle reads the map, writes it, and moves the scheduler; a start
does that for all jobs; `parted` names the jobs for which an overlap, an error
of Redis or a crash came between.

### Sessions, Registration, Roles

`Sessions` names a token by the second it was issued in, because a JWT with one
payload signed twice in a second is one string. A request carries the password
that vouches for it (`pwd`), the login it goes back to (`root`), and whether
what it looked at was deleted since (`late`). Seconds are counted as far as
`MaxTime`; a token lives `AccessLife`, a mark `MarkLife` seconds. Marks are
compared with a token's second exactly as the middleware compares them. That of
a reset is one second ahead, and a logout or change in that second puts its own,
lower one in its place: `lost` then holds "lowered". `Registration` is one
address and the row that has it; the mail may arrive although the mail server
says it did not. `Roles` runs the handlers of `user.service.ts` and
`role.service.ts` in the order middleware, look, check of the target, count,
write, second transaction, invalidation; the two maps of the authorization cache
are one, an entry being the active roles of a user with what they grant.
Replacing and revoking roles are transactions of several statements under READ
COMMITTED (user.repository.ts 277-318, 347-375; the upsert of `assignSingleRole`
is one step): `DeleteRows` is the deleteMany with what it sees, `SeeRows` the
createMany or findMany after it, `Change` the write of the legacy role and the
commit, `Abort` a deadlock or a failed upsert; `Locked` are the rows that
another transaction makes a statement wait for. `Cases` are the situations of a
run: who there is, who asks for what, in which processes, and what may fail.

## Runs

| Run | Bounds | What it shows |
|---|---|---|
| `jobs` | SCRAPE and CRAWL, 1 page, 2 attempts, a poll cycle of 2, 1 client with all operations; timeouts, lost locks, a queue that refuses; 7.0 million states | type; `CancelIsFinal`, `CancelHeard`, `NoOrphanedRow`, `NothingBeforeStart`; refinement of `JobLifecycle` |
| `job_settles` | SCRAPE and URL_LIST, 1 page, 2 attempts, 1 stall, crashes, outcomes passed over, 1 client that lists, cancels and deletes; fair, the provider too | `OutcomeIsAnnounced`, `JobsSettle` |
| `admission_slow` | 3 requests, 1 process, 2 jobs a day and 1 at a time, half days 0 to 2; Redis errors, expiring keys, crashes, restarts; one part of triggers and ticks, one of creates; 1.1 million states | type, `OwnersKeepTheirKey`, `ProtectedWithinQuota`, `DailyQuota` |
| `schedule_claims` | 2 workers, 2 requests, plans of one time and one of two days or none, instants 0 to 2; crashes, refused queue, full quotas; fair; 0.6 million states | type, `SlotServedOnce`, `NextRunFollowsPlan`, `DueRunsAreClaimed` |
| `background` | a delivery: 2 callers, 2 runs, 2 attempts, 1 stall, all faults; the report of one job among 3, 2 loads with a page under two addresses and one whose text comes and goes; 3 streams, limit 2, 2 ticks; 2 periodic jobs, 2 handlers, errors of Redis and crashes; 1.9 million states | type, `PendingIsOwed`, `SuccessIsTrue`, `FailedIsTried`; `DiffsAreTrue`; `SlotsMatchStreams`; `SchedulersFollowMap` |
| `settles` | a job: CRAWL, 1 attempt, 1 stall, timeouts and lost locks; a delivery: 2 callers, 2 runs, 2 attempts, lost locks; fair | `QueueDrains`, `DeliverySettles` |
| `accounts` | sessions: 2 requests, 1 process, 3 seconds, 2 passwords, 2 logins, 9 loads; roles: 3 users, 2 handlers, 2 processes, 8 cases; registration: 3 handlers, 2 rows, 2 mails; quotas: limits 1 and 2, 2 administrators, 1 creator, a day of 2 and a month of 4, 5 loads; 0.9 million states | types, `RevokedAreRefused`, `OldSessionsEnd`, `SessionsEndOnce`, `CacheIsCurrent`, `SuperAdminsAreSafe`, `AdminsAreMarked`, `VerifiedStay`, `QuotasAgree` |
| `operations` | files: 3 export rows, 3 pictures, 2 handlers, 6 loads; caches: 1 setting, 2 templates, 3 processes, 2 handlers, 6 loads; pages: 6 pairs of crawls of up to 4 addresses for 2 attempts; records: 2 addresses; folder: 2 handlers, 2 editions, 4 loads; calendar: days of 4 minutes, weeks of 3 days, months of 4, 2 and 4 days, all plans; 0.9 million states | types, `FilesMatchRows`, `CachesAreCurrent`, `CountsAreTrue`, `ExportsAgree`, `NextRunIsEarliest` |
| `claim_*` | as their companions | a documented claim that fails, below |

Why the bounds are enough. What a race needs is two parties and one of them
twice: two attempts (a zombie and its successor), a stall (a third run), one
client whose handler can be interrupted anywhere and who may come again, two
workers, two callers, two administrators. One page is enough to tell a row with
pages from one without and to make the counters reach their target; a polling
cycle of 2 has both kinds of poll. Three admission requests let a slow owner,
the next owner and a latecomer meet. A mark has to be older and newer than a
token and both have to run out, for which three seconds are enough. The
calendar has a month shorter than the day a plan may ask for, a year's end, a
week that does not divide a month, and zones on either side of UTC. The loads
and cases of `accounts` and `operations` are not all operations at once but
those that touch the same row or file; each operation is in one of them. The
theorems below lift most of the safety properties from these bounds.

`OutcomeIsAnnounced` is run with crashes and outcomes passed over. A run that
loses its lock and goes on beside its successor can leave the last status
unannounced, because each announces what it reads in its finally block.

Deadlock is not checked in these runs: a job that is done, a delivery that is
settled, a token that has run out have nothing left to do, and all counters are
bounded.

### Fairness

Weak fairness of the steps of a live run and of a handler that has begun: a
Node process that lives goes on. Of `Pick`, `Stalled`, `Stall` and of the
queue's insert: BullMQ polls its queues and checks for stalled jobs on a timer.
Of `Timeout`: it is a timer. Of a worker's pass: `startScheduleWorker` sets an
interval. No client is assumed to ask for anything, and no fault has to happen.
`job_settles` assumes in addition that the provider does not keep a crawl
running for ever (strong fairness of the poll that finds the end); `settles`
does without. Of the schedule workers, strong fairness says that not every pass
crashes, or finds a quota full, where it queries and where it claims: a user
whose quota is always full is never served, and nobody promises it.

## Where documents and code disagree

Checked, with a counterexample from TLC:

- `claim_timed_out_settles`: README.md:189-192 takes a job to COMPLETED or
  FAILED. When the last attempt times out, the aborted run returns without a
  status (processor 343, 431, 818) and the row stays RUNNING.
- `claim_schedule_clock`: on the day clocks west of Greenwich are set back,
  `createUtcDate` (schedule-calculator.helper.ts:186-189) takes the offset at
  the wrong instant, and the next run lies before the instant it was computed
  at.
- `claim_images_complete`: docs/DATA_CONTRACT_V1.md:220 promises all images of
  the job; the query of the export stops at its default of 50 assets
  (crawl-asset.repository.ts:45).
- `claim_rows_fresh`: crawl-page.repository.ts:262 overwrites a page "with
  fresh data"; columns that are undefined are not written, and those of the
  first attempt stay beside the new status.

Met while modelling, and described here only.

Jobs and admission:

- No code sets QUEUED or PROCESSING_EXPORT, though README.md:192 draws them.
- cancel and delete test a status they read before (service 294, 361): a job
  that completes meanwhile goes from COMPLETED to CANCELED, one that is taken
  up meanwhile is deleted while RUNNING.
- Canceled and then deleted, a job is no longer seen by `shouldCancel`, which
  looks through `findById`; its run goes on and stores pages for the deleted
  row (processor 206, 812).
- Readers may complete a job that a worker has FAILED since (service 273).
- `firecrawlJobId` is saved after polling, not "as soon as asyncCrawlUrl()
  returns" (service 312, processor 820), so that a cancellation meanwhile does
  not reach the provider.
- `inferStatus` is said to mirror `mapCrawlError` exactly
  (crawl-page-processor.service.ts:40) and does not.
- docs/audits/latest-audit.md:30 calls the quota bypass of schedules fixed.
  `processDueSchedules` counts and inserts without the user's lock
  (crawl-schedule.service.ts:460), so a tick and a request can both take the
  last slot; `ProtectedWithinQuota` speaks of the requests that have the key.
- With Redis failing for one of two requests, the local fallback lets both in
  (redis-client.ts:113-120); triggerRun starts the day in the schedule's zone
  (crawl-schedule.service.ts:340), create in UTC+7.
- triggerRun takes a failed lookup of the schedule's user for an administrator's
  call and counts nothing (crawl-schedule.service.ts:322-331).
- Of two updates of a schedule at once, one by a column that is null in the row
  it has opened and one that writes this column, the first keeps its next run
  and the second its column (crawl-schedule.service.ts:268-272).
- Limits per month are reported and never enforced; `maxPagesLimit` is the
  limit of a job in create and the remainder of the day in the report.
- Two syncs of a role that overlap may leave its users with limits older than
  the role's; `quotaResetAt` can move backwards when two resets overlap.
- A worker that dies after `claimDueSchedule` loses the run, although the loser
  of the claim takes it for triggered (crawl-schedule.service.ts:544).

Webhooks:

- A failed test stays PENDING (webhook-delivery.service.ts:153); `markFailed`
  can write FAILED while a redelivery has all its attempts left, or after a
  SUCCESS (169); the delays of "5s, 25s, 125s" (62) are 5s and 10s.

Sessions and users:

- A refresh whose token is deleted between its find and its delete goes on and
  stores a new one (auth.service.ts:270-317): two refreshes with one token fork
  the session, and a logout, a change of password or a clean-up that comes
  between leaves the new token. A revocation counts in whole seconds. An older
  mark in Redis hides a newer one in memory, and `isTokenRevoked` lets through
  when nothing answers.
- The token of verifyEmail names the address alone: an old link opens an
  account that an administrator has locked since.
- Switching a user off with update keeps refresh tokens and API keys.
- A rollback of a first registration deletes the row to which a second
  registration or a resend has sent its mail; it also deletes a row that an
  administrator has locked or removed since. An address stays taken by a
  deleted user.
- Guards count and write later (user.service.ts:199, 377, 483, 645); of two
  super administrators each may remove the other. confirmDeactivation counts
  legacy ADMINs alone; delete does not ask actors without roles.
- create gives the role in a second transaction and invalidates nothing
  (user.service.ts:103-166); an update may write back a legacy role that it read
  before another's write; `assignSingleRole` never lowers the legacy role. Two
  transactions on the roles of one user that overlap leave roles of both: a
  replacement by plain roles beside an assignment of an admin role leaves that
  role with a legacy VIEWER (user.repository.ts:277-375).
- Permissions taken from a system role come back when a server starts.

Pages, exports, configuration:

- A page that could not be saved while polling counts as a success (processor
  223, 255-258); a write of counters that nobody waits for may land after the
  final status; a page given twice counts twice; the rows of an attempt that
  failed stay beside those of the next, whose crawl they are not in and whose
  totalPages does not count them; a retry inserts the assets of a page again; a
  page with status 404 is stored FAILED and counted as a success.
- Exports of one job and type share one path; a job deleted while one is made
  leaves rows and files; two uploads at once leave a picture. Markdown files of
  earlier exports, and a structured.json without records, stay in the archives,
  which take whatever is in the folder.
- Tables without a `<th>` lose all their rows in the workbook
  (xlsx-export.service.ts:325-332, against README.md:365).
- The stored report answers for one that was asked for against another job
  (swagger-paths.ts:2377-2393), and may have been made while the job was
  RUNNING; a page whose hash becomes known at the same status counts as
  unchanged; `changeRate` can exceed 1.
- data_quality.json strips texts differently from pages.json and subtracts
  duplicates twice.
- Workers of their own process hear only of templates; of two toggles of one
  feature one is lost; `setJobStatus` writes CRON_JOB_STATUSES without clearing
  it from the caches; a run asked for by hand ignores the switch.

## Proofs

| Theorem | Statement | Argument |
|---|---|---|
| `TypeCorrect` | `Spec => []TypeOK` (`CrawlJob`) | inductive as it is; one lemma per kind of step, on lemmas that each statement keeps the row's type |
| `CanceledForGood` | `Spec => CancelIsFinal` | every step that changes the row runs one of the statements of `JobRow` (`RowSteps`), and none of them takes CANCELED away (`StatementsKeep`) |
| `CancellationHeard` | `Spec => []CancelHeard` | strengthened: the late polls never exceed the place in the polling cycle, which starts again when the row is read |
| `StartInvariant`, `PendingUntouched` | `Spec => []NothingBeforeStart` | `StartInv`: as long as the row is PENDING, every run is before its start and every handler that writes another status is a cancel |
| `LifecycleImplemented` | `Spec => Lifecycle!LifecycleSpec` | the same invariant, and a case for each statement |
| `NoneOrphaned` | `Spec => []NoOrphanedRow` | `RemovalInv`: whoever is about to remove the BullMQ job has written CANCELED or will delete the row |
| `OutcomeAnnounced` | `("timeout" \notin Faults /\ "lockLoss" \notin Faults) => (Spec => []OutcomeIsAnnounced)` | `OutcomeInv`: only the run that holds the lock is live, what it knows of the outcome is what the row says, and a finished job is void (canceled, deleted) or its end was told, or passed over by a finally block that could not announce it |
| `AdmissionTypeCorrect` | `Spec => []TypeOK` (`JobAdmission`) | inductive with an arithmetic lemma on half days |
| `KeyKept` | `Spec => []OwnersKeepTheirKey` | `KeyInv`: whoever is inside and not exposed has the key; so there is one of them |
| `QuotaHeld` | `Spec => []ProtectedWithinQuota` | `QuotaInv`: a protected request, which has not skipped its counts, has between its count and its insert counted at least the protected jobs there are; cardinalities by `Fewer` and `OneMore` |
| `DayHeld` | `(OtherZone => "trigger" \notin Kinds) => (Spec => []DailyQuota)` | an invariant on the day a protected request counted, which may be the one before; see below for the hypothesis |
| `ScheduleTypeCorrect` | `Spec => []TypeOK` (`CrawlSchedule`) | with: a worker that has claimed finds its slot among the served |
| `SlotOnce` | `Spec => []SlotServedOnce` | `PastInv`: passes began in the past, so the slot a claim moves on to is after the one it took |
| `PlanFollowed` | `Spec => []NextRunFollowsPlan` | `PlanInv`: what a worker is about to claim by, and what a handler is about to write, are slots of the settings they were read with; a null column and an older reading are what `foreign` is for |
| `DeliveryTypeCorrect` | `Spec => []TypeOK` (`WebhookDelivery`) | with: an active job has an owner among the runs, or waits for the stall check; only tests send without a job |
| `NothingForgotten` | `Spec => []PendingIsOwed` | `OwedInv`: a PENDING row has a `Good` caller or job, or a run under way, or one of them is lost |
| `SuccessProved` | `Spec => []SuccessIsTrue` | a run about to record has had its answer |
| `FailedTried` | `Spec => []FailedIsTried` | the tries of a job and its `attemptsMade` move together; who is about to mark has seen the last of them |
| `SlotsCounted` | `StreamsSpec => []SlotsMatchStreams` | the counter is the cardinality of the streams with a place; a stream whose cleanup has run is not among them |
| `SchedulersAgree` | `CronSpec => []SchedulersFollowMap` | what a handler that is alone has still to do is the difference between map and schedulers |
| `CountersTrue` | `PagesSpec => []CountsAreTrue` | `PagesInv`: the place of a run in `persistBatchResults` and at its end says what it has seen, saved and counted of its own crawl (`Behind`, `Ahead`); rows are told apart by kind; the counters are cardinalities of sets that stay finite because a poll shows part of the result |
| `ReportsTrue` | `DiffSpec => []DiffsAreTrue` | `DiffInv`: maps hold each page under its key, so that `ComparePageSets` puts every key on one side or both; a reader, or a report, that is not late has the pages as they are (`ReadAll`), since storing one makes late whoever has read before |
| `FilesAndRows` | `FilesSpec => []FilesMatchRows` | `FilesInv`: handlers hold names apart, what was written stays until a row or a handler answers for it, a type of export has its row, reports and pictures match but for the handler at work |
| `CachesCurrent` | `CachesSpec => []CachesAreCurrent` | `CachesInv`: what is in a memory, in a fill under way and in an answer is current, or an invalidation is owed to that process, was lost, or came between |
| `ArchivesWhole` | `FolderSpec => []ArchivesAreWhole` | `FolderInv`: an export that is not mixed is alone and `Faithful`: it has read one edition, and what its steps so far have written is of it; the order of the steps (`InOrder`) has every member of an archive written, and the assets read, before they are needed |
| `WritersAlike` | `RecordsSpec => []WritersAgree` (`PageRecords`, `ExportContents`) | `RecordsInv`: the columns of the last save of an address are what `normalize` or `normalizeFailedPage` makes of some page or error (`SavedWhole`), and the row has each of them, the types of a row and every column (`Keeps`); with it, each writer's own computation from the row comes to what `normalize` computed |
| `NextRunsEarliest` | `OperationsSpec => []NextRunIsEarliest` (`ScheduleCalculator`) | `NextRunEarliest`, for each frequency: the run found is wanted, nothing between the instant asked at and the run is, and it lies within `Horizon`; `CalendarInv` carries it from claim to claim |
| `NextRunsToCome` | `OperationsSpec => [](part = "calendar" /\ zone.before = zone.after => NextIsToCome)` | the same; where the offset changes the property fails, as `claim_schedule_clock` shows |
| `ExportsAlike` | `OperationsSpec => []ExportsAgree` (`MCOperations`) | `RecordsInv` and `FolderInv`, whichever part moves |
| `OperationsTypeCorrect` | `OperationsSpec => []OperationsTypeOK` (`MCOperations`) | `OperationsInv`: the invariants of all the parts together, each of which has the types of its part |
| `ConfirmedStay` | `RegistrationSpec => []VerifiedStay` | ids grow; a handler's id is that of a row it made or read; who rolls back made the row, and a confirmed row is active, so that the deletion passes it by |
| `QuotasReported` | `QuotasSpec => []QuotasAgree` | each column of the user is the one `given`, or that of one role among `snapshots`; counts over overlapping intervals compared by cardinality; the sum of pages, a fold, by its well-founded definition |
| `AccountsTypeCorrect` | `AccountsSpec => []AccountsTypeOK` (`MCAccounts`) | a behaviour of the composition in which a part moves is one of that part's own specification, whose invariant has its types; by PTL, a case for each part |
| `SessionsTypeCorrect` | `Spec => []RequestsInv` (`Sessions`) | types, and what a request at each step has in its fields |
| `OldSessionsEnded` | `Spec => []OldSessionsEnd` | `PasswordInv`: a token or key of a former password is owed a deletion by the handler that wrote the new one (`Owed`), or is vouched for by one under way (`Vouches`) |
| `RevokedRefused` | `Spec => []RevokedAreRefused` | `RevocationInv`: a mark that was set is still held, unless a later one lowered it by a second, as long as a token it revokes can live (`AccessLife <= MarkLife`), and what a request has found of it is kept until it is let in |
| `OneTokenPerLogin` | `Spec => []SessionsEndOnce` | `OneTokenInv`: of a login that did not go on without its token (`forked`), the tokens stored and those about to be stored are together one at most |
| `RolesTypeCorrect` | `RolesSpec => []RolesInv` | types, the foreign key, the system roles and the transactions; with `Asked`: what the checks before a step have let through, held as a fact about the record of the handler |
| `CacheCurrent` | `RolesSpec => []CacheIsCurrent` | `CacheInv`: what is said of an entry is said of the query that will make it, and entries are made in the processes that messages reach; a handler that writes owes the users it covers an invalidation |
| `SuperAdminsSafe` | `RolesSpec => SuperAdminsAreSafe` | from `Asked`: who takes a super administrator has counted more than one, and counted sets of one element leave none; who makes one is one |
| `AdminsMarked` | `RolesSpec => AdminsAreMarked` | from `Asked`: an update that lowers a legacy role has looked at one other than ADMIN; a transaction sets the legacy role by what it has deleted and seen, and an admin role that it has not seen is one it was overtaken by |

Assumptions. The theorems use the `ASSUME`s of the modules alone: the ranges of
the bounds, that requests and streams are finitely many, that every plan has a
next slot, that a mark is kept as long as an access token lives (both are
configured from the same expiry), that the parameters of a request have passed
validation (a user who is created has a legacy role, an assignment names a
role), that what the provider shows at a poll is part of what it has at the end
(`PollsGrow`), that there are keys to cache and finitely many jobs to compare.
An error of the provider has a text (`ErrorsHaveText`): `batchScrapePages` puts
"Unknown error" where there is none, `crawlSite` takes what the SDK declares as
a string, and `inferStatus` would take a row without one for a success. Of the
calendar: years and their months have days (`CalendarOK`); the search of the
cron branch, 366 days, is no shorter than a week or than any two months
(`HorizonOK`); the settings are in the ranges to which `calculateNextRun` clamps
them, and an instant has a day in every zone (`SettingsOK`). They hold for what
the code is configured with, and TLC evaluates them in the runs. Two theorems
have a hypothesis more. `OutcomeAnnounced` leaves out timeouts and lost locks:
after either, a run that BullMQ has given up goes on and ends the job later,
which the findings describe; the run that checks the property has crashes,
stalls, retries and outcomes passed over. `DayHeld`: in a zone other than UTC+7,
triggerRun counts from another midnight than create, so that the day of one is
not the day of the other; without triggers, or with every schedule in UTC+7, the
theorem applies, and the part of the run that counts days has creates alone.

How they are laid out. A proof of an invariant has a lemma for each action (the
cases that do not touch what it speaks of are one lemma, on `UNCHANGED`), a
lemma for the disjunction, and a theorem that combines them with PTL. Lemmas
about operators come first: what a statement of `JobRow` does to the type of
the row, how cardinalities change with one element, what an EXCEPT of one
field leaves alone. No module that theorems are about uses a RECURSIVE
operator.

Recursive functions and folds. The installed provers cannot instantiate an
induction theorem, but they can take a least counterexample: from the
well-foundedness of `<` on the naturals and `WFMin`, `LeastNumber` says that a
set of numbers has a least one. With it `Recursion` proves once that a function
defined from its predecessor exists and obeys its equation, for `FirstDay`, and
`FoldExists` and `FoldsAlike` what `FoldLeft` is of a sequence, for
`ExtractMainContent`, `StripMarkdown` and `CountWords`. The calendar follows by
the same principle: months neither overlap nor leave a day out (`MonthOfDay`),
among the next days there is one of each day of the week (`WeekAhead`), and of
the days that a plan wants, the first one left has the first wanted instant
(`EarliestFound`).

Only model-checked: liveness (`JobsSettle`, `QueueDrains`, `DeliverySettles`,
`DueRunsAreClaimed`). The prover does not reason about fairness and ENABLED.
Every invariant and every action property of a passing run is stated by a
theorem.

## Not modelled

`rerun` (create under another key, with a debounce of five seconds), the search
mode of the provider, writes of the status of a running job that the database
refuses, the weekly digest, extraction by templates itself, the scan of the
avatar folder (it looks where no picture is stored), the report inside
result.zip, the checks of addresses against private networks, webhook signatures
and configuration, API keys beyond their removal, the profile and login history,
listings and reads. Storage back ends, mail, dashboard, health, audit log,
routing, validation, seed and API documentation are I/O, formatting and queries.

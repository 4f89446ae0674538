# signal-engine in TLA+

A verification project for the Go service *signal-engine*: an HTTP API with
email-and-password accounts, a PostgreSQL-backed job queue, and ingestion of
two public Swedish sources into a store of public events. The modules are
written from the source under `src/`; `PROJECT.json` maps every definition to
the lines it models.

```
tlc -workers 2 -config JobQueueOne.cfg MCJobQueue.tla     # a run of section 3
for m in JobQueue Auth PublicEvent ApiProcess RateLimiter StockholmRefresh \
         DiaryFeed Ingest
do tlapm ${m}Proofs.tla; done                             # the proofs
```

## 1. The system

| Component | Source | State | Operations |
|---|---|---|---|
| Job queue | `internal/platform/jobs` | table `jobs`; per process a worker id and `Concurrency` goroutines | Enqueue, claim, execute, finish, drain and shutdown |
| Auth | `internal/auth` | `users`, `sessions`, `email_verification_tokens`, `password_reset_tokens` | signup, login, logout, verify, resend, forgot, reset, the session check |
| Rate limiter | `internal/platform/ratelimit` | buckets in memory | Allow, gc |
| Public event store | `internal/publicevent` | `source_observations`, `public_events` | RecordObservation, UpsertEvent, List, Get |
| Stockholm source | `internal/source/stockholm` | none of its own; the observations | search a window, read case pages, refresh open cases |
| Arbetsmiljöverket source | `internal/source/arbetsmiljoverket` | none of its own | page through a feed, find the earliest document of a case |
| Ingestion command | `cmd/ingest` | none | parse the arguments, run a source, exit |
| HTTP pipeline | `internal/platform/api` | request counters | routing, middleware, binding, errors, the access log |
| Process lifecycle | `cmd/api`, `cmd/worker`, `internal/platform/server`, `internal/app` | processes | load, connect, serve, drain, stop in order |
| Configuration | `internal/platform/config` | none | read the environment, validate |
| Transactions, pool, migrations | `internal/platform/database` | the pool | InTx, connect, close, migrate |
| Accounts, example resource | `internal/account`, `internal/example` | `accounts`, `account_memberships`, `examples` | single-statement reads and writes |
| Email, passwords, secrets, logging, test support | `internal/platform/*` | none | pure functions and I/O |

**How they interact.** Handlers call the services of `auth`; a service runs
its statements in `database.InTx` and enqueues mails with `jobs.Enqueue` in
the same transaction. Worker goroutines, in the API process or in
`cmd/worker`, claim jobs with one `UPDATE ... FOR UPDATE SKIP LOCKED`, run the
registered handler and record the outcome with one guarded `UPDATE`.
`cmd/ingest` runs one source over a window of dates; each case or document is
persisted in one `InTx` through the event store, and the API lists the events.
Inside a process, requests and worker goroutines share the pool, and `main`
stops the server, then the worker, then the pool. The rate limiter sits in the
middleware of the auth routes. Nothing but PostgreSQL is shared between
processes.

**What is hard.** Leases that expire while their holder still runs, goroutines
that share a lock identity, hosts whose clocks differ, replies lost after a
commit, crashes between claim and finish, shutdown that abandons handlers;
transactions that interleave per statement under READ COMMITTED and lock rows
in opposite orders; a session revoked between its check and its use; timestamps
read before a lock or at a transaction's start; listings read while rows move;
sources that change between two requests, pages that cannot be read, runs that
stop half-way; requests that outlast the shutdown, panic, are cancelled or fail
after their commit. `PROJECT.json` lists each under `hazards` at its line.

**What makes each component correct.**

* Job queue: one executor per live lease; terminal is final; an outcome counts
  only for the lease it belongs to; every job ends.
* Auth: one live token per kind; a token takes effect once; a password is
  changed only by a reset and ends the sessions opened with the old one; rows
  and mails come together; an ended session serves nothing and stays ended; no
  request hangs.
* Rate limiter: the limit per window whatever order calls enter in; a refusal
  is justified; memory follows the recent keys.
* Event store: an event has a committed observation, an observation has its
  events, and the event follows the latest observation; a listing misses and
  repeats nothing that keeps its place.
* Sources and command: an exit code of 0 means that nothing was missed; every
  open case is eventually looked at again; one event per inspection case.
* Pipeline: only a request with every right to changes anything; each is
  answered, logged and counted once.
* Process: the pool closes last and never lends more than it has; exit code 0
  means that the shutdown cut nothing off; a process told to stop does.

## 2. Modules

| Module | Models | Extends / uses |
|---|---|---|
| `JobQueue` | table, processes, goroutines, relative time, faults | instance of `JobLifecycle` |
| `JobLifecycle` | what a caller of `Enqueue` may rely on: the life of one job | |
| `AuthTokens` | the auth transactions over one user | |
| `AuthSessions` | the endpoints behind `RequireSession` | `AuthTokens` |
| `RateLimiter` | `Limiter` | |
| `PublicEvents` | write side of the event store and both `persist` transactions | |
| `EventListing` | the public listing and the read by id | `PublicEvents` |
| `StockholmRefresh` | `Ingester.Run` of stockholm | |
| `DiaryFeed` | `Ingester.RunFeed` and `earliestInCase` of arbetsmiljoverket | |
| `IngestCommand` | `cmd/ingest` | instances of `StockholmRefresh` and `DiaryFeed` |
| `ProcessConfig` | `LoadFrom` and `validate` | |
| `HttpPipeline` | the routes, the stages of a request and their refusals | |
| `ApiProcess` | `cmd/api` and `cmd/worker` with their requests, worker loop and pool | `ProcessConfig`, `HttpPipeline` |
| `AuthProofs` | theorems about `AuthTokens` and `AuthSessions` | these, `TLAPS` |
| `PublicEventProofs` | theorems about `PublicEvents` and `EventListing` | these, `TLAPS` |
| `IngestProofs` | theorems about `IngestCommand` | this, instances of the proofs of both sources |
| `JobQueueProofs`, `RateLimiterProofs`, `ApiProcessProofs`, `StockholmRefreshProofs`, `DiaryFeedProofs` | theorems | the module named, `TLAPS` |
| `MC*` | function-valued constants and symmetry sets for TLC | the module named |

### JobQueue

`jobs[j]` is a row of the table; `thread[t]` a goroutine of `Worker.loop`
(`Threads == Workers \X 1..Concurrency`, all locking under `Owner(t)`, the
worker's id); `process[w]` a run of `Worker.Run`. Every SQL statement of the
package touches one row and is one action: `Enqueue`, `Claim` (claimSQL with
its order, due time and stale-lock condition), `Finish` (succeed, fail or
retry under `OwnsLease`). `ClaimLost` and `FinishLost` are the statements whose
reply or effect is lost; `Stall` is a goroutine that outlives its deadline;
`Shutdown`, `CancelJobs`, `Exit`, `Abandon` are the stages of `Run`'s shutdown,
and `ClaimCancelled` a claim whose context shutdown cancels although it commits;
`Crash` and `Start` are a process that dies and its successor. `faults` counts
lost statements, stalls and crashes, and none of what an ordinary shutdown does.

Time is relative: every instant is an offset from the present and `Tick` moves
them. `Skew` is how far a worker's clock is ahead, because claim and retry send
`w.now()` as a parameter. That reading is made before the statement waits for a
connection of the pool, without a deadline of its own, and the timeout of the
job starts after the reply: `ClaimDelay` bounds the time between the two, a
claim locks its row with an instant up to that old (`Takes`), and a goroutine's
`age` is that of its lease. The code has no such bound.

`JobLifecycle` is the abstract specification: submit, take, take over, retry,
end. `LifecycleSpec` is the refinement, the table's status and attempts being
the abstract state.

### AuthTokens and AuthSessions

One user, because no transaction touches the rows of two. `request[r]` is an
API request: its operation, the statement it is at, what it read and the row
locks it holds. A statement waits while another transaction holds its row;
writes appear at the commit; `BreakDeadlock` is PostgreSQL's detector, `Abort`
any failure before the commit. Login, outside any transaction, reads the hash,
verifies, rehashes only if the hash is still the one verified, and opens a
session in separate steps. `GrowOld` ages a token past the resend cooldown and
past its lifetime. Tokens and sessions are named by the request that made them.

`AuthSessions` adds calls that carry a session cookie: `Resolve` looks the
session up, `Touch` writes `last_seen_at` if it is due, the handler runs. Each
is a statement of its own outside any transaction, so a logout, a logout of all
sessions or a reset may come between any two of them. A resend behind the
session check is handed to `AuthTokens`, which goes on with its transaction.

### RateLimiter

`Arrive` reads the clock, `Allow` is the critical section, and between them up
to `MaxDelay` instants pass, so a call may enter with an older reading than
the one before it. `granted` is a history of what was allowed at each recent
instant, kept apart from the buckets so that the bound is not stated in terms
of the counter it checks.

### PublicEvents and EventListing

`source` changes freely, also back to an earlier content. An ingester reads a
record, begins a transaction (its `now()`), records the observation, upserts
the events that content lists and commits; a second writer of the same
observation or event row waits. `overlapped` remembers the records that two
open transactions shared.

`EventListing` adds clients. `List` and `Resume` are one SELECT each: the rows
of the filter past the cursor in the order `occurred_on DESC, id DESC`, one
more than the limit to know whether a cursor is due. `steady` is history: what
matched at the first page and has not moved since. `Get` reads by id what a
page has shown.

### StockholmRefresh, DiaryFeed, IngestCommand

`before` is the order of `last_observed_at`: for each known case those
confirmed longer ago; `due` are the known cases past the cut-off, which come
first in that order. Together they are all that `openCasesDueSQL` looks at. A
run searches (any set of cases), reads each, lists the due open ones in order
(`DueCases`) and reads those. Reading a case confirms it with any content, or
persisting it fails and is counted, or the page is unreadable and the run
aborts, as it does when the list cannot be had (`ListFails`). `Spoil` makes a
case unreadable or unstorable for good.

A diary document is its rank in `documentBefore`'s order. The diary publishes,
mends and takes down rows between the requests; `Search` reads one page, newest
first; `Row` applies the acceptance rule and `earliestInCase`; `Persist` comes
later. The case-scoped search is one step although it may take up to ten
pages. The diary is assumed to list the documents of a case in order and never
to take down one that has successors in its case: otherwise the later document
is the earliest one there is, and the code, which asks the source, follows it.

`IngestCommand` puts both behind the command line: `Invocations` is what
`parseArgs` makes of every command line it accepts on a given day (source,
feed, `--from`, `--to` and their defaults; `Dates` are the days that can
delimit a window), `Refuse` everything that makes
`run` give up before it ingests, `Code` the exit code of a run's report.

### ProcessConfig, HttpPipeline, ApiProcess

An environment gives every variable a reading: unset, not parsable, or a value.
`Loads` is `LoadFrom` followed by `validate`: 64-bit pool sizes are cut to
the width of an `int32` (`IntHalf` is 2^31 in the code, 16 in the run) before
they are compared.

A request is what the stages tell apart: path, method, the site its Origin and
Referer name, the state of its cookie, whose account its path names, and what
is wrong with its parameters and body. `Stages` is the order in which
`NewRouter`, the routes' middleware, `Handle`'s binding and the handler see it,
`Verdict` the status with which a stage that asks nobody refuses it.

`ApiProcess` runs one process from its environment to its exit code. Each
request is a goroutine: it passes the stages that ask nobody (`Onward`), is
admitted by a limiter or not, and borrows a connection for each database turn of
the session check, the membership check and the handler; a turn may refuse it,
fail, fail after its commit, or panic; the client may leave at any moment. A
`worker` goroutine claims, runs and finishes jobs over the same pool. `phase` is
how far `main` has come; `Drain`, `CutOff`, `StopWorker`, `CancelJobs`,
`WorkerStopped`, `ClosePool` and `Exit` are the shutdown, with each timeout a
step that may fire as soon as its wait has begun. `broken` says that `srv.Serve`
failed by itself: `Serve` then returns without shutting the server down, and its
requests go on.

## 3. Runs

| Run | Bounds | Shows |
|---|---|---|
| `JobQueueOne` | 2 jobs (one of unknown type), 2 workers of 1 goroutine, 2 attempts, claims delayed by 1, lock timeout 3, 2 faults | all safety properties of the queue and the refinement of `JobLifecycle` |
| `JobQueuePool` | 1 job, 2 workers of 2 goroutines, claims delayed by 1, lock timeout 3, 1 fault, fair | every job ends; without faults a goroutine at work holds its lease, and only shutdown leaves a row locked |
| `JobQueueStale` | 1 worker of 2 goroutines | *violation*: see findings |
| `JobQueueSkew` | 2 workers, one clock 2 units ahead, no fault | *violation* |
| `AuthTokens` | 4 requests, 2 passwords | the safety properties of the auth transactions |
| `AuthSessions` | 3 requests, 1 password, 1 authenticated call, fair | ended sessions serve nothing and stay ended, everyone is answered |
| `RateLimiter` | 2 keys, 2 callers, limit 2, window 3, delay 1 | burst bound, earned refusals, memory |
| `EventListing` | 2 records, 3 contents, 3 events, 2 ingesters, 3 reads of the source, 1 client, pages of 1 or 2, 3 filters | provenance, atomicity, latest observation; listings are complete and ordered |
| `PublicEventsRace` | the same, 2 reads, pages of 1 | *violation* |
| `Ingest` | 3 cases of the city, one unstorable, 2 per refresh; 5 documents in 2 cases over 2 days, pages of 1, 4 pages; 1 passing failure; 2 days on which it is invoked; fair | exit 0 means complete, one event per case, oldest first, every other open case reached |
| `StockholmStuck` | 3 cases, one unreadable, fair | *violation* |
| `ApiProcess` | 47 environments, 2 clients, one with 20 requests to choose from and one that asks for readiness, 1 or 2 connections, fair | authorisation, loans within the configured pool, one answer and one line, the order of the shutdown, the meaning of exit code 0, termination |

**Why the bounds suffice.** Two faults let a claim be lost and its reclaim
crash as well; two jobs let the claim order and an unknown type meet; two
attempts let a retry and an exhaustion happen; the lock timeout of 3 is the
sum of the claim's delay, the job's timeout and the finish's, the least with
which a lease may age, expire and be compared at its boundary without being
overtaken by a goroutine in time. (With less, reclaims need no fault, and they
count attempts without end: the state space is not finite.) `Horizon` and
`RunHorizon` saturate instants that no comparison tells apart any more. Four auth requests are a
signup, a resend or reset, a second one that races it, and a login; with three
and a call, a session is opened, resolved and revoked while a reset holds its
row. The limiter's window of 3 with delay 1 makes an overtaken call, two
adjacent windows and a sweep fit into the horizon. Three reads let a record
change and change back while another transaction is open, and an event leave
the place where the cursor stands in either direction. Pages of one row make
every insertion and removal shift a page boundary; the page limit of 4 is below
the 5 rows, so a run is also cut short. In `ApiProcess` one connection lets a
request, the readiness check and the worker wait for each other; the requests
and the environments change one thing at a time from one that is in order, plus
the pairs whose order decides the answer.

**Deadlock** is checked in the limiter and the ingestion runs. It is off where
the model really stops: all auth requests and calls have answered, all reads of
the bounded source are used up, all jobs are terminal with every worker down,
the process has exited.

**Fairness.** `JobQueue`: time passes, the supervisor restarts workers,
goroutines that are not stalled keep polling, executing and finishing: this is
`Worker.loop`'s poll interval and the deadlines of the handler's and the
outcome's contexts. `AuthSessions`: the
goroutine of a request or call runs on, and PostgreSQL detects deadlocks; aborts
are never required. `IngestCommand` (and `StockholmStuck`): the command is
invoked again and again and a run, once started, goes on. The first is an
assumption about the operator, since the docs have it run by hand; "over time"
in the code's comment makes sense only with it. Passing failures are finitely
many, and the run has fewer cases that can never be stored (1) than a refresh
admits (2), without which those at the head would fill every refresh. `ApiProcess`: the main goroutine
runs on, timers fire, and a statement ends when its context is cancelled or
timed out, which pgx and the bounded waits of the code give; nothing is assumed
of a statement whose context is live, of a job's handler or of a client. A
request whose client left or that was cut off counts as cancelled at once, while
`net/http` notices a closed connection only once the body has been read. So
`ShutdownEnds` assumes that of requests with a body: one that hangs in the
statement of its session or membership check, before its body is bound, would
keep the pool's close waiting until that statement ends.

**Mutants.** Every property of a passing run has a mutated definition, marked
`Not the code`, under which the run finds it violated; `PROJECT.json` pairs them.

## 4. Findings

1. **Late outcomes inside one worker** (`JobQueueStale`, `worker.go:256`).
   All goroutines of a process lock under one id, so `locked_by = $3` does not
   tell an expired lease from the one that replaced it. With `Concurrency` of 2
   a job is executed twice at once and the stale outcome overwrites the row.
   With `Concurrency` of 1 the property holds, and is proved.
2. **Leases follow the workers' clocks** (`JobQueueSkew`, `worker.go:187`);
   the documentation shows the database's `now()`.
3. **Not always the most recent observation** (`PublicEventsRace`,
   `publicevent.repository.go:182`): overlapping ingestion transactions for a
   record commit in the other order than their `now()`.
4. **One unreadable page starves the refresh** (`StockholmStuck`,
   `stockholm/ingest.go:144`): the case stays at the head of the oldest-first
   list and aborts every run there.

Observations that contradict no stated promise, and that the models keep:

* The comment of the limiter's `gc` (memory bounded by the keys of the last
  window) is off by a window: `TwoWindowsOfMemory` is what holds.
* A lock timeout equal to the job timeout is accepted. `FaultFreeLease` needs
  room for the claim's wait and the finish too: with less, a job is reclaimed
  from a goroutine that is still in time although nothing has failed. The
  default of 300 s for jobs of 60 s has that room.
* Pool sizes that wrap at 32 bits are accepted as the size they wrap to.
* When `srv.Serve` fails by itself, its requests are not cut off: the pool's
  close waits for their statements (`ShutdownEnds` names the exception).
* `cmd/api` only logs the error of the worker's shutdown: it may exit with 0
  although a handler was cancelled or left behind; `cmd/worker` then exits with
  1. Either may exit with 0 and leave a row locked, when the statement of a claim
  or of an outcome failed, also because shutdown cancelled a claim that
  committed: the loop only logs that, if at all. The row is reclaimed later.
* A database deadline never becomes a 504: the contexts that reach a handler
  are cancelled, not timed out, and `readyz` answers 503 for both.

## 5. Proofs

Each theorem is for every value of the constants that the named assumptions
admit. The invariant in every case is a conjunction of named parts; each step is
shown to keep each part it can disturb.

**`JobQueueProofs`**, for every set of jobs and workers, all timeouts and any
number of faults:

* for any `Concurrency` and any clocks: `TypeOK`, `RowShape`,
  `TerminalIsFinal`, `SuccessWasEarned`;
* for `Concurrency = 1`: `LeaseNamesAttempt`, `StaleOutcomeDiscarded`,
  `RetriesAreBounded`, and the refinement `LifecycleSpec`;
* for `Concurrency = 1` and `Skew = 0`: `LeaseInv` and `LeaseExclusive`;
* for any `Concurrency`, where a lock outlasts the wait for a claim, a job, its
  outcome and the difference of any two clocks (`LockOutlasts`):
  `FaultFreeLease`.

The first two assumptions are necessary: findings 1 and 2 are their
counterexamples. The third is what `Config.validate` does not ask for; one unit
less, and TLC shows a job reclaimed from a goroutine that is still in time.
`TypeOK /\ RowShape` is inductive on its own: each statement of the package
yields a typed, well-shaped row (`RowTypes`, `AgedType` and the lemmas after
them), and every action changes rows through these statements only.
`SuccessWasEarned` needs that a busy goroutine with result `ok` has delivered
(`ThreadShape`). `LeaseExclusive` does not follow from itself: two goroutines
could be busy on a job with leases that both look young. `LeaseInv` says why
not: a young lease still stands in its row (`LeaseHolds`: running, owner,
attempt number and age agree), and a row that names a goroutine's owner names
that goroutine's attempt (`LeaseNamesAttempt`), which with one goroutine per
owner makes two young leases on a row equal. `RetriesAreBounded` keeps the
attempt numbers of a pending row below the limit, which the refinement needs.
`FaultFreeLease` rests on time: what a goroutine has spent and what it has left
make up what it is given (`OnTime`), so its lock is never older than a claim's
wait, a job and its outcome together, no claim finds it expired (`NotReclaimed`), and every job
that runs is one goroutine's, or one that shutdown left: the lease of a claim
cancelled too late, kept as the history of an ended goroutine, or a lease of an
abandoned worker.

**`AuthProofs`**, for any requests and passwords: `TypeOK`,
`OneLiveToken`, `VerifiedEndsVerification`, `MailMatchesRows`,
`OnlyOvertakenLoginsSurviveReset`, `TokensTakeEffectOnce`,
`OnlyResetChangesPassword`, `CooldownHolds`. `AuthInv` says what a request may
rely on at each statement because of the rows it has locked (`Fits`): an
issuance holds the user's row, and at its commit every live token of its kind;
the use of a token holds it, live; a reset at its commit has seen every live
session but those of logins it overtook. With `Locks` (a row lock has one
holder) an issuance and a use of one kind exclude each other, which is why
`OneLiveToken` survives although every issuance retires only the tokens it sees.

For any callers as well it proves the type invariant of `AuthSessions`,
`EndedSessionsServeNothing`, `RevocationIsFinal`, and that `AuthSessions`
implements `AuthTokens`, so that all of the above holds with the endpoints. The
invariant adds that an ended session stays ended until its call is answered.

**`PublicEventProofs`**, for every set of records, contents, events and
ingesters and any number of reads: `TypeOK`, `EventsHaveProvenance`,
`ObservationsHaveEvents` and `SerialEventsAreLatest`. None of the three
properties is inductive, because a commit publishes what an open transaction
gathered over several steps. `Inv` adds what an open transaction may be trusted
for. `Progress`: what it has upserted and has still to upsert is exactly what
its content lists, so a commit stores all of an observation's events and no
others. `Past`: no transaction and no observation is dated after the clock.
`OverlapsAreSeen`: two open transactions for a record have marked it as
overlapped. `BeganLast`: where a record is not marked, its open transaction
began after every commit of that record, so what it writes is the latest.
`SerialEventsAreLatest` assumes that no two transactions for the record
overlapped; finding 3 is what happens otherwise.

Of the listing, for any finite table, order of ids, dates, filters and page
sizes, it proves the type invariant, `ScansMissNothing`, `PagesRunNewestFirst`,
`ShownEventsStay`, and that reading implements the store (a reader changes
nothing). The invariant of a scan is that its cursor divides the order: all
that was shown is at or before it (`Scanning`), a steady event is either shown
on one page or lies behind it. A page keeps this because the first rows of a
finite set in a strict order are separated from the rest by the last of them.

**`ApiProcessProofs`**, for any finite set of clients asking for anything in any
order, any environments and any pool: `WritesAreAuthorised`,
`OneAnswerOneLine`, `PoolClosesLast`, `CleanExitCutsNothingOff`, `ApiTypeOK`.
The stages ahead of a request are always a suffix of its route's stages and those before it have
let it pass (`Before`, `Passed`); at its handler that is all of them, and
`PassingAuthorises` reads the right to write off the stages a route must have.
What a request has been answered, diagnosed and logged follows its place
(`Logged`); `Served` says what the phase of the process implies for every
request, and `WorkerInPhase` for the worker. `Lends` says of every step of a
request what it does to the pool; with it, who is at a turn is exactly who holds
a connection (`Lending`), and each loan was made below `DB_MAX_CONNS`.
`LoadedConfig` reads the size of the pool off `Valid`; all it needs of an
environment is that what parses as a number or a switch is one
(`EnvironmentsAssumption`).

**`RateLimiterProofs`**, for any keys and callers, any limit, and any window
longer than the longest delay (`LimiterAssumption`): `TypeOK`,
`TwoWindowsOfMemory`, `BurstIsBounded` and `RefusalsAreEarned`. The bound on the
memory does not follow from one step: `Remembered` says that a bucket's key was
called no earlier than the bucket started and that a bucket is less than a
window older than the last sweep, and each call leaves the last sweep less than
a window before it. For the other two the difficulty is that an allowed request
does not carry the bucket it was counted in: callers may enter in another order
than they took their time, so that one instant's requests belong to different
buckets. `Accounts` says that a key's requests can be divided (`Accounted`): some
are no more than its bucket counts, the others are at most the longest delay
younger than the bucket, and at most `Requests` of them are `Late`, that is, in
the interval of `BurstIsBounded`. The division is exhibited for each step: a call
adds to the bucket's own; a bucket that is over leaves all that are late among
its own (`FewAreLate`), and they become the others of the next one. That what a
bucket counts was allowed since it started (`CountIsEarned`) gives the other
property.

**`StockholmRefreshProofs`**, for any finite set of cases, whichever of them are
unreadable or unstorable, and any `MaxRefresh`: `TypeOK`,
`RefreshIsOldestFirst`, and that a run that returns without an error satisfies
`NothingMissed`. The order moves while a run works on its list: each confirmed
case becomes the most recent. `InHand` says that what is left of the list is
still in order, and comes before the owed cases that the bound cut off; a
confirmed case does not disturb it because it has left the list. That the list
is in order and complete to begin with (`Ordered`) is counting: the cases
confirmed longer ago number a set of known cases from 0 without gaps.

**`DiaryFeedProofs`**, for any finite diary that satisfies `ConstantsFit` and any
number of ingesters: `TypeOK`, `EventsAreEarliest`, and that a run that returns
without an error satisfies `NothingMissed`. The diary moves between
the search of `earliestInCase` and the persist; what carries the answer over
(`InHand`) is that the diary lists a case in order (`CasesInOrder`), so that what
was first in its case stays first (`FirstStaysFirst`). This order, and that only a
document alone in its case is ever taken down, are assumptions about the diary,
not about this code. For `NothingMissed` the rows have places: a document that
is due an event, has none and is not in hand has at least as many rows before
it as the pages read so far hold (`Paged`). New rows only push it further, and
while it is there the run has seen fewer rows than there are, so it does not
take a page for the last one. A row that is taken down does pull it back onto a
page already read; `NothingMissed` excepts such runs, as it does those that
reach `MaxPages`: both are listed as hazards.

**`IngestProofs`** instantiates both proof modules with the command's variables
and proves the four safety properties of `Ingest` from their invariants and
lemmas: each step of the command is a step of its source's run or changes
nothing of it (`StepsOfTheCases`, `StepsOfTheDiary`), each accepted command line
is a window its source can be started with (`InvocationsFit`), and the command
is running exactly while its own source's run is (`OneRuns`). `CleanExits` is
then what a complete run promises, as `Code` makes only that a 0.

Every safety and action property that a passing run checks is a theorem. Only
model-checked is liveness (`EventuallyTerminal`, `EveryCallAnswers`,
`EveryOpenCaseIsReached`, `ShutdownEnds`), which the prover does not reach.

## 6. Not modelled

* HTML and JSON extraction of both sources, mail rendering and SMTP,
  cryptography, migrations (a wrapper of goose), and test support: no state that
  another step depends on. A page is readable or not, a row parsable or not.
* Request ids, client addresses, response headers and bodies, log formats and
  the job counters; the header `Retry-After`.
* The rows of the example resource: its handlers are one account-scoped
  statement each, and its listing repeats the scheme of `EventListing`.
  Memberships are never removed by the code, so they are fixed in a run.
* `http.ErrAbortHandler`, which `Recover` passes on and no handler raises; a
  signal before `signal.NotifyContext`, which kills the process.
* The exact backoff and request pacing; statements of `earliestInCase`'s pages.
* In `ApiProcess` cookies and accounts are fixed for a request: that sessions
  change under it is the subject of `AuthSessions`. What handlers and jobs do to
  the tables is the subject of the other modules.

## 7. Plan

Modelled and checked so far is everything that this section once listed:
queue, auth transactions, sessions, limiter, both sides of the event store, both
sources, the command, the process. What is left, in order:

1. The worker of `ApiProcess` as a refinement of one goroutine of `JobQueue`.
2. Lemmas that liveness would rest on, as far as they are steps: which actions
   take the open case at the head of the order further, and that none takes it
   back.
3. The rows of the example resource, once they have more than one statement.

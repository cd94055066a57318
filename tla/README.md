# GeoNotifications: TLA+ models, model checks and proofs

This directory verifies the GeoNotifications service (`src/`), a Go backend that
stores incidents, tells a user whether he is within the radius of one, and
reports every user in danger to a news portal by webhook. The models are written
from the code; file and line references below are to `src/`.

Contents: [the system](#the-system), [modules](#modules),
[runs](#runs), [what fails](#what-fails), [proofs](#proofs),
[abstractions](#abstractions-and-bounds), [plan](#plan).

## The system

One process, two stores and one receiver:

    client ─HTTP─> handlers ─> services ─┬─> Postgres   incidents, location_check_history
                                         ├─> Redis      incident keys, active_incident_ids
                                         │      ^        location_check_queue (list)
                                         │      │  BRPOP  └──> queue worker ─POST─> webhook receiver
                                         └─> retry queue (channel) ──> retry worker ─> Redis

| component | state | operations | interacts with |
|---|---|---|---|
| incidents service (`service/incidents_service.go`) | none of its own; locals of each request | Create, GetByID, Update, Delete, GetAllIncidents, GetStats | table, cache, retry queue; one goroutine per request |
| incidents table (`storage/postgres/incidents.go`) | rows with `is_active` | insert, update of all columns, soft delete, reads | Postgres under a timeout per call |
| incident cache (`storage/redis/redis_cache.go`) | one key per incident, the set `active_incident_ids` | Set, Delete, GetByID, WarmUp (each one MULTI/EXEC or GET) | Redis under a timeout per call |
| cache retry queue (`storage/redis/cache_retry_queue.go`) | a bounded channel, one worker | Enqueue (drops when full), Run, start and stop | handlers send, the worker receives, and sends again on failure |
| location service (`service/location_service.go`) | none of its own | Check | FindNearby, SaveCheckHistory, EnqueueLocationCheck |
| webhook queue (`storage/redis/redis_queue.go`, `webhook/webhook.go`) | a Redis list, the worker's task | RPUSH, BRPOP, retry.Do around Sender.Send, StartQueue, StopQueue | handlers push, one worker pops and posts |
| retry (`retry/retry.go`) | loop variable, delay | Do | used by the service and the queue worker |
| lifecycle (`di/di.go`, `app/app.go`) | which goroutines run | Build, Start, Stop | everything |
| logger (`logger/`) | a bounded channel, one worker, the level of the core | Log (drops when full), Run, Stop (drains) | called by everything |
| HTTP interface (`web/`) | none | API key, binding, validation, pages, status codes | services |
| system service (`service/system_service.go`) | none | Health: two pings | both stores |
| configuration, generated docs, stub receiver | none | — | — |

What is hard here:

* **Two stores, no transaction.** Create, Update and Delete commit in Postgres and
  then write Redis. Between the two another request may read or write either one,
  the client may leave (both calls are made under the context of the request), the
  process may die, and either call may fail *after* the store has done the work.
* **The cache is read on the way to a write.** PUT reads the incident through
  `GetByID`, from the cache if it is there, and writes every column back,
  `is_active` included. A stale copy is not only shown; it is written.
* **Repetition.** `retry.Do` repeats cache writes and POSTs, the retry worker repeats
  cache writes out of order, go-redis repeats commands whose answer is missing.
* **Losing work.** A task leaves the list before it is sent; the retry queue is in
  memory and drops when it is full; failures after the answer are only logged.
* **Stopping.** Six waits of `Stop` share one deadline of 15 s; the queue worker waits in three
  places (BRPOP, POST, pause) that a stop has to end, `Pool.Close` waits without a deadline, and
  the listener is a goroutine nobody waits for.
* **Logging without waiting.** Everybody logs into one bounded channel, also while it is
  being stopped, and nobody may be held up by it.
* **Pages of a moving table.** A page and its total are two statements, the order has no
  tiebreak, rows are inserted meanwhile, and the offset is a product of the client's numbers.
* **Two clocks.** Checks are stamped by the process and counted by the database.
* **Results cut short.** No query loop asks `rows.Err()`.

What makes each part correct: rows are created once, never lost, never mixed up, and
a soft-deleted one stays so; whatever is cached or queued has its row, and agrees
with it when nobody works on it; the backlog drains; requests end; what the receiver
hears of a check is what was found, answered and recorded, neither lost nor repeated
beyond what the retries explain; a stop ends, in order, and keeps what is in the list;
accepted messages are handed to zap; a walk over the pages misses nothing; a client is refused
for its own fault only, and a refusal changes nothing.
`PROJECT.json` lists each hazard with its line and with the properties that cover it.

## Modules

| module | models | state ↔ code |
|---|---|---|
| `Stores` | how a call to Postgres or Redis may end | `up[s]`: the store answers within the timeouts. A call is *ok*, *failed* (error, nothing done) or *lost* (error, but done); `CallEnds` adds the context of the request |
| `Domain` | `domain/incident.go` | an incident is an id, an `active` flag and a `body` that stands for the other fields |
| `IncidentCache` | `redis_cache.go` | `cache[id]` the key, `activeIds` the set; an operator per function |
| `CacheRetryQueue` | `cache_retry_queue.go` | `retryQ` the channel's buffer, `worker` the incident received |
| `Incidents` | `incidents_service.go` over the three above and the table `db` | per handler `pc` (the call it makes next), `req`, `inc` (the `*domain.Incident`), `attempt`, `cancelled` |
| `IncidentTable` | the abstract promise: create, amend, deactivate | `rows`, refined by `db` |
| `GuardedTable` | the same promise, for the incidents outside `doors` | `doors`, refined by `tainted` |
| `IncidentsInv`, `IncidentsProofs` | inductive invariant; theorems | |
| `IncidentCoherence` | `Incidents` with `tainted`: which copies can no longer be relied on, and by which event | |
| `CoherenceInv`, `CoherenceProofs` | inductive invariant; theorems | |
| `WebhookQueue` | `redis_queue.go`, `webhook.go` | `queue` the list (left to right), `sender`/`hand`/`attempt` the worker (`sender` is `"again"` after a BRPOP that failed), `delivered` POSTs that reached the receiver |
| `LocationChecks` | `location_service.go` over `WebhookQueue`, with start, stop, crash | per check `pc`, `inside` (the truth), `found`, `answer`, `history` |
| `LocationChecksInv`, `LocationChecksProofs` | inductive invariant; theorems | |
| `AlertPromise` | the abstract promise about alerts, with its theorems: one verdict and at most one row per check, a credit of POSTs that a verdict of danger brings and every POST takes from | `verdict`, `record`, `credit`, `reports`, refined by what the handler has answered (`Verdict`), `history`, what the list and the hand of the worker still owe (`Credit`) and `delivered` |
| `CheckTraffic` | `LocationChecks` under traffic that does not end: a check whose request and tasks are over makes room for the next (`Renew`) | as `LocationChecks` |
| `AlertLosses` | `LocationChecks` with an account of every task | per check `pushed`, `missed` (a push failed), `sent` calls of the receiver, `accepted` the answers 200 among them, `lost` to a door; `stopLosses` |
| `AlertLossesInv`, `AlertLossesProofs` | inductive invariant; theorems | |
| `AsyncLogger` | `logger/` | `buffer` is `msgChan` (levels only), `runner` the goroutine of `StartLogger`, `threshold` the level of zap's core; `silenced` is auxiliary |
| `Lifecycle`, `LifecycleProofs` | `app.go`, `di.go` over `AsyncLogger` | `main` the stage `app.Run` has reached, `expired` its deadline, `open` the clients, `stopped` the cancelled contexts, and where the listener, each handler (`at`), the queue worker and the retry worker are |
| `IncidentPages`, `IncidentPagesProofs` | `GetAllIncidents`, from the query string to the two statements | `rows[id]` is `created_at`, `get` the request and its answer; `walk` is a client that asks for one page after the other |
| `CheckStats` | `SaveCheckHistory`, `GetStats` and their clocks | `clock` the time, `zone` the offset of the process's time zone, `history` the rows, with the instant each check was made |
| `Api`, `ApiProofs` | `web/` over `CheckStats` and the incidents, `system_service.go` | `table`, `reply`: the last request (its flaws, `"fit"` among them for a value that only Postgres refuses, whether its id is unknown, whether a store failed) and the status of the answer |
| `MC…` | symmetry sets for TLC | |

`Incidents` and `LocationChecks` are checked apart. They share the processes' life and
the stores, and the table is the only data between them: `inside[c]`, the rows
`FindNearby` should return for check `c`, is chosen when the check is accepted, and as
`FindNearby` reads one snapshot, a module over both would show nothing more. `Lifecycle` keeps of
both only that they use a store, log and end; `Api` keeps of them only how they may answer.

**Steps.** A step of a handler is one call to a store with the control flow up to the
next call: `DBCreate` is `Postgres.Create` and the branch on its error, `CacheWrite` one
turn of the loop in `retry.Do`. Everything else a handler does touches its locals
only, so that the interleaving of these steps is the interleaving of the program.
An operator whose name ends in a variant of another's (`DeleteMemberOnly` before
`Delete`, `LastAttemptLate` before `LastAttempt`) is a deliberately wrong version of
it; no specification uses it. Each property below has one that violates it.

## Runs

`Disturbances` names what may go wrong: `redis` and `postgres` (a store stops and starts answering at any time),
`client` (it leaves at any time), `receiver` (no 200 in time), `process` (crash, stop).

| run | instance | shows |
|---|---|---|
| `Coherence_faults` | 1 incident, 2 bodies, 2 requests, 1 attempt, queue 0; `redis`, `postgres`, `process` | `BackedByRow`: the UPDATE of a PUT that read the cache never silently matches no row. `KeepsRows`: the table refines `IncidentTable!LooseSpec`. `RetryKeepsCacheFreshButTainted`, `StaleOnlyThroughDoors`, `ImplementsTableButTainted`: see below |
| `Incidents_live` | 1 incident, 2 bodies, 1 request, 2 attempts, queue 1, all faults, fair | `IInv`: locals fit the stage of the request, everything in flight has its row. `CohInv`: the inductive invariant that implies `StaleOnlyThroughDoors`. `RequestsFinish`: every request is answered, however the stores behave. `BacklogDrains`: once Redis is back for good, the backlog empties. `RequestsAdvance`: each step of a request spends one of the at most `2 * MaxAttempts + 4` calls and pauses it has. `BacklogShrinks`: while Redis answers, only a request whose client has left feeds the backlog of failed cache writes, and every other step that touches it shortens it. `ImplementsTableButTainted` again, with the loop of `retry.Do`, clients that leave between the stores and a buffer in the retry queue |
| `Checks_faults` | 2 checks, 2 attempts, 1 resend; `redis`, `postgres`, `receiver`, `process` | `CheckInv`, `AccountInv`. `KeepsAlertPromise`: the refinement of `AlertPromise`. `ReportsMatchChecks`: nobody is reported who was told he is safe or got an error, nor recorded safe. `DeliveriesBounded`. `NothingVanishes`: a danger that was answered was pushed or its push failed, and every task pushed still waits, is in hand, was answered with a 200, was sent in vain as often as configured, or was taken by a broken BRPOP, by the pause a stop cancels, or by a crash. `AttemptsWithinBudget`: attempts made and left never exceed what was pushed. `StopLosesAtMostOne`. `CirclesOnlyWithoutRedis`: the one circle of the worker is a BRPOP that fails and is tried again at once, while Redis does not answer and nobody has stopped the worker; every other step leaves less to do |
| `Checks_live` | 2 checks at a time, requests without end, 2 attempts, all faults, fair | `ChecksFinish`, `StopEnds`. `QueueDrains`: the list empties once Redis answers and nobody pushes any more. `DangerIsReported`: also when the history cannot be written, unless Redis, the receiver or the process fails, the client leaves, or newer alerts come for ever (`Starved`) |
| `Lifecycle` | 1 handler with 2 calls, 2 attempts, a log of 2 messages, levels info and error, fair | `LifecycleInv`: until the deadline nothing runs beside something it needs that is already closed. `CleanExit`: an exit before the deadline leaves no request, worker or client, and no message that was not handed to zap; after the deadline it says nothing. `SilencedOnlyAtStop`. `RequestsEnd`: although workers and logger may stand still. `StopEnds`: given only that the deadline passes. `StopNeedsNoDeadline`: given only that the goroutines run. `FailureIsWritten`: where the level lets Info pass, a failure to listen comes out of the log as a line and not only out of its buffer |
| `Pages` | 4 incidents, 3 times, int of 4 bits, default limit 2, walks with limits 1 and 2, every int as page or limit | `WalkMissesNothing`, `WalkRepeatsOnlyAfterInserts`: but for ties, for a page cut short and, the second, for insertions. `PagesAreHonest`: while the offset fits an int nothing is rejected, no page has too much, and the total is not behind the page |
| `Api` | 1 incident, 2 users, 2 checks, a clock to 4, time zones 0 and 1 | `StatsWithinSkew`: the number of active users is exact but for the difference of the zones. `DocumentedAnswers`. `BlameIsRight`: a flawed request is refused, a flawless one is not, an unknown incident is not found; the four exceptions are below. `RefusedChangesNothing` |

**The seven doors.** The cache does disagree with the table at times; the useful
question is when. `IncidentCoherence` names the events after which a copy cannot be
relied on: the row changes while another request holds a copy of it (*Crossed*), a PUT
reads the copy a DELETE has yet to remove (*ReadDeleted*), the row changes while an
older write is queued (*Overtaken*), the database commits a call it answers with an
error (*LostCommit*), DELETE gives up on Redis (*DeleteGaveUp*), the retry queue is full
(*Dropped*), the process dies between the two stores (*Interrupted*). The runs show that
these are all: for an incident that none of them has met, the copy is absent or equal to
the row whenever nobody works on it (`StaleOnlyThroughDoors`, implied by `CohInv`), and its row is amended and
deactivated as `IncidentTable` promises, never revived by a PUT that read the cache
(`ImplementsTableButTainted`, the refinement of `GuardedTable`). Each event
is needed: with any one of them taken out of `Door`, TLC finds a violation in
`Coherence_faults`. `RetryKeepsCacheFreshButTainted` is the second statement
under [what fails](#what-fails), for the incidents outside `tainted`: there it holds.

**Bounds.** Nothing is counted without limit except `delivered` and the account of
`AlertLosses`, which the number of checks bounds: a check is made once, and `Renew` in `CheckTraffic`
starts a new one, of which nothing is delivered yet. Two requests and
one incident suffice for a race of two calls. Several incidents meet only in the places
of the retry queue: of two incidents one can lose its write to the other's. A queue without a place
(`DB_REDIS_CACHERETRYSIZE` not set; `.env.example` has 100) shows the same with one incident, as it drops whatever
finds the worker busy; a queue of one place, in `Incidents_live`, has an order and is refilled by its own worker. The
proofs hold for any number of incidents and places.
`Checks_faults` leaves out clients that leave, with which it has more than four million states; they are in
`Checks_live` and in the proofs, which hold for any `Disturbances`. One attempt removes the loop of
`retry.Do` but no order of the effects; the other runs have the loop.
Two checks with a repeated RPUSH put up to four tasks into the list, which gives
it an order and a stop several tasks to lose.

In `Lifecycle` handlers meet only in the log and in what they keep open, so that one, asked again
and again, stands for many; two calls let a stop fall before, between and after them; a log of two
messages is full when two parts log at once. `BuffSize` is at least 1 (`.env.example` has 1000; an
unbuffered channel, the value 0, would drop what finds the worker busy). `Kill` at any time
stands for SIGKILL and for a SIGTERM before `signal.Notify`. In `Pages` four incidents and three
times give ties, a walk of up to five pages and insertions before, at and behind the walk's place; with
ints of 4 bits every page and limit is tried and the offset wraps to negative numbers and around.
`MaxHistory` and `MaxClock` of `Api` let a check be made before, at and after either end of the window.

**Fairness.** Weak fairness of each handler and of each worker: the Go scheduler runs
what can run, and every call returns, because it has a timeout (`context.WithTimeout` on
every store call, 10 s in `webhook.NewSender`; BRPOP has none, and its worker may wait for
ever when there is nothing to pop). Weak fairness of `StopQueue` and `Exit`: `Container.Stop`
goes on when what it waits for has happened. `Lifecycle` assumes less: only the straight code of
`main` and the ends of a handler's calls are fair in `FairSpec`. That the deadline passes, that the workers
are scheduled (with strong fairness of the branch of the retry worker's `select` that ends it, as
Go picks among ready branches at random) and that the logger is are hypotheses of the
properties that need them, so that each shows what it does not need. Nothing is assumed of clients, of stores and
receiver recovering, of crashes, or of the process being started again.

**Deadlock** is checked in all runs but `Lifecycle`, whose process exits.

## What fails

Five statements the repository makes are refuted; each has a run that finds a short
counterexample, and a finding in `PROJECT.json` with the quoted line.

1. `Incidents_resurrected`: a PUT reads before and writes after a concurrent DELETE, and the
   incident is active again. No fault is needed.
2. `Incidents_stale_retry`: the retry worker overwrites a newer copy by an older one.
3. `Checks_cut_short`: a result cut short is answered as complete (`rows.Err()` is not asked),
   so that a user in danger may be told that he is safe.
4. `Checks_starved`: RPUSH with BRPOP is a stack. The README says that danger is reported to the portal at once
   (`README.md:4`); as long as newer alerts come before the list is empty an older one is never sent, though
   nothing fails and nobody leaves. `DangerIsReported` is what holds instead.
5. `Api_stats`: the annotation of `GET /incidents/stats` (`incidents_handler.go:71`, `:74`) says that it returns the
   total number of incidents; it returns how many users checked their location lately (`README.md:93` says so).
   Between these two documents the code sides with the README, and `StatsWithinSkew` with both.

How far the first three reach is proved. A deleted incident comes back, and a retry does harm, only after
one of the seven events (`RevivedOnlyThroughDoors`, `RetriesHarmOnlyTainted`); where nothing fails these
events need two requests for one incident at a time (`AloneIsClean`), and without such a meeting the service is the
table the API promises (`SerialTable`). An incomplete answer needs an error of the database or a client that
leaves (`CompleteButForPostgres`), and no answer ever has too much (`NoFalseAlarms`).

What the passing runs state with an exception is a remark of the same kind:

* A process that cannot bind its port does not end (`di.go:112`): a goroutine logs the error as
  Fatal, which in this logger ends nothing, and `app.Run` goes on waiting for a signal.
* `Run` writes what is left at a stop, and every Fatal, as Info (`async_logger.go:47`). With `LOGGER_LEVEL`
  warn or error these are discarded: `SilencedOnlyAtStop` has to except Fatal.
* The message of a listener that fails during the stop may come behind the logger (`CleanExit`).
* A walk over the pages ends early at a page cut short, as it cannot tell (`WalkMissesNothing`), and rows with
  one `created_at` may be missed or repeated, as the order has no tiebreak.
* `(page-1)*limit` may overflow: a large page is answered with 500, or with rows from elsewhere (`Fits`).
* The window of the statistics is off by what the time zone of the process differs from that of the
  database's session (`StatsWithinSkew`).
* Four requests get an answer that blames the wrong side (`BlameIsRight`): PUT of an unknown incident answers 500
  and DELETE of one 204, where the annotations list 404; a check whose user id or position is none answers
  500, where they list 400; and so does a value that only Postgres refuses, though nothing has failed: a type longer than
  `VARCHAR(50)`, a title longer than `VARCHAR(255)` where the configured limit lets it pass, a NUL in either or in the
  description, a negative OFFSET. 401 and 503 are answered but not listed (`DocumentedAnswers`).
* While Redis does not answer, the queue worker logs and calls BRPOP again without a pause
  (`redis_queue.go:43-48`, `CirclesOnlyWithoutRedis`).

Three further remarks need no run: without `RETRY_ATTEMPTS` `retry.Do` succeeds without
calling anything, so that every task is discarded as if sent (`Handle`) and no cache write
is made (`StartRetry`); `DB_REDIS_CACHESIZE` is read by no code; and `Redis.Set` lists in
`active_incident_ids` whatever a GET brings in, a deleted incident too (no code reads that set).

## Proofs

TLAPS proves, for all values of the constants under the named assumptions of the modules
(`None` is no incident, id or body; `MaxAttempts`, `CacheRetrySize` and `MaxResends` are
naturals; `Disturbances` is a set of the five names; `BuffSize` is at least 1 and `Thresholds` are levels;
the table is finite and smaller than the largest int, limits are positive ints; zones are integers, the window and
the bounds of `CheckStats` naturals). Most theorems of `CoherenceProofs` also assume that retries are configured,
`MaxAttempts # 0`: without, a change commits and no cache write is made at all. Three theorems are about a calm
environment and say so in their hypotheses: `AloneIsClean` and `SerialTable` take `Disturbances \subseteq {"receiver"}` and
behaviours in which the requests for an incident do not overlap, `CompleteButForPostgres` takes `postgres` and `client` out of
`Disturbances`. All of them leave the service as it is and restrict its surroundings only.

| theorem | statement |
|---|---|
| `IncidentsProofs!Invariance` | `Spec => []IInv` |
| `IncidentsProofs!TypeCorrect` | `Spec => []TypeOK` |
| `IncidentsProofs!RowBehindEveryCopy` | `Spec => []BackedByRow` |
| `IncidentsProofs!KeysBehindActiveIds` | `Spec => []ActiveIdsHaveKeys` |
| `IncidentsProofs!RefinesLooseTable` | `Spec => KeepsRows` |
| `IncidentsProofs!NoRequestCircles` | `Spec => RequestsAdvance` |
| `IncidentsProofs!BacklogOnlyShrinks` | `Spec => BacklogShrinks` |
| `CoherenceProofs!Coherence` | `MaxAttempts # 0`, `CSpec => [](IInv /\ CohInv)` |
| `CoherenceProofs!NoEighthDoor` | `MaxAttempts # 0`, `CSpec => []StaleOnlyThroughDoors` |
| `CoherenceProofs!KeepsPromise` | `MaxAttempts # 0`, `CSpec => ImplementsTableButTainted` |
| `CoherenceProofs!RetriesHarmOnlyTainted` | `MaxAttempts # 0`, `CSpec => RetryKeepsCacheFreshButTainted` |
| `CoherenceProofs!RevivedOnlyThroughDoors` | `MaxAttempts # 0`, `CSpec =>` `DeletedStaysDeleted` for the incidents outside `tainted` |
| `CoherenceProofs!AloneIsClean` | calm, `CSpec /\ []Alone(id) => [](id \notin tainted)` |
| `CoherenceProofs!SerialTable` | calm, `MaxAttempts # 0`, `CSpec /\ []OneAtATime => Table!Spec /\ []CacheTrue` |
| `AlertPromise!BudgetKept` | `Budget \in Nat`, `Spec => []WithinBudget` |
| `AlertPromise!ReportsTruthful` | `Budget \in Nat`, `Spec => []Truthful` |
| `LocationChecksProofs!Invariance` | `Spec => []CheckInv` |
| `LocationChecksProofs!TypeCorrect` | `Spec => []TypeOK` |
| `LocationChecksProofs!NoOtherCircle` | `Spec => CirclesOnlyWithoutRedis` |
| `LocationChecksProofs!ReportsAreTrue` | `Spec => []ReportsMatchChecks` |
| `LocationChecksProofs!PromiseKept` | `Spec => KeepsAlertPromise` |
| `LocationChecksProofs!BoundedDeliveries` | `Spec => []DeliveriesBounded` |
| `LocationChecksProofs!NoFalseAlarms` | `Spec => []FoundIsInside` |
| `LocationChecksProofs!CompleteButForPostgres` | no `postgres`, no `client`: `Spec => []AnswersComplete` |
| `AlertLossesProofs!Accounts` | `LSpec => [](CheckInv /\ AccountInv)` |
| `AlertLossesProofs!AttemptsStayInBudget` | `LSpec => []AttemptsWithinBudget` |
| `AlertLossesProofs!NoOtherDoor` | `LSpec => []NothingVanishes` |
| `AlertLossesProofs!OneLossPerStop` | `LSpec => []StopLosesAtMostOne` |
| `LifecycleProofs!Invariance` | `Spec => []LifecycleInv` |
| `LifecycleProofs!TypeCorrect` | `Spec => []TypeOK` |
| `LifecycleProofs!StopsInOrder` | `Spec => []StoppedInOrder` |
| `LifecycleProofs!ExitsClean` | `Spec => []CleanExit` |
| `LifecycleProofs!SilencesOnlyAtStop` | `Spec => []SilencedOnlyAtStop` |
| `IncidentPagesProofs!Invariance` | `Spec => []Inv` |
| `IncidentPagesProofs!TypeCorrect` | `Spec => []TypeOK` |
| `IncidentPagesProofs!WalksMissNothing` | `Spec => []WalkMissesNothing` |
| `IncidentPagesProofs!WalksRepeatOnlyAfterInserts` | `Spec => []WalkRepeatsOnlyAfterInserts` |
| `IncidentPagesProofs!HonestPages` | `Spec => []PagesAreHonest` |
| `ApiProofs!Invariance` | `Spec => []ApiInv` |
| `ApiProofs!TypeCorrect` | `Spec => []TypeOK` |
| `ApiProofs!ReportsAreExactButForZones` | `Spec => []StatsWithinSkew` |
| `ApiProofs!NobodyElseIsBlamed` | `Spec => []BlameIsRight` |
| `ApiProofs!AnswersAreDocumented` | `Spec => []DocumentedAnswers` |
| `ApiProofs!RefusalsAreHarmless` | `Spec => RefusedChangesNothing` |

*Incidents.* `BackedByRow` is not inductive: that the incident a PUT writes back has a row
depends on where the PUT got it. `IInv` adds what each handler knows at each stage
(`RequestOK`, `AttemptOK`, `IncidentOK`), that a create has its id to itself
(`CreatesApart`) and that rows carry their own ids (`RowsOK`). The
proof splits `IInv` into a part per variable; `HandlerPreserves` says that a handler that
keeps its own part and changes the table only by creating its row keeps everybody else's.
Every action is then one lemma. `RefinesLooseTable` maps each step to `Create`, `Overwrite` or a
stutter of the abstract table, using `IInv` to know that the row is there, and is the same incident's.
`NoRequestCircles` and `BacklogOnlyShrinks` are the safety halves of `RequestsFinish` and `BacklogDrains`: `CallsLeft(h)`
and `Backlog` are naturals (lemmas `CallsLeftType`, `BacklogType`) that the steps of the request, and of the worker while
Redis answers, can only bring down. `AttemptOK` is what makes the first one a natural: without the bound on the loop variable of
`retry.Do` a pause could bring a request below zero. That clients do not leave where they may not is one more
invariant (`LeaversOnly`). What remains for TLC is that a request, or the worker, does take its next step.

*Coherence.* What the doors leave open is not inductive either: whether a key is right depends on the copies and the
queued writes that may yet replace it. `CohInv` says, of an incident outside `tainted`, that what a handler is about
to write to its key, other than to remove it, is its row (`CopyOK`), that every queued write of it is its row (`QueueOK`), that its key is absent, the row, or about to
be overwritten by a pending write (`KeyOK`), and that only a DELETE under way lets a copy differ from the row in
`is_active` (`FlagOK`). `StepCoheres` is about the incident a step works on, `Elsewhere` about all others; each
door is used to rule out the one case in which its step would break a part. `KeepsPromise` then maps the steps to those of
`GuardedTable`, an `Overwrite` that revives a row being possible for an incident in `doors` only;
`RevivedOnlyThroughDoors` reads its statement off that refinement, and `RetriesHarmOnlyTainted` off `QueueOK`.
For `AloneIsClean` every door is shown shut in a calm state (`NoDoorOpens`): `Calm`, which says that both stores are up,
nothing is queued, nobody has left and no request pauses, is itself an invariant, as in a calm state every call succeeds
(`CallsSucceed`); what is left of the doors are the two at which requests for one incident meet. `SerialTable` puts this and
`KeepsPromise` together: with `tainted` empty for good the guarded table is the table. Its hypotheses are met, with two handlers
on two incidents, by 11810 states that TLC finds under the constraint `OneAtATime`, every call of each of the four requests among the steps.

*Location checks.* `ReportsMatchChecks` needs that a task exists only once its handler is done
(`CheckOK`) and that the worker holds none while it pops (`AttemptOK`); `DownStops` (no worker
outlives a stop) is what the start relies on. `AllFound` strengthens `AnswersComplete` by what is known between the query and the answer.

*The promise of an alert.* `AlertPromise` is proved about once, without lists and workers: `credit` never grows and what
has been heard of a check never exceeds `Budget`. `PromiseKept` is the refinement, with `Credit(c)` for `credit[c]`: `MaxAttempts`
for every place in the list, and what is left of the loop of `retry.Do` for the task in hand. Each step
of the worker and each crash is *frugal* (`Frugal`): it takes credit from one check, with at most one report (`SpendsOn`), or touches
none (`Quiet`); a pop moves credit from the list to the hand and takes none. The steps of a handler map one to one:
`FindNearby` with an error to `Fail`, `SaveHistory` to `Reassure` or `RecordDanger`, the push to `Alarm`, whose credit is at most
the budget because one call leaves at most `MaxResends + 1` places (`InListPushed`). The invariant that is needed beside
`CheckInv` is `OneInHand`. `BoundedDeliveries` is then `WithinBudget` of the abstract module, read through the mapping: it
holds of `Spec`, and needs no account of the tasks.

*Alerts.* `AccountInv` balances, for each check, the attempts made and those owed (`Owed`: all of `MaxAttempts` for
a task in the list, the rest for the one in hand) with the tasks pushed (`Balanced`). `NothingVanishes` counts the other way:
the tasks pushed that do not wait, are not in hand, were not accepted and went through no door are those given up
(`GivenUp`), and for each of them `MaxAttempts` calls were made that brought no 200. `Traced` adds the calls already made
in vain for the task in hand, which may be given up next. An answer of danger comes
from a handler that has pushed or failed to (`Pushed`), a check is pushed by one call (`PushedOnce`), and a worker that
lost a task to a stop is past it (`StopOK`). What a push and a pop do to the number of a check's places in the list are the lemmas
`InListPushed` and `InListPopped`.

*The worker's progress.* `NoOtherCircle` is the half of `QueueDrains` and `StopEnds` that needs no fairness. The worker has one
circle: a BRPOP that fails, the line it logs, the next BRPOP, for as long as Redis is down and no stop cancels the context. It takes
nothing from the list but what a broken connection loses. For every other step the measure is
`WorkLeft`: `2 * MaxAttempts + 1` for each place in the list and `StepsLeft` for the task in hand. A BRPOP that finds a task trades a place
for the `2 * MaxAttempts + 1` steps it costs, and each POST and each pause takes one of them (`LoopWorks`, `WorkerStepWorks`); only a
push and a start add to it. `StepsLeft` alone falls once the worker is cancelled, but for the one BRPOP it may be in, which
brings at most one more task: the worker ends after at most `2 * MaxAttempts + 2` steps.

*Lifecycle.* `StoppedInOrder` and `CleanExit` speak of the goroutines and not of `main`, and are not
inductive. `LifecycleInv` ties them together: `StageOK` says what `main` has told its parts by the stage it
has reached, `EndedOK` what has ended by then unless the deadline has passed (each wait of `Stop`
lets `main` on for one of these two reasons), and `LogOK` that before the deadline only the
listener can log behind the logger. `StoppedLoggerIsLast` is why nobody else can.

*Pages.* An incident whose `created_at` nobody shares has one place in every order the database may
choose, behind the rows that are newer (lemma `Place`, by a bijection between the places before it
and those rows). `Inv` says where a walk stands: what it has not met has its place at or behind the
next page (`Ahead`), or, while a page is under way, on that page or behind it (`OnPage`);
as long as nothing is inserted, what it has met lies before (`Behind`, `PageInPlace`). An
insertion pushes places back and unties nobody (`InsertPushes`), so the first part survives it
and the second need not. `WrapFits` is the arithmetic: an offset within the table never wraps.

*HTTP.* `StatsWithinSkew` compares a count with that of a true window. What is needed is that the history stays
finite, and that finitely many integers have a largest one (`FiniteMax`, by the well-foundedness of sizes), the user's latest
check. The answers are proved route by route: `RefuseOK` for the requests that do not reach a service,
`UnfitRight` for the values that only Postgres refuses, `HandledOK` for the rest.

*Only model-checked:* liveness, and `ENABLED` with it. `RequestsFinish`, `BacklogDrains`, `ChecksFinish`, `StopEnds`, `QueueDrains`,
`DangerIsReported` and, of `Lifecycle`, `RequestsEnd`, `StopEnds`, `StopNeedsNoDeadline` and `FailureIsWritten` rest on fairness,
which is outside the prover; of `RequestsFinish`, `BacklogDrains`, `QueueDrains` and `StopEnds` the measures are proved (above). Every safety property a passing run checks is also proved.

## Abstractions and bounds

* A call in flight ends in one step. A command whose answer was lost has been executed by the time
  the error comes back; a command that a server executes even later is left out.
* The repetitions go-redis makes within one call are one step; for SET, DEL and their
  pipelines they collapse, for RPUSH they count (`MaxResends`, 3 by default in go-redis).
* A BRPOP that fails has taken nothing or, when the answer was lost, a task; both lead to `"again"`, the
  line that is logged, and from there back to the head of the loop.
* In `Lifecycle` the message of a step that ends a part and the call or cancel it belongs to are one step
  (`EndLogging`); between the two nothing is read that either of them writes.
* Redis keeps its data when it or the process restarts (docker volumes in
  `docker-compose.yaml`); `Recover` brings back the same contents.
* One instance of the service. `uuid.New` never repeats: `Fresh`, and one id per check.
* Requests of `Incidents` and `LocationChecks` are past authentication, binding and validation, which
  change no state; those of `Api` are not, and come one at a time.
* `updated_at`, `created_at` are part of no property: two writes of one body are equal.
* JSON round trips are exact for the fields kept (id, active, body).
* In `LocationChecks` the deadline of `Container.Stop` is a `Crash`: what goroutines do between the
  deadline and the end of the process they could have done before it. `Lifecycle` has the deadline itself.
* Which store a handler of `Lifecycle` calls, how often and with what result is nondeterministic; which
  messages are logged is their levels, and a call that fails logs at any level the services use for it.
* Rows of `IncidentPages` are their `created_at`; nothing removes a row or changes that column.
* A request of `Api` is the set of its flaws; values in range are alike.
* `WarmUp` reads and writes in one step: nothing else runs yet in a single instance.

Not modelled, and why: configuration parsing (it reads the environment once; its values are constants, and
an error ends the process before anything runs), the generated documentation and the swagger
route, the stub receiver (it prints what it gets; the receiver of the models is any receiver), the wording and
encoding of log lines and answers, the options of the connection pools, and the geometry of
`ST_DWithin` (PostGIS; `inside` stands for its answer).

## Plan

Done: every component but those under "not modelled", with their runs, and a theorem for each safety
property. What is left is at the seams: `Incidents` and `LocationChecks` are checked apart (see
[modules](#modules)), one instance of the service is modelled and several could share the stores, and a command a server
executes after its client has given up would be an eighth door.

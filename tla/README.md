# TLA+ models of recoverbull-server

recoverbull-server stores encrypted secrets under
`sha256(identifier + authentication_key)` and answers `/store`, `/fetch`,
`/trash`, `/attempts` and `/info` over HTTP. A lookup is a guess of the
`authentication_key`, which derives from a weak password; the only thing that
stands against guessing is the in-memory budget of distinct candidates per
identifier. These modules model that budget and the machinery around it as the
code has it: concurrent handlers that may be dropped at any `await`, tasks
that are detached from them, a map behind a mutex, a bounded pool of database
permits, a sweeper, and restarts that wipe everything but the rows. Beside it
they model the rows themselves under stores, fetches and trashes, the snapshot
of `/attempts`, the warrant canary of `/info`, and the start of the process on
whatever database it finds.

Paths below are relative to the repository.

## Inventory

| Component | State | Operations | Interacts with |
|---|---|---|---|
| Rate-limit map (`src/models.rs:70-108`, `src/main.rs:48`) | `HashMap<hash, RateLimitInfo>` behind a tokio mutex | admission, refund, finalization, expiry | fetch/trash, sweeper, attempts snapshot |
| Fetch and trash handlers (`src/handlers/fetch.rs`) | locals of the request, `PendingGuard`, detached task, blocking closure | `fetch_secret`, `finalize`, `remove_pending`, `Drop` | map, lookup bucket, database semaphore, database |
| Sweeper (`src/rate_limit.rs:44-71`) | its stamp | `sweep_expired_identifiers` every ten minutes | map |
| Database (`src/database.rs`) | table `secret` in SQLite, WAL | `write`, `read_secret_by_id`, `read_and_trash_secret_by_id` | blocking threads of fetch/trash/store |
| Store handler (`src/handlers/store.rs`) | locals, blocking closure | `store_secret` | store bucket, database semaphore, database |
| Token buckets (`src/rate_limit.rs:3-39`) | tokens, last refill, three instances | `try_consume` | store, fetch/trash, attempts |
| Attempts snapshot (`src/handlers/attempts.rs`) | cached gzip body, ETag, `created_at` behind a mutex | `get_attempts`, `build_snapshot`, `remaining_max_age` | attempts bucket, map |
| Info and canary (`src/handlers/info.rs`, `src/env.rs:164-252`) | cache of the dotenv file keyed by metadata | `get_info`, `canary_file_state_cached` | file system |
| Migrations (`src/database.rs:30-113`) | ledger table, `secret` table | `init_db`, `run_migrations` | start-up |
| Configuration (`src/env.rs:67-162, 254-411`) | none | `validate_*`, `init` | start-up |
| Router and shutdown (`src/router.rs`, `src/main.rs:61-120`) | none | 30 s route timeout, 1 kB body limit, graceful shutdown | everything |

What is hard here, and what makes each component correct:

- **Fetch/trash and the map.** Between the reservation of a candidate and its
  settlement (refund, commit) lie up to four awaits at which the handler may
  be dropped, a detached task that nothing cancels, and a removal that `Drop`
  may have to spawn. Windows expire and are replaced meanwhile. Correct means:
  a reservation is settled once, by one owner, never in another window; the
  budget holds with pending candidates counted; an answer that tells right
  from wrong has been charged; a charge lasts a whole cooldown from the
  window's `last_candidate_at`, which a candidate that was stamped early and
  admitted late may set back, by at most the route timeout.
- **Capacity.** The map and the permits are bounded; dropped handlers and
  refunds must neither leak nor double them, and a full map makes room by
  expired windows only.
- **Sweeper.** It uses a stamp that is old when it gets the mutex; it must not
  drop what has been postponed, and must forget what has not.
- **Snapshot.** One build at a time, at most one per TTL, never older than
  promised, nothing published that has expired.
- **Database.** A trash releases a row once; a store is idempotent; a write
  of a cancelled request may land late.
- **Token bucket.** Grants over any interval are bounded by burst and refill.
- **Canary.** A removed line must be served as such, a missing file not.
- **Migrations.** A crash during adoption must be recoverable.

`PROJECT.json` lists every hazard at its line with the properties that guard it.

## Modules

| Module | Models | Extends |
|---|---|---|
| `RateLimitMap` | the map and every update of it, as operators on map values | |
| `MapTraffic` | abstract specification: the sequence of updates of the map, as its other users see it | `RateLimitMap` |
| `FetchSecret` | `/fetch`, `/trash`, sweeper, restart over the map, permits and rows | `MapTraffic` |
| `Attempts` | `/attempts`: the cached snapshot, its builds, and a caching proxy, over the map's traffic | `MapTraffic` |
| `TokenBucket` | one token bucket and its callers | |
| `SecretStore` | abstract specification: what stores, fetches and trashes promise about the rows | |
| `Database` | `/store`, `/fetch` and `/trash` on SQLite, statement by statement, permits, shutdown and kill; implements `SecretStore` | |
| `Migrations` | `run_migrations` on every database that a start may meet | |
| `Canary` | the warrant canary, its cache, and the operator who edits the dotenv file | |
| `Server` | start, `/info` and stop of a process | `Migrations`, `Canary` |
| `MCFetchSecret`, `MCAttempts`, `MCDatabase` | instances for TLC | `FetchSecret`, `Attempts`, `Database` |
| `RateLimitMapProofs` | lemmas about the operators; limits and counters of the map under any traffic | `MapTraffic` |
| `FetchSecretProofs` | types, phases of a request, permits | `FetchSecret`, `RateLimitMapProofs` |
| `FetchReservationProofs` | ownership of reservations | `FetchSecretProofs` |
| `FetchMapProofs` | `FetchSecret` implements `MapTraffic`; budget, capacity, charges, resets, answers | `FetchReservationProofs` |
| `AttemptsProofs` | types, age and order of snapshots, what they say | `Attempts`, `RateLimitMapProofs` |
| `DatabaseProofs` | types, permits, the row of a trash; `Database` implements `SecretStore` | `Database` |
| `ServerProofs` | types, the ledger, refusals, the canary | `Server` |
| `TokenBucketProofs` | types, grants, refusals | `TokenBucket` |

`FetchSecret` and `Attempts` meet in the map. Composing them action by action
would multiply their states, so they are composed through `MapTraffic`:
`FetchSecret` is shown to implement it, and `Attempts` is `MapTraffic` with
the polls added. `FetchSecret` and `Database` meet in the closure on the
blocking thread: one takes it as a single step (`Database(r)`, and `Write` for a
store) between the moment it gets a permit and the moment the permit is back;
the other splits that step into statements and shows, as a refinement of
`SecretStore`, that it is indeed one step for everybody else.

### RateLimitMap

An entry is a record with the fields of `RateLimitInfo`; the set of candidates
with their states is a function from authentication keys to `Absent`,
`Pending` or `Committed`. A missing key of the `HashMap` is `NoEntry`. The
hashes are taken as injective: an entry is found by the identifier itself, and
the tag `sha256(identifier + authentication_key)` is the pair of its inputs
(both have 64 characters, so the concatenation is unambiguous). `MaxAttempts`
is a `u8` of at least one and `MaxIdentifiers` at least one, as
`src/env.rs:95` and `src/env.rs:121` enforce. `CounterMax` stands for
`u64::MAX`, the value `total_requests` saturates at; that it is no less than
`MaxAttempts` is an assumption, without which a saturated counter could be
smaller than the number of candidates.

### FetchSecret

A request is a slot `r \in Requests` with up to three activities:

- `handler[r]`: the await the handler is suspended at: `requested` (mutex of
  the map, `fetch.rs:233`), `permit` (`:316`), `refund` (mutex, `:325`),
  `task` (join of the detached task, `:382`), `cleanup` (mutex, `:386`);
- `task[r]`: the detached task (`:347`): `blocking` while its closure is on a
  blocking thread and holds the permit, `finalizing` until it has updated the
  map, then `finished` or `panicked` until the handler has seen it;
- `deferred[r]`: the removal spawned by `Drop` (`:95`).

`job[r]` are the locals that survive across awaits: identifier, candidate,
route, `requested_at`, `is_new`, `generation`. The guard is not a variable: it
is armed exactly when `GuardArmed(r)`, which follows from where the handler is.
The mutex of the map is never held across an await, so each critical section
is one step; what waits for it is a state. The steps of a request:

| Action | Code |
|---|---|
| `Receive` | validation, lookup bucket granted, `requested_at` (`:202-231`) |
| `AdmitFull`, `AdmitLimited`, `AdmitPending`, `AdmitReplay`, `AdmitNew` | the critical section `:232-294`, one action per outcome, with expiry of the own entry, retain of a full map and counting of the request as part of each |
| `AcquirePermit` | permit, spawn and `disarm` (`:316-380`): no await between them |
| `PermitTimeout`, `Refund`, `PermitTimeoutReplay` | `:323-337`; the refund waits for the mutex with the guard armed |
| `Database` | the closure: lookup, or lookup and deletion, or an error or a panic of the closure (`:348-363`, `src/database.rs:138-168`) |
| `Finalize`, `TaskPanics` | `:360-375`, `:159-200` |
| `Respond`, `SeePanic`, `Cleanup` | `:382-452` |
| `CancelRemoves`, `CancelDefers`, `CancelUnguarded`, `DeferredRemoval` | the future is dropped: `Drop` with `try_lock` taken or not, or without an armed guard |

`Write` is the effect of `/store`, at any time. `SweepStamp` and `Sweep` are
the sweeper, whose stamp may be old when it gets the mutex. `Restart` stops
the process at any moment; only rows survive. `Tick` advances the clock, and
never beyond the route timeout of a request whose handler still lives: the
`TimeoutLayer` drops a handler before (`src/router.rs:20`).

Slots are reused only when everything the request started has ended; with
enough slots this excludes nothing. A request that the lookup bucket refuses,
or whose hashes are malformed, leaves no trace in this state and is left out.

Assumptions on the constants, checked by TLC in every run and used by the
proofs: `Cooldown >= 2 * RouteTimeout` (30 s in `src/router.rs:20`, at least
one minute by `src/env.rs:78`); the others say that limits are positive. The
clock is `chrono::Utc::now()`; it is modelled as one that never goes back. A
wall clock that is set back by more than a cooldown could give two windows of
one identifier the same generation; no model here covers that.

### MapTraffic

A lookup is one step that admits a request with a stamp at most `RouteTimeout`
old (`Lookup`), and later some step ends the reservation (`Settle`); `SweepMap`
uses any past stamp, `Forget` is a restart. `TrafficImplemented == MapSpec` in
`FetchSecret` is the refinement; the variables `now` and
`identifier_rate_limit` have the same names in both, so the mapping is the
identity on them and hides the rest. What makes it more than a projection:
the stamp of a request that has waited for the map must still be recent, and
an owner must still find its reservation in the window of its generation.

### Attempts

A poll is a slot `p \in Polls` with a handler and a closure on a blocking
thread. The lock of the cache is not a variable: it is held exactly while a
handler is at `map` or `build` (`CacheHeld`).

| Action | Code (`src/handlers/attempts.rs`) |
|---|---|
| `Poll` | the attempts bucket granted a token; waits for the cache (`:38-51`) |
| `Serve` | the cached snapshot is young enough: 200 or 304 with `max-age` (`:51-101`) |
| `StartBuild` | it is not: `build_snapshot` reads the clock and waits for the map (`:52-58`, `:107-110`) |
| `Collect` | the map is purged and copied, the closure is spawned (`:109-155`) |
| `ClosureEnds` | the bytes are ready and dated, or compression failed or panicked (`:144-154`) |
| `Publish`, `BuildFails` | the handler gets the result: cache and answer, or 500 (`:155-175`, `:57-62`) |
| `Cancel` | disconnection or route timeout; the lock is released, a closure goes on |

`Traffic` is every step of `MapTraffic` but `Forget`; `Restart` empties
everything that belongs to the process. `proxy` is external: a cache in front
of the server that keeps any answer for as long as its `max-age` allows, which
is what the header is for. A 304 refreshes a copy of the same content and is
not distinguished from a 200. `Second` and `Hour` are clock units in a second
(the unit of `max-age`) and in an hour (the precision of published times).
`stamp` (the `now` of the build) and `last_candidate_at` are kept in the
snapshot although no client sees them, because properties are about them. The
monotonic clock of `created_at` and the wall clock are one variable.

### TokenBucket

`try_consume` runs under the bucket's mutex and reads the clock there, so a
call is one step, `Grant` or `Refuse`; both refill first and move
`last_refill`. Amounts are whole quanta, `Token` of which make up a token, so a
refill that is no whole number of tokens per clock unit is covered; the
rounding of `f64` is not. `since`, `granted` and `last_grant` belong to an
observer who may begin to count at any moment (`Observe`), which makes
`GrantsBounded` a statement about every interval.

### SecretStore and Database

`SecretStore` is a table of secrets and, per call, whether it has had its
effect. A call has one effect at most, in one step at some moment between its
arrival and its end, and is answered as of that moment; a store never replaces a
secret, and a trash hands out the secret that it removes. A client that goes
away does not take its call back: the call is over when the server has ended
it. A store that has lost its client may therefore still land after a trash of
the same id has been answered; the code allows that, and so does `SecretStore`.

`Database` is the code. A call is a slot with a handler (`permit`: waiting for
the semaphore; `task`: waiting for its closure) and a closure, whose program
counter is `closure[r]`:

| Action | Code |
|---|---|
| `Receive` | `/store` validated and granted a token (`store.rs:18-79`); a lookup admitted (`fetch.rs:202-314`) |
| `Spawn`, `PermitTimeout` | `store.rs:87-114`, `fetch.rs:316-359`; what a refused lookup does to the map is `FetchSecret`'s |
| `Connect` | a blocking thread takes the closure up: `establish_connection` (`database.rs:115-124`) |
| `Insert` | `write`: `INSERT ... ON CONFLICT DO NOTHING`, a transaction of its own (`:126-136`) |
| `Select` | `read_secret_by_id` on behalf of `/fetch` (`:138-149`) |
| `BeginImmediate`, `TrashSelect`, `TrashDelete`, `Commit` | `read_and_trash_secret_by_id` (`:151-168`) |
| `StatementFails` | no connection, `busy_timeout`, I/O error, `deleted != 1`, or a panic of the closure: rolled back |
| `Respond` | `store.rs:118-145`, `fetch.rs:396-452` |
| `Cancel` | disconnection or route timeout: the handler is dropped, its closure goes on |
| `Sigterm`, `Exit`, `Kill` | graceful shutdown and crash (`main.rs:91-120`), followed by a restart |

External, modelled as the code uses them: SQLite in WAL mode (a reader sees the
last committed rows and waits for nobody; one writer holds the lock, from
`BEGIN IMMEDIATE` to the end of its transaction; a commit is atomic and survives
a kill), and tokio (a closure that runs on a blocking thread is waited for when
the runtime ends, one still in the queue is dropped). `busy_timeout` is not
measured: a statement may fail at any time, which includes five seconds without
the lock. `created_at` differs between two stores of one id and is part of what
`Secrets` tells apart. The mapping to `SecretStore` is the identity on the rows;
a call is pending as long as its slot is taken, and answered when its closure
has returned, which is the step that commits.

### Migrations, Canary and Server

`Server` is one process: `Start` (`env::init`), the steps of `Migrations`
(`init_db`), then `/info`; `Stop` at any moment, and the next start on the
database and the dotenv file as they are. The deployment is single-instance
(`README.md:190`), so no two starts overlap.

`Migrations` keeps of the database whether it has a table `secret`, with the
columns of migration 0001 or others, and what is in Diesel's ledger. It begins
with any database without a ledger, that is, a new file, a legacy one, or
another program's. `Probe` is `database.rs:46-73`, `Adopt` the transaction
`:75-88`; `SetupLedger` and `RunPending` are the two transactions of Diesel's
`run_pending_migrations`, external: the second fails if the ledger lacks 0001
and the table is there, for `up.sql` says `CREATE TABLE secret`.

`Canary` has the file as a content, a modification time, and whether all of it
parses. A content is a canary (perhaps with lines after it that do not parse),
no canary, or a line that does not parse before one is found (an unreadable file
is the same). A canary may be empty: with `CANARY=` in the file or in the
environment a server starts, and serves what it would if the line were removed
(`env.rs:166, 259-268`); without a `CANARY` none starts, so `canary` is `None`
before a first start only. A request takes two steps, `LookUp` (metadata,
`env.rs:214-229`) and `Read` (`:231-251`), between which the operator may edit
or remove the file; the cache's mutex is held for both, so one request is in
flight. Of lengths it only matters which contents have the same one
(`SameLength`). `now` is the clock of the file system, whose unit is the
granularity of modification times. `held` and `written` are history, for
`InfoFollowsFile`: the contents that the file had while the request was in
flight, and all those it was given within the tick of its modification time.
dotenvy, external, searches the working directory and those above it, and sets
variables line by line until one does not parse; then `env.rs:262` gets no path
from it and `:387` takes `.env`. For a file above the working directory
(`InWorkingDir = FALSE`) that is the path of no file: `followed` is false,
`/info` serves the start-up value whatever becomes of the file, and a removed
canary is masked, against `env.rs:257-259`. `InfoFollowsFile` therefore has
`followed` as its condition, and this is its one exception in the model.
An operator who puts an old file back together with its old modification time is
not covered: under equal metadata the code serves what it has cached. Whether
the environment has a `CANARY` is the same in all starts of a behaviour.

## Runs

| Run | What it asks | Bounds |
|---|---|---|
| `fetch_reservations` | Is every reservation settled once, by its owner, in its window? | 3 requests, 1 identifier, 2 keys, 2 attempts, 1 permit, cooldown 1, times 0..2 |
| `fetch_budget` | Does the budget hold, do charges last, does only a new candidate slide the reset? | 2 requests, 3 keys, 2 attempts, cooldown 2, route timeout 1, times 0..3 |
| `fetch_capacity` | Does the map keep to its capacity without empty entries, does it make room only by what has expired, and does it only see the updates of `MapTraffic`? | 2 identifiers, 1 place, both routes, 1 attempt |
| `fetch_liveness` | Does everything end, even with a panicking task? | 2 requests, 1 key, 2 attempts, arrivals until 1, times 0..4, no symmetry |
| `attempts_flight` | How old is what a reader gets, when may a snapshot replace another, and does every poll end? | 2 polls, empty map, TTL 4, second 2, route timeout 1, times 0..8, no symmetry |
| `attempts_listed` | Does what is published add up, and do identifiers disappear from it? | 1 poll, 1 identifier, 1 key, TTL, cooldown, second and route timeout 1, times 0..4 |
| `attempts_max_age` | (violated) Do copies end when the snapshot is rebuilt? | as `attempts_flight` |
| `attempts_single_flight` | (violated) Is there one closure at a time? | as `attempts_flight` |
| `attempts_window` | (violated) Is the last attempt published in its window? | as `attempts_listed`, an hour of 1 |
| `database` | Does every call have one effect at one moment, are permits conserved, do calls and shutdowns end? | 3 calls, 1 id, 2 secrets, 2 permits, no symmetry |
| `server` | Is every cut-off start recoverable, and is the canary that is served the one in the file? | 2 canaries that share their length with a removed one, an empty canary, a file above the working directory, times 0..1 |
| `token_bucket` | Are grants over any interval bounded, and is a call refused only when it must be? | 3 quanta in a token, 2 refilled per unit |

The bounds are `LastArrival` (no request arrives later), `MaxTime` (the clock
stops) and `CounterMax`. Times are just long enough for a window to expire, to
be replaced, and for an owner of the first to meet the second; three requests
are needed for an owner, its successor in the new window and a bystander. With
one permit every request meets an exhausted semaphore. Requests, identifiers
and keys are interchangeable, so the safety runs use symmetry. Deadlock is
checked in all runs (the sweeper and the callers of a bucket never stop, and a
process may always be started or killed).

In `attempts_flight` and the two runs like it the map is empty, because what it
holds has no influence on the cache; the TTL is two seconds of two units each,
so that a fraction of a second can remain, and there is time for a snapshot,
its replacement, and a build that is cancelled in between. `attempts_listed` is
about the contents instead, with one poll: the lookups, which may be stamped
late, are those of `MapTraffic`. In `token_bucket` three refills make two
tokens, so that a refused call always meets a fraction.

`database` has no counter to bound. One id is enough because rows of different
ids only meet in the write lock and the permits, which three calls of one id
contend for as well; two secrets tell a replaced or resurrected row from the
first one; with two permits the third call waits, and a trash and a store, or
two trashes, contend for the write lock meanwhile. In `server` two ticks of the
file system are enough for every pair of metadata and content that the cache can
meet: a modification time never comes back, so once its tick is over an entry of
the cache either is under the metadata of the file or never will be again; the
database has no bound.

Fairness (`FairSpec`): each request's own steps, the sweeper and the clock are
weakly fair. The tokio mutex and semaphore are fair queues, the wait for a
permit ends after a second, `busy_timeout` bounds the work on a blocking
thread, and `spawn_sweeper` loops for ever. Clients owe nothing: arrivals,
cancellations, writes and restarts are not fair.

`Database` has weak fairness for the steps of each call and for `Exit`. A
closure that waits for the write lock is never stuck, since its wait may fail,
as `busy_timeout` has it; the permit timeout does the same for handlers. The
runtime of a drained process ends when nothing is left to wait for. Nobody has
to send `SIGTERM`, to cancel, or to kill.

`Attempts` has weak fairness for the steps of a poll and of its closure, and
strong fairness for getting the lock of the cache: tokio's mutex queues its
waiters, so one that waits is served as long as the others let go, while weak
fairness would allow the lock to be taken past it for ever. Neither the clock
nor the sweeper is fair there: `PollsEnd` does not need them.

## Findings

Three sentences of the repository that the code does not keep:

- `src/handlers/attempts.rs:178` says that `max-age` is "rounded up to the next
  second so clients never cache past the rebuild". Rounding up does the
  opposite: a copy served while a fraction of a second remains is reusable for
  a whole one (`attempts_max_age`). The lag stays below one second, which
  `ReadersSeeRecent` includes.
- `README.md:315` promises "at most one rebuild per window, single-flight". A
  handler that is dropped while it waits for its closure releases the lock of
  the cache and the next poll spawns a second closure
  (`attempts_single_flight`). What is published is still a TTL apart:
  `SnapshotsAdvance`.
- `tests/test_adversarial.rs:1474` says that `last_attempt_at` is never before
  `window_started_at`. Requests stamp themselves before they wait for the map;
  two that are admitted in the other order, stamped on both sides of an hour,
  publish the contrary (`attempts_window`).

## Proofs

TLAPS checks the theorems below for all sets of requests, polls, identifiers,
keys, ids, secrets and canaries, and all values of the limits, within the named
assumptions of the modules. Every invariant and every action property of a
passing run is stated by one, and so are both refinements. The inductive
invariants were first checked by TLC on the instances of the runs.

**The map under any traffic** (`RateLimitMapProofs`). `TrafficInvariant`: every
behaviour of `MapTraffic` keeps `TrafficInv`, that is, types, what the counters
count (`MapCounts`: failures are among the committed candidates, and
`total_requests` is at least the number of candidates), and both limits
(`LimitsHold`). Every step but an admission shrinks the map; an admission adds
one candidate to a window that is not saturated, or one entry to a map that is
not full. The lemmas before it say what each operator may do to one entry
(`Moves`): keep its window and only go forward (`Advances`), let it lapse after
a cooldown (`Lapses`), or empty it with its last reservation (`Empties`).

**Requests** (`FetchSecretProofs`, `FetchReservationProofs`).

- `TypeCorrect`, `PermitsCorrect`. `TypeOK` bounds the permits by `MaxPermits`,
  which is not inductive; `BaseInv` adds the count of closures on blocking
  threads and `Phase`, which says which activities of a request exclude each
  other.
- `OwnerHoldsPendingCorrect`, `ReservationsDisjointCorrect`. Neither is
  inductive: an owner whose window has gone must not find a later window with
  its own generation. `ReservationInv` adds `Clocks` (every stamp is a past
  reading of the clock, at most `RouteTimeout` old while its handler lives, and
  `window_started_at` is at most `RouteTimeout` later than `last_candidate_at`)
  and `Holds` (an owner holds its reservation, or the clock has passed its
  generation by more than `RouteTimeout`). A window expires when a cooldown has
  passed since a stamp; a successor is stamped with at most `RouteTimeout` of
  delay; with `Cooldown >= 2 * RouteTimeout` the generations differ. With a
  weaker assumption the proof fails, and rightly so.
- `NoOrphanCorrect`: from the same invariant, nothing becomes pending but with
  an owner, and an owner goes only by settling.

**Requests and the map** (`FetchMapProofs`).

- `TrafficImplementedCorrect`: `FetchSecret` implements `MapTraffic`. From
  `Clocks` a request's stamp is recent when it is admitted, and from `Holds` the
  removal or finalization of an owner either finds its reservation in its
  window, which is a `Settle`, or changes nothing.
- `BudgetHoldsCorrect`, `CapacityHoldsCorrect`, `FailuresCommittedCorrect`: what
  `TrafficInvariant` says of every implementation of `MapTraffic`.
- `ChargeKeptCorrect`, `OnlyNewSlidesCorrect`, `ResetsAtHoldsCorrect`: each step
  of a request `Moves` the entries, and a window that lapses never has the
  generation of its successor.
- `AnswersChargedCorrect`. The property speaks of a finished task only; its
  invariant (`AnswersReady`) says for each moment of an admitted request what
  its answer will rely on. The window that a new candidate has stamped is still
  open, since it cannot lapse while the handler is younger than `RouteTimeout`,
  and from the finalization on its candidate is committed there. The candidate
  of a replay is committed as long as its window is there, and a window that is
  gone does not come back. No other request undoes that: a removal that empties
  an entry was the removal of the only candidate in it.

**Snapshots** (`AttemptsProofs`). `AttemptsTypeCorrect`,
`ReadersSeeRecentCorrect`, `ListedForgottenCorrect`, `TelemetryAddsUpCorrect`,
`SnapshotsAdvanceCorrect`, from `AttemptsInv`. To the map a build is one more
sweep, so `TrafficInv` holds here too; that a published entry adds up needs its
counters. `OneBuilder` is the exclusion of the cache's lock; `PollOK` says that
a poll is at most a route timeout old and that what it builds was begun after
it came, a TTL after the cached snapshot was ready. What is cached was ready
within a route timeout of its stamp (`CachedOK`), and a copy is fresh for the
TTL that is left, rounded up to whole seconds (`CopiedOK`): it is from the
rounding that `ReadersSeeRecent` has a second more than a TTL.

**Rows** (`DatabaseProofs`). `TypeCorrect`, `PermitsCorrect`,
`TrashHoldsRowCorrect`, `LinearizableCorrect`, from `DatabaseInv`. `Phase` says
how handler, closure and answer of a call fit together, and that the write lock
is with a trash exactly while its transaction is open; so no row changes between
its `SELECT` and its `COMMIT`. A step of `Database` is then a step of
`SecretStore`: the effect of a trash that finds its row is its `COMMIT`, of one
that does not its `SELECT`, of a store its `INSERT`, even if nobody waits for
it any more.

**Start-up and canary** (`ServerProofs`). `ServerTypeCorrect`,
`LedgerTrueCorrect`, `RefusesOnlyIncompatibleCorrect`,
`InfoFollowsFileCorrect`, from `ServerInv`. Beside the types, the first says
that no server gets beyond its configuration without a `CANARY`; an empty one is
one too. `Adopting` says what each step of a
start knows of ledger and table, and is what a cut-off start leaves true.
`Recorded` says that a cached canary is what the file may have been read with
under its metadata, or that this metadata will never be the file's again;
`Answered`, that a request which goes on to read has seen metadata no newer than
the file's, and will find one of the contents held since.

**Buckets** (`TokenBucketProofs`). `BucketTypeCorrect`, `GrantsBoundedCorrect`,
`RefusedEarlyCorrect`. The bound on grants is not inductive: it says nothing of
what is still in the bucket. `BucketInv` says that grants and the refilled
content together are within burst and refill, and that the refilled content is
the burst or at least what has been refilled since the last grant. With a burst
below one token, which `src/env.rs:142` accepts, a bucket grants nothing, hence
the condition in `RefusedEarly`.

Beside the ranges of the configuration, the assumptions are that the values for
nothing (`NoEntry`, `NoCall`, `NoSnapshot`, `NoFile`, `None`, ...) are none of
the values they stand beside, and that a canary is not one of the names of
contents without one. TLC evaluates all of them in the runs.

Only model-checked: the liveness properties `RequestsEnd`, `PendingEnds`,
`Forgotten`, `PollsEnd` and `ShutdownEnds`, which rest on fairness and are out
of the prover's reach, and the three sentences that the code does not keep,
whose counterexamples are TLC's.

## Not modelled

- Contents of answers: wording, JSON, headers. Which answer ends a request
  follows from the action that frees it.
- Hashing, hex and base64 validation, body limits, routing, logging.
- The order of the published list, its JSON and gzip, and the comparison of
  ETags: functions of the entries.
- The rounding of floating point in the buckets.
- Parsing of the configuration, its defaults and its deprecated aliases: the
  ranges it enforces are the assumptions on the constants.
- `attempt_status` and `Retry-After`: what is told to clients is computed from
  the entry at admission and changes no state. `ResetsAtHolds` is about the one
  field of it that may go back.
- WAL checkpoints, replication and loss of committed transactions.
- `src/schema.rs` (generated), tests, CI.

## Plan

Every component with behaviour of its own has a model, and every safety property
of a run a theorem. What is left says more about the same models:

1. An abstract specification of the budget (reserve, settle, refund, forget)
   that `MapTraffic` implements, and from it how many guesses are answered in an
   interval: `BudgetHolds`, `ChargeKept` and `AnswersCharged` suggest at most
   `MaxAttempts` new ones in any that is shorter than a cooldown by two route
   timeouts, which no run says as such.
2. The closure of `FetchSecret` against `SecretStore`: that `Database(r)` and
   `Write` take the effect of a call in one step is proved of `Database` and
   taken over in `FetchSecret`; a refinement of `SecretStore` by `FetchSecret`
   would join the two.
3. That `Attempts`, with the proxy left out, implements a cache that is rebuilt
   once per TTL.

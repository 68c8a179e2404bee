# TLA+ models of the ticketing back end

The repository is a Go service that sells a limited number of seats per event
under heavy contention: a Redis waiting room admits users a few at a time, an
admitted user reserves seats in a Postgres transaction and later confirms or
releases the hold, holds that run out are swept, and an admin API resets the
system and drives simulated crowds through it. Several replicas of the service
share one Postgres and one Redis.

This directory holds TLA+ modules translated from that code, TLC
configurations that check them on small instances, and TLAPS proofs of their
main safety properties for every value of the constants. `PROJECT.json` maps
every definition to the lines it models.

Source paths below are relative to `src/backend/` unless they start with
`docs/`.

## 1. Inventory

| Component | State | Operations | Talks to |
|---|---|---|---|
| Reservation store, `repository/reservations/postgresReservationRepository.go` | tables `events` (capacity, max_reserve_per_user) and `reservations` (user, quantity, key, status, expires_at), row locks | reserve (FOR UPDATE, SUM, INSERT ON CONFLICT, COMMIT), confirm/release (one guarded UPDATE), sweep (one UPDATE over lapsed holds), lookup by key | called by the reservation repository; capacity changed and rows deleted by the admin handlers |
| Reservation repository and service, `repository/reservations/main.go`, `service/reservations/main.go` | none of their own | ReserveEvent, Confirm, Release; release of the admission slot on every terminal path | store, sold-out flag, idempotency cache, waiting room, event cache |
| Sold-out flag, `lruReservationRepository.go`, `remoteCacheReservationRepository.go` | per-replica LRU (128 events, 5 s) and one Redis key (15 s) | BlockEvent, UnblockEvent, IsBlockEvent (copies Redis into the LRU), ClearBlockedEvents | set by a capped reserve, cleared by release, sweep and admin |
| Expiry sweep, `repository/reservations/main.go` | a Redis lock with a time to live | every minute: lock, UPDATE, unblock each event returned, unlock | store, flag |
| Process, `main.go`, `repository/main.go` | connection pools, two tickers, the requests in flight | start, serve, shut down with a deadline, close the repositories in order | everything below it |
| Waiting room, `repository/virtualqueues/*.go` | per event: ZSET of waiting users, heartbeat keys, whitelist hash with field TTLs, gate override; the set `active_events` | four Lua scripts (enqueue, dequeue, ping, tryWhitelist), untrack script, single commands; promoter ticker | called by the queue service, the reservation service and the simulator |
| Queue service and handlers, `service/virtualqueues/main.go` | none | Enqueue, Dequeue, Ping | waiting room |
| Event repository, `repository/events/*.go` | Redis cache of event rows | cache-aside GetEvent with singleflight, asynchronous SetCache, InvalidateCache | store |
| Admin handlers, `handler/admin/*.go` | none | simulate, snapshot, cancel, stream, reset, mint | registry, store, Redis, flag |
| Simulation registry and runner, `simulation/*.go` | runs by id and by event; per run ten counters and a semaphore | Start, HasActiveRun, Cancel, forget; one goroutine per simulated user; Snapshot | services directly, or the handlers over HTTP |
| Users, auth, logging, health, configuration, seed, migrations, dashboard | users table and cache, JWTs | single statements, stateless filters, start-up, display | - |

What is hard in it, and therefore what the properties are about:

* **Two clocks of one transaction.** In Postgres `now()` is the time a
  transaction *began*. Reserve, confirm and sweep compare `expires_at` with it
  at different times and under different locks.
* **Lock scope.** Reserve locks the event row; confirm, release and sweep lock
  only reservation rows. Their effect on a reserve's SUM that is already taken
  has to be harmless in one direction.
* **Retries.** An acknowledgement can be lost after a commit; the key, the
  unique index, the Redis cache and the lookup together must answer the retry
  with the same reservation.
* **Several Redis commands that are not one.** Enqueue is check, script, SADD,
  script; the promoter is SMEMBERS, ZCARD, (untrack,) HLEN, GET, script. Any
  other caller runs in between, any command fails, any process dies.
* **Times to live as logic.** Heartbeat, queue score, slot, flag and LRU entry
  run out independently of each other.
* **Flags set after the fact.** BlockEvent runs after the commit it reports and
  can be overtaken by the UnblockEvent of a later release.
* **Admin operations under load.** Capacity changes, deletes and FLUSHDB hit
  calls that are half done.
* **A lock with a time to live.** The sweep lock is held across a crash, its
  answer or its release may be lost or late, and FLUSHDB takes it away.
* **Going down.** Shutdown has to end although streams are open and ticks are
  running, without closing the pools under those who still use them.
* **Counting from outside.** The simulator learns what happened from answers that
  may be late or lost, over two transports, and reports it in snapshots that are
  not atomic.

The full list, line by line, is under `hazards` in `PROJECT.json`, each with the
properties that would catch it.

Properties that make each component correct:

* store: no seat is sold twice, no user exceeds the quota, a key is charged
  once, a hold is settled once and every lapsed hold is settled;
* waiting room: the gate is never exceeded by an admission, no live waiter is
  lost or passed over, a queue is always known to the promoters, a free slot
  does not stay free next to a live waiter;
* reserve endpoint: a key names one reservation whichever path answers it, and
  the flag never refuses an event with free seats for ever;
* event cache: a copy is outdated for a bounded time, and a shared load does not
  depend on the caller that happened to start it;
* simulator: one live run per event, its gate is neither left behind nor taken
  away, every simulated user ends in one outcome counter and every run ends; the
  counters tell the truth about what was sold, over either transport;
* process: two sweeps never overlap, a lock without an owner goes away, a shutdown
  ends, and neither a tick nor an accepted request finds the pools closed.

## 2. Modules

| Module | Models | Status |
|---|---|---|
| `SeatSales` | the abstract specification of the store: atomic sales | refined by `Reservations`, proved |
| `Reservations` | the reservation store, every transaction split where another session may run | checked, proved |
| `ReservationsProofs` | its theorems about seats, quota and status | proved |
| `ReservationsRefinement` | its theorems about keys and replies, and the refinement of `SeatSales` | proved |
| `VirtualQueue` | the waiting room of one event, queue service, promoter | checked, proved |
| `VirtualQueueProofs` | its theorems | proved |
| `ReserveService` | the reserve endpoint on several replicas: flag, cache, lookup, transaction, unblocking | checked, proved |
| `ReserveServiceProofs` | its theorems | proved |
| `EventCache` | the row of an event, its cache entry, shared loads and detached cache writes | checked, proved |
| `EventCacheProofs` | its theorems | proved |
| `Simulation` | the registry, the simulate and reset handlers, the runner and its users | checked, proved |
| `SimulationProofs` | its theorems | proved |
| `Clients` | from a service's answer over a transport to the counter of a simulated user: status codes, the HTTP client, the engine's classification | used by `LoadTest` |
| `LoadTest` | one run as its counters tell it, with lost and late answers and a reader of its snapshots | checked, proved |
| `LoadTestProofs` | its theorems | proved |
| `Server` | the processes: start, shutdown, crash, tickers, the sweep lock | checked, proved |
| `ServerProofs` | its theorems | proved |
| `MCReservations`, `MCVirtualQueue`, `MCReserveService`, `MCEventCache`, `MCSimulation`, `MCLoadTest`, `MCServer` | symmetry sets for TLC | |

Each module is about one event. Events do not share rows, row locks, queue keys
or flags; the only shared structures are `active_events`, whose membership is
per event, and the LRU, whose eviction of an event is the step
`ClearBlockedEvents`.

### Reservations

| Model | Code |
|---|---|
| `rows`, `capacity` | tables `reservations` (committed state) and `events` |
| `eventLock`, `rowLock` | row locks held to the end of a transaction |
| `reserve[p]` at `begun`, `locked`, `summed`, `inserted`, `returned` | ReserveEvent after BEGIN, after SELECT ... FOR UPDATE, after the SUMs and checks, after INSERT ... ON CONFLICT, after it answered |
| `update[p]` | UpdateReservation: UPDATE with its WHERE, then COMMIT |
| `sweep[s]` | RefreshEventStatus: the statement's snapshot of lapsed rows, row after row, COMMIT |
| `ReserveAbort`, `UpdateAbort`, `SweepAbort` | context deadline, connection loss, dead process |
| the lost acknowledgement in `ReserveCommit` | COMMIT succeeded, the caller sees an error |
| `SetCapacity`, `DeleteReservations` | `UPDATE events SET capacity` and `DELETE FROM reservations` of the simulate handler; the TRUNCATE of a reset is a DELETE that waits for more |
| `ceiling`, `late` | history: the largest capacity given; rows confirmed after they had lapsed |

A SUM over rows is the number of pairs (row, seat number): the same number, and
one about which the library's theorems on finite sets can speak. The clock
stops at `MaxTime`.

### SeatSales

What the store promises to those who call it, without transactions, locks and
clocks: a book in which reserve, confirm, release, sweep, delete and capacity
change are one step each. Time appears as a change of status: a hold that ran out
is `lapsed`, a confirmation that took effect after that is `overdue`, and neither
counts when a seat is sold. `Sell` looks at the quota, the capacity and the key at
the moment of the sale. `Reservations!Book` is the refinement mapping: the
committed rows, with `lapsed` and `overdue` read off the clock and `late`. Begin,
locks, SUM, INSERT, aborts and lost acknowledgements stutter; only COMMIT (and the
clock) moves the book. Confirms that straddle the end of their hold are steps of
`SeatSales` too: that they exist is the finding, that they are the only deviation
from plain sales is what the refinement says.

### VirtualQueue

`queue` is the ZSET in score order; `life[u]` is the number of seconds until the
score given to `u` has passed, so a score is comparable and the clock needs no
bound. `heartbeat[u]` and `whitelist[u]` are remaining times to live. A script
or a single command is one step. `Scanned(n)` is the closed form of the
script's batches: it takes users off the head until `n` of them were alive.
`call[c]` is a service call between two commands, `promoter[p]` a promoter with
what it has read so far. `CallAbandoned`, `EnqueueTrackFails` and
`PromoterFails` are the failing commands, deadlines and dead processes.
`SetOverride` and `FlushDB` are the simulator and the reset.

### ReserveService

`request[c]` walks through `ReservationService.ReserveEvent` one command at a
time: LRU, Redis flag, copy into the LRU, idempotency cache, lookup, slot check,
transaction, BlockEvent (LRU, then Redis), cache write, slot release. The
transaction is atomic here (its interleavings are the subject of
`Reservations`), the slot itself is `VirtualQueue`'s: the check may go either
way. `clearer[s]` is a release or a sweep between its commit and the two halves
of UnblockEvent. Deleting rows is left to `Reservations`, FLUSHDB is the time to
live of everything at once. All requests are for one seat, so the answer 403 (a key reused
with another quantity) does not occur.

### EventCache

| Model | Code |
|---|---|
| `row`, `cache` | the row in `events`, the key `event:id:<id>` with its remaining time to live |
| `flight[n]`, `waiting[n]` | the singleflight call of a process, and the callers in its `select` |
| `Miss`, `GiveUp` | GetEvent after a failed GET: joins or starts a load; `ctx.Done()` |
| `Query`, `Reply`, `LoadFails` | the statement sees the row, its answer is delivered, or the deadline taken over from the first caller passes |
| `writes`, `SetCache`, `SetCacheFails` | the goroutines that write the cache, each until it landed or failed |
| `SetCapacity`, `Invalidate`, `Truncate`, `FlushDB`, `AdminFails` | simulate's UPDATE and InvalidateCache, reset's TRUNCATE and FLUSHDB |
| `age` | history: seconds since the row last had a value, up to `TooOld` |

A cache hit changes nothing and is no action; what it answers is `cache`. What a
process does between two awaits takes no time. `WriteTTL` is how long a cache write
may take. The context of SetCache has 2 s, but the Redis client is configured with an
address only (`repository/main.go:116`) and does not hand the context's deadline to
its socket: a SET that was sent may land after 2 s, within the client's own read
and write timeouts and retries. `BoundedStaleness` is proved for every `WriteTTL`; the 2 s of
the run are a small instance, not the code's figure.

### Simulation

`request[h]` is a simulate or reset request: check, tables, FLUSHDB, Start. The
registry's methods hold its mutex and are one step each. `run[r]` is the method
`Run` (set the gate, launch, wait, clear the gate, done), `user[r][u]` the
goroutine `runUser`. The calls a user makes are steps of `VirtualQueue` and
`ReserveService`; here each has any of its results. `counted` is the sum of the
outcome counters, `override` the gate in Redis named after the run that set it.
Runs of other events appear as `FlushElsewhere`. Histories: `hit` (the runs that
were live when a request changed tables or Redis), `stray` (a gate whose clearing
failed), `flushed`.

### Clients and LoadTest

`Simulation` is about how runs overlap; `LoadTest` is about what one of them
reports. `Clients` has the handler's choice of a status code (`EnqueueResponse`,
`PingResponse`, `ReserveResponse`), the HTTP client (`Failed`, `EnqueueTTL`,
`PollStatus`, `Translated`) and the engine's branches (`AfterEnqueue`,
`AfterPoll`, `AfterReserve`, `Classify`), and composes them per transport. Times
to live are in half seconds, since ping reports whole seconds and the client
repairs the zero of a slot in its last one.

`user[u]` is `runUser`; `counter` the ten atomics (the engine adds to `enqueued`
and `admitted` one after the other, here in one step; nothing is said about them
but their bound). `ReserveServed` is the service's answer with or without a sale,
`ReserveAnswered` its arrival; between them, and before, the user's context may
end or the connection break. What then remains at the server is `pending`, and
`ServedLate` may sell it. `stream` is a reader that loads the seven outcome
counters one by one and `done` last. Histories: `truth`, the counter the
service's answer leads to in process; `counted`; `settled`.

### Server

| Model | Code |
|---|---|
| `phase[p]` | how far `main.run` and `Repositories.Close` are: serving, draining, stopping the promoter, then the sweeper, closing the pool, closing Redis |
| `forced[p]` | history: Close runs although requests may be in flight (Shutdown's 30 s, or ListenAndServe failed) |
| `promoter[p]`, `sweeper[p]` | the two ticker goroutines: in `select`, or in a tick; the sweeper with the rest of its context, the argument of SET NX and its token |
| `job` | requests (Shutdown waits for them) and simulation runs (nobody does), working, holding a connection, or refused by a closed pool |
| `lock`, `unlocks` | the Redis key with its time to live; unlock scripts on their way |
| `TakeLock`, `LockFails`, `Unlock`, `LateUnlock` | SET NX with and without its answer, its failure, the script executed now, later or never |
| `FlushDB`, `robbed` | the admin handlers' FLUSHDB; history: the sweeps whose lock it took |

The two stops are sends on unbuffered channels: a step of Close and of the ticker
goroutine together, possible only while that goroutine is in its `select`. What the tick does
is in `VirtualQueue` and `Reservations`.

External parts, modelled from how the code uses them: net/http (Shutdown), pgxpool
(Close waits for connections, refuses new ones), Postgres (READ COMMITTED,
row locks, re-evaluation of a waiting UPDATE's WHERE, `now()`), Redis (scripts
are atomic, ZSET order, expiry), the clock.

## 3. Runs

| Run | Question | Instance |
|---|---|---|
| `reserve_race` | last seat: two reserves, a confirm or release, a sweep, keys, aborts, lost acknowledgements | 2 users, 1 key, 2 rows, capacity 1, TTL 1, time 0..1 |
| `reserve_settles` | two reserves of one user at once: the quota and a moving capacity; does the store implement `SeatSales`; are lapsed holds settled | 1 user, 2 reservers, 1 updater, 1 sweeper, quantity 2, capacities 1 and 4, quota 2, 2 rows, time 0..1 |
| `confirm_straddles_expiry` (violation) | `docs/api.md:156` | 2 users, 2 rows, capacity 1 |
| `queue_races` | all interleavings of the waiting room; is a free slot filled | 2 users, 1 call, 1 promoter, gate 1 or 2, slot 1 s, heartbeat 2 s, queue 3 s |
| `queue_limbo` (violation) | `docs/architecture.md:178` | 2 users, 2 calls, 1 promoter, queue 2 s |
| `service_races` | one reservation per key on every path; does a stale flag go away | 1 user, 1 key or none, 2 requests, 1 clearer, 1 replica, times to live 1 |
| `service_replay` (violation) | `docs/api.md:150` | 2 requests, 1 key |
| `event_cache` | loads, late cache writes and invalidations against each other | 2 row values, 2 processes, 2 callers, 1 admin request, load 2 s, write 2 s, entry 1 or 2 s |
| `simulation_runs` | overlapping requests and runs, ends, cancellations, flushes | 2 requests, 2 runs, 2 users, 1 worker |
| `simulate_duplicate` (violation) | `docs/api.md:236`, `docs/load-testing.md:36` | 2 requests, 2 runs, 1 user |
| `load_test` | do the counters tell what happened, over both transports; do snapshots add up; does the stream end | 2 users, 1 worker, a cancellation |
| `server` | sweeps under the lock, shutdown, crash, restart | 2 processes (one serves, both sweep), 1 request, 1 run, tick 1, margin 1, 3 tokens, 1 late unlock |

Why these bounds are enough for the cases they are meant for: an oversell needs
two sales of one seat and at most one hold that changes state in between, so two
rows and two reservers beside one updater and one sweeper contain it; an excess of
the quota needs two reserves of one user of which each fits alone and both do not,
as two of quantity 2 under a quota of 2 that a capacity of 4 has room for, while a
capacity that falls to 1 has room for neither; every expiry is before, at or after the comparison, which a TTL of one
tick and two or three instants show. In the waiting room, two users are one who
waits behind another; the times to live are pairwise different in
`queue_races`, so each key can run out before each other; a gate of 1 with an
override of 2 lets the gate fall below what is admitted. One call beside the
promoter already interleaves two promotions and an enqueue, and an enqueue whose
slot check is overtaken by an admission; the violation uses two calls. In `event_cache` two processes have loads and writes of
different values that overtake each other. In `simulation_runs` two runs are
one that ends and is forgotten while its successor is under way, and two users
contend for one worker; so do those of `load_test`, where one user's end falls
between any two loads of a snapshot. In `service_races` one user with two requests
contains the races on a key, the flag and the last seat; a second replica differs
from the first by an LRU of its own, which nobody else clears: `ClearerDies`
(unblocking that never happens here) is what it sees. With two users or
replicas the run no longer ends in a few minutes. In `server` a tick of 1 and a
margin of 1 let the lock run out before, with and after its sweep's deadline, and
three tokens are one in the key, one in a process and one in a late unlock. The proofs below remove the bounds for the properties
they cover.

Deadlock is checked in every run.

### Fairness

* `Reservations`: each session that can take its next step does (every call runs
  under a context deadline); a sweep that waits for a row gets it (strong
  fairness per row: Postgres queues the waiters of a row lock); the ticker starts
  sweep after sweep, and from some time on they are not aborted. Without the last
  assumption a sweep that always hits its 30 s limit settles nothing, in the code
  too.
* `VirtualQueue`: time passes, calls end, the ticker fires for ever, and from some
  time on its commands succeed, it reads the gate that is set, and no simulation
  changes the gate. Nothing is assumed of the users or of inline
  promotions: the promoter alone must fill a free slot.
* `ReserveService`: time passes and calls go on or are cut off. Nothing is assumed
  of the unblocking, which may always be lost.
* `Simulation`: the goroutine of `Run` goes on, and the context of every simulated
  user ends at last (`UserTimeout`). Nothing is assumed of admission, of answers or
  of the semaphore.
* `LoadTest`: the same for its users, and the goroutine of the stream goes on.
  Nothing is assumed of the stream's client.
* `Server`: the clock runs; every call of a tick, every query and Shutdown have a
  deadline and end; a stop that keeps being offered is taken (strong fairness: a
  Go `select` picks at random among the cases that are ready, so a ticker that is
  always ready cannot starve it). No fairness for requests: a stream may stay for
  ever. No process need start.
* `EventCache`: no liveness is stated. Time passes or not; the bounds are safety.

## 4. What the runs show

Passing: `TimelyNoOversell`, `TimelyQuota`, `SalesFitCapacity`, `OneRowPerKey`,
`RepliesAreDurable`, `SettledOnce`, `LapsedHoldsAreSettled`, and the refinement
`StoreSellsAtomically` (store);
`AdmissionsFitGate`, `LiveWaitersAreQueued`, `SeniorityRespected`,
`OnlyEnqueueRequeuesHolder`,
`QueuedEventIsTracked`, `QueueInOrder`, `FreeSlotIsFilled` (waiting room);
`KeyNamesOneReservation`, `BlockIsTemporary` (endpoint); `BoundedStaleness`,
`OnlyOwnCancellation` (event cache); `OneLiveRun`, `GateFollowsRun`, `Accounted`, `RunEnds` (simulator); `SameBreakdown`,
`CountersTellSales`, `SettledSnapshotAddsUp`, `StreamEnds` (load test);
`SweepsExclude`, `OrphanLockEnds`, `TicksFindPoolsOpen`, `DrainSparesRequests`,
`ShutdownEnds` (process); a type invariant each.

Disagreements between code and docs with a run whose property is what the doc says:

1. **A confirm can oversell** (`confirm_straddles_expiry`). UpdateReservation
   compares `expires_at` with the start of its transaction and does not lock the
   event. A confirm that began just before the expiry and commits after a reserve
   that began just after it brings back a seat that has been sold again.
   `TimelyNoOversell` says that this is the only way.
2. **Polling keeps a user out** (`queue_limbo`). Ping renews the heartbeat and not
   the score. After QUEUE_TTL the next enqueue, whoever makes it, purges the user, who is told "still
   queued", is never admitted, and is refused by enqueue as long as the polling
   goes on. `LiveWaitersAreQueued` says that nothing else loses a live waiter.
3. **The buyer of the last seat cannot retry** (`service_replay`). The sold-out flag
   is looked at before the idempotency key.
4. **A refused simulate damages the live run** (`simulate_duplicate`). The handler
   checks, then prepares, then calls Start, which checks again. Two requests pass the
   first check; the loser resets tables and Redis under the winner's run before it gets
   the 409 that `docs/api.md:236` says comes first. `OneLiveRun` says that Start at
   least never starts both.

Three more disagree with the docs and happen in the passing runs, where a property
says how far they go:

5. **A holder is queued again** (`queue_races`). `docs/api.md:89` calls enqueue
   idempotent for a holder of a slot, but Enqueue checks the slot and queues in two
   commands; an admission in between, by the ticker or inline, deletes the heartbeat
   that would have stopped the second, and the holder waits for another slot.
   `OnlyEnqueueRequeuesHolder` says that nothing else, in particular no promotion,
   makes a holder wait.
6. **The time to live does clear blocks** (`service_races`).
   `docs/architecture.md:205` says of the flag's time to live that "it should never be
   the thing that actually clears a block". But BlockEvent runs after the commit it
   reports and outside any lock. A release that commits and unblocks in between is
   overtaken, and the flag stays on an event with a free seat although no unblocking
   was lost. `BlockIsTemporary` passes because of the time to live alone; without it
   the flag would stay until another seat is freed.
7. **The frame that says done need not add up** (`load_test`). `docs/api.md:261` says
   that the outcomes equal `totalUsers`. Snapshot loads `done` after the counters; a
   user who ends in between is in none of them, and that frame is the stream's last
   one, which the dashboard keeps. `SettledSnapshotAddsUp` is about snapshots begun
   after the end, `StreamEnds` only about the end of the stream; neither says that the
   last frame adds up.

Two weaker promises are part of the passing properties: seniority is in whole
seconds (equal scores are ordered by user id), and a queue whose SADD was lost
(`lost`) is excepted from `QueuedEventIsTracked` and `FreeSlotIsFilled`, which
is about each waiting user by itself.

What the wording of the simulator's and the cache's properties leaves out is what
the code does not give:

* FLUSHDB of a simulation of another event hits a live run of this one, since the
  check of simulate looks at one event (`FlushElsewhere`); only reset looks at all.
  That is why `GateFollowsRun` excepts a flush. It also excepts a gate whose SET or
  DEL reported an error (`stray`), which stays without a time to live. What it does
  show is that the end of one run and the start of the next cannot mix up their gates.
* The outcome counters add up to `started`, and to `totalUsers`
  (`docs/api.md:261`) only if the run was not cancelled during the launch and could
  set its gate.
* `client.go` says both transports "produce the same breakdown". What differs, and
  `SameBreakdown` excepts, is a service that gave up: in process its context error
  counts as timed out or cancelled, over HTTP the response (504, or 400) counts as
  an error. And a user whose answer was late may hold a seat while it is counted as
  timed out, cancelled or an error (`CountersTellSales`): the sum of the rejections
  is safe, the sum of reserved is a lower bound of the sales.
* FLUSHDB removes the sweep lock under a running sweep, and the next process may
  sweep beside it (`robbed`). In `Reservations` overlapping sweeps do no harm.
* A simulation run is not a request: Shutdown does not wait for it, and it finds the
  pools closed.
* The snapshot compares seats sold with a cached capacity, so `oversold` can be
  wrong for as long as `BoundedStaleness` allows.
* A caller that joins a load near the end of the first caller's deadline gets that
  deadline's error, with time of its own left: `OnlyOwnCancellation` excepts it.

## 5. Proofs

All theorems hold for every value of the constants that satisfies the `ASSUME`s
of the modules: capacities, quota, quantities and times to live are positive
numbers (the schema and `config.go` enforce it), `RowId` and `User` are finite,
sessions of different kinds are different; the simulated users are finitely many,
there is a reserve worker, the lifetimes of cache entries have a largest; the
processes that serve requests are among the processes, requests are not runs, and
the values for "no row", "no key" and "no one" are none of the rows, keys, tokens
and processes. Nothing else is assumed.

`ReservationsProofs`:

* `TypeCorrect`, `StatusIsFinal` (`SettledOnce`), `NoTimelyOversell`,
  `NoTimelyQuotaExcess`, `EverySaleFits` (`SalesFitCapacity`).
* `TimelyNoOversell` is not inductive: between SUM and COMMIT the decision to
  sell rests on numbers read earlier. The invariant has three layers.
  `TypeInv` is types plus what program counters say of a transaction's fields.
  `LockInv` says who holds the event row, that the capacity read under it cannot
  change, that a fresh row is still absent, and that a row locked for a change of
  status is still a hold. `SaleInv` carries the argument: while a transaction is
  between SUM and COMMIT the timely seats are at most what it summed. Time,
  confirm in time, release, sweep and delete can only lower them, another reserve
  needs the event lock, and a late confirm adds a row to `late`. Then the check
  `active + quantity <= capacity` bounds the sum after the commit.
* The lemmas about SUM: finiteness, monotonicity in the set of rows, and that one
  more row adds at most its quantity.

`ReservationsRefinement`, on top of it:

* `KeyIsChargedOnce` (`OneRowPerKey`), `RepliesStayTrue` (`RepliesAreDurable`),
  `StoreRefinesSales` (`StoreSellsAtomically`).
* The invariant has one more layer, `KeyInv`. `InsertInv` is what a transaction
  between INSERT and COMMIT knows of the table: a fresh row's key is carried by no
  row (whoever could claim it needs the event lock), and a row found by ON CONFLICT
  is still there, locked, so what is then told is true. `SweepInv`: a sweep only holds
  rows that ran out, so it expires what is `lapsed` in the book and nothing else.
* The refinement is proved step by step (`StepRefines`). COMMIT of a reserve is `Sell`
  (`CommitSells`): the checks made on the sums at SUM time still hold at COMMIT, since
  the seats in force are the timely ones (`InForceIsTimely`) and `SaleInv` bounds those
  by what was summed, and the key is free by `InsertInv`. Confirm and release restate a
  row (`UpdateRestates`), a sweep's COMMIT expires (`SweepExpires`), a tick lets holds
  lapse (`TickLapses`), deleting empties the book; every other step leaves it unchanged.

`VirtualQueueProofs`:

* `TypeCorrect`, `QueuesAreTracked` (`QueuedEventIsTracked`), `GateHolds`
  (`AdmissionsFitGate`), `QueueStaysInOrder` (`QueueInOrder`), `NobodyIsLost`
  (`LiveWaitersAreQueued`), `NobodyIsPassedOver` (`SeniorityRespected`),
  `NobodyElseRequeues` (`OnlyEnqueueRequeuesHolder`).
* The invariant is `TypeOK`, that a call about to run its script has a user, and
  `QueuedEventIsTracked` itself, which is inductive because the script that fills
  a queue leaves its call at "track" and the untrack script looks at the queue
  again.
* The gate rests on `AdmittedBound`: the scan admits at most `n` users. The live
  places it takes have a largest element (well-foundedness of `<`), and all
  others are among the fewer than `n` live places before it. With `GrantBound`
  (the script recomputes the room) any stale `desired` is harmless.
* The order rests on `OrderInv`: the queue is sorted by score, without duplicates,
  and complete (`LiveWaitersAreQueued`). The lemmas say of each script what it does to
  the sequence: an enqueue puts its user behind all older scores and by
  user id among equal ones, a purge, a removal and a scan keep the order of what they
  leave. Seniority follows: the scan
  takes a prefix, so whoever of the living stays behind has a later or an equal score.
* `OnlyEnqueueRequeuesHolder` needs the absence of duplicates: whom a promotion admits
  it takes off the head, and they are at no other place. Of the other scripts only an
  enqueue adds to the queue, and only its own user (`EnqueueRequeues`).

`EventCacheProofs`:

* `TypeCorrect`, `StalenessIsBounded` (`BoundedStaleness`), `LoadsOutliveCallers`
  (`OnlyOwnCancellation`).
* The bound on the entry needs the bounds on what it comes from. What a load has
  read has aged at most as long as the load's deadline has run (`ReplyInv`); what a
  goroutine is about to write, that and the time since (`WriteInv`); the entry, that
  and its time in the cache. A tick moves one second from each remaining time to
  the age, so the sums stay. Invalidations play no part in the argument: the bound
  also holds if each of them is lost or overtaken.
* `OnlyOwnCancellation` needs `WaitInv`: a caller waits in one process.

`SimulationProofs`:

* `TypeCorrect`, `RunsExclude` (`OneLiveRun`), `GateIsOwned` (`GateFollowsRun`),
  `EveryUserIsCounted` (`Accounted`).
* `OneLiveRun` carries the others: the run that sets or clears the gate is the only
  live one, so it is its own gate. `GateInv` adds that a gate was set by a run that
  has one. `CountInv` says that the counters are the cardinalities of the sets of
  users born and over, `PhaseInv` what `launch`, `wait` and `done` say of these
  sets; together they are `Accounted`.

`ReserveServiceProofs`:

* `TypeCorrect`, `KeysAreIdempotent` (`KeyNamesOneReservation`).
* The answers of a key come from three places at three moments, so the invariant
  makes each of them point to the table. `IndexInv`: the unique index, and that a row
  that is not there has no key. `RequestInv`, `CacheInv`, `ToldInv`: the row a request
  carries, the row the cache holds and every row ever told for a key is the index's
  row of that key. Rows keep user and key for ever (`Keeps`), whatever becomes of their
  status, so none of the three goes stale; flags and unblocking play no part.

`ServerProofs`:

* `TypeCorrect`, `SweepsAreExclusive` (`SweepsExclude`), `PoolsOutliveTicks`
  (`TicksFindPoolsOpen`), `RequestsAreSpared` (`DrainSparesRequests`).
* `SweepInv`: that nobody else sweeps follows from who owns the key. `OwnInv` says
  that a sweep that was not robbed owns it and that the key outlasts the sweep's
  context. It needs `TTLInv` (the time to live asked for is read off the context plus
  the margin, and time spent before SET NX only shortens the context) and `TokenInv`
  (no two sweeps, and no unlock under way, have the token of a running sweep, so no
  script deletes its key).
* `LifeInv`: `PhaseInv` says which goroutines are off in which phase of Close,
  `DrainInv` that a request in flight sits in a process that serves, drains or was
  forced.

`LoadTestProofs`:

* `TypeCorrect`, `TransportsCountAlike` (`SameBreakdown`), `CountersAreHonest`
  (`CountersTellSales`), `FinalSnapshotAddsUp` (`SettledSnapshotAddsUp`).
* First lemmas about `Clients`, by cases of the service's answer (`EnqueueLeads`,
  `PollLeads`, `ReserveLeads`): over either transport a call leads to the same place,
  but for the excepted errors. Then the shape of a step: one user moves and is counted,
  waits, starts, or moves on uncounted (`Moves`).
* `SeatInv` is stronger than `CountersTellSales`: before it asked, a user has no seat
  and no reserve pending; one with an answer on its way has what the answer says; a user
  that gives up while asking may have either, and ends in none of the counters the
  property speaks of.
* `CountInv` says that a counter is the cardinality of the set of users counted in it
  (for `started`, with those not born, all), `RunInv` that the users of a run that is
  done have ended or were never started. `StreamInv` is the invariant of the reader's
  loop: its sum is at most the number of users counted in the counters loaded so far,
  and exactly that if the run was done when it began, for then nobody moves. After the
  seventh load these are the users that ended.

Only model-checked: liveness (`LapsedHoldsAreSettled`, `FreeSlotIsFilled`,
`BlockIsTemporary`, `RunEnds`, `StreamEnds`, `ShutdownEnds`, `OrphanLockEnds`), which
is out of the prover's reach, and the four violations of section 4, which need an
instance. Every other property of a run, and the refinement, is a theorem.

## 6. Not modelled

* Creating and listing events: single transactions on rows nobody has cached.
* Users: registration, login and a cache of rows that never change. Of
  authentication, only that a call may be refused.
* Logging, health and read-only handlers, configuration, seed, migrations: no
  state whose interleavings matter.
* The dashboard. Its stream hook (`frontend/src/hooks/useSimulationRun.ts`) is a
  small protocol of its own: the request that recovers a run after a page reload may
  be answered after a new run was started, and then replaces the new run's stream.
* A registry per process: a run on another replica, or of `cmd/simulate`, is not seen
  by the checks of this one. `Simulation` is about one process and knows the others
  as `FlushElsewhere`.
* Handlers with an empty body (update and delete of events and reservations).
* Latency samples, percentiles and connection-pool figures of a snapshot.

## 7. Plan

Done: the modules of section 2, and a theorem for every safety property, every
action property and the refinement that a run checks. Next:

1. The safety half of the liveness properties as theorems: that a lapsed hold, an
   orphan lock or a shutdown is always in a state from which the actions named under
   fairness can settle it, as far as this can be said without ENABLED.
2. `ReserveService` with rows that are deleted under a request, now left to
   `Reservations`.

# Verification of the astra-aigate resilience core

astra-aigate is an AI gateway: one OpenAI-compatible endpoint that forwards each
request to one of many upstream providers, over one of several *connections*
(accounts) per provider. Most of the repository is data handling (translators,
executors, dashboard). What is hard to get right, and hard to test, is the
machinery that decides *whether, when and with which credentials* a request is
sent: circuit breakers, cooldowns, concurrency limits, retries and the refresh of
single-use OAuth tokens. This project models that machinery in TLA+.

The gateway is one Node.js process. Code between two `await`s is atomic; at every
`await` (database, network, timer, promise) any other request, timer or
administrator call may run. Each model therefore has one action per stretch of
code between two awaits, and the hazards are those of cooperative interleaving:
values read before an await and used after it, hand-made promise mutexes, timers
that fire late, answers that arrive in another state than the question.
With the Postgres driver the database accesses are real awaits.

## Inventory

### Modelled

**Provider circuit breaker** (`src/shared/utils/circuitBreaker.ts`).
State: CLOSED / DEGRADED / OPEN / HALF_OPEN, failure count, counts per failure
kind, time and kind of the last failure, probes left, number of failed probe
phases. Operations: `execute`, `canExecute`, `getStatus`, `getRetryAfterMs`,
`reset`, and `recordProviderFailure` of `accountFallback.ts`. There is no timer:
OPEN ends when somebody looks. Hard: requests admitted in one state finish in
another; probes may end without an outcome. Correct when probes are never handed
out twice, the state agrees with the count, escalation is forgotten on recovery,
and OPEN ends.

**Chat request pipeline** (`src/sse/handlers/chat.ts`, `chatHelpers.ts`,
`chatPredicates.ts`, `cooldownAwareRetry.ts`). State: per request the excluded
connections, the last status and three retry budgets; shared the breaker and the
connections' cooldowns. Hard: a loop inside a loop with different budgets, a
breaker fed by two writers for the same outcome. Correct when a request is sent a
bounded number of times and always answered, and an outage opens the breaker.

**Account semaphore** (`open-sse/services/accountSemaphore.ts`). State per key: a
gate with a count, a cap, a queue, a block and a cleanup timer. Operations:
`acquire`, the release closures, `markBlocked`, `reset`/`resetAll`, three kinds of
timers. Hard: gates that come and go under closures that look them up by name,
superseded timers, lazily cleared blocks. Correct when slots are accounted for,
the cap holds, and no wake-up or gate is lost.

**Connection cooldown and terminal states** (`src/sse/services/auth.ts`,
`src/lib/db/providers.ts`, `src/lib/quota/connectionRecovery.ts`). State: the
error columns of a `provider_connections` row, and a map of promises used as a
mutex. Writers: `markAccountUnavailable`, `clearAccountError`, the recovery tick,
the quota recovery, the backoff decay. Hard: whole-row read-modify-write with
awaits inside, a mutex whose entry is deleted by whoever finishes. Correct when
concurrent failures count once, terminal states stay, no waiting failure hangs,
and a late clear erases nothing new.

**OAuth token refresh** (`open-sse/services/tokenRefresh.ts` and `tokenRefresh/`,
`refreshSerializer.ts`, and the callers in `chatCore.ts`, `base.ts`,
`src/sse/services/tokenRefresh.ts`, `providerLimits.ts`). State: stored token and
expiry, the mutex map, the rotation map, the lane of a rotation group. Hard: the
token may be spent although no answer came; results are shared and written by
several callers; one lane for connections that must not refresh together. Correct
when one token is presented at a time, one refresh runs per connection, the lane
flows, and good connections are not deactivated.

**Breaker registry and persistence** (`circuitBreaker.ts` from line 493,
`src/lib/db/domainState.ts`). State: one breaker per name in a map of 500, and a row
per name. A breaker asks for its row when it is made and gets it later; every change
is saved without waiting; idle breakers are evicted with their row; a crash leaves
the rows. Hard: requests keep objects the registry has replaced, saves overtake
restores. Correct when the row says what the breaker is, and evictions only forget
what is not worth keeping.

**Rate-limit semaphore** (`open-sse/services/rateLimitSemaphore.ts`). State per model:
a gate with a count, a maximum, a queue and the end of a rate limit; one timer per
rate limit. Operations: `acquire`, the release closures, `markRateLimited`. Hard: as
for the account semaphore, but gates vanish as soon as they are idle, and with them
what they know. Correct when it is a pool of slots with a FIFO queue that grants
nothing during a pause and strands nobody.

**Request deduplication** (`open-sse/services/requestDedup.ts`). State: a map of
promises by hash, bounded, with a timer per entry. Hard: entries leave the map before
their calls end, and calls end after others took their place. Correct when identical
concurrent calls share one upstream call and its outcome.

**Batch processor** (`open-sse/services/batchProcessor.ts`, `src/lib/db/batches.ts`,
the cancel and delete routes). State: the rows of batches and of item checkpoints,
the set of batches at work, the runs, the poll. Hard: crashes between marking,
sending and recording an item, statements nobody awaits, which land after further
polls or are rejected, decisions on rows read earlier. Correct when no item is sent
twice, outcomes are not lost, a batch runs once at a time and ends, and no more
batches are at work than the limit allows.

### How they interact

A request passes the breaker's gate, selects a connection (cooldown rows), takes a
slot (semaphore), may refresh its token, and runs inside `breaker.execute`. Its
outcome is written to the breaker and to the connection row. Background sweeps
(recovery, token health, usage pages) write the same rows and take the same lane.
`ChatRequest` composes the pipeline with the breaker through `BreakerCore`, the
breaker as a value, which `CircuitBreaker` also uses; `cooling` and `errorCode` in
`ChatRequest` are the parts of the row that the loop reads. `BreakerPersistence`
takes the same breaker as clean or tripped and looks at where it lives. Round-robin
combos take a slot of the rate-limit semaphore around such a request, requests at
temperature 0 go through the deduplication on their way to the executor, and the
items of a batch are requests like any other.

### Not modelled

The reasons are in `PROJECT.json`, component by component. In short:

- Executors, translators, compression, memory, skills, MCP server, dashboard,
  command line: conversion of data or user interface, without shared control state.
  They are most of the repository's lines.
- Database layer: drivers and migrations; the models see statements. What differs
  between the drivers (SQLite in order, Postgres in any order) is modelled where
  the code does not await.
- Model lockout, the combo target loop, the rate-limit manager, the token health
  check, the session pool, the service supervisor and the A2A task manager have
  state worth modelling and are left to the plan.
- In the modelled components: see the notes of `PROJECT.json` and "Abstractions to
  know".

## Modules

| module | models | state | actions |
|---|---|---|---|
| `BreakerCore` | the breaker object | a record | one operator per method |
| `CircuitBreaker` | calls in flight on a breaker | `breaker`, `phase` | `Execute*`, `Read`, `RecordProviderFailure`, `Reset`, `Tick` |
| `BreakerPersistence` | registry entry and row of one name | `registered`, `health`, `held`, `row`, `statements` | `Get`, `Peek`, `Outcome`, `TripUnsaved`, `Evict`, `Reset*`, `Land`, `Crash` |
| `ChatRequest` | `handleSingleModelChat` | `breaker`, `req`, `cooling`, `errorCode` | `Gate`, `Select*`, `Wait*`, `Dispatch`, `Settle*`, `Handle*` |
| `AccountSemaphore` | one key of the semaphore | `gate`, `phase`, block timers | `Acquire*`, `Release`, `Leave`, `MarkBlocked`, timers, `Cleanup`, `Reset` |
| `SlotPool` | what a gate with a queue promises | `holders`, `queue`, `limit` | `Enter`, `Join`, `GiveUp`, `Serve` |
| `RateLimitSemaphore` | one model of the rate-limit semaphore | `gate`, `phase`, timers of three kinds, `cooling` | `Acquire*`, `Release`, `Timeout`, `MarkRateLimited`, timers |
| `RequestDedup` | `deduplicate` | `inflight`, `pc`, `joined`, `timer` | `Join`, `Own`, `Timeout`, `Settle` |
| `ConnectionCooldown` | one connection row | `row`, `call`, the mutex (`tail`, `prev`) | `Mark*`, `Update*`, `DatabaseThrows`, `Succeed`, `Quota*`, `RecoveryTick` |
| `TokenRefresh` | refreshes of a rotation group | `row`, `live`, `rotated`, `mutex`, `call`, the lane (`tail`, `after`) | from `Begin` to the write of each path |
| `BatchProcessor` | batches from acceptance to their end | rows, checkpoints, counts of the statements under way (`writes`), runs (`pc[b][k]`), the poll | `Land*`, `Lose`, `Poll*`, `Recover*`, `Scan*`, `Start*`, a run from `Load` to `Report`, `Cancel`, `Delete`, `Throw`, `Crash` |

`CircuitBreakerProofs`, `BreakerPersistenceProofs`, `ChatRequestProofs`,
`RateLimitSemaphoreProofs`, `ConnectionCooldownProofs`, `TokenRefreshProofs` and
`BatchProcessorProofs` hold the theorems about the modules they are named after.
`AdmissionProofs` holds those about `RequestDedup` and `AccountSemaphore`, which a
request passes one after the other in `chatCore.ts`; since it extends both, the
specification of `RequestDedup` has names of its own (`DedupInit`, `DedupNext`,
`DedupSpec`, `DedupTypeOK`).
`MC<module>.tla` gives the small instances. Definitions named as a mutant in their
comment, or described there as doing something wrong, are deliberately wrong
variants of the definition that follows them; they are used only to show that a
property can fail.

### Abstractions to know

- Time is order. A breaker's age saturates at the longest cooldown; a cooldown is
  over when an action says so; timers fire at any time after they may.
- `ChatRequest` leaves out combos, forced connections, live tests, emergency
  fallback to another model and providers with handling of their own. A
  connection cools or not; `streak` is a ghost for one property.
- `ConnectionCooldown` leaves out quota preflight, Codex scope timers and writes of
  credentials. The numbers of failures stand for their times. Any awaited read or
  update of a mark or a clear may be rejected (`DatabaseThrows`); the kind "mode" is the
  403 of grok-web, whose update is awaited with the mutex held. A quota snapshot is
  taken also where `providerLimits.ts:417-423` would not look further, which
  leaves the conditional clear more to see.
- `AccountSemaphore`: an `acquire` without cap touches no state and is left out.
  `disturbed` is a ghost that says a reset happened under a holder.
- `RateLimitSemaphore`: a rate limit is ahead, past, or past and noticed.
  `markRateLimited` is called only by a holder, as `combo.ts` does. `strays` are
  timers of deleted gate objects, whose own end of the pause is not tracked: they
  may or may not drain. `cooling` is a ghost that follows the last rate limit.
- `RequestDedup`: only calls that deduplicate; a hash is a constant of the call.
- `BreakerPersistence`: a breaker is clean or tripped; statements run in the order
  they are issued, as with SQLite. `astray` is a ghost for the three cases in which
  row and breaker may differ for longer (see "Also seen").
- `TokenRefresh` leaves out layer 2 (no connectionId), the 30 s attempt timeout, the
  refresh breaker, the health check and executors that mint tokens without
  `getAccessToken`. `updateProviderConnection` is one step there (its two steps
  are in `ConnectionCooldown`). The row's expiry is "long" or "over" to whoever reads it;
  a token taken from the row brings the expiry read with it, a minted one or one of the
  rotation map a long one. `NullOnDead` are the connections of Codex, whose
  executor hides an unrecoverable error behind null. An access token outlives its entry in the rotation
  map. What the provider answers (`Answers`) is external: it may lose the reply
  before or after rotating, and may revoke the family when a token is reused.
- `BatchProcessor`: the attempts of one `processSingleItemWithRetry` count as one
  dispatch; files are the sets of items they hold; the progress counters are left out,
  since an item has a checkpoint row before it can be counted. Of the statements
  that are not awaited any may land next, at any time, also after further polls, or be
  rejected (`Lose`), which is an unhandled rejection and leaves the row as it is; this
  takes it that such a rejection does not end the process, and one that does is
  `Crash`. Nothing keeps two polls apart in time. A batch may have several runs at a
  time, told apart by `k`, which is a name and nothing in the code. A client
  cancels and deletes a batch once.
  `adrift` is a ghost: the batches whose update to in_progress or back to validating was
  still under way when a poll began, or whose update to in_progress was rejected. With
  more than one slot `OneRun` and `NeverReplayed` are about the others (`Sound`), and
  "Also seen" says why; with one slot, the default of
  `BATCH_MAX_CONCURRENT`, they are about all.

## Runs

Passing:

| run | instance | shows |
|---|---|---|
| `breaker` | 3 requests, 2 probes, a kind with its own cooldown and limit | `ProbeBudget`, `HealthBand`, `ClosedIsClean`, `ProbesConserved`, `OpenRecovers` |
| `persistence` | 3 requests, 3 breakers of one name, 5 statements | `WriteThrough`, `EvictionKeepsTrips` |
| `chat` | 1 request after another, 2 connections, 2 cooldown retries | `BoundedDispatch`, and `EveryRequestReturns` across fallbacks |
| `semaphore` | 5 callers, caps 1 to 3, queue of 3 | `SlotAccounting`, `CapRespected`, `NoLostWakeup`, `NoGateLeak`, `WaiterServed` |
| `ratelimit` | 5 callers, maxima 1, 2, 4, queues of 0 and 2 | `SlotAccounting`, `NoLostWakeup`, `NoGateLeak`, `WaiterServed`, `PauseHolds`, `ImplementsPool` |
| `dedup` | 5 calls, 3 of them identical, a map of 2 | `OneUpstreamCall`, `EntriesInFlight`, `SharersAnswered` |
| `cooldown` | 2 callers, 3 failures of 7 kinds, rejected statements | `MutexEntriesLive`, `QuotaClearSeesAll`, `MarksProceed`, `TerminalRests` |
| `refresh` | 2 callers, 2 sibling connections, 2 rotations and 1 | `LaneExclusive`, `OneRefreshPerConnection`, `DeactivationJustified`, `QueueFlowsUnlessNested` |
| `batch` | 1 batch of 1 item, 1 slot, 2 runs at a time, 2 statements under way, a crash, a rejection, a cancellation and a deletion | `NeverReplayed`, `OneRun`, `CompletedIsComplete`, `BatchEnds` |

`ImplementsPool` is a refinement: `RateLimitSemaphore` with `holders <- Holders`,
`queue <- gate.queue`, `limit <- gate.max` implements `SlotPool!Spec`. Deleting a gate
is the limit becoming 0; pauses and timers are stuttering steps.

Violations (each a disagreement between the code and a line of the repository; the
quotation is in `PROJECT.json`):

| run | property | what happens |
|---|---|---|
| `chat_outage_opens` | `OutageOpens` | a handled 5xx is a resolved promise: it counts as a success before it counts as a failure, so an outage does not open the breaker |
| `refresh_nested` | `QueueFlows` | the usage path takes the lane around a refresh that takes it again |
| `refresh_reverts` | `TokenNeverReverts` | a sharer writes its result over a later rotation, with no guard on that write |

### Also seen

Behaviours met while modelling that a line of the repository speaks against, or that
a reader of the code may not expect. They have no run of their own; the models
contain them, and the properties above are stated so that they are the only
exceptions.

- Breaker. Probes that end in errors `isFailure` ignores are not given back: HALF_OPEN
  then refuses everybody until `reset()` (`RESILIENCE_GUIDE.md:35`).
- Chat. A request refused by an OPEN breaker after the gate records the made-up 503
  as a failure and renews the cooldown (`chat.ts:1320`); a failure through an
  unreachable proxy is counted twice (same line).
- Account semaphore. Between the end of a block and its timer, or when the cap is
  raised, a newcomer overtakes the queue.
- Cooldown. The finally block of the mutex deletes another caller's entry
  (`auth.ts:2362`), so a third failure runs beside the second and may extend a
  running cooldown (`RESILIENCE_GUIDE.md:80`). A whole-row update from an older read
  revives a terminal connection (`providers.ts:685`, `RESILIENCE_GUIDE.md:88`);
  `TerminalRests` shows that this needs a call begun before.
- Refresh. A caller that shared a refresh of an older token takes its failure for its
  own and deactivates a connection whose stored token is good
  (`chatCore.ts:3551-3580`); this is the exception `MisledBy` of
  `DeactivationJustified`, which is about the decision to deactivate. The write that
  follows (`chatCore.ts:3576`) compares nothing: a sharer that stores a good token
  after the read (`3563`) does not stop it, although the comment at 3556 wants the
  account kept. For Codex null hides an
  unrecoverable refresh (`codex.ts:1189-1200`): the reactive path presents the dead
  token again as often as it has attempts, and never deactivates.
- Persistence. A breaker requested with options saves itself, clean, before its row is
  restored: the breaker then carries the restored state and the row says CLOSED until
  the next save (`circuitBreaker.ts:600`). An evicted breaker that requests still hold
  saves over the row of its successor. The opening by a kind's limit returns before
  `_persistToDb` (`circuitBreaker.ts:384`, `390`; `TripUnsaved`). These are the three
  cases of `astray`. A breaker evicted before its restore takes an OPEN row with it
  (`circuitBreaker.ts:523-531`).
- Rate-limit semaphore. The rate limit goes with the gate when the last slot is
  released, although its comment says that new acquisitions are blocked until it
  expires (`rateLimitSemaphore.ts:181-183`); `markRateLimited` sets the maximum back
  to 3.
- Deduplication. An abort of the first caller fails everybody who joined, and the
  rejection of a promise nobody joined is unhandled.
- Batch. Phase 2 of the poll does not ask `activeBatches` (`batchProcessor.ts:91-99`).
  With one slot a running batch fills it. With `BATCH_MAX_CONCURRENT` above 1, a batch
  whose update to in_progress (`323`) is late, as the Postgres pool allows, or rejected
  still reads validating at the next poll and is started beside its run: both send
  its items, against the comment at 75-77. Setting `MaxConcurrent` to 2 and leaving
  `Sound` out of `OneRun` shows it in a few steps.
  Recovery judges by the row the poll read (`batchProcessor.ts:75-84`): a batch
  that finished meanwhile is started over, without sending anything again. A
  cancellation is overwritten by the start, the recovery or the finalization of the
  batch, which then completes. The end of one of two runs takes the batch out of
  `activeBatches` while the other goes on (`batchProcessor.ts:338-341`). When the read
  after the completion is rejected (`batchProcessor.ts:817`), `failBatch` marks a
  completed batch failed. A deletion that races with the poll may let a deleted
  batch be run again, hence `erased` in `NeverReplayed`.

### Bounds

- `breaker`: `MaxFailures` = 6 is twice the threshold, so bands, kind limits and
  late failures in OPEN all occur; three requests are a probe, a second probe and
  one left over from before. `MaxAge` is the longest cooldown.
- `persistence`: three objects are an evicted one in use, its successor and the next;
  five statements are more than two operations issue.
- `chat`: `MaxFailures` = 3 bounds arrivals only and lies above the threshold of 2,
  so requests meet an open and a half-open breaker. With two retries every budget is
  spent in the middle of another. Two requests with two connections exceed what
  TLC finishes in minutes: that others change the breaker and the cooldowns
  meanwhile is in `chat_outage_opens` (two requests) and, for `BoundedDispatch`, in the
  theorem.
- `semaphore`: five callers are three slots and a waiter more than the smallest cap
  leaves room for, and fill the queue. `MaxOldTimers` = 1 gives one superseded
  timer.
- `ratelimit`: the maxima lie on both sides of the default of 3, so a rate limit both
  lowers and raises them; a queue of 0 refuses at once; `MaxTimers` = 2 gives
  superseded timers and timers of deleted gates together.
- `dedup`: a map of two with three hashes is evicted by any third call, and three
  identical calls are an evicted owner, its successor and one that joins.
- `cooldown`: three failures are needed for a caller to meet the missing mutex
  entry; `MaxBackoff` = 1 makes the cap of the level matter. "hint", "uncooled",
  "scope" and "mode" are left to the kinds they differ from in a field or two.
- `refresh`: two siblings and two callers give every pair of paths `reactive` and
  `quota`. The first connection rotates twice, so that a result may be overtaken
  by a later one; the second shares its lane. The paths `proactive` and `check` are
  exercised only by `check` in `refresh_nested`: adding either to the passing run
  exceeds its time. "confirm" is left out of the failing accesses, because the code
  deactivates when that read fails.
- `refresh_reverts`: the reactive path of one connection, and nothing fails.
- `batch`: one crash interrupts any step, and recovery follows. `MaxRuns` = 2 leaves
  room for the second run that the properties exclude. `MaxWrites` = 2 is what a start
  issues; a statement that would be a third has to wait until one has landed.
  `MaxRejections` = 1 loses any one statement or fails any one poll; a rejection that
  fails a run (`Throw`) is not counted. One item is sent, in flight, recorded or
  still to come. Several batches, items, slots and statements, more rejections and
  crashes are covered by the theorems.
- The type invariants of the breaker, batch, persistence and chat modules are theorems
  and not part of the runs.

Deadlock is checked except in the cooldown, refresh and dedup runs, which may come to
rest: a terminal or deactivated connection is never selected again, the model's
bound on rotations ends the run, and a finite set of calls is answered.

### Fairness

- `CircuitBreaker`: time passes and somebody reads the status; the registry sweep
  does every five minutes. Nothing is assumed of requests.
- `ChatRequest`, `ConnectionCooldown`, `TokenRefresh`: weak fairness of a call's own
  steps: ready continuations run, timers fire, and fetches end by their timeouts.
  Nobody is obliged to send a request.
- `AccountSemaphore`, `RateLimitSemaphore`: holders release (in a `finally`), and the
  timers of blocks and rate limits fire. Queue timeouts are not assumed.
  `WaiterServed` is claimed once cap and blocks are stable.
- `RequestDedup`: upstream calls end, by the timeouts of the executors.
- `BatchProcessor`: the poll timer fires and the poll goes on, each statement lands or is
  rejected, and each run takes its steps or throws. Nothing orders statements and polls.
- `BreakerPersistence` states safety only.

## Proofs

Checked by TLAPS, for every value of the constants that satisfies the named
assumptions, which TLC evaluates in the runs.

`CircuitBreakerProofs` (any requests, options and bounds):

- `TypeCorrect`: `Spec => []TypeOK`. One lemma per method of the breaker shows that
  it maps breakers to breakers; `TypeStep` has one step per action. `ChatRequest`
  has a breaker of its own among its variables, and its proofs the same lemmas.
- `BandsHold` and `NothingCarriedOver`: `HealthBand` and `ClosedIsClean` always hold.
  Neither is inductive alone: `_onFailure` opens for a kind's limit as well as for
  the total, so the invariant is `TypeOK /\ Sound(breaker)`, the conjunction of both
  as a predicate on a breaker, preserved by each method.
- `ProbeBudgetHolds`: `Spec => []ProbeBudget`. Inductive with `TypeOK` once probes of
  earlier HALF_OPEN episodes are told apart (`phase` "stale"). `ResultEndsEpisode`
  says that any recorded result leaves HALF_OPEN; cardinality facts come from
  `FiniteSetTheorems`, hence `RequestsAssumption`.
- `ProbesConservedHolds`: an action property, from the same invariant.

`AdmissionProofs`, deduplication (any calls, hashes and bound of the map):

- `DedupTypeCorrect`, `EntriesInFlightHolds`, `OneUpstreamCallHolds`. The invariant adds
  to the three properties that a call in flight is in the map unless it was dropped;
  the lemmas say what `Kept` and `Without` leave of the map, and that entries with
  different hashes stay so.
- `SharersHaveOwnerHolds`: nobody awaits a promise that no call under way will settle.
  It needs `SharersShare` (who awaits a promise awaits no other, and is no owner), so
  that a call that ends takes nobody's owner away but its own sharers'.

`AdmissionProofs`, account semaphore (any finite set of callers, caps, queue size and
number of timers):

- `SemaphoreTypeCorrect`, `SlotAccountingHolds`, `NoLostWakeupHolds`, `NoGateLeakHolds`,
  from `GateInv`. None of the properties is inductive: that a release finds the queue
  drained up to the cap needs the exact place of every waiter in the queue
  (`QueueOK`); that a counter which is too low after a reset under a holder never
  hides a holder needs `CountOK`; that a waiter without a holder is woken needs that a
  block stands only while its timer is pending, and that a gate without holders and
  block has an empty queue and its cleanup scheduled. The predicate takes gate,
  phases and ghost as parameters (`GateOK`) because a release and a drain are several
  changes in one step.
- `CapRespectedHolds`, an action property, from the same invariant and
  `GrantsStop`: a drain stops at the cap the gate has then.
- `ImplementsPoolUnlessReset`: `Spec /\ [][~Reset]_vars` implements `SlotPool` with
  `holders <- Holders`, `queue <- gate.queue`, `limit <- gate.cap`. A reset is excluded
  because it promises something else: it rejects every waiter in one step and drops
  the gate from under its holders, whose slots are then given away again.

`BatchProcessorProofs` (any batches, items, slots, runs of a batch, statements under
way, rejections and crashes):

- `TypeCorrect`, `NeverReplayedHolds`, `OneRunHolds`, `CompletedIsCompleteHolds`,
  `LimitRespectedHolds`, from one inductive invariant `Inv` whose parts are:
  `RunsOK` (a sound batch has at most one run, and `activeBatches` knows of it),
  `PollOK` (nothing sound that a poll is starting, or may still start from the rows it
  read, is running; of batches that are not adrift also why: while a batch runs and
  its row reads validating, the update to in_progress is under way, and an update
  back to validating is under way only while it does not run), `ErasedOK`, `SentOK` (an
  item that was sent is marked in the checkpoints, in the run's copy of them, or at the
  run's position, for which the order of mark, send and record is needed), `LimitOK`
  (the poll's count is never below the number of batches at work), `AskedOK`, `DoneOK` (a
  run has an outcome of every item before its position) and `CompleteOK`. `OneRun` is
  not assumed anywhere: with one slot it follows from the count `Scan` takes, which
  a run fills, with more from what `PollOK` says of the row. One lemma per part, with one step per
  action.

`BreakerPersistenceProofs` (any requests, breakers of a name and statements under
way):

- `TypeCorrect`, `WriteThroughHolds`, and the action property
  `EvictionKeepsTripsHolds`. The properties speak of an empty queue of statements and
  of its head; the invariant has to speak of all of it: `MadeOK` (restores are of
  different breakers, in the order these were made), `LastOK` (the last statement
  under way is the registered breaker's own save of what it is, or the restore of
  a breaker still as good as new) and `DeletesIn` (a deletion by an object that knows
  its row comes right behind a save of a clean breaker, or finds no tripped row).

`ChatRequestProofs` (any requests, finite set of connections and number of retries):

- `TypeCorrect` and `BoundedDispatchHolds`. The bound is not inductive; the invariant
  `Accounted` says that what a request sent is at most what it has paid for (every
  connection of the attempts that are over, the excluded ones of this attempt, the
  retry after an early end of stream) plus the dispatch under way, and that a
  connection in use is not excluded.

`RateLimitSemaphoreProofs` (any finite set of callers, limits, queue size and timers):

- `TypeCorrect`, `SlotAccountingHolds`, `NoLostWakeupHolds`, `NoGateLeakHolds`, from
  `Inv == GateOK /\ CountsOK`: a gate says it is paused exactly while the cooldown of
  its last rate limit runs, until it forgets the pause its timer is pending, a gate
  without holders is there only for its pause, and the counter and the queue are
  those of the callers' phases, each waiter in one place of the queue. The lemmas on
  sequences (`PrefixSize`, `SuffixOf`, `RemovedFrom`, `AppendedTo`) say what a drain,
  a timeout and a join do to the set of waiters and its size.
- `PauseHoldsAlways`, an action property: while the gate of a rate limit lives and its
  cooldown runs, nobody gets a slot.
- `ImplementsPoolHolds`: `Spec` implements `SlotPool`, step by step: `AcquireNow` is
  `Enter`, `AcquireQueued` is `Join`, `Timeout` is `GiveUp`, whatever drains is `Serve`
  for as many waiters as there are grants, and the rest serves nobody.

`ConnectionCooldownProofs` (any calls, failures, backoff cap and number of failures):

- `TypeCorrect`. Writes are of whole rows selected earlier, so the row's type needs
  that of every copy, and `KindsOK`: an update is only made for kinds that have one.
- `MutexEntriesLiveHolds`. Inductive with the types: a call that stops being a mark
  does so in the step that runs the finally block, or never had the mutex.
- `QuotaClearSeesAllHolds`, an action property. The conditional update compares
  status, error time and cooldown, not the backoff level. `Stamps` says why that is
  enough, of the row and of all its copies in flight (`Rows`): copies with the same
  error time have the same level, no error time means level 0, and the time of a
  failure that has not written yet is in no copy.
- `TerminalRestsHolds`: the terminal row without calls under way is closed under
  every step.
- `NoStandstillHolds`: calls of `markAccountUnavailable` never all wait for each other.
  `Chain` says that whoever awaits a promise failed later than the call it is of, and
  the first to arrive of those that wait awaits a call that runs. That there is a
  first is `Least`: a set of numbers has a least element, by the library's theorems on
  well-founded relations. It stands in for induction, here and for the lane below.

`TokenRefreshProofs` (any callers, connections, paths, bounds and failing database
accesses):

- `TypeCorrect` and `LaneExclusiveHolds`. `Lane` says that the tickets in the lane can
  be put in an order in which each awaits the one before it, the first nobody, and
  the last is the tail; `Joined` and `Left` are the two steps on such an order, and
  `OneHead` gives exclusion. That every ticket has one predecessor and one successor
  would not do: it leaves room for a cycle beside the lane, and collecting the lane
  when its tail leaves would be wrong. `Turns` says that whoever is past its wait
  is the head.
- `OneRefreshPerConnectionHolds`, through `Owners`, its reading from both sides: who is
  between the staleness check and the write is named by the mutex, and conversely.
- `DeactivationJustifiedHolds`, an action property of the step that decides to
  deactivate (`Confirm`), under the hypothesis that the read of that step (`"confirm"`)
  does not fail; when it does, the code deactivates by design. Of the later step
  that writes (`Condemn`) the like does not hold, see "Also seen". `Stored` and `Known` say that no row, rotation entry or
  caller is ahead of upstream, and `Verdict` that an unrecoverable result is about a
  token upstream has moved on from, which stays so because upstream only moves on
  (`LiveGrows`).
- `NoStandstillHolds`: callers that share refreshes and queue in the lane never all wait
  for each other, unless a quota refresh is nested, as in `refresh_nested`. A chain of
  waits ends at the head of the lane or at the owner of a mutex. It needs `Shared`
  (whoever shares a refresh shares one in flight) besides the invariant.
- `LaneImplementsPool`: the lane implements `SlotPool` with one slot. The order of the
  lane is no variable of the code, only who awaits whom is; `OrderUnique` shows that
  this determines the order, which `LaneOrder` then names. `JoinedOrder` and `LeftOrder`
  say how a join and a leave change it, and `LaneStep` that a step of any caller is
  one of the two or leaves the lane alone.

Established by theorem only: `LimitRespected`, `SharersHaveOwner`, the two
`NoStandstill`s, the refinements `ImplementsPoolUnlessReset` and `LaneImplementsPool`,
and the `TypeOK`s of `CircuitBreaker`, `BreakerPersistence`, `ChatRequest` and
`BatchProcessor`.

Only model-checked: liveness (fairness and `ENABLED` are beyond the prover), that is
`OpenRecovers`, `EveryRequestReturns`, the two `WaiterServed`s, `SharersAnswered`,
`MarksProceed`, `QueueFlowsUnlessNested` and `BatchEnds`; every safety property of the
passing runs has a theorem. What is proved of the liveness properties is their safety
half where it says something: `NoLostWakeup`, `SharersHaveOwner`, `NoStandstill`. The
assumptions a proof needs are the ones the modules name: finite sets of callers where slots are counted, at least one
connection, a `None` that is no caller and no ticket, bounds that are numbers.

## Plan

1. Components: the model lockouts; in `TokenRefresh` the attempt timeout with its
   abandoned owner, the refresh breaker and the health check; the combo target loop
   with its deadlines; the rate-limit manager; then session pool, supervisor and A2A
   task manager.
2. An abstract specification of a resettable pool, which `AccountSemaphore` implements
   with its resets; one of a refresh that is shared, for layer 1 of `TokenRefresh`.

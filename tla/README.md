# LARA gateway: TLA+ models and proofs

LARA puts a FastAPI gateway (`src/gateway/app`) in front of a local inference server. One
asyncio process authenticates users, decides which chat requests may run, relays them to the
backend and keeps one PostgreSQL row per request. This directory models the parts of it whose
correctness depends on order: the admission queue, the life of a request, the operating modes,
the GPU pressure, the abuse controls, the administration of accounts and models, and the daily
usage rollup. TLC checks the models on small instances; TLAPS proves every safety property that the
passing runs check, and both refinements, for every value of the constants.

## 1. The system

| Part | State | Operations | Talks to |
|---|---|---|---|
| Scheduler (`scheduler/queue.py`) | counters of active jobs, waiting list, limits | `admit()`: enter, promote, wait, time out, be cancelled, release | called by the handler, limits overwritten by the mode code |
| Handler and lifecycle (`api/v1/chat.py`, `scheduler/lifecycle.py`, `recorder.py`, `registry.py`) | `jobs` row, task registry, disconnect watcher | received, queued, running, terminal | scheduler, proxy, database |
| Proxy (`models/proxy.py`) | the upstream call | plain call, stream and its relay | backend |
| Cancel endpoints (`api/lara/jobs.py`, `api/admin/jobs.py`) | none | read row, write `CANCELLED`, cancel the task | row, registry |
| Reconciliation (`scheduler/reconcile.py`) | none | close rows of a dead process at boot | row |
| Modes (`modes/state.py`, `policy.py`, `effective.py`) | `operating_mode` row, audit | change mode, compute and apply the policy | row, scheduler, pressure |
| Pressure (`modes/pressure.py`) | sample window, level, candidate | ingest a sample or its loss | read by modes |
| Abuse controls (`middleware.py`, `api/security.py`) | arrivals per key, failures and block per source | limit, record a failure, block | every request |
| Accounts (`auth/dependencies.py`, `api/admin/users.py`) | users, roles, keys | authenticate; create, patch, issue, revoke | database |
| Model registry (`api/admin/models.py`) | `models` rows, one of them the default | create, patch | database |
| Scripts (`database/seed`) | none | mint the first key; seed roles, backends and the first model, run again after an upgrade | accounts, model registry |
| Analytics (`analytics/rollup.py`, `retention.py`) | `usage_daily` rows | roll a day up, delete old jobs | `jobs` rows of the gateway |
| Status, reports, leaderboard | none | read; the first reader creates the mode row | database, scheduler, pressure |

What is hard to test here is concurrency inside one event loop: every `await` is a place where
another request, a watcher, a cancel endpoint or a crash can come between a check and its use.
`PROJECT.json` lists these places ("hazards") with the properties that speak of them.

What makes each part correct:

* scheduler: counters exact, limits respected, priority then arrival order, nobody left beside a
  free slot, every promoted task woken;
* handler: every end leaves a terminal row, rows follow the state machine, a slot exactly while
  the block runs, live tasks can be found by the cancel endpoints;
* reconciliation: no row stays `QUEUED` or `RUNNING` after a crash;
* modes: limits in force belong to one mode and level, the owner first under PERSONAL, the audit
  explains the mode;
* pressure: no flapping, a spike harmless, a lasting load followed, unknown never `LOW`;
* abuse controls: the limiter counts exactly the arrivals it let in, failures are bounded also by
  those already under way, and blocks end;
* accounts: a request is let in only by a key, a user and a role that were good since it was sent;
* registry: at most one default, no lost columns, the default kept;
* scripts: a run over a database in use disturbs no operator's choice and no running transaction;
* analytics: a finished day is counted exactly, survives retention, and overlapping rollups do not
  mix; sessions follow their definition.

## 2. Modules

| Module | Models | State and actions |
|---|---|---|
| `Promotion` | what one pass of `_try_promote_locked` promotes, as a predicate on sets | `IsPromoted` |
| `PromotionLoop` | the walk of that pass as written | `PromoteLoop`; EXTENDS `Promotion` |
| `Scheduler` | `class Scheduler` | one action per stretch of `admit()` between two suspensions; EXTENDS `PromotionLoop` |
| `Gateway` | handler, proxy, recorder, cancel endpoints, crash and restart | composed with `Scheduler` by INSTANCE: each handler step names the scheduler step it contains |
| `Admission` | mode row, `set_mode`, effective policy, `apply_to_scheduler` | composed with `Scheduler`; its property `ImplementsScheduler` says the composition is a behaviour of `Scheduler` |
| `Hysteresis` | abstract: a level changes only after N equal outcomes in a row | `Evaluate`, `Lose` |
| `Pressure` | `PressureEvaluator` | `Ingest`, `IngestNone`; implements `Hysteresis` (`level <- current_level`) |
| `AbuseControls` | `RateLimiter`, `AuthFailThrottle` and their callers | `Enter`, `Arrive`, `Deny`, `RecordFailure`, `Tick`; time stamps as ages |
| `Accounts` | `get_auth_context`, `require_admin`, `api/admin/users.py` | one action per database round trip that matters |
| `ModelRegistry` | `create_model`, `patch_model`, `seed_models` in PostgreSQL transactions at READ COMMITTED | select, clear (start and lock), check (seed), commit, fail, abort |
| `AdminApi` | both together, over the same requests, by INSTANCE | an admin's request in `ModelRegistry` has come through `Accounts`; a script has not |
| `Analytics` | job rows as they arrive, end and are deleted; `rollup_day` as a transaction of four statements | `Receive`, `Finish`, `Tick`, `Retain`; `Reads`, `Lists`, `Deletes`, `Commits`, `Fails` |
| `MC*` | instances for TLC | |
| `OrderingLemmas` | facts about finite sets, strict orders and induction that the proofs share | |
| `SchedulerProofs`, `GatewayProofs`, `AdmissionProofs`, `PressureProofs`, `AbuseProofs`, `AdminApiProofs`, `AnalyticsProofs` | proofs | |

Granularity. A step is what a task does between two suspensions. The condition's lock is never
held across one, so entry, wake-up, cancellation and release of `admit()` are single steps; a
promoted task and its resumption are two. `task.cancel()` only requests: its delivery is a step
of its own. A commit and the resumption of the task that awaited it are one step; when an
exception is raised at a commit, the write may or may not have happened. A cancel endpoint has
three steps (read, write, signal), the recorder two (read, write), a mode change two or three.

Abstractions. Requests, users and calls are model values; token counts, headers, bodies and time
stamps are left out. Except in `AbuseControls` and `Analytics`, time is absent: a deadline may pass whenever its
wait goes on. Accounts and models keep the columns the properties speak of; audit rows are only
inserted. A session writes, at its commit, the columns that differ from what it has *loaded*, and
a row it has loaded before is not loaded again (`expire_on_commit=False`). In `Pressure`
readings are integers, the median is kept doubled, and the memory size is constant. Variables
marked *history* only serve properties. `Analytics` keeps of a usage row the requests, the
completed ones and the sessions; the other counts and sums come from the same jobs in the same
expression. A job there is open until the last write of its row, whatever `Gateway` shows to happen
before. A session's `DELETE` waits for a row that another open transaction has deleted and then finds
nothing; an insert of a key that is there, or comes back, is the `IntegrityError`.

Definitions named `X_Something` next to `X` are deliberately wrong variants of `X`; each shows
that some property can fail.

## 3. Runs

| Run | Question | Result |
|---|---|---|
| `scheduler` | three requests, two users, two priorities, limits changed at any time to any pair up to 2, "admit nothing" included; fair event loop, deadlines that may never come | `TypeOK`, `SlotAccounting`, `NoLostWakeup`, `NoEligibleLeftBehind`, `NeverAboveCeilings`, `LoopAgrees`, `GrantWithinLimits`, `NoOvertaking`, `QueueDrains` hold (588 thousand states); `LoopAgrees` compares the loop as written with `IsPromoted`, which it shows unique; `QueueDrains` is about the runs in which no slot is lost and the limits always let one in |
| `gateway` | streaming and plain request, disconnects, cancel call, database errors, dropped connections, crash, a mode without slots | `EveryEndRecorded`, `LiveTasksRegistered`, `SlotMatchesHandler`, `SlotsReturned`, `NoOrphanQueuedOrRunning`, `RowStateMachine`, `EveryRequestEnds`, `NoDispatchAfterCancel` hold (635 thousand states) |
| `pressure` | samples of every level, window of 4, hysteresis 3, losses | `SpikeHarmless`, `ImplementsHysteresis`, `FollowsLoad` hold |
| `admission` | three requests, two overlapping mode changes, any pressure, a new or an old database | `OwnerFirst`, `AuditExplainsMode`, `NeverAboveConfigured`, `ImplementsScheduler` hold (2.1 million states) |
| `abuse` | overlapping requests with good and bad keys, and the clock | `LimiterIsExact`, `GuessesLimited`, `BlocksEnd` hold (83 thousand states) |
| `admin_api` | two overlapping requests that authenticate and then administer anything, or runs of the seed script; the bootstrap script at any time | `AuthorityHeld`, `AtMostOneDefault`, `OnlyNamedColumns`, `LostOnlyByRepeat` hold (2.3 million states) |
| `analytics` | two sessions that roll up a day whenever they like, three jobs of two groups, the clock, retention | `Reconciles`, `Overwrites`, `SessionsAreRuns` hold (2.5 million states) |
| `scheduler_slot_leak` | "Releases the slot on exit" | violated: a cancellation between grant and wake-up loses the slot |
| `cancelled_dispatched` | "CANCELLED, never dispatched" | violated: dispatch between the write and the signal of a cancel call; once the call is answered there is none (`NoDispatchAfterCancel`) |
| `stream_ceiling` | "slot held for the whole upstream call" | violated: released at the first byte |
| `paused_queue` | "Queued jobs execute as slots free" | violated: after a pause ends, the ceiling 0 stays until a request arrives; a queued one times out beside free slots |
| `default_lost` | "Exactly one true" of `is_default` | violated: a PATCH that makes the default the default clears it and writes nothing back |

The violated properties restate a sentence of the repository; "findings" quotes it. They describe
the code as it is: the passing properties hold with these behaviours in the model.

### Bounds

* `scheduler`: three requests, two of one user, are enough for a full queue of 2, a capped user
  ahead of a free one, and two grants in one pass; every safety property is proved for any number
  of them. Ceilings 0 to 2 and caps 1 and 2 in any order: below, at and above the
  number of running requests.
* `gateway`: two requests compete for one slot, queue depth 1. `MaxCrashes = 1`: after a crash the
  process state is the initial one, so a second crash meets nothing new but fewer requests. One
  cancel call with any target; both cancel endpoints have the same steps.
* `admission`: `MaxActiveJobs = 2`, `PerUserMaxActive = 1` makes the four limits of the modes
  different (2/1, 2/2, 1/1, 0/1). HIGH stands for CRITICAL, which `Ceiling` treats alike. Two
  requests of the owner: one holds a slot, one waits. The mode calls are interchangeable.
* `pressure`: a window of 4 gives odd and even medians; the deployment has 12. The hysteresis is
  the deployed 3. With a hysteresis of 2, a spike in the first sample would be harmful
  (1 sample, then the mean of 2): `SpikeHarmless` is a fact about the deployed value and larger ones.
* `abuse`: three requests of one source with a threshold of 2, so that a request may be inside when
  the block begins and when it is over and the next count begins; a block of 3 ticks, longer than
  the window of failures (2), as the defaults have it (300 s and 60 s).
  `GuessesLimited` allows the threshold less one plus the requests that can be inside, and this
  bound is reached.
* `admin_api`: two requests of interchangeable names (symmetry; no liveness is checked), two users
  with a key each, two aliases. Two transactions are enough for every conflict of two rows. The
  four bodies are the ones with different effects: becoming the default with and without `enabled`,
  and enabling or disabling alone.

* `analytics`: a day of two ticks that is over at tick 2, retention of one day that may delete its
  jobs from tick 3 on, a clock up to 4, a session gap of one tick: a job on the first and on the last
  tick of the day and after it, gaps below and at the threshold, a rollup before, at and after the
  end and after retention. Three jobs of two groups make one group grow or vanish between two
  rollups; jobs of other days only matter by not being counted. Two sessions, each with any number of
  rollups one after the other. Jobs, groups and sessions are interchangeable (symmetry).

`CHECK_DEADLOCK FALSE` appears where requests may all be over.

### Fairness

Weak fairness of a task's own steps: the event loop runs every ready task, PostgreSQL answers or
raises, the backend answers or a configured timeout fires, a supervisor restarts a dead process.
In `scheduler` only wake-ups, cancellations under way and releases are fair, not the deadline,
so a request that has to leave the queue there leaves by a grant, and `QueueDrains` does not lean
on the time-out. Arrivals, disconnects, cancel calls,
faults and crashes are never fair. In `abuse` the only fairness is that time passes (`Tick`):
blocked clients may keep trying, and blocks end all the same. In `FollowsLoad` the fairness of the sampling is a
hypothesis of the property.

## 4. What is proved

Every invariant and every action property of a passing run is a theorem (list in `PROJECT.json`), and
so are the two refinements `ImplementsScheduler` and `ImplementsHysteresis`. The theorems hold for any
set of requests, users, keys, models, jobs and sessions (finite only where said), any integer
priorities and limits, any queue depth, window and block time. Assumptions: the ASSUMEs of the modules,
which type the constants. Three of them say more, each for a reason in the code:
`OwnerRankAssumption` (no role ranks above the owner's: `database/seed/seed.py:24`), `IsFiniteSet(Requests)` in
`AbuseControls` (its bound counts the requests of a source), and the hypothesis
`HysteresisSamples >= 3` of `SpikeIsHarmless` alone (`config.py:44` has 3; with 2 it is false).

A property is seldom inductive alone. For each module the strengthening and why it is needed:

* `OrderingLemmas`: a finite set under a strict order can be listed in order, every member once; it has
  a last member; a set of natural numbers has a least one, which gives induction over sets of numbers. The
  library's induction theorems take an operator and cannot be used.
* `SchedulerProofs`, a pass: for any set P that satisfies `IsPromoted`, nobody is left behind, the
  order is kept, the limits hold. For the limits, look at the last element of P: those ahead of it are
  all the others. The loop as written, on any finite queue, ends with such a P and the counters that
  go with it, and there is no other (`LoopPromotes`): by induction over its rounds with `WalkInv`,
  what is picked so far is what `IsPromoted` says of the part walked, also after the `break`.
* `SchedulerProofs`, the scheduler: `SlotAccounting` is not inductive, since a slot is taken by the
  `promoted` flag and given back by the program counter. `Inv` adds `Structure` (waiting = queued and
  not promoted; holders are promoted; promoted tasks are queued, holding, cancelled or released;
  notified tasks are queued) and finiteness of the sets that are counted; `PassOwners` is the counting
  argument of a pass. With `SeqInv` (sequence numbers below the counter, distinct among the waiting)
  every step is one pass or leaves the grants alone (`PassOrQuiet`), which gives
  `NobodyEligibleWaits`, `GrantsLimited`, `GrantsInOrder`, and `LoopIsPromotion` in every reachable
  state. `CeilingsHold`: the slots grow only by a grant (`GrowthIsGrant`).
* `GatewayProofs`: the scheduler's `Inv` is carried through every handler step, and through a crash,
  by the lemmas of `SchedulerProofs`. `Local` adds, for each request: `Place`, what its place in the
  handler says of its scheduler state and of the outcome under way; `Tasks`, registry, watchers and
  pending cancellations only hold tasks that have begun and live, and a dead process has none;
  `EndRow`, the row at the end, or after the boot that follows a crash; `LiveRow`, the row of a request
  no cancel call is about follows the handler, with the one exception of a `CancelledError` in the
  block, where anything from `QUEUED` on may stand there; `Calls`, a task that a cancel call has
  signalled is `Doomed`: its error is on its way, or it is past the backend call.
  `NoDispatchAfterCancel` is the last, `RowStateMachine` follows from `LiveRow` step by step.
* `AdmissionProofs`: the refinement needs `ModeInv` (what is applied was read from the row);
  `ConfiguredCeilingHolds` is an instance of the scheduler's theorem. `AuditExplainsMode` needs that as
  long as the row is absent nothing is audited and no call is about to commit. `OwnerFirst` needs
  `OwnerInv`: under PERSONAL the cap is at least the ceiling, so nobody is at the cap while a slot is
  free and the order decides, and only owners wait with the bonus.
* `PressureProofs`: `StreakInv` relates the candidate and its streak to the full count of `Hysteresis`:
  with a candidate, the current run is of the candidate and as long as the streak; without one, it is
  empty or of the current level. `SpikeHarmless` rests on the median: if all values but one are below a
  threshold, so is the median of three or more (`KthBelow`, `MedianBelow`). `SpikeInv` follows the
  spike through the window: before there are three samples it can make as many outcomes as there are
  samples from it on, two at most.
* `AbuseProofs`: `LimiterInv`: what is left of the deque after the `popleft` loop is the history of
  arrivals let in. It does not matter whether the loop runs before a tick or after it
  (`OlderRecent`), which is why arrivals may stay in the deque beyond their time. `ThrottleInv`:
  counted from the end, a recorded failure is still in the deque unless it is as old as the last block
  (`Matched`), so that a source that is not blocked has at most the threshold less one of them;
  failures plus requests inside never exceed that plus the requests of the source, since a failure
  takes the place of a request inside and none comes in during a block.
* `AdminApiProofs`: `AuthorityHeld` needs `HeldBy`, how much of what lets a request in has been
  true since it was sent, by how far its authentication has come, and that a revocation is never taken
  back. `AtMostOneDefault` needs that only a transaction that is to set the default clears others;
  the unique index and the row locks do the rest. `LostOnlyByRepeat` follows from the same.
* `AnalyticsProofs`: `Reconciles` needs `Ledger`: what a rollup that read a complete day carries are
  the rows of all jobs of that day, which no later step changes (arrivals come later, the jobs have
  ended, retention does not touch `received` and `status`), and the groups of a day are those of its
  jobs. `Overwrites` needs `Chain` besides: as long as retention has deleted none of the day's jobs,
  the sets of groups that the rollups of a day have read and the one in the table are ordered by
  inclusion, and what a rollup has found is nothing or all that is in the table; so what it keeps
  beside its own rows is nothing, or conflicts. `SessionsAreRuns`: the jobs of a group are finitely
  many (`Countable`) and can be listed in order; the first place and the places after a gap correspond
  one to one to the moments that no job precedes within the gap, also when several jobs share a moment.

Only model-checked: liveness (`QueueDrains`, `EveryRequestEnds`, `FollowsLoad`, `BlocksEnd`), since the
prover has neither fairness nor ENABLED.

## 5. Observations without a run of their own

* A crash between `create_received` and `mark_queued` leaves a `RECEIVED` row for ever; a
  disconnect noticed during `mark_queued` ends the handler before its `try` statement and leaves a
  `QUEUED` row and a registry entry (`CancelledUnrecorded`).
* Request-session writes do not check the row, so that they overwrite `CANCELLED`; a job completed
  after that keeps the error class of the cancel call. A rejected job was `QUEUED` before.
* The queue depth counts requests that wait only for their own user's cap: another user can be
  refused beside a free slot.
* Overlapping mode changes may both name the same previous mode in the audit; a request that read
  the older mode may apply it after one that read the newer.
* A stream is unregistered when it starts: a later cancel call answers 200 and the stream runs on
  (T-S4-08 expects "Upstream aborted"); `LiveTasksRegistered` covers the tasks up to that point.
* A backend connection that drops after it was made (`ReadError`, `RemoteProtocolError`) is caught
  by neither proxy and leaves the row `RUNNING`, against the failure matrix; the action `Dropped`
  has it, and `EveryEndRecorded` leaves out the requests in `unrecorded`.
* Of two overlapping patches of a user, one whose value equals the one it loaded writes nothing: a
  "disable" that is answered 200 and audited may be undone by an overlapping "enable", or never
  happen. Admins can demote or disable themselves until no admin is left.
* Two overlapping calls that each make another row the default: one of them is refused by the
  unique index and answered 503 `database_unavailable`, although the database is there. A lost
  default comes back when the seed script runs again.
* A source can exceed the failure threshold by the requests it has inside when the block begins.
* The evaluator starts at `LOW` before its first sample; outcomes that alternate between HIGH and
  CRITICAL reset each other's streak.

* A rollup of a day whose jobs retention has deleted (all or some) replaces the day's rows by those
  of the jobs that are left: "safe to re-run for the same day" holds until retention only. Likewise a
  rollup that read the day before its end and commits last erases the counts of a better one; of two
  overlapping ones the second to insert a group's row is refused and answered 503. `exact` in
  `Analytics` follows which is the case, and `Reconciles` speaks of the days in it.
* `rollup.py:9` says `scripts/retention.sh` wraps the rollup; the script only runs retention
  (`database.maintenance.run_retention`), so that jobs older than the limit are deleted whether or
  not their day was ever rolled up. Nothing records the last successful rollup.
* `rollup.py:22` defines a session by the requests "from one key"; they are grouped by user and model,
  and a session that crosses midnight counts in both days. A gap of exactly 300 s does not end one.
* `_percentile` takes rank `int(n * 0.95) + 1`, one above the nearest rank when n is a multiple of 20.
* The leaderboard counts the active days and the sessions of users whose requests all failed or were
  rejected, beside "failed/cancelled/rejected score nothing" (`leaderboard.py:5`).
* Retention deletes a job by its age, also one that is still open: the next commit of its handler then
  finds no row. `gpu_samples_hourly` is never written.
* `bootstrap_owner` prints an "OWNER API KEY" also for an existing user of any role.
* The seed script repairs a lost default unless it loaded the seeded row as the default before it was
  lost: then the assignment is no change and nothing is written.

## 6. Not modelled

The read-only side: health, the contents of `/status`, listings, metrics, the leaderboard's score (a
formula of real numbers over committed rows). Means and percentiles of a rollup, the deletes of old
GPU samples and audit events: nothing the gateway decides depends on them. Migrations (the modules
start from the schema they produce), the telemetry collector (it writes samples that only reports
read), shell scripts; configuration, logging, error bodies; usage extraction from responses.

## 7. Plan

Done in this order: scheduler, promotion loop, gateway, proofs of the scheduler, pressure,
admission, abuse controls, accounts, model registry, analytics with its proofs, the seed and
bootstrap scripts among the administrative requests, then the proofs of every safety property left.
Next:

1. The hazards that no property covers yet ("note" in `PROJECT.json`), where a property can be stated
   that the code has: what a row left in `RECEIVED` and an uncaught backend exception do to later
   requests, the order of two patches of one user.
2. Lemmas that a change of the code would need again, such as the shares of a promotion pass, stated
   for other limits than the ones of one pass.

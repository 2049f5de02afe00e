# TradingAgents-HoldingsSkill: a TLA+ verification of the backend's protocols

The program is a portfolio adviser: a FastAPI application over one SQLite file,
with an embedded APScheduler tick and daemon worker threads that run long model
analyses.  Almost everything that can go wrong in it without a unit test noticing
happens between those parties: a thread that outlives its lease, a request that
writes what it read a moment too early, a process that dies between two commits.
This directory models those protocols in TLA+, checks them with TLC on small
instances and proves the central ones with TLAPS for every instance.

Paths below are relative to `src/backend/app` unless they start with `src/`.

## 1. Inventory

### How the program runs

* One process (`main.py`).  `lifespan` prepares the database, reconciles
  checkpoints left by the previous process, starts the scheduler and the realtime
  monitor, and on shutdown stops them and signals the workers.
* HTTP requests (`routers/`) run in FastAPI's thread pool, each with its own
  SQLAlchemy session.
* The scheduler (`services/scheduler.py`) ticks at a fixed interval
  (`max_instances=1`, `coalesce=True`) and runs `run_due_checkpoints`,
  `tick_schedules`, the queues of reviews, triggers, shadow intents, backtests
  and notifications.
* Work that takes minutes (an analysis, a review, a backtest) runs in
  daemon threads started by a request or by the tick.  They share nothing but the
  database and the registry of `system/workers.py`.
* SQLite serialises writers: a transaction holds the write lock from its first
  `UPDATE` or `INSERT` to its commit.  Rows read *before* the first write are a
  snapshot of the session and may be stale when the write comes.  The ORM writes
  only the columns whose value differs from the one it read.  These two facts are
  what the models are made of: "read" and "write" of a request are separate
  steps, everything from the first write to the commit is one step.

### Components

| component | state it keeps | operations | hard behaviour | what makes it correct |
|---|---|---|---|---|
| analysis job ownership (`services/analysis_lease.py`, `system/workers.py`) | `AnalysisJob` (status, started_at, finished_at, retry_count), lease of the checkpoint, worker registry | capture, start CAS, fence, reclaim, renew, heartbeat, register, signal | threads that outlive their claim; late heartbeats; lost updates | one owner; a replaced owner writes nothing; a live owner keeps its job |
| analysis job requests (`routers/analysis_v2.py`, `services/analysis_admission.py`) | the same rows | create, cancel, retry | check-then-write across sessions | only active jobs cancelled, only ended ones retried, one analysis per portfolio |
| analysis engine (`services/analysis_engine.py`) | `AnalysisRun`, artifacts, job stage | `run_analysis_job`: start, stages, success, failure, exit | every write must be fenced; failure of one step of several | a job is finished once, together with its checkpoint |
| daily operations (`operations/workflow.py`) | `DailyOperationalRun.checkpoint_state_json`, `DailyOperationalCheckpoint` | claim, admit, reclaim, reconcile, merge, finish | ticks that observe and merge later; crashes; catch-up windows | a claimed checkpoint ends; terminal verdicts are kept; the projection does not lie |
| scheduler (`services/scheduler.py`) | `Schedule`, `DailyReviewRun` | tick, create scheduled job, enqueue reviews, run job | run outlives the tick; read-modify-write of counters | a schedule slot creates one job; failures are counted once |
| operating notifications (`operations/notifications.py`) | outbox rows with a dispatch lease | collect, claim, dispatch, mark read | delivery slower than its lease | one delivery per dedupe key; a delivered one is not undone |
| triggers (`triggers/`) | `TriggerEvent` | apply detection, confirm, expire, resolve | detections of several sources out of order | one open event per key; a cooldown is respected |
| backtests (`research/runner.py`) | runs with a lease and a generation | enqueue, claim, heartbeat, reclaim, complete, fail, cancel | stale workers; cancel against complete | only the current generation completes |
| history sync (`history/sync.py`) | sync runs, imported facts | import | none: one transaction from the row to its completion | an import is all or nothing |
| governance (`governance/service.py`) | parameter set versions, proposals, audit events | propose, submit, approve, reject, activate, roll back | two operators at once | one active version; a version number is given once |
| shadow accounts (`shadow/service.py`) | accounts with generations, order intents, ledger | observe, create intents, fill, rebase, pause | fills that meet a rebase | an intent fills once, in its own generation |
| trade ledger (`portfolio/ledger.py`) | entries and revisions | create, revise, void, confirm | two editors | one current revision per entry |
| provider circuit breaker (`market/providers/health.py`) | failures, opened-at, half-open probe | allow, success, failure, restore | late answers, concurrent probes | an open breaker lets one probe through and recovers |
| analysis workflow audit (`analysis_workflow/`) | node, attempt and artifact rows | record, resume, export | resume after a reclaim | a node of an old generation is not taken for the new one |
| system (`system/backup.py`, `startup.py`, `restore.py`) | backup files, manifests | back up, verify, retain, restore | crash between files | the last verified backup is never deleted |
| memory, portfolio facts, market, candidates, research metrics | tables of facts and derived numbers | import, compute, label | numeric | mostly data, outside the reach of TLC |
| authentication, uploads, model client, frontend, skill package, docs | - | - | - | not modelled |

### Hazards

`PROJECT.json` lists them at their lines, each with the properties that would catch
it, or with the reason why no property does: some hazards really happen (section 9),
the others wait for a module of the plan.

## 2. Plan

Done, in order of importance to the program:

| module | subject | proofs |
|---|---|---|
| `AnalysisLease` | one job, its checkpoint and everybody who writes them | `AnalysisLease_proofs` |
| `PortfolioAdmission` | who may create a job of the portfolio | `PortfolioAdmission_proofs` |
| `ShadowExecution` | two threads fill the order intents of a shadow account | `ShadowExecution_proofs` |
| `NotificationOutbox` | abstract: claim, post, record of durable notifications | `NotificationOutbox_proofs` |
| `TriggerNotifications` | trigger events, their analysis and what they dispatch; composes with and implements `NotificationOutbox` | `TriggerNotifications_proofs` |
| `RunResults` | abstract: a durable run publishes the result of its last attempt, once | - |
| `BacktestRuns` | the durable backtests; implements `RunResults` | `BacktestRuns_proofs` |
| `ParameterGovernance` | parameter versions, proposals and overlapping operator requests | `ParameterGovernance_proofs` |

Left, in this order: `ReviewQueue` and `ScheduleFailures` (`services/scheduler.py`), `TradeLedger`,
`CircuitBreaker`, `SharedContext`, `BackupRetention`.

`AnalysisLease` has no abstract specification of its own.  What one would say (a job is
waiting, owned by one thread, or ended; who has lost it never gets it back; only the
owner ends it) is `SingleOwner`, `LostForGood` and the fence that every finishing action
carries, and a job without a claim does not keep the second.

## 3. `AnalysisLease`: one job, its checkpoint, and everybody who writes them

| variable | code |
|---|---|
| `job` | `AnalysisJob`: `status`, `started_at`, `finished_at`, `retry_count` |
| `claim` | `DailyOperationalCheckpoint`: `status`, whether `job_id` names the job, `attempt_count`, lease, `completed_at` |
| `projection` | `DailyOperationalRun.checkpoint_state_json[key].status`, what the dashboard and the next tick read |
| `admission` | how far the tick is that inserted the claim: `inserted`, then what it found for the job (`absent` or the job's status) |
| `observed` | the status a tick that does not own the claim holds in memory until it merges |
| `worker[w]` | a thread in `run_analysis_job`: how far it is (`pc`), the generation it captured (`retry`, `attempt`, `started`), its heartbeat (`heartbeat`, `lost`) and its stop event (`stop`) |
| `registry` | `system.workers._WORKERS[("analysis", id)]` |
| `request[c]` | a cancel or retry request between its reads and its commit, or between commit and signal; `seen` is the row its session read |
| `stamp` | the clock of the microsecond timestamps: each is used once; 0 is NULL |

| action | code |
|---|---|
| `TickReconcile` | `reconcile_operational_checkpoints`, at start-up and at the head of a tick |
| `TickInsert` | `_claim_checkpoint` on an absent row. It inserts inside `db.begin_nested()`; when the tick has not written yet, this SAVEPOINT is SQLite's outermost transaction and its RELEASE commits, so other sessions and a restarted process see a claim without a job |
| `TickAdmit` | the reads of `_admit_checkpoint_job` |
| `TickCreateJob`, `TickAdoptJob`, `TickCloseClaim`, `TickAbandon` | the rest of the tick's transaction with `_finish_checkpoint_claim`: a new job, the job of the legacy schedule, a verdict at once, or a rollback that leaves the claim |
| `TickObserve`, `TickMerge` | a tick whose claim CAS failed reads the visible status and merges it later |
| `TickReclaim`, `TickReclaimClosed` | `_claim_checkpoint` on a row whose lease is over, with `reclaim_running`: the job runs again under the next generation, or the claim is closed because its job has ended or none can be admitted |
| `LeaseExpires` | time passes `lease_expires_at` |
| `CreateUnclaimedJob` | `create_scheduled_job` for the legacy schedule of the same checkpoint: no claim points at the job yet |
| `ReadJob`, `Capture`, `Start`, `FinalizeCancelled`, `Register` | the head of `run_analysis_job` with `AnalysisWorkerOwnership.capture` and `.start` |
| `LoseOwnership`, `Abort`, `Succeed`, `Fail`, `Exit` | a fenced write that fails, any exception, the success transaction, the exception handler, the finally block |
| `Beat` | `AnalysisLeaseHeartbeat.beat` with `renew_analysis_checkpoint_lease` |
| `CancelRead`, `CancelWrite`, `CancelSignal` | `cancel_job`: check, commit, `signal_worker` |
| `RetryRead`, `RetryWrite` | `retry_job` with `retry_analysis_job_checkpoints` |
| `Crash` | the process dies; rows stay |

`Fence` is `AnalysisWorkerOwnership.lock`, the conditional UPDATE every write of a
thread executes first; `Reconciled`, `Merged`, `Repaired` are what reconciliation
and merging make of the rows.  A transaction that finishes a job calls
`FinishCheckpoint`, because the code calls `finish_analysis_job_checkpoints`
inside it.

Data left out: stage names, prompts, artifacts, error texts, the portfolio and
user of the job.  The graceful shutdown of `lifespan` needs no action: the
scheduler is stopped, threads see their stop event (`Abort`) and the process ends
(`Crash`).  The checkpoints whose work runs inside the tick (preopen, candidates,
review) go through `TickCloseClaim` only.  A tick that inserted the claim and looked
for a job before the legacy schedule created one would insert a second job; this
module stops there (`TickCreateJob` wants `job` absent), the second job is the
subject of `PortfolioAdmission`.

### What the fence promises

Two properties divide the promise of `analysis_lease.lock`.  `SingleOwner`: no two
threads pass it in one state.  `LostForGood`: a thread that fails it once never passes it
again, although requests write back what they read long before.  That whoever ends a job
passes the fence is the guard of the actions that do, so there is nothing to check.

`LostForGood` speaks of threads that captured a claim (`attempt # 0`), and has to.  The
conditions of the fence on the job alone are not monotonic: `retry_count` is written as the
value read plus one, and `finished_at` and `started_at` are reset only if the row the session
read had them.  With four requests a job without a claim comes back to its first thread: two
retries read the same cancelled row, the thread of the first starts and loses the job
when the second is written, which sets `retrying` again with the same `retry_count` and
leaves `started_at` alone, and a second cancel makes the row one its fence accepts.  No
other thread owns the job then (`SingleOwner` holds throughout), but one that had lost it
finishes it.  The claim's `attempt_count` has no such path: every retry and reclaim adds
one to the value in the row.

### Bounds

`MaxAttempts` bounds the claim generations, `MaxRequests` the requests and
`MaxCrashes` the crashes of a behaviour, all in guards.  `Workers` and `Clients`
are slots: a slot is used again when its thread or request has ended, so two
slots allow any number of threads one after the other and two at once, which is
what an old and a new owner need; `_live` has three because two
crashes leave nobody but two reclaims may leave two old threads.  Two request slots
with two requests let a cancel and a retry, or two of either, be in flight together.
Timestamps are not bounded: `stamp` grows with starts and finishes, which the other
bounds limit.

### Timing and fairness

`Spec` lets the lease run out at any moment, so its safety properties hold
whatever the clock does.  `TimelySpec` adds the code's timing: the lease (600 s by
default) is far longer than the start of a thread and several heartbeat
intervals, so it runs out only when no thread alive would renew it (`Renewer`).
`FairSpec` adds weak fairness of each thread's steps (the operating system runs
it; a stuck model call raises a timeout), of the tick (APScheduler's interval
job), of the rest of an admission, of time, and of the rest of a request in flight.
The lease does not run out while its tick is still admitting a job: it was set ten
minutes ahead moments before.  Nobody is obliged to make
a request, and crashes need not happen nor stop.

## 4. `PortfolioAdmission`: the jobs of one portfolio on one day

`AnalysisLease` follows one job.  This module asks who may create one.  It knows
one portfolio, one trading day, the four analysis checkpoints as
`1..LastCheckpoint` and a legacy schedule per checkpoint; a job only starts and
ends, and a claim that follows its job is `RUNNING` for good.

| variable | code |
|---|---|
| `jobs`, `created` | the `AnalysisJob` rows of the portfolio: what made them (which tells the idempotency key), the checkpoint they are for, whether they are active; ids stand for `created_at` |
| `claim` | the `DailyOperationalCheckpoint` rows of the day |
| `ran` | `Schedule.last_run_at` is today, per checkpoint; from the start if no such schedule is enabled |
| `window` | the checkpoint whose catch-up window is open.  The windows (15 minutes by default, `operations/config.py`) do not overlap; the time between two of them acts like the next one, except that nothing is due |
| `actor[a]` | the tick or a request between its steps: the checkpoint (`about`), the last id when it took its time (`born`), the job its lookup found (`found`) and whether that is the active analysis (`reuse`), whether a forced run needs another key (`rekeyed`) |

| action | code |
|---|---|
| `TickBegin`, `SchedulerStep` | `tick_schedules`: one moment for the whole tick, legacy schedule first, fixed checkpoints after |
| `LookUpSchedule`, `InsertScheduled` | `create_scheduled_job`: the four lookups, then the INSERT with its unique key.  When the key is taken by then, the tick's handler goes on with a failed session and the tick is over |
| `ClaimCheckpoints` | `run_due_checkpoints` with `_claim_checkpoint` and `_checkpoint_status`: missed checkpoints are claimed and closed, the due one is claimed or left to its owner |
| `LookUp`, `Reuse`, `Admit`, `Block` | `_admit_checkpoint_job` and `_finish_checkpoint_claim` |
| `ManualRead`, `ManualInsert` | `create_job` |
| `RunNow`, `Reconcile` | `run_schedule_now`, `reconcile_today`, which go on with the steps of the tick |
| `RetryRead`, `RetryWrite` | `retry_job` |
| `TriggerJob` | `create_trigger_analysis_job`, one step because the monitor has flushed the event and holds SQLite's write lock |
| `JobEnds`, `WindowOpens` | the end of `run_analysis_job`, and time |

A lookup and the INSERT it leads to are two steps for everybody but the monitor: a
SELECT holds no lock.  The claim is committed before the lookup, because its
SAVEPOINT is SQLite's outermost transaction when the tick has written nothing
else (with an earlier write in the same session the claim and the admission are
one transaction, which is a subset of these behaviours).

How far the lookups let "one full analysis per portfolio" be exceeded is a theorem,
`ActiveBounded` (section 11): without retries, one analysis per actor that looks and
inserts in two steps, and one more for the monitor.

Left out: schedules that are not for a fixed checkpoint, several schedules for one
checkpoint, crashes and the reclaim of a claim (`AnalysisLease` has them), the
day's change, and the checkpoints whose work runs inside the tick.

Bounds: `MaxJobs` limits the rows, `Requests` are slots, `Kinds` selects the
requests of a run.  Retries need no bound, a job can fail and be retried for ever
in finitely many states.  In `_decided` six jobs are more than two
checkpoints can get, so the bound stops nobody there.

Fairness (`FairSpec`): the scheduler keeps ticking, a request in flight goes on.
New requests, the end of a job and the opening of a window are never obliged to happen.

## 5. `ShadowExecution`: one shadow account and the two threads that fill its orders

| variable | code |
|---|---|
| `clock` | the time: three instants a day, two in trading hours and one after 15:00 (`IsOpen`, `NextOpen`, `NextClose`) |
| `account` | `ShadowAccount`: `status`, `shadow_generation`, and `book`, which fills the materialised cash and positions were computed from |
| `base` | the `INITIAL_CASH` and `INITIAL_POSITION` ledger entries of each generation |
| `intents` | `ShadowOrderIntent` by id: the order, generation, decision time, status |
| `fills` | `ShadowFill`, each with its `ShadowLedgerEntry` |
| `quotes` | `LiveQuoteObservation`: security, time and kind |
| `session[p]` | the SQLAlchemy session of the scheduler tick (`maintain_shadow`) or of the realtime monitor: the intents still to do, the account as first loaded, what it has changed and not committed |
| `writer` | who holds SQLite's write lock |
| `failures` | bound on the sessions that fail |

| action | code |
|---|---|
| `Pause`, `Resume`, `Rebase` | `pause_shadow_account`, `resume_shadow_account`, `rebase_shadow_account` |
| `Capture` | `capture_live_decision_observation` of a final decision with one action |
| `BeginTick`, `BeginMonitor`, `Observed` | a session begins; once it has looked at the quotes, the monitor loads the `PENDING` intents as the tick does |
| `PersistQuote` | `persist_live_quote_observation`.  Its SAVEPOINT is SQLite's outermost transaction, so quotes are committed one by one and the other thread sees some of them |
| `Settle` | an intent that gets a verdict without a fill (`EXPIRED`, `BLOCKED`, `SUPERSEDED`), stays `PENDING`, or finds its fill there already |
| `Choose`, `WriteFill`, `Conflict` | the quote is chosen from what the session reads; the INSERT takes the write lock until the commit, or finds that `execution_key` is taken, which rolls the session back |
| `Commit`, `Fail` | the end of the session, well or not |
| `Tick` | time |

`Outcome` is the decision itself (`process_pending_shadow_intents`): the first eligible quote, price
limits, T+1 (`Sellable` replays the ledger), cash, and the hard cap in terms of the
equity, which needs a mark of everything else that is held.

Left out: prices (all are 1) and their basis (all quotes are raw ones, so
`_basis_compatible` refuses none), lot sizes and fee tables (`Fee` is a constant),
corporate actions, the calendar's gaps, outcome labels, snapshots, performance and
alignment, which are derived numbers.

Properties.  `OneFillPerIntent`: both threads agree on the quote because a quote is
visible or not, and its key is unique.  `FilledHasItsFill`: a `FILLED` intent has a
fill and a fill is of the generation of its intent, although sessions write statuses
over each other's.  `FirstQuoteWins`: no intent is filled from a later quote than the
first that could have decided it, also after a pause or a failed session.

Bounds: a capped security `x` to buy and `y` to sell, a position of 2, decisions after the
close of the first day and at the next open, and one more day, so that settlement, expiry and the
next open happen; two intents and two quotes are what two threads can disagree on; one
rebase and one failure.  `MaxLag` 0 lets no time pass during a session: with 1, one thread can
expire what the other fills, and the properties were found to hold without a rebase (1,077,524
states) and without a failure (5,038,482 states), but with both the run takes too long to keep.

## 6. `NotificationOutbox` and `TriggerNotifications`: from a detection to its notification

`NotificationOutbox` is the outbox by itself, and abstract in one respect: any session
may begin at any time with any set of events and any moment.  `TriggerNotifications`
says which sessions begin with what, and is proved to implement it (`OutboxSpec`).

Time is relative.  The code compares nothing but two moments, so only the ages
of moments are kept, and an age is not counted beyond what a comparison can tell.

| variable | code |
|---|---|
| `rows[k]` | the `OperatingNotification` with dedupe key `k`: status and the age of `last_attempt_at`; a `DISPATCHING` row has its lease from there |
| `ses[p]` | a dispatching session: events still to do, the one it delivers, the answer it is to record; `age` is that of its moment (`now` or `as_of`), which an analysis keeps over retries and a candidate scan is told by its user |
| `posted` | what a channel has accepted at least once (history) |
| `overruled` | the sessions over whose claim another one has recorded a failure (history) |
| `events[r]` | the `TriggerEvent` rows with dedupe key `r`: status, resolution, hits, the ages of first detection and confirmation, whether it is of today |
| `job`, `starts`, `ending` | the active analysis with its `trigger_event_ids`; the monitor is still to start its thread; a thread that succeeded is still to dispatch |

| action | code |
|---|---|
| `Begin`, `Claim`, `Pass`, `Post`, `Record`, `End` | `dispatch_material_events` event by event: `_claim_notification` (INSERT or conditional UPDATE, committed), the channels' POSTs, the outcome written whatever the row says by then |
| `Fail`, `Crash` | an exception ends the dispatch, the process dies: the claim stays |
| `MonitorTick` | the detections of one monitor tick with expiry, suppression, confirmation and `create_trigger_analysis_job` in one transaction; what is material is collected after the commit |
| `MonitorEnds`, `MonitorFails` | the dispatch is over, well or not, and the thread of the job is started |
| `Request`, `JobFails`, `JobSucceeds` | another analysis becomes the active one; the end of the job, with `resolve_trigger_event_from_analysis_run` |
| `AnalysisDispatch`, `AnalysisEnds` | the analysis dispatches as of when its run was created, be it before midnight: of any age, with the events of that day as they are now |
| `Tick`, `NewDay` | time; at midnight what was detected before is not material any more |

Assumptions: the portfolio has one active analysis at most (`PortfolioAdmission` shows
when that fails), and a job that is retried counts as active all along.  Left out: the rows of
the JSON state that preceded the table and the dashboard feed, the read flag, events of
other sources (candidates, reviews, data health), which are claimed alike.

Properties.  `OneOpenEvent` and `ConfirmationsApart`: a rule has one open event, and no
two confirmations within the cooldown, although the first may be resolved in between.
`ClaimsApart`: two sessions deliver one event at once only with moments a whole lease
apart, which is what a take-over means, unless one of them is `overruled`.  The exception
is needed, whatever the cooldown: a session is dated by a moment that may be arbitrarily
old, its record is unconditional, and a `FAILED` row is dated by it.  A session that records
its failure over the claim of its successor leaves a row that may have cooled down already,
and a third session delivers the event beside the successor.  TLC finds that behaviour in
both runs when the exception is left out.
`SentIsPosted`: `SENT` is never written of what no channel accepted, late records
included.  `NeverForgotten`: what was sent or shown changes only by the record
of an earlier delivery.  `EventuallyAnnounced`: a confirmed event is announced although
deliveries fail and the process restarts.

Bounds: one rule with up to two events (one that was resolved and one after the
cooldown), ages of one or two units for each delay, which is enough for every
comparison to go either way; two sessions, the monitor's and the analysis's, one after
the other as often as there is something to do; a mishap is a failed POST, a failed session
or a crash.  In `_day` the cooldown is as short as the lease and no longer than a session's
moment can be old, so that a late failure has cooled down when it is recorded; in
`_announced` it is longer than the lease, and `MaxAge` (how old an analysis is when it
dispatches) is below `MaxMoment`, because a session at that bound stops time.  Fairness
(`FairSpec`): the monitor loop goes on, a dispatch that has begun goes on, and time passes.
No analysis has to end and nobody has to ask for one.

## 7. `BacktestRuns` and `RunResults`: attempts at a durable run

| variable | code |
|---|---|
| `rows[r]` | `BacktestRun`: status, `attempt_count`, lease (held, over or none); `current_stage` is written for display only |
| `slices[r]` | the attempts whose metric slices are stored |
| `threads[t]` | a thread in `run_backtest_worker`: the attempt it was started for (`claimed`), the one it works at (`gen`), its stage and its stop event |
| `cancels` | the runs a cancel request has read and not yet written, and whether it has read a lease |
| `mishaps` | bound on crashes, threads that die, heartbeats that fail and leases that end although somebody is about to renew them |

| action | code |
|---|---|
| `Enqueue`, `Reclaim`, `Claim` | `create_backtest_run`, `reclaim_stale_backtest_runs`, `claim_queued_backtest_run` with the start of the thread |
| `Read`, `ClaimAgain` | the thread reads the run, whoever has claimed it by then, and claims it itself if it was reclaimed |
| `Begin`, `Advance`, `Check` | the stages of `execute_backtest_run`, each a conditional UPDATE and a commit, then `_stop_if_cancelled` |
| `Finish`, `GiveUp` | the slices with the final state in one commit; changed sources, bad quality or an exception |
| `Heartbeat`, `HeartbeatFails`, `Dies` | `_server_backtest_heartbeat`, and what ends it or the thread |
| `CancelReads`, `CancelWrites` | `cancel_backtest_run`, which writes by key whatever the row says by then.  The session writes what it has changed: a cancel that read `QUEUED` changes no lease, and a run claimed meanwhile ends `CANCELLED` with its lease left over |
| `Lapse`, `Crash` | the lease ends, the process dies |

Properties.  `TypeOK` ties the lease to the status: none but `RUNNING` runs and the cancelled
ones above have one.  `OneWorkerPerAttempt`: two threads share an attempt only when one
was started for an earlier one, was late to read the run, and took over the attempt it
found (`Late`).  `FinalUnlessCancelled`: only a cancel that has read the run before takes it
out of a final state.  `ResultSpec`: the refinement of `RunResults`, whatever overlaps, the
slices of one attempt are stored, once, and it is the last.  `Ends`: a queued run ends.

One run, since runs share nothing but the tick; three threads, since two mishaps leave
two old threads beside the current one.  Fairness: the scheduler ticks (reclaim, claim), a
thread alive goes on, and a lease nobody renews ends.  Deadlock is not checked: a run ends.

The synchronous `run_backtest` and the calibration reports are one transaction each and left
out.

## 8. `ParameterGovernance`: overlapping requests of the operators

| variable | code |
|---|---|
| `versions` | `ParameterSetVersion`, the id is the number: status, base, proposal, the `validation_status` in the row (`checked`) and what validation would say of the snapshot (`verdict`); `switched` is history, how its activation read the active version |
| `proposals` | `ParameterChangeProposal`: status, topic (owner, source, target of the change), base, rollback target, `approved_version_id` |
| `ses[s]` | what a request has read and not yet written |

| action | code |
|---|---|
| `ProposeRead`, `ProposeInsert` | `create_proposal_from_calibration`, `create_manual_proposal`, `create_rollback_proposal` |
| `ReviewRead`, `SubmitOrReject` | the routes and `submit_proposal`, `reject_proposal`: the status is tested when read |
| `ApproveRead`, `ApproveNumber`, `ApproveInsert` | `approve_proposal`: the base is still active; the next number, read apart; the version, whose number is unique |
| `Validate` | `validate_parameter_set_version` |
| `ActivateRead`, `ActivateLocked` | `activate_parameter_set_version` of a version without a `PASS` in its row: it is validated first, and this write takes the lock, so the rest sees nothing stale |
| `ActivateCheck`, `ActivateProposal`, `ActivateSwitch` | the same of a version that has its `PASS`: the active version, and after it the proposal, are read before the first write |
| `Refused` | any refusal (trading session, expected version, authorisation, calibration checks), or the process dies |

`Init` is the bootstrapped version 1.  Left out: the contents of the snapshots (validation
answers `PASS` or `BLOCKED` and never `WARNING`), the 15 second cache of the resolver,
audit events.

Properties.  `OneActiveUnlessEarly`: two versions are active together only if one of them
read the active version early, so the way through `ActivateLocked` is safe with any
overlap.  `SomeActive`: no overlap leaves the program without parameters.  `BlockedNeverServed`:
nothing validation blocks is ever active, although the row's `PASS` is older than the
activation.  `BaseWasServed`: every proposal and version builds on an earlier version that was
active.  `ActivatedWasServed`: a proposal that says `ACTIVATED` has such a version, although
statuses are written over each other.

Bounds: two requests at once, two proposals (one may be a rollback), four versions: the first,
one per proposal, and a second one of a proposal approved twice.

## 9. Disagreements between the code and its documents

Three are runs that TLC finds violated (`expect: violation`) with an entry of `findings`.

| run | statement | what happens |
|---|---|---|
| `PortfolioAdmission_two_active` | "one full analysis per portfolio" (`services/analysis_admission.py`) | the monitor commits a trigger job between the tick's lookup and its INSERT |
| `ShadowExecution_overdraft` | a purchase uses only the available cash of the shadow account (`src/docs/SHADOW_EXECUTION_CONTRACT.md`) | the tick and the monitor check the same cash for two intents before either has written; the cash is also that of the quote's time, before what was spent later |
| `ParameterGovernance_two_active` | "One ACTIVE version at a time; old rows are never reactivated." (`src/docs/PHASE_J_ACCEPTANCE.md`) | two activations of validated versions read the same active version, and both succeed; from then on `MULTIPLE_ACTIVE_PARAMETER_SETS` blocks analyses and activations |

More were seen as counterexamples while the properties were written.  No run keeps them;
the properties above are what remains true beside them:

* a cancel that commits between a thread's read of its job and its start CAS is finalized by
  nobody (`services/analysis_engine.py:1677`);
* a queued thread finalizes a cancelled job between the read and the write of a retry:
  `finished_at` stays set and the claim is not renewed (`operations/workflow.py:331`);
* a cancel checked before the job succeeded overwrites the success
  (`routers/analysis_v2.py:187`);
* a claim adopted after the job's heartbeat looked for one is never renewed, and the live worker
  loses its job (`services/scheduler.py:395`, `operations/workflow.py:514`);
* a legacy-schedule job that ends within the tick that made it is not found by its checkpoint, and a
  second job is made (`operations/workflow.py:112`);
* an activation that read a version as `APPROVED` reactivates it after another one has superseded it,
  a rejected proposal has an active version, and one proposal has two versions
  (`governance/service.py`).

`FinishedJobHoldsNoClaim` is false when jobs are also created outside the tick and three
requests meet: the lost renewal above followed by an adoption leaves a finished job behind an
active claim until the next `TickReconcile`.  Its run and its theorem therefore assume that the
tick creates the job.

## 10. Runs

| run | what it shows | states |
|---|---|---|
| `AnalysisLease_restart` | all actions: two threads, two requests in flight, one crash, two attempts, jobs with and without a claim. `SingleOwner`: two threads never both pass the fence. `CompletedIffTerminal`, `ActiveClaimStaysVisible`, `ProjectedSuccessIsReal`: rows and projection agree. `VerdictKept`, `SuccessKept`: only a retry reopens a verdict, nothing a success. `LostForGood`: section 3 | 874,284 |
| `AnalysisLease_live` | no requests, two crashes, three threads. `Recoverable`: a job that can run has a thread or a visible claim; `FinishedJobHoldsNoClaim`; under `FairSpec` `ClaimTerminates` and `LiveWorkerKeepsJob` | 1,215 |
| `PortfolioAdmission_requests` | tick, monitor and a request of any kind over two checkpoints: `OneJobPerKey`, `ClaimMatchesJobs` | 1,242,287 |
| `PortfolioAdmission_decided` | `FairSpec` with run-now and reconcile: `CheckpointDecided`, although a run-now can abort a tick | 453,356 |
| `ShadowExecution_sessions` | two advancing sessions, a pausing and rebasing owner, one failure: section 5 | 2,583,840 |
| `TriggerNotifications_day` | section 6: safety and the refinement, with one mishap and a new day | 808,375 |
| `TriggerNotifications_announced` | `FairSpec`, two mishaps: `EventuallyAnnounced` | 146,450 |
| `BacktestRuns_attempts` | `FairSpec`: safety, the refinement and `Ends` | 540,299 |
| `ParameterGovernance_operators` | section 8 | 2,080,820 |
| `PortfolioAdmission_two_active`, `ShadowExecution_overdraft`, `ParameterGovernance_two_active` | section 9 | |

Symmetry is used for threads and requests in `AnalysisLease_restart` only, which has no
liveness property.  Deadlock is checked in the two runs of `TriggerNotifications`, where the
monitor never stops; elsewhere the system rests when its jobs have ended and the bounds are used up.

## 11. Proofs

All theorems hold for every value of the constants that satisfies the modules' assumptions.

`AnalysisLease_proofs`: `TypeCorrect`, `OneOwner`, `ClaimTimestamps`, `ActiveClaimVisible`,
`ProjectedSuccess`, the action properties `VerdictStable`, `SuccessStable` and
`LostStaysLost`; `FinishedReleases` under `~UnclaimedJobs`,
`CrashRecovery` under `~UnclaimedJobs` and `Clients = {}`, and `LiveWorkerSafe`, of
`TimelySpec` under `~UnclaimedJobs`, which are the instances their run checks; and
`RetryRecovery`, which says of crashes and requests together what `CrashRecovery` says of
crashes alone.
`IInv == TypeOK /\ OwnershipInv /\ ClaimInv /\ ProjectionInv` is inductive.

* `OwnershipInv` is what `SingleOwner` needs: a start takes a timestamp nobody
  has, and the fence compares it, so two threads that pass have the same one and
  are the same.  The fence's other conditions are not needed for this.
* `ClaimInv` relates the claim to the job: while a tick is admitting, the claim is
  active, unlinked and leased, so nobody else writes it; a linked claim names an
  existing job; and a status comes with its timestamps.
* `ProjectionInv` carries the argument about stale merges: what a tick holds in
  `observed` may be terminal, beside an active claim, only if that claim is linked
  and its job has no `finished_at`, so neither a retry nor an admission can revive a
  job behind an observation that hides it.
* `HeldUnfinished`, for `FinishedReleases`: when only the tick creates jobs, every
  job is linked to the claim, which is held only while `finished_at` is null.  A
  retry writes `finished_at` before it renews the claim and renews it only when the
  result is null.
* `FenceInv`, for `LostStaysLost`: `Stands(w)` is what of the fence can only be lost
  (the claim is held in the generation captured, `started_at` is the thread's,
  `finished_at` is null), and a thread that stands passes the whole fence.
  `TermKept` is what every step does to a linked claim: under one generation it takes up
  neither a claim that was closed nor a job that was finished or moved on.  So a thread that
  fails the fence does not stand, and never stands again.
* `RenewInv`, for `LiveWorkerSafe`: an expired lease has no thread alive that would renew it,
  and the heartbeat of a registered thread is bound to the generation it captured or to that
  of the claim its running job has (`Bound`).  A thread that still owns the job, with a
  heartbeat neither stopped nor lost, is therefore a `Renewer`, and the reclaim, which wants
  the lease expired, is not of its job.  With `UnclaimedJobs` this is false: a job adopted
  after its heartbeat looked for a claim has none (section 9).
* `RecoverInv`, for `RetryRecovery`: if only the tick creates jobs, a job that can run and
  has no `finished_at` is held by the claim, unless that says `SUCCESS`; by
  `ProjectionInv` the projection does not hide it, so the next tick finds it when
  its lease is over, whatever crashed.  Both exceptions are needed, TLC finds each: the lost
  renewal of section 9 leaves `finished_at` set, and a job whose success a stale cancel
  overwrote is retried under a claim that stays `SUCCESS`.

`PortfolioAdmission_proofs`: `AdmissionTypes`, `KeyUnique`, `ClaimsMatch`, and
`OneAnalysisAlone`: with `SchedulerAlone` (no requests, no monitor) at most one
analysis of the portfolio is active; the monitor alone breaks it, and so does a retry.
`ActiveBounded` is its general form: for any finite set of requests other than
retries at most `Limit` analyses are active, one per actor and one for the monitor.
`IInv == TypeOK /\ RowsInv /\ HolderInv /\ OneJobPerKey /\ ClaimMatchesJobs`.
`HolderInv` is the heart: only one actor is between the claim
of a checkpoint and its verdict, the claim is `CLAIMED` meanwhile, and a job with
the checkpoint's key comes only with the verdict `RUNNING`; so the holder finds no
such job, and inserts the only one.  `QuietInv` adds for `OneAnalysisAlone` that nobody
but the tick acts, so what it read is still true when it inserts.  `Within`, for
`ActiveBounded`, counts: whoever looks while an analysis is active inserts nothing, so from
the first active analysis on each new one uses up an actor that had looked before, and active
analyses and pending insertions stay within `Limit` together.  TLC finds behaviours that reach the
limit with one request, and exceed it with a retry, which makes a job active
without a lookup.

`ShadowExecution_proofs`: `ShadowTypes` and `ShadowFills` (`FilledHasItsFill`).
`SessionInv` says that a session that holds the verdict `FILLED` sees the fill, its own
or a committed one, and that its uncommitted fills are of their intents' generations:
the generation a session loaded is compared with the intent's before anything is
filled, and an intent never changes its own.
`ShadowOneFill` (`OneFillPerIntent`) and `ShadowFirstQuote` (`FirstQuoteWins`) need
`QInv`, which adds that quotes are persisted in the order of their time (`QuoteInv`),
that intents are of generations there are (`GenerationInv`), and `ChoiceInv`: every fill,
committed, written or chosen, is at the quotes `FirstAt` names, the first that decide its
intent.  `FirstAt` speaks of an account without fills, so it does not depend on which fills
a session sees.  The heart is that it makes no difference: a fill adds to a position only
from a quote of that security, which is then the mark the equity needs (`EquityOfFills`);
so two sessions that saw different fills choose the same quote, and a quote that is not yet
visible is later than what they chose from.

`NotificationOutbox_proofs`: `OutboxTypes`, `OutboxPosted`, `OutboxClaims`,
`OutboxForgetsNothing`, for any lease, cooldown and age of a session.  `AnsweredInv`: who is to
record `SENT` was answered.  `DeliveryInv`: beside a delivery that goes on and is not overruled,
the row is there and not failed, and a claim in it is no older than the delivery; so who
claims the event has found that claim expired and is a whole lease later than the delivery.

`TriggerNotifications_proofs`: `TriggerOutbox` is the refinement, every step of the
triggers is a step of the outbox or leaves it alone, and `TriggerPosted`, `TriggerClaims`
and `TriggerForgetsNothing` are the theorems of the outbox carried over it.  `TriggerTypes`,
`TriggerOneOpen` and `TriggerConfirmations` follow from `EventInv`: the open event of a rule is its
last, and every event confirmed before it is out of the cooldown when it is confirmed.

`BacktestRuns_proofs`: `BacktestTypes` (with what a row's status says of its lease),
`BacktestWorkers` from `StartedOnce` (a
thread is started once per attempt and never for one still to come), `BacktestFinal`, and
`BacktestResults`, the refinement of `RunResults`, from `ResultInv` (slices are those of the last
attempt of a run that has ended).

`ParameterGovernance_proofs`: `GovernanceTypes`, `OneLockedActive`, `AlwaysActive`,
`BlockedStaysOut`, `Lineage`, `ActivatedLineage`.  `RequestInv` keeps of what a request has
read only what cannot become false (`Sound`): a version that was active stays one that was,
a `PASS` belongs to the snapshot, a base does not change.  `SomeActive` needs no more
than that a switch writes `ACTIVE` last.

Model-checked only: liveness (`ClaimTerminates`, `CheckpointDecided`,
`EventuallyAnnounced`, `Ends`), which is out of the prover's reach: every invariant and
every action property of the passing runs is a theorem.  What the runs with bounds say beside the
theorems is that the constants' assumptions are not vacuous and that the instances reach every
action.  The disagreements are counterexamples, for which TLC suffices.

## 12. Not modelled

| part | why |
|---|---|
| history sync runs | `run_history_sync` enqueues, claims, imports and completes in one transaction: no other session sees a `RUNNING` run, so its lease and generation have nothing to decide |
| review queue, failure counter of a schedule | planned (`ReviewQueue`, `ScheduleFailures`) |
| trade ledger, provider circuit breaker | planned; short protocols of their own |
| analysis workflow audit | the resume of nodes is planned; roles, prompts and schemas are data |
| evidence assembly, quality gates and pipeline of the analysis engine | they compute from data between two fenced writes |
| memory, market data, candidates | numeric computations over price series and network reads |
| system maintenance | files; retention is planned |
| authentication, uploads, model client | request and response around external services |
| frontend, skill package, docs, deployment | presentation, prompt text, packaging |

# A TLA+ development of an AI work agent's durable core

The repository is an AI work agent: a FastAPI backend with chat and channel front ends, desktop
clients that execute tools on the user's machine, a scheduler, notifications, and business
conversations on several platforms.  This project models the parts that must be right although
several processes work on the same rows, die between two transactions, answer late or twice, and
are overtaken by commands of the user:

* the *AgentRunner* (`src/src/services/agent_runner`), where every turn of a conversation is a row in
  PostgreSQL, executed by workers that lease it, checkpoint it, park it while it waits, recover it
  after a crash and settle it exactly once;
* the *scheduler* (`src/src/scheduler`), which turns due times into turns of the AgentRunner;
* *desktop runs* (`src/src/desktop_automation`, `src/src/weixin_marketing`, `src/src/local_tools`),
  which send messages one by one through a device under permits of the server;
* *notifications* (`src/src/notifications`), which bring an event of a turn to the user's browsers
  through dispatchers, leases and a provider that may not answer;
* the two parts of the LLM layer that concurrent requests share: the pool of API keys and the
  failover of providers.

(In this file `agent_runner/x.py` stands for `src/src/services/agent_runner/x.py`, and other paths
are relative to `src/src/` unless they start with `src/`.)

## 1. Inventory

| Component | State | Operations | Interacts through | Hard behaviour | Correct when |
|---|---|---|---|---|---|
| Runner tables and fence (`ownership`, `execution_repository`) | `agent_runners`, `agent_runner_session_claims` | acquire, heartbeat, checkpoint, park, hold a cancellation, stage, interrupt, reap | row locks, lease by the database clock, attempt number | stale owners, crash between any two transactions | one writer per runner, one open turn per session |
| Commands (`repository`, `control_repository`, `local_wait`) | control rows, flags and pointer in the runner row | submit, cancel, pause, resume/reply/complete, end waiting | two tables in one transaction | a command races the worker and other commands | pointer and control agree, no command is left open |
| Recovery (`recovery_repository`, `recovery`, `continuous*`) | prepared recoveries in worker memory | prepare, claim, hold, defer, reject, acknowledge pause | read outside, CAS inside | stale preparations, two workers | a command starts one attempt, stops hold |
| Execution (`worker`, `durable_control`) | coroutine memory: attempt, revision, flags | execute() and its handlers, heartbeat, drain | fenced calls | flags seen late, exceptions anywhere | no healthy attempt is refused; every attempt ends |
| Finalization (`finalizer`) | `pending_finalization`, failure count | finalize, retry, abandon, late settlement | one transaction with history, claim, receipts | repeated failure, cancellation after the intent | intent decides, never stuck |
| Cancellation of desktop work (`local_recovery`) | hold marker, detached waits, local invocations | request, collect facts, hold, release sweep | desktop reports | late or missing reports | never "cancelled" while work may run unnoticed |
| Scheduler (`scheduler/`) | task rows, one pending slot each; memory of a dispatcher | claim due, submit, settle, recover, pause, resume, edit, delete | HTTP to the runner API, row locks | late responses, several dispatchers, refusals that meet a changed task | an occurrence runs once, its user hears of it, an answer settles its own |
| Desktop runs (`desktop_automation/`, `weixin_marketing/dispatch.py`) | run, outbox entry, deliveries, attempts | claim, prepare, dispatch, apply result, aggregate, reclaim, cancel, retry | device through invocations and permits; sweeps | takeover by another driver, lost results, cancellation in the middle | a message is sent once, in order, and truthfully reported |
| Local tools (`local_tools/`), device (`src/clients/shared/local-tool-host-core`) | invocations, leases, write permits | claim, start, authorize, act, report, expire | HTTP from the device | lost permit answers, crash between acting and reporting | permits used once, quota kept |
| LLM key pool, failover (`llm/`) | semaphores, breaker state | acquire, release, attempt | asyncio tasks | timeouts, cancellation, overlapping calls | no permit lost, limit respected, the primary recovers |
| Usage (`usage_repository`, `usage_context`) | receipts | start, observe, uncertain, settle | finalizer | late observation, abandonment | each receipt charged once |
| Durable sleep (`durable_sleep`, `timer_repository`) | sleep fact, `wake_at` | arm, claim, consume, replay | worker loop, controls | timer against resume, cancellation, crash | one consumer per sleep |
| Event log (`event_repository`, `event_stream`) | events, cursors | append, page, prune | readers over SSE | prune during a page | no silent gap |
| Notifications (`notifications/`) | messages, targets, preference, deliveries | accept, publish, expand, claim, prepare, send, finish, clean up; register, revoke, switch | lease and claim version, subject lock, threads of a dispatcher | sender dies or outlives its lease during the call, user revokes during an expansion | bounded calls, nothing unwanted is admitted for sending, everything settles |
| Session tasks (`session_tasks/`) | control state, occurrences | accept, decide, settle, expire | desktop clients | takeover, expiry | one open run per subject |
| Channels, legacy session queue (`channels/`, `core/session_queue.py`) | dedup table, Redis keys | deduplicate, lock, merge, cancel | Redis TTLs | holder outlives its TTL | no successor's state wiped |
| Everything else (subagents, plan manager, knowledge, memory, skills, MCP, SaaS, billing, clients, front end) | see `PROJECT.json` | | | mostly data and I/O | |

`PROJECT.json` lists each part with its sources and status, and the hazards of the code at the line
where each one bites, with the properties that would catch it.

## 2. Modules

| Module | What it is |
|---|---|
| `SessionTurns` | abstract specification: what a conversation is promised about its turns |
| `AgentRunner` | the protocol: tables, commands, acquisition, recovery, execution, failure |
| `AgentRunnerTurns` | refinement mapping from `AgentRunner` to `SessionTurns` |
| `AgentRunnerProofs`, `AgentRunnerAuthority` | TLAPS: `TypeOK` is inductive; claims, attempt numbers, the fence |
| `AgentRunnerLifecycle` | TLAPS: commands, decisions and ends of a runner, the owner's revision, the refinement of `SessionTurns` |
| `OccurrenceLedger` | abstract specification: what a scheduled task promises about its occurrences |
| `ScheduledTask` | a task, its slot, the dispatchers, the runners that were accepted for it, the user |
| `ScheduledTaskLedger` | refinement mapping from `ScheduledTask` to `OccurrenceLedger` |
| `ScheduledTaskProofs` | TLAPS: one inductive invariant, the task's safety properties, the budget of a recovery, what can disappear, the steps of the refinement |
| `DesktopRun` | one run with its outbox entry, deliveries, invocations and permits, the drivers, the device, the user |
| `DesktopRunProofs` | TLAPS: order and charging for any drivers; sent once, the reports to the user and the verdict for one |
| `NotificationDelivery` | messages, targets and the preference of one user, the deliveries, the dispatchers |
| `NotificationDeliveryProofs` | TLAPS: types and the four safety properties |
| `KeyPool`, `KeyPoolProofs` | the pool of API keys and its semaphores; types, accounts, the limit of a key and the passing on of permits proved |
| `Failover`, `FailoverProofs` | circuit breakers and the chain of providers; types and the breaker's invariant proved |
| `MCAgentRunner`, `MCScheduledTask`, `MCDesktopRun`, `MCNotificationDelivery`, `MCKeyPool`, `MCFailover` | definitions for TLC: who belongs to whom, the schedules a user may choose, symmetry |

The parts compose at two seams.  `ScheduledTask` keeps of a runner what `AgentRunner` shows of it
outside (accepted once per key, open, interrupted, resumed by a control, ended); `AgentRunner` and
`DesktopRun` meet at the invocations of a device, of which the former keeps what a cancellation needs
to know and the latter everything a write operation goes through.  `NotificationDelivery` begins where
a turn publishes an event: `Accept` is the acceptance of the turn, `ResourceChanges` a wait of it that
was answered.

### AgentRunner

* `row`: a row of `agent_runners`.  `lease` is `none`, `live` or `expired`: the comparison of
  `lease_until` with the database clock.  `resume` is `resume_control_id`; `cancelOnly` is
  `finalization_intent = cancel_only`, `pending` the status in `pending_finalization`, `blocked`
  the marker `cancel_completion_blocked`, `detached` the flag `detached_local_wait`, `failures`
  `finalize_failures`, `held` a permanent hold of continuous recovery, all parts of the JSON
  `checkpoint`.  `abandoned` is `finalize_abandoned`.
* `claim`: `agent_runner_session_claims`; `control`: `agent_runner_controls`.
* `effect`: what is known of the runner's operation on the user's desktop (`local_tool_invocations`
  and the like): `known` to have ended or never started, `pending`, or `unknown`.
* `task`: a coroutine of `RunnerWorker.execute` and the `DurableControl` it holds: attempt, last
  revision, the cancel and pause flags as it last saw them.  `pc` says where it is: `unstarted` (a
  pause was requested before it started), `run` (the engine), `cancel` and `hold` (around
  `_await_cancel_completion`), `final` (a result is staged), `failed` (in an exception handler).
* `prepared`: what `_acquire_controls` or `_acquire_continuous` read and prepared before it claims.
* `faults`: how much of the fault bound is used.

Every action on the tables is one transaction: each begins by locking the runner row `FOR UPDATE`
(`lock_runner`), so its conditions and its writes are atomic.  Two transactions of one handler are
two actions.  What a coroutine knows comes only from its own memory.

| Actions | Code |
|---|---|
| `Submit`, `Cancel`, `SubmitPause`, `SubmitResume`, `EndWaiting` | `repository.submit_in_tx`, `cancel`; `control_repository.submit_in_tx`; `local_wait.end_waiting` |
| `AcquireQueued`, `AcquireFinalizing`, `AcquireCancelled` | the three branches of `execution_repository.acquire` |
| `PrepareResume`, `ClaimResume`, `RejectResume` | `worker._acquire_controls`, `claim_resume`, `reject_resume` |
| `PrepareContinuous`, `ClaimContinuous`, `DeferContinuous`, `DropPrepared` | `worker._acquire_continuous`, `claim_continuous`, `defer_continuous`; a claim that returns nothing |
| `Heartbeat`, `Checkpoint`, `Dispatch`, `DispatchRefused`, `LoseLease` | `_heartbeat`, `save_checkpoint` without and with the dispatch fence, `StopRequested`, `LeaseLost` |
| `ParkWaiting`, `ParkPaused`, `AcknowledgePause`, `AcknowledgeRefused` | `park`, `acknowledge_pause`, and its refusal under a cancellation |
| `StageResult`, `StageCancelled`, `Finalize` | `stage_finalization`, `finalize` |
| `DetachWait`, `CancelUnconfirmed`, `BlockCancel`, `ReleaseReady` | `cancel_owned_invocations`, `_await_cancel_completion`, `block_cancel`, `release_ready_cancellations` |
| `Raise`, `FailInterrupt`, `FailStage`, `FinalizeRetry`, `Abandon`, `GiveUp` | the handlers of `execute()`, `interrupt_attempt`, `finalize_failed`, `_abandon` |
| `ExpireLease`, `Stall`, `ReapExpired`, `Crash` | the clock, `reap_expired`, a process that dies |
| `EffectKnown`, `EffectLost` | reports of the desktop |

### ScheduledTask

* `task`: the row of `scheduled_tasks`: status and reason (`paused_reason`), type and window, `runAt`,
  `next` (`next_due_at`), `def` (a version of the definition), the slot `pend` with occurrence key,
  trigger, snapshot of the definition and the due time it consumed, and `round`: the number of
  resumptions, the order in which `resumed_at` and the controls of a recovery lie.
* `run`: the runner of an occurrence, found by its key (`client_request_id`); `call`: the copy of a
  row that a dispatcher works on, and how far it is; `late`: requests whose sender stopped to wait.
* `fate` is history: whether an occurrence was claimed, and whether its user was told of its end or
  dropped it himself.  What the end of a blocked run takes out of the slot is neither.
* `now` is the clock of the database.  A due time is its instant, and the occurrence key of a
  scheduled run is that instant, as in the code; a manual run has a key of its own.

| Actions | Code |
|---|---|
| `ClaimDue`, `ExpireOnce`, `FinalizeWindow` | `list_due` with `claim_due`, `finalize_window_ended` |
| `ListPending`, `PostAccepted`, `PostRefused`, `GiveUp`, `LatePost` | `_submit_pending`: request, the guard `lock_for_acceptance_in_tx` and the insertion of the runner, the answers, and a request that arrives after its sender has gone |
| `ClearPending`, `PauseForOccurrence`, `RejectManual` | `clear_pending`, `pause_for_occurrence_with_notify`, `reject_manual_pending_with_notify`, in the order of `_handle_submit_error` |
| `ListInterrupted`, `CountBudget`, `CountSequence`, `PostControl`, `PostDenied`, `LateControl`, `PauseInterrupted` | `_resume_interrupted`, `_resume_one`, `_handle_resume_error`: listing, the two counts, each in its own transaction, the control, its refusal, the pause with the reason of the refusal |
| `Pause`, `Resume`, `Reschedule`, `EditDefinition`, `SubmitManual`, `Delete`, `Cancel` | the methods of `ScheduledTaskDB` behind the API, and the cancellation of a run |
| `Interrupt`, `Resumed`, `RejectControl`, `RunEnds` | the runner; `RunEnds` with `_record_run_result_in_tx`, which runs in its transaction |

### DesktopRun

* `run`, `outbox`, `del`: the rows of the run (state, and whether its lease is running), of its
  `run_due` entry, and of its deliveries; `started` is a dispatched delivery whose phase is past
  `prepared`.  `reopened` are the deliveries that were retried, whose `finished_at` stays set.
* `op`: for a delivery and the number in its dedupe key, the invocation, the attempt, the write
  permit, and what the device does with it; `overtime`: whose deadline has passed.
* `drv`: a driver inside `run_dispatch_tick`; `aggregate`: calls of `advance_run`, which reads the
  deliveries in one transaction and finishes the run in another.
* `sent` is history: how often a message really went out.

| Actions | Code |
|---|---|
| `ClaimEntry`, `Poison`, `ClaimRun`, `PassEntry`, `CloseEntry`, `Requeue` | `outbox.py` and `_process_outbox_entry` |
| `Prepare`, `InsertDeliveries`, `Pick`, `Check`, `Enqueue`, `Dispatch`, `Abandon`, `DriveRunning` | `executor.py`, one action per transaction; `_advance_running_run` |
| `Cancel`, `Pause`, `Publish`, `Retry` | `cancel_run`, pausing and publishing a task, `retry_delivery` with its two transactions |
| `Claim`, `Authorize`, `Decline`, `Withdraw`, `Act`, `Conclude`, `DeviceCrash` | `invocationRunner` of the tool host, with `claim_next` and `write_authorize` |
| `ApplyResult`, `ResultIgnored`, `AdvanceRead`, `AdvanceFinish`, `AdvanceLost` | `apply_operation_result`, then `advance_run` |
| `PermitExpires`, `ClaimExpires`, `Deadline`, `LeaseExpires`, `Reclaim`, `Overdue` | the sweeps and the clock |

### NotificationDelivery

* `msg`, `target`, `pref`, `del`: the rows.  `lease_until` is the flag `leased`, `expires_at` the set
  `overdue`; `enabled_since` is the set of messages whose task was accepted before it (`older`), which
  is all it is compared with.  `tries` is `attempts` and `claim_version`, which the same statement
  increments and nothing else changes.  `visible` stands for the read guards of subject and resource.
* `exp`: an expansion that has read the targets and not yet written; `hold`: the claims that a
  dispatcher's threads work on, and how far they are.
* `calls`, `lapsed`, `broken` are history: how often the provider was called and the user reached,
  and what changed since a task was accepted or an expansion read its target.

| Actions | Code |
|---|---|
| `Accept`, `Publish`, `ExpiresAt`, `Cleanup`, `ResourceChanges` | the row's `accepted_at`; `publish_in_tx`; the clock; `cleanup`; `assert_subject_in_tx` and `resource_in_tx` |
| `RegisterTarget`, `RevokeTarget`, `EnablePreference`, `DisablePreference` | `register_target`, `revoke_in_tx`, `set_preference` with its sweep |
| `ExpandOverdue`, `ExpandRead`, `ExpandWrite` | `expand`: expired messages, the query of the targets, `_append_delivery` with the commit |
| `Claim`, `PrepareSend`, `PrepareRefused` | `claim`; the two ends of `prepare_send` |
| `Send`, `Finish`, `FinishFenced` | the adapter's `send`; `finish` and its fence |
| `LeaseAbandoned`, `LeaseOutrun`, `BookkeepingFails`, `Stop`, `Crash` | the clock for claims that nobody and that somebody works on; exceptions that `gather` keeps apart; `stop`; a process that dies |

### The LLM layer

`KeyPool`: `value` and `queue` are `_value` and the waiters of the semaphore of a slot, which is
named by its key and a generation, because `_ensure_loop` replaces it when another event loop uses
the slot.  `task` has the tasks that take permits: the one `wait_for` makes for the fast path, and
one for each key in the slow path, which run and are cancelled on their own.  A step is what runs
between two awaits.

| Actions | Code |
|---|---|
| `EnterFast`, `EnterSlow` | `_get_slot` up to its await, with and without a free key |
| `Start`, `Resume`, `GiveBack` | a task in `Semaphore.acquire`: first run, permit granted, cancelled after the grant |
| `FastAcquired`, `FastTimeout`, `Retry` | `_KeySlot.acquire` returns, and `_get_slot` goes on to the slow path |
| `SlowAcquired`, `SlowTimeout` | `_wait_any_slot` after `asyncio.wait` |
| `Release`, `Cancel` | the end of the block of `acquire()`; the request's task is cancelled |

`Failover`: `state` and `failures` are a breaker's fields, `cooled` the comparison of
`_last_failure_time` with the clock.  `Begin` takes the chain (`_get_provider_chain`, which
half-opens breakers), `Succeed` and `Fail` are the two outcomes of an awaited provider with
`record_success` and `record_failure`, `Leave` the outcomes no breaker hears of.  `healthy` is the
world: a provider answers or does not; `late` has the calls that met it down.  Failures are counted
up to the threshold, which is all they are compared with.

### Abstractions

`AgentRunner`:

* Checkpoint contents, results, snapshots and events are data; of the checkpoint the fields that
  steer the protocol are kept.
* A cancellation that repeats an earlier one, a heartbeat that changes nothing and `hold_resume`
  (which only changes the view) are stutters.
* `complete_cancellation_audits` and `_preserve_duration` write a revision that their own coroutine
  takes over at once, as `DetachWait` and `Checkpoint` do; the guard of `Checkpoint` bounds them.
  `stage_finalization` may find new input of the user and stay `running`: the coroutine goes on as
  after a `Checkpoint`.
* `Raise` leads to the handlers from any point; the handlers' conditions on the kind of exception
  are a choice among their outcomes.
* One operation on the desktop stands for a runner's operations: the conditions quantify over all
  of them and only their conjunction matters.  An audit or a domain fact that is unknown is an
  operation that stays `pending`.

`ScheduledTask`:

* One task, since a transaction locks one row; batch limits of the listings and quotas are left out.
* The pacing of retries (`pending_retry_at`, the back-off, `recovery_retry_at`, `defer_recovery`) and
  `start_at` delay steps the model may take at any time anyway.
* Interval and cron differ in what a resumption and a new schedule compute: an interval starts over
  now, a cron after now.  Points between two claims are merged, as the code does.
* Authorization and credit refuse requests when they like, up to `MaxFaults`.  The WeCom plans and
  the manager's system jobs are other users of the same tables and are left out.
* The user may cancel a run but does not resume it himself; `AgentRunner` has those commands.

`DesktopRun`:

* Payloads, targets and evidence are data: that evidence is judged invalid is a choice.  The
  admission checks of the device and of `write_authorize` that do not depend on the state here
  (tenant allow list, steps per run, settings) can only refuse, which is `Decline`.
* A permit expires before the lease and the deadline it was issued under, as its term is bounded by
  both; `ClaimExpires` and `Deadline` therefore wait for it.
* One driver at a time is what the job's `max_instances=1` and the scheduler's Redis lock are for;
  run `desk` assumes it, run `desk_twice` shows what depends on it.

`NotificationDelivery`:

* One user, one channel and provider.  Events of tenants and rules, the explicit test message, the
  inbox and the administration of rules are other producers and readers of the same rows.
* A batch of an expansion is expanded one message after the other.  Every expansion needs the
  subject's lock, which the code skips for messages whose subject is not readable; they are expanded
  to nothing.
* The back-off of a retry is a delay the model may take anyway.  Whether the provider is configured
  does not change.  `prepare_send` reads its rows in one transaction and is one step.
* Retention is counted in days after the expiry; `Cleanup` may follow it at once, but not under a
  running expansion, which has the row locked.

`KeyPool`: the semaphore is that of CPython 3.11, the version of the image.  The order in which
ready coroutines run is abstracted to any order, except that a timer fires after what was ready
before it.  A thread switch inside `_ensure_loop` is not modelled.  `_active_calls` and
`_total_calls` are statistics.  `Failover`: the pool inside a provider's slot is part of its call: a
key that is not obtained in time is an error like others.  Alerts and logs are left out.

## 3. Runs

All runs use the `MC` module of their component and `CHECK_DEADLOCK FALSE`: the system may rest, when
all turns, occurrences, deliveries or requests are over or when the bounds of the model are used up.

| Run | Instance | Properties | Shows |
|---|---|---|---|
| `safety` | 1 runner (a device task), 1 worker with 2 coroutines, 2 controls, 2 faults, revision bound 3 | `SingleAuthority`, `ResumePointer`, `NoControlLeftOpen`, `BlockedMarkerCurrent`, `NoReplay`, `CancelledMeansStopped`, `IntentDecides` | the bookkeeping of one runner under every interleaving |
| `session` | 2 runners in one session, one of them continuous, 2 workers with one coroutine each, 2 controls, 1 fault, revision bound 1 | `OwnerInStep`, `ClaimIffActive`, `CommandHolds`, `ImplementsTurns` | the session implements `SessionTurns`; stale preparations of two processes lose |
| `live` | 1 continuous runner, 2 coroutines, 1 control, 2 faults, `FairSpec` | `CancellationEnds`, `FinalizationEnds`, `AttemptEnds` | progress |
| `sched` | 2 dispatchers, the three kinds of schedules, 1 manual run, 2 commands, 1 fault | `PausedHoldsNothing`, `OncePerDue`, `NoOrphan`, `OnceUsedUp`, `AnswerSettlesItsOwn` | a task against late answers, takeovers and its user |
| `sched_live` | 1 dispatcher, a cron with a window, `MaxTime` 1, 1 manual run, 1 command, 3 faults, `FairSpec` | `RecoveryBounded`, `LostBehindBlocked`, `ImplementsLedger`, `PendingSettles`, `InterruptionEnds` | what is pending is settled, an interruption ends; the ledger is implemented |
| `desk` | 2 deliveries with 2 invocations each, quota 2, 1 retry, 1 fault, one driver, `FairSpec` | `AttemptsSendOnce`, `InOrder`, `NotSentHolds`, `VerdictHolds`, `Charged`, `RunEnds` | a run keeps its promises and ends |
| `notify` | 1 message, 1 target, 2 dispatchers that claim one at a time, 2 attempts, 2 changes, 2 faults, `FairSpec` | `CallsBounded`, `RepeatsExcused`, `OffMeansNone`, `SendWanted`, `Settles` | a delivery against takeovers, lost answers and its user |
| `pool_safety` | 4 requests that may be cancelled, 2 keys of 1 permit, one loop | `WithinLimit`, `PermitsAccounted`, `NoIdlePermit` | the limit and the accounts of the pool |
| `failover_live` | 2 requests, 2 providers, threshold 2, `FairSpec` | `TrippedByFailures`, `PrimaryRecovers` | state and count of a breaker agree; recovery |
| `pool_pair` | 3 requests, 2 keys, no cancellation | `NothingLost` | violated: section 5 |
| `sched_silent` | 2 dispatchers, a once task | `NothingSilent` | violated: section 5 |
| `desk_twice` | 2 drivers, 1 delivery, no fault | `SentOnce` | violated: section 5 |

The type invariants are proved (section 4) and therefore not among the properties of the runs.

The properties in words:

* `ClaimIffActive`: a session is claimed exactly by its active (executing or parked) runner.
* `SingleAuthority`: one coroutine at most passes the fence for a runner.
* `OwnerInStep`: the owner's revision is the row's: no command of the user and no sweep makes a
  healthy attempt fail with `CHECKPOINT_REVISION_CHANGED`.
* `ResumePointer`, `NoControlLeftOpen`: `resume_control_id` and the accepted control are one fact;
  a cancelled or ended runner has no accepted control.
* `BlockedMarkerCurrent`: a held cancellation can always be found and released by the sweep.
* `NoReplay`, `CommandHolds`: an attempt after the first exists because of a command of the user, or
  of the mode the turn was accepted with; what a user stopped stays stopped although a worker had
  prepared its continuation.
* `CancelledMeansStopped`: `cancelled` is not announced over an operation that may still run.
* `IntentDecides`: the committed intent decides the terminal status, and terminal rows stay.
* `CancellationEnds`, `FinalizationEnds`, `AttemptEnds`: progress.
* `ImplementsTurns`: turns of a session open one at a time, the oldest first; an open turn is decided
  once and closes with what was decided, or as failed when a result cannot be recorded.
* `PausedHoldsNothing`: no occurrence waits in a task that is paused, expired or deleted.
* `OncePerDue`: a due time is run once, whatever is retried, lost, paused, resumed or rescheduled.
* `NoOrphan`: no run that is not over belongs to a deleted task.
* `OnceUsedUp`: only a scheduled run uses up a once task.
* `AnswerSettlesItsOwn`: the answer to a request changes the task only while the task holds the
  occurrence that was asked about.
* `RecoveryBounded`: in one round (from one resumption of the task by its user to the next) an
  interruption is resumed at most `recovery_max_attempts` times without success, and once more by
  each dispatcher that had counted the budget before the last rejection (section 5).
* `NothingSilent` (violated in `sched_silent`): an occurrence that was claimed is pending, was run,
  or its user was told or dropped it.
* `LostBehindBlocked`: an occurrence disappears without a word only with the end of a blocked run of
  its task, in the transaction that pauses the task for it.
* `PendingSettles`, `InterruptionEnds`: an occurrence does not wait for ever, an interruption goes on
  or is brought before the user.
* `ImplementsLedger`: one occurrence waits at a time and not for ever; it is run only if it waited,
  and never again.
* `SentOnce` (violated in `desk_twice`): a message is sent at most once.  `AttemptsSendOnce`: it is
  sent at most once by the invocations of its attempts, however often it is retried.  The other ones,
  which a crash inside `retry_delivery` leaves behind, are described in section 5.
* `InOrder`: a message is sent only after all before it are known to have been sent.
* `NotSentHolds`, `VerdictHolds`: what the user is told was not sent was not sent (stray invocations
  excepted as before); a run that succeeded sent every message; a run that expired sent none but by
  a later retry.
* `Charged`: a message that was sent has a permit that counts against the quota.
* `RunEnds`: a run ends, although drivers crash and devices fall silent.
* `CallsBounded`: the provider is called at most `max_attempts` times for a delivery, whatever
  crashes, stops or loses its lease.  `RepeatsExcused`: the user is reached a second time by it only
  when something was lost, once for each loss.
* `OffMeansNone`: while the preference is off nothing that it routes waits or is being sent, although
  expansions run beside the switch.
* `SendWanted`: a send is admitted only to the target as its expansion read it, and what the
  preference routes only if preference and target stayed on since the task was accepted.
* `Settles`: every published message is expanded, expires or is deleted, and its deliveries end.
* `WithinLimit`: no key is used by more requests than its limit.
* `PermitsAccounted`, `NoIdlePermit`: a permit is free or in the hands of one task, and is not left
  free over a queue without somebody on the way to pass it on.
* `NothingLost` (violated in `pool_pair`): a permit that was taken has a request that will use it.
* `TrippedByFailures`: a breaker is closed exactly while it counts fewer failures than its threshold.
* `PrimaryRecovers`: a primary that answers for good is used again for good.

Each property of a passing run has a mutant in `PROJECT.json`: a definition next to the original
in its module (marked "Mutant of") with a plausible bug, under which TLC finds the property
violated in the same run.

### Bounds

* `AgentRunner`: `MaxFaults` counts crashes, stalls past the lease, exceptions and temporary
  back-offs.  Two are enough to lose an owner and then its successor, the shortest path to each of
  the stale states the invariants are about.  `MaxRevision` bounds the checkpoints of running
  attempts only; parks, stagings and acquisitions go on beyond it.  Three allow a dispatch followed
  by another checkpoint in the first attempt, and one after a recovery.  `session` takes one: its
  properties are about recoveries, and the second runner and worker multiply the states.  Attempts
  are bounded by the controls (each resume is one), the faults and the mode; two controls give every
  pair of pause and resume, in both orders.  Two coroutines are the smallest number that allows a
  stale attempt beside its successor; in `session` they belong to different processes, in the other
  runs to one process, where the worker's name alone does not tell them apart.
* `ScheduledTask`: `MaxTime` 2 gives two due times of a recurring task and a once task that is
  overdue; `Grace` 0 makes it expire at the next instant.  One manual run can lie before, between and
  after scheduled ones.  Two commands are a pause and its resumption, or either with an edit;
  two dispatchers are an owner of an answer and the one that went on without it.  The liveness run
  has one dispatcher (there is no symmetry), two due times (`MaxTime` 1) and three
  faults instead: a run is interrupted, its control rejected, which is the whole budget of
  `MaxAttempts` 1, and so is the control that the dispatcher adds because it had counted before.
* `DesktopRun`: two deliveries order each other; two invocations of a delivery are one and its retry.
  A second retry, which is what a stray invocation needs, takes three: with them the run has millions
  of states and outgrows a run; the theorems of `DesktopRunProofs` hold for any number.
  `Limit` 2 makes the quota bite when a permit is kept and a retry follows.  `MaxOutboxAttempts` 1
  makes an entry poisonous on the second try (the code allows more, each like the first).
* `NotificationDelivery`: the fences and sweeps of two deliveries do not meet except in the switch of
  the preference, so one message and one target give every pair of steps; the theorems hold for any
  number.  Two dispatchers are a sender and the one that takes over; two attempts a retry and
  the exhaustion; two changes a switch off and on, or a registration and a revocation; two faults a
  lease that is outrun and an answer that is lost.
* Pool: four requests on two keys of one permit give waiters of the fast and of the slow path in
  one queue and two releases at a time.  `MaxGen` bounds the semaphores of a slot: one is enough for
  one loop.
* Failover: with threshold 2 a breaker counts without opening, and one request may be late for
  what the other does.  Requests are made again without end.
* Symmetry: controls and coroutines (or workers with their coroutine), dispatchers, drivers and
  requests are interchangeable.  It is not used in runs with liveness properties.

### Fairness

Fairness is what the code drives by itself:

* `AgentRunner`: the steps of a coroutine that owns its attempt (weakly fair): an engine run is
  bounded by its timeouts and iteration limit, and `execute()` continues after every transaction;
  `ExpireLease`, the database clock; `ReapExpired` and `ReleaseReady`, sweeps of `RunnerWorker.run`,
  on every round of the loop.  Acquisition of a finalizing or cancelled runner is strongly fair: the
  loop tries it on every round, but `SKIP LOCKED` and a busy slot may make it miss while the runner
  comes and goes.
* `ScheduledTask`: `run_once` goes through its four stages in a fixed order on every round.  A
  dispatcher therefore goes on with what it holds (weakly fair), and lists pending occurrences and
  interrupted runs again and again (strongly fair: other stages come between).  A runner consumes an
  accepted control, which is `AgentRunner`'s progress.
* `DesktopRun`: the tick of the driver, the clocks of permits and deadlines, the expiry of the
  run's lease and the reclaim sweep.  Nothing is assumed of the device, of results, of the claims'
  sweep or of the user.
* `NotificationDelivery`: `tick` expands and claims again and again, its threads run to their end, and
  the lease of a claim that nobody works on runs out.  Nothing is assumed of the user, of
  `cleanup`, of expiry and of how the provider answers: attempts are bounded.
* In the failover, users keep asking, time goes by, calls of a provider that is down fail, and a
  request that again and again could get an answer gets it (strongly fair: it may be given up or
  refused in between). Nothing is assumed of the health of a provider.

Nothing is assumed of the user or of the desktop: `EffectKnown` is not fair, so
`CancellationEnds` is about cancellations that can be confirmed.  Faults are bounded, which is
what "eventually" needs.

## 4. Theorems

The theorems hold for every value of the constants under the assumptions named here.

`AgentRunnerProofs`, `AgentRunnerAuthority` (any number of runners, sessions, workers, coroutines and
controls; `ConstantsAssumption`: runner ids are numbers, the three "no such" values are no ids):

* `TypeCorrect`: `Spec => []TypeOK`.  `TypeOK` is inductive with two facts among the types: a
  coroutine that is not idle, and a recovery that is prepared, name an existing runner, because
  the row updates index the table by them.
* `AuthorityCorrect`: `Spec => []AuthorityInv`.  `ClaimIffActive` is inductive given the types;
  `SingleAuthority` is not: that two coroutines own a runner is excluded only because they hold
  different attempt numbers, which no state of the fence says.  `AttemptsDistinct` says it: a
  coroutine holds a number its row has reached, and two coroutines never the same one; a new
  attempt gets the successor of the row's number, which is above all that were given out.
* `ClaimCorrect`, `FenceCorrect`: the properties `ClaimIffActive` and `SingleAuthority` of the runs.
* `OneTurnPerSession`: two different runners of a session are never both active.

The proof has one step per action; `MemoryStep`, `RowStep`, `StartStep` and `EndStep` state once
what each shape of step preserves.

`AgentRunnerLifecycle` (the same constants and assumption, and no others):

* The forty-odd actions write a row in twelve ways only: a runner enters, is withdrawn, commanded,
  no longer waits, starts, progresses, decides, parks, is held, ends, loses its owner, or is noted in
  a field that steers nothing (`Shape`).  `MovesNext` proves that every step moves every row in
  one of them, and that the controls and the operation on the desktop go along (`WordMove`,
  `EffectMove`): a cancellation or an end rejects what is accepted, the pointer moves with its
  control, a parked runner starts only by consuming a continuation or in continuous mode, and a
  cancellation is decided only when `CancelComplete` holds.  Everything below follows from these
  moves without looking at an action again.
* `LifecycleCorrect`: `Spec => []LifecycleInv`.  `ResumePointer`, `NoControlLeftOpen` and
  `BlockedMarkerCurrent` are inductive given the moves; the others are not.  `NoReplay` counts the
  controls that an attempt consumed, so it needs that no older control names a later attempt
  (`ControlsKnown`) and that what starts from the queue starts its first attempt (`QueuedFresh`).
  `CancelledMeansStopped` needs the same of a cancellation that is decided and not yet recorded
  (`CancelledKnown`), as the operation is looked at when it is decided.  `IntentDecides` needs
  `DecidedEnds`: a row with an intent is finalizing, or ended with it, or was abandoned.
* `PointerCorrect`, `ControlsAnswered`, `MarkerCorrect`, `ReplayCorrect`, `CancellationCorrect`: the
  invariants of run `safety`.  `IntentCorrect` and `CommandCorrect`: the action properties.
* `KeepsTurns`: `Spec => ImplementsTurns`, all of the refinement, as `SessionTurns` states no
  fairness.  That a turn opens alone comes from `ClaimIffActive` and the claim that a start takes;
  that it opens in order from the condition of the acquisition; that it is decided once from
  `DecidedEnds`.
* `OwnerCorrect`: `Spec => []OwnerInStep`.  A step either leaves what a coroutine remembers alone,
  or ends the coroutine, or makes it note the row's revision (`TaskMove`); and the revision of a
  runner that goes on executing an attempt is moved by its owner only (`RevisionMove`).  That the
  owner is the only one is `SingleAuthority`, whose proof is `AttemptsDistinct`.

`ScheduledTaskProofs` (any number of dispatchers, any length of time, any set of schedules in which a
once task has no window, which `_parse_window_bounds` sees to; `ConstantsAssumption`):

* One invariant, `Inv`, carries most of it.  `OncePerDue` is not inductive: it needs that a slot
  names its due time by its key (`NamesItsDue`), and the same of every copy a dispatcher read and of
  every request under way (`Copies`), because a runner is inserted from such a copy long after the
  slot has changed; then a due time has one key, and a key one runner.  `OnceHasInstant` keeps a once
  task from getting a window, through which it could be completed without a run.
* `TypeCorrect`, `PauseEmptiesSlot`, `DueExecutedOnce`, `DeletedHasNoRun`, `OnceUsedByItsRun`,
  `AnswersSettleTheirOwn`: `TypeOK` and the five properties of run `sched`; `OverStaysOver`: a task
  that is completed or deleted does not come back (`CompletedStays`).
* `RecoveryCorrect`: `Spec => []RecoveryBounded`.  A dispatcher counts the budget and the number of
  the next control in two transactions, and its request may arrive when both are long out of date.
  What protects the budget is the number in the request's key: it is a count of rejected controls,
  so not more than are rejected now (`CountsHold`), and a request is accepted only if its key is
  new, so with a number that the earlier controls of the attempt have not used up (`NumbersUsed`).
  Such a number is fresh only while no control of the attempt is open or consumed, of which there is
  one at most (`OneUnrejected`).  When the budget is used up, only dispatchers between their two
  counts can still take a fresh number, one each, and their number and that of the controls keep the
  bound together; a number that is already fresh takes one more place (`OverrunsHold`;
  `RoundsBounded` says it of every round, not only of the last).
* `OnlyTwoStepsLose`: for any dispatchers and schedules, two steps alone can leave a claimed
  occurrence with nothing: the end of a blocked run (`BlockedEnd`), and the clearing of the slot after
  a refusal that neither paused the task nor rejected the occurrence (the end of
  `_handle_submit_error`).  The accepted answer clears the slot too, but then there is a runner
  (`AcceptedKnown`).  The clearing is the step the counterexample of `sched_silent` ends with; for the
  other see section 5.
* `RecurringLostBehindBlocked`: `Spec => LostBehindBlocked` under `NoOnce` (no schedule that runs
  once), for any number of dispatchers.  The clearing finds the slot no longer its own
  (`RefusalsSettle`): a slot that was lost is not filled with the same key again, as keys of
  immediate runs are new and a due time that was given out is past and before the next one
  (`KeysGiven`, `Given`); and while the slot is held the task is either active, and was paused, or
  completed by its window (`Recurring`), and then the occurrence was rejected.  `NoOnce` is needed:
  resuming a once task brings its due time back (`sched_silent`), and an immediate run of one may
  wait while its scheduled run ends.
* `KeepsLedger`: every initial state is one of `OccurrenceLedger`, and every step is one of its
  steps or a stutter.  With it only the fairness half of `ImplementsLedger` rests on TLC.

`KeyPoolProofs` (under `PoolConstants`; accounts and limit for requests of one event loop, as with two
those statements are false, see section 5; the others for any loops):

* `TypeCorrect`: `Spec => []TypeOK`.
* `IdleCorrect`: `Spec => []NoIdlePermit`.  It is inductive with `Waiting`: a task whose future
  waits is in the queue of its semaphore.  A task starts to wait where no permit is free, or beside
  tasks in the deque: one of those was granted a permit and has not run, or is queued, and then the
  invariant gives another that was.  When that one runs, it passes on what is free, in `WakeNext` or
  in `GiveBack`. That cancelling keeps the others in the queue is a fact about a recursive
  definition, `Without`. `WithoutDefined` shows that the recursion defines a function and
  `WithoutKeeps` what it keeps, both by `LeastNumber`: a statement that fails for some number fails
  for a least one (`NatLessThanWellFounded`; the induction theorems of the library take an operator
  as a parameter and cannot be cited).  `SelectSeq` says the same and cannot be expanded by the
  provers.
* `AccountsCorrect`, `LimitCorrect`: `Spec => []PermitsAccounted` and `Spec => []WithinLimit`.  The
  limit is not inductive; the accounts are, given that a slot is bound once and that a request that
  has not begun has no tasks (otherwise creating its tasks would overwrite one that has a permit).
  The limit follows by an injection of the users of a key into the takers of its semaphore.

`FailoverProofs` (under `FailoverConstants`):

* `BreakerCorrect`, `TypeCorrect`: `Spec => []TrippedByFailures`, inductive with the types of the
  breakers, and the types of the rest from it.

`DesktopRunProofs` (any number of deliveries, invocations and faults, any quota):

* For any set of drivers, `TypeCorrect`, `InOrderAlways` and `ChargedAlways`.  Order is not
  inductive: a driver decides from rows it read before (`LineInv`: what a driver found in line, what
  the device holds a permit for, and what was sent have everything before them succeeded, and a
  delivery that succeeded is never touched again).
* `AttemptsSendOnceAlways`, `NotSentAlways`, `VerdictHoldsAlways` under `OneDriver` (two drivers are
  the same one), which is what the scheduler's lock is for; `desk_twice` shows that without it the
  first is false.  `KnownInv` says what the attempts of a delivery mean: one that was found safe to retry
  belongs to a device that proved it started nothing; an attempt comes only after invocations that are
  dead and attempts that were safe; what was sent was sent by one invocation whose attempt is open
  or done, under a row that is started, unknown or succeeded; and only a retry leaves a stray.
  `VerdictInv` carries it to the run: a verdict, written or computed and about to be written,
  still fits the rows.

`NotificationDeliveryProofs` (any number of dispatchers, messages and targets, any bounds):

* `TypeCorrect`, with `Rows` (only expanded messages have deliveries) and `Reading` (one
  expansion at a time).
* `OffMeansNoneAlways`: needs `ReadingOff`, the deliveries an expansion is about to write, since the
  sweep of the switch does not see them; only the subject lock keeps the two apart.
* `WantedAlways` (`SendWanted`): `LapsedOlder` (who missed a moment is older than the enabling that followed)
  and `BrokenBehind` (a target that changed has left the binding of its deliveries behind).  It is
  about the admission in `prepare_send`; what happens between it and the call is in section 5.
* `CallsBoundedAlways`: by `Versions` (a version belongs to one claim) and `Budgeted`: calls that were
  made and claims that may still call are together no more than the row's attempts.
* `RepeatsExcusedAlways`: `Excused` counts, beside the calls that reached the user, those that are
  admitted and one that may still be; every step that admits another one is a fault.

Each of these invariants was an invariant of a TLC run first, on the instances of section 3 and on
some that are too large to be kept: `LifecycleInv` on those of `safety` and `session`, the parts of
`RecoveryInv` with two dispatchers and five faults, and with one, two commands and an immediate run,
`LostBehindBlocked` and the parts of its invariant with two dispatchers, two recurring schedules, two
commands and an immediate run, `Waiting` with one and two loops.

Only model-checked: all liveness properties, `CancellationEnds`, `FinalizationEnds`, `AttemptEnds`,
`PendingSettles`, `InterruptionEnds`, `RunEnds`, `Settles`, `PrimaryRecovers`, and the fairness half
of `ImplementsLedger`.  Fairness and `ENABLED` are outside the prover's reach.

## 5. Where code and documents disagree

Three runs end in a counterexample, because the model does what the code does:

* **An occurrence that disappears** (`sched_silent`).  A dispatcher claims the occurrence of a once
  task and its request is refused.  Before it can act on the answer the user pauses the task, which
  empties the slot, so `pause_for_occurrence` and `reject_manual_pending` both do nothing.  The user
  resumes the task; its due time is still `run_at`, so another dispatcher claims it *under the same
  key*.  Now `clear_pending` of the first dispatcher finds its key in the slot and erases it.  The
  task stays active with no next due time; it never runs and nobody is told.
  `scheduler/dispatch.py:9` says every settlement is visible and no path silent
  ("全部用户可见，无静默路径"), and the comment at `scheduler/dispatch.py:300-304` relies on the key
  having changed ("key 已换").
* **A message sent twice** (`desk_twice`).  With two drivers: one picks a delivery, the other picks,
  enqueues and dispatches it as number 1; the first then reads the next number, 2, and enqueues a
  second invocation under another key.  The permit of number 1 expires after the device acted and
  before it reported; number 2 gets a permit of its own, as the delivery is still dispatched and no
  live permit exists, and the message goes out again.  The comment at
  `desktop_automation/executor.py:403-406` says that the number is always 1 on this path and that
  concurrent dispatchers converge on one invocation.  What keeps drivers apart is the scheduler's
  Redis lock, with a term of 300 s that nobody renews (`scheduler/manager.py:72`).
* **Permits that are lost** (`pool_pair`).  `_wait_any_slot` has a task in the queue of every key.  If
  two keys are released before its request resumes, two tasks are done; one is used
  (`llm/key_pool.py:200`) and only those that are pending are cancelled.  The other permit is never
  given back, although `llm/key_pool.py:76` says that it is on exit.  A request that is cancelled
  while it waits (`llm/key_pool.py:183`) loses permits in the same way, as `asyncio.wait` leaves its
  tasks alone.  With enough of them the pool stands still.

Seen while modelling, without a run of their own:

* AgentRunner.  A pause is accepted while the runner executes; the worker has not seen it when the
  engine stops at a wait, so `park` leaves it accepted.  A resume is accepted next, and `claim_resume`
  sets `pause_requested` to false (`agent_runner/recovery_repository.py:213`) and consumes only its
  own control: the runner executes while the pause stays `accepted` for ever, although
  `src/docs/plans/plan-agent-runner-service.md:347` says that a pause not yet confirmed may not be
  continued early.  When confirming a cancellation fails five times, `_abandon` ends the runner as
  `failed`; its comment (`agent_runner/finalizer.py:157`) says that a cancellation by the user keeps
  its status.  `end_waiting` leaves `wake_at`; an observation that arrives after `_abandon` sets the
  settlement back to `pending`.
* Scheduler.  `_resume_one` counts the budget and the number of the next control in two transactions
  (`scheduler/dispatch.py:365-369`).  A dispatcher lists a run again while the control it submitted is
  still open; it counts the budget, the control is rejected, it counts the number, and so has a fresh
  key although the budget is used up: one resumption beyond `recovery_max_attempts`, and one for each
  further dispatcher that stands there, where
  `src/docs/system/scheduled-task-runner-refactor-design.md:179` pauses the task when that number is
  reached.  (TLC finds this with `MaxAttempts` alone as the bound; `RecoveryBounded` has the bound that
  does hold.)  A run of a recurring task that ends with `CREDIT_BLOCKED` or `PROFILE_FORBIDDEN` takes
  the waiting occurrence out of the slot (`scheduler/db.py:1099-1114`), and `scheduler/hooks.py:52-55`
  publishes nothing for that occurrence, against
  `scheduler/dispatch.py:9`; `LostBehindBlocked` says that for recurring tasks no other path is silent.
  A once task that is rescheduled while its run is under way is completed by the end of
  that run, and the new instant is lost (`scheduler/db.py:1093`; `scheduler/db.py:947-951` guards only
  the opposite order).  The acceptance guard does not
  look at the trigger (`scheduler/db.py:58-60`).  A round that was listed as exhausted pauses a task
  that its user has resumed since (`scheduler/dispatch.py:365-388`).  A run that is interrupted in a
  task its user has paused, with its budget used up, is neither retried nor announced.  A manual run
  of a once task that completed meanwhile is dropped without a word.  A scheduled run that ends after
  its once task expired turns it into completed.
* Desktop runs.  `retry_delivery` commits the new invocation on a connection of its own
  (`weixin_marketing/service.py:1625`) before the attempt and the delivery.  After a crash between
  the two a device may claim the invocation; a second retry finds its key taken by one that is not
  queued, counts it as dead (`weixin_marketing/service.py:1603-1606`) and makes another with an
  attempt.  `write_authorize` (`local_tools/permits.py:64`) asks that the delivery and the run be
  open, not that the invocation belong to an attempt, so a permit of the first that expires without
  a report makes room for the second and the message goes out twice.  It takes three invocations of
  a delivery; `SentOnce` and `NotSentHolds` without its exception are violated there, `InOrder`,
  `VerdictHolds` and `Charged` are not.  A run that stops for the quota or its target is `failed`
  although its first message was sent (`_abandon_run`); one that is revoked without a verdict from
  its rows is `cancelled` (`desktop_automation/executor.py:316-317`).  A pending run past its
  deadline ends `failed`, where `runs.py` has `expired`.  Cancelling a queued invocation leaves its
  delivery `dispatched`.  A device may claim an invocation before its attempt is committed; its
  result is then refused with a 404 for good.  A cancellation between revalidation and insertion
  leaves pending deliveries in a cancelled run.
* Notifications.  `prepare_send` admits a delivery and commits, the call to the provider follows
  (`notifications/dispatcher.py:48-53`); a target that is revoked, or a preference that is switched
  off, in between does not stop it, and `SendWanted` does not claim it.  Switching the preference
  off also closes the deliveries of a target that the task chose explicitly
  (`notifications/repository.py:728`), although `prepare_send` exempts them from the preference
  (`notifications/repository.py:1306-1334`).  A call that the provider accepted while the sender's
  lease ran out is made again, or recorded as failed when no attempt is left; one that was accepted
  just before its target changed is recorded as skipped.  An expansion may still insert a pending
  delivery for a target that was revoked meanwhile; it is refused at preparation.  One message whose
  parameters cannot be decrypted (`notifications/repository.py:1145`, outside any `try`) fails the
  whole batch, and the next one with it.
* LLM layer.  Two event loops double the limit of a key, as every rebinding starts with all permits
  (`llm/key_pool.py:36`; `llm/key_pool.py:4` calls the semaphore the bound of each key).
  `available` is read before the permit is taken, so requests that arrive together queue on one key
  although another becomes free (`llm/key_pool.py:165`).  A half open breaker lets every request
  through (`llm/failover.py:151`), where `src/docs/infrastructure/llm-failover-design.md:51` lets one.
  A request calls providers whose breakers opened after it took its chain (`llm/failover.py:444`); a
  late success closes an open breaker directly (`llm/failover.py:112`); the cool-down of alerts
  compares a monotonic clock with zero (`llm/failover.py:382`).

## 6. Not modelled, and what comes next

The core modules cover the protocols whose correctness depends on the order of steps of several
actors.  Most of the repository's code does not: request handlers that read and write one row, data
definitions, prompts, parsers, adapters of platform APIs, tools, and two user interfaces.  A state
machine of such code would have one action per handler and no property that its guards do not
already state; it is left out on purpose, so the share of the code that is mapped stays small.

What is left that does have a protocol, in this order; each item is a module of its own:

1. `RunnerUsage`: receipts (started, observed, unknown, applied), settlement at finalization, late
   settlement, abandonment.  Abstract: each observed receipt is charged once.
2. `DurableSleep`: arm, timer claim, early resume, cancellation, replay of an activation after a
   crash.  Abstract: one consumer per sleep.
3. `RunnerEvents`: append, page, prune, cursor.  Abstract: a reader sees a prefix or is told of a gap.
4. Control wait identities and idempotent requests, composed with `AgentRunner`.
5. `SessionQueue`: the Redis lock of the channels with its term, merging, cancelling, recalling.
6. `DesktopOccurrences` (the admission that makes a run), `ChannelDedup`, `OutboundMessage`.

Proofs: every safety property of a passing run is proved; each new module begins with its types and the
safety properties its runs check.

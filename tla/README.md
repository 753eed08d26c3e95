# GAP Claw: a verification development

GAP Claw (`src/`) is a platform for chat Agents: a FastAPI service, a Vue front end and a set of
worker processes that share one SQL database. This directory holds TLA+ models of the parts of it
whose correctness depends on the order in which processes act, TLC configurations that check them
on small instances, and theorems about them checked by TLAPS.

## Inventory

### Scheduled tasks (`apps/api/app/services/scheduled_tasks`, `apps/api/app/workers`)

A user attaches a task to a chat session: once, at an interval or by cron. Four kinds of process
meet in the tables `scheduled_tasks`, `scheduled_task_runs`, `scheduled_task_session_slots`,
`scheduled_task_notification_deliveries` and `scheduled_task_worker_heartbeats`:

| process | operations |
| --- | --- |
| API (`routers/agent_chat.py`, `routers/agent.py`) | `create_task`, `update_task`, `soft_delete_task`, `request_stop_task`, `create_manual_run`, `retry_failed_run`, session deletion |
| scheduler (`run_scheduler_pass`) | heartbeat, `finalize_stale_running_runs`, `create_due_runs`, `fail_expired_pending_runs` |
| executor (`run_executor_once`) | heartbeat, `claim_next_run`, `execute_and_finalize_claimed_run`, `finish_run_*` |
| notifier (`deliver_pending`) | heartbeat, sends results to IM channels |

Hard: claims race; leases expire under live executors; a verdict is written by run id without a
guard; executors crash anywhere and come back under the same name; a stop request races with every
other step; a delivery is sent before it is recorded.

Correct means: one Agent per session, one holder per run, verdicts that stay, bounded retries, no
session left blocked, nothing announced that did not succeed, every run ends; each window of a
schedule has one verdict and none is lost, downtime is not replayed window by window, what a user
stopped is not queued; every result is announced, or its failure noted, a bounded number of times.

### Release management (`tools/gap_deploy_runner`, `services/release_*.py`)

A signed CI hook reaches GAP (`release_hook.py`), which stores it once and asks the Deploy Runner on
the host to deploy. The Runner answers, applies the manifest with Docker Compose, checks its health,
goes back to the last healthy release if the check fails, and calls GAP back with the verdict; GAP
records it and sets the version the site shows. An administrator may ask for a rollback. State: one
JSON file on the host (phase, current, last healthy, pending call backs), an operation lock in the
Runner's memory, and GAP's ledger tables. GAP is itself one of the containers that are replaced.

Hard: crashes between two writes of the file, a second process (the CLI) that opens it, an apply
that raises half way, requests that time out although they are carried out, call backs that are lost,
late or repeated, and an event loop that waits for the Runner while the Runner calls back.
Correct means: one verdict per release, told only of what passed its checks; the file's baseline is
what runs; no verdict is lost; the lock is given back; a failed release is rolled back.

### Code agent (`services/code_agent`)

A request for a coding task becomes a row of `code_agent_runs` (`create_code_run`), a job in a queue of
threads, a Workspace in the project's Sandbox and a loop of coding and verification. State: the row
(status, eligibility, clean-up state, workspace), tables in the API process that bind a chat session
to its run and hold termination reasons and clean-up hooks, and the Workspace with its baseline and
authorizations, which all runs of a project share. Hard: runs that share a directory, a stop request
between any two steps, a deadline that kills the Sandbox of all, crashes of the API process that
leave a coding process behind, a janitor that works on the same rows.
Correct means: the budget bounds the work in the Sandbox, a stopped run delivers nothing, a patch
contains what its run wrote and nothing else, verdicts stay, every run ends and loses its permission
to execute.

Publication of manifests, sealed snapshots, the storage watermark and the kill switch are further
parts of it. `set_code_kill_switch`, `SnapshotLifecycleService.register_sealed` and
`attach_manifest` have no caller outside the tests.

### Agent loop (`services/agent_runtime`)

A run of an Agent is started by the user's message, a tick or an inbound IM message. It asks the
model, merges its plan, executes tools, lets a verifier judge the answer and leaves by one of a dozen
exits. What the runs of a session share is a flag in memory (`hub._running`), which ticks and stop
requests use, and a checkpoint row from which the next message resumes. Hard: each exit must save or
clear the checkpoint, runs of one session overlap, the flag is not tied to a run, the process dies.
Correct means: the flag goes down when the last run ends, nobody is cancelled for no reason, the
checkpoint is what the outcome calls for, the verifier's gaps are probed a bounded number of times,
and a repair does not change the plan it repairs.

### The rest

MCP and model clients, context compression, IM adapters, the legacy tick rules, RAG, sandboxes,
terminals, uploads, user administration, the web front end.

## Modules

| module | models or proves |
| --- | --- |
| `RunExecution` | the life of a run: claim, lease, Agent, verdict, retry, stop, clean-up |
| `SerialQueue` | what `RunExecution` promises, without leases, clocks or processes |
| `MCRunExecution` | its instances for TLC |
| `RunExecutionProofs` | its invariants, proved |
| `RunExecutionRefinement` | that it implements `SerialQueue`, proved |
| `OccurrenceScheduler` | how schedules become runs: `create_due_runs`, users' requests, restarts |
| `MCOccurrenceScheduler` | its instances |
| `OccurrenceProofs` | its types, and that what ended is never queued again, proved |
| `OccurrenceWindowProofs` | its windows: one verdict each, none lost, no backlog, no replay, proved |
| `NotificationOutbox` | how results are announced: `deliver_pending` |
| `MCNotificationOutbox` | its instances |
| `OutboxProofs` | its invariants and a bound on the copies of a message, proved |
| `ReleaseDelivery` | a release from the hook to its verdict: GAP and the Deploy Runner |
| `VerdictLog` | what `ReleaseDelivery` promises, without lock, file, call backs and crashes |
| `MCReleaseDelivery`, `ReleaseProofs` | its instances; its invariants and that it implements `VerdictLog`, proved |
| `CodeRun` | the runs of one Code project and the Workspace they share |
| `MCCodeRun`, `CodeRunProofs` | its instances; its safety properties, proved |
| `AgentLoop` | the runs of one chat session: starts, the loop and its exits, the checkpoint |
| `MCAgentLoop`, `AgentLoopProofs` | its instances; its properties, proved |

`PROJECT.json` maps each definition to the lines it models, and lists components, runs, hazards,
findings and theorems.

The first three models meet in the tables. `OccurrenceScheduler` ends where a row becomes "pending" and
sees executors as steps that start and end rows; `RunExecution` begins with that row and sees
schedules as the creation of a run; `RunExecution` ends with the insert of a delivery, where
`NotificationOutbox` begins. `AgentLoop` is the inside of what `RunExecution` has as a call that returns,
raises or is stopped, for the chat sessions; `CodeRun` is the same for Agents of the Code profile, with
the coding tool's own loop as a step. `ReleaseDelivery` composes two programs, GAP and the Runner.

### RunExecution

Variables are the columns of a run (`state`, `attempt`, `available_at`, `queued_at`,
`cancel_requested_at`, `chat_message_id`, `lease_owner`, `lease_expires_at`), of a session's slot,
the deliveries inserted, the age of each executor's heartbeat, and what each executor holds in
memory. A timestamp is kept as its distance from the present, so time does not grow.

| action | code |
| --- | --- |
| `CreateRun`, `RetryFailedRun` | `create_manual_run`, `retry_failed_run` (scheduler.py) |
| `CancelUnstartedRuns`, `RequestStopTask` | tasks.py |
| `Heartbeat`, `ClaimRun`, `ClaimNothing` | `run_executor_once`, `claim_next_run` |
| `RefuseRun` ... `FailNoProgress` | `execute_claimed_run` and its error paths (runtime.py) |
| `SuccessFindsCancel`, `SuccessChecksCancel`, `CommitSuccess` | `finish_run_success`: the refresh and the write are two steps |
| `FinishRunFailure`, `FinishRunCancelled`, `Settle`, `SlotRelease` | lifecycle.py |
| `ReadStale`, `FinalizeStale` | `finalize_stale_running_runs`: the read and the commit are two steps |
| `FailExpiredPendingRuns` | scheduler.py |
| `Crash`, `Restart` | an executor process; a restarted one keeps its worker id, the host name |

Abstractions. A claim is one step: on PostgreSQL the row is locked with `skip_locked`, and
`IsCandidate` has what a claim sees while others hold locks. One clean-up pass at a time is between
its read and its commit. The Agent is a call that returns, raises (transiently or not), times out or
is stopped. Shadow mode, log events and text are left out. A task or an Agent that is missing is a
nondeterministic refusal.

### OccurrenceScheduler

Variables are the columns of a task, the rows of `scheduled_task_runs` by their key (task, source,
time), and a scheduler's transaction: the tasks its query returned, those to come, the uncommitted
rows. `StartPass`, `PickTask`, `InsertRow`, `CheckOverlap` and `CommitPass` are the statements of
`create_due_runs`. A unique index makes an insert wait for another transaction with that key
(`WaitsFor`); two that wait for each other are resolved by `AbortDeadlocked`. `Restart` and `Boot`
run `normalize_scheduled_task_next_runs`, which every process does at its start. The requests are
`CreateTask`, `UpdateTask`, `SoftDeleteTask`, `RequestStopTask`, `DeleteSession` and `RunNow`;
`StartRun` and `EndRun` stand for executors, as `RowsLiveAsScheduled` shows them to be when an execution
times out before its lease; under the deployed defaults a run that ended can also be queued again, which
the counterexample of `StaleRunNotRequeued` shows (see below).

Abstractions. A cron schedule is the set of times it names. The clock shows even times, cron names
odd ones: the real clock has microseconds and cron has not, so a pass never begins exactly on a
window. Requests of users are one transaction each and `CreateTask` is atomic although it counts
before it inserts. Row locks on tasks, which only delay a user's write until a pass commits, are
left out, and so is the migration of legacy ticks at start.

### NotificationOutbox

Variables are the columns of a delivery row, what the channel has received (`sent`, outside the
database), the notices in the chat session, and a notifier's pass: the rows to come, the attempts it
read, the outcomes it will commit. `StartPass`, `Send` and `Commit` are the query, the body and the
end of the loop of `deliver_pending`; only columns an outcome changed are written, from what the pass
read. The Session is opened with `autoflush=False`, so nothing reaches the database before the
commit. `Send` may fail before or after the message has arrived. How a destination is found and what
is sent are left out. Requests to channels have time limits, so a pass ends.

### ReleaseDelivery

GAP is the hook's row, the request its event loop waits in (`asking`), the audits, the syncs, the
site's version and one rollback request. The Runner is `file` and its pending call backs, the
operation `op` (who holds `_operation_lock` and what the thread does next) and what Compose runs.
Between them are the requests to deploy and the call backs that got no answer.

| action | code |
| --- | --- |
| `AcceptHook`, `HookAnswered`, `DispatchFails` | `ReleaseHookService.accept`: the row, the request to the Runner, its outcome |
| `PrepareDeploy`, `BeginDeploy` | `prepare_deploy`, and the thread `mtls.py` starts after the answer |
| `ApplyRelease`, `CheckPasses`, `CheckFails`, `Reapply`, `Recheck`, `Raised` | `HealthGatedDeployment.deploy`, and the `except` of `execute` |
| `Publish`, `PostAnswered`, `PostFails`, `PostsDone` | `publish`, `retry_pending`; in GAP `receive_release_callback` with its two commits |
| `LateCallback` | a call back the Runner gave up on is handled after all, or half of it |
| `SubmitRollback`, `BeginRollback`, `Undo`, `VerifyUndo`, `FinishRollback` | the administrator's rollback on both sides |
| `RunnerCrashes`, `CliOpens`, `GapStops` | a crash and the load that marks the file; a second process that loads it; the API container is replaced |

Abstractions. One target; a manifest is its release id. An apply that raises leaves the old
containers, the new ones or a mixture; a health check that raises is the case with the new ones.
Waiting for a connection and for the lock are not told apart. The success history, which nobody
reads, and notifications to chats are left out, and so are deployments and rollbacks by the CLI,
which take another lock than the server's.

While GAP waits for the Runner's answer to a hook, its only event loop serves nobody: the endpoint
is a coroutine that calls synchronously. `PostAnswered` and `LateCallback` need `asking = None`; a call
back that comes meanwhile waits, and fails for the Runner after ten seconds.

### CodeRun

Variables: the columns of `code_agent_runs`; each job's place in the code (`pc`) and its locals; the
tables of `lifecycle.py` (`chatRun`, `reason`, `hook`); the Sandbox, and its directory abstracted to
the set of runs whose edits are in it (`content`), with the recorded baseline and the authorized
changes. `base` is the baseline the integrity guard has on record for a run.

| action | code |
| --- | --- |
| `Submit`, `Enqueue`, `Take` | `create_code_run`, `CodeRunQueue`, the start of `_run_agent_impl` |
| `Prepare`, `StartRunner`, `Sync`, `Preflight` | workspace, runner, `git checkout -f`, preflight and the binding of the session |
| `Begin`, `CodingEnds`, `Authorize`, `Verify`, `Tests`, `Decide` | `_run_code_runtime`, the integrity guard and the verifier |
| `Revoke`, `Hooks`, `End` | `cleanup_code_resources`, the `finally` of `_run_chat_bg` |
| `StopChat` | `stop_chat`, which terminates whatever run is bound |
| `Janitor`, `Due`, `Restart`, `Crash` | `lifecycle_janitor.py`; the tables of the process |
| `Write`, `OrphanWrites`, `Administer` | external: the coding process, also after a crash; administrators |

Abstractions. Only the coding path through the Sandbox. Admission is one step, because `chat_post`
does not await between its count and its commit. What the policies, the scan and the tests decide is
a choice. A kill switch and the watermark refuse a request before anything is written.

Two things the model says that are easy to miss: a stop request before the session is bound finds no
run and is lost; and a run whose command failed after it edited a file goes on to verification.

### AgentLoop

Variables: the flag and the block of automatic starts (`hub.py`), the checkpoint row, and of each run
its place, its part of `AgentLoopState` that a checkpoint holds (`work`), the round and the counters
local to `_run_modular`. A reply of the model is what the loop makes of it: a plan, a final answer, tool
calls, or a text of one of the kinds it tells apart. `Leave` is the end of every path through the
loop; its last argument is what becomes of the checkpoint.

| action | code |
| --- | --- |
| `SubmitChat`, `RunTick`, `Inbound`, `SetupFails`, `Begin` | who starts a run; the checks and the start are two steps |
| `Answer`, `Converse`, `Chatted` | the routes without the loop |
| `Load`, `NoticeStop`, `DeliverableReady`, `Ask`, `BudgetExhausted` | the head of a round |
| `LlmStopped`, `RouteFallback`, `LlmFails` | a call that does not answer |
| `ReplyRepeats` ... `ReplyText`, `ConfirmSignal` | what a reply is, and the plan it merges |
| `ReflectPasses`, `ReflectRejects` | the verifier |
| `ToolSkipped`, `ToolBatch`, `ToolExecuted`, `ToolCached`, `Probe` | tool steps, and the probes of a gap |
| `Distill`, `Raise`, `Finish`, `CloseChat` | the ends |
| `StopChat`, `Crash` | the stop button; the process |

Abstractions. Sessions share nothing, so there is one. What a batch of tools does inside, context
compression and routing of tools are outcomes. The writes of a checkpoint succeed (`_save_run_state`
swallows an error of the database).

Differences from the documents, seen while modelling: a successful batch neither resets the count of
the verifier's rejections nor records evidence (`openspec/specs/agent-runtime/spec.md`:497-501);
`reflect_fail_count` is not in the checkpoint, so a resumed run counts from zero; a second run of a
session resumes the checkpoint of one that is still running.

## Runs

Runs that pass:

| run | question | instance |
| --- | --- | --- |
| `run_execution` | What holds whatever the timing: one holder per run, slots and leases that agree with states, bounded retries, one report per success, slots that are not stolen before they expire? | 2 executors, 2 runs of one task, lease = timeout |
| `run_execution_timely` | With the timeout below the lease: one Agent per session, final verdicts, true notifications, the abstract queue? | 2 executors, 2 runs of one task, timeout 2 < lease 3 |
| `run_execution_liveness` | Does every queued run leave the queue and every abandoned run end? | 1 executor, 2 tasks in 2 sessions, fairness |
| `occurrences` | Does each window have one verdict, no session a backlog, only the latest window a catch-up, and is no window lost without a restart? | 1 scheduler, a cron task and an edited one in one session, one crash, one start, one request |
| `occurrence_replicas` | Do schedulers that race requeue what ended, or leave something due for ever? | 2 schedulers, 2 tasks, one crash, fairness |
| `notification_outbox` | Do rows tell what happened, stay settled, and settle? | 2 rows, 2 notifiers, 2 attempts, one death, fairness |
| `release_delivery` | Is a release taken, judged, told and shown once and in this order (`VerdictLog`), and told only of what passed its checks; is the baseline what runs; is no verdict lost and the lock given back? | 2 releases, a rollback, 2 crashes or uses of the CLI, fairness |
| `code_runs` | Quota, bindings, stop requests, patches and verdicts? | 2 runs in one session, budget 1, one retry, one stop, one crash |
| `code_runs_liveness` | Does every run end, and lose its permission to execute? | 2 runs, budget 2, one crash, fairness |
| `agent_loop` | Is the flag lowered, the cancel justified, the checkpoint right, the probing bounded, the plan frozen? | 2 runs with budgets 2 and 1, one task, one gap, one stop or crash |

Runs that end in a counterexample, each a disagreement of the code with a specification of the
repository (quoted in `PROJECT.json`):

| run | what the code does |
| --- | --- |
| `two_agents_in_a_session` | the lease (5 min) is never renewed and shorter than the default timeout (10 min): a live executor's slot is taken over and a second Agent starts in the session. Needs two executors; one is deployed |
| `failed_apply_is_not_rolled_back` | when `docker compose up` fails, `execute` records "reconciliation_required" and does not go back to the last healthy release; only a failed health check does |

More of the same kind have a configuration here and are not part of the runs:

| configuration | formula | what the code does | what the repository says |
| --- | --- | --- | --- |
| `RunExecutionStopRetried.cfg` | `StoppedRunNotRetried` | a run whose stop was requested is retried when its Agent fails transiently | `session-scheduled-tasks/spec.md`:101 |
| `RunExecutionOrphan.cfg` | `RunningEnds` | an executor that crashed and came back under its host name is healthy, so the run it lost stays "running" | the same, :172 |
| `OccurrenceRestart.cfg` | `EveryWindowRecorded` | the start of any process moves `next_run_at` past windows that were missed, before a pass can see them | the same, :78 |
| `OccurrenceStopped.cfg` | `StoppedStaysStopped` | a task stopped between the scan and the commit of a pass still gets a run | the same, :50 |
| `OccurrenceClosed.cfg` | `DeletedSessionIsQuiet` | deleting a session leaves its waiting runs in the queue | the same, :42 |
| `CodeRunTwoWriters.cfg` | `WorkspaceHasOneWriter` | with a budget above one (the default is 5, control_plane.py:87) two runs edit the one Workspace at once | `code-agent-workspace/spec.md`:11 |
| `AgentLoopStopped.cfg` | `StoppedRunIsForgotten` | a stop while the last answer is written leaves the checkpoint to the next message | `_clear_run_state` (runtime.py:3797-3801), `docs/react-engine.md`:170 |

Further formulas in the modules fail on the instances given here, each a named configuration with the
lines changed that the table names:

| formula | instance | what happens |
| --- | --- | --- |
| `StaleRunNotRequeued` | `RunExecutionTwoAgents.cfg` with it as the PROPERTY | an executor that lost its lease writes a retry over the clean-up's "failed" |
| `CancelWins` | the same, as the INVARIANT | a stop between the refresh and the write of `finish_run_success` is overwritten |
| `QuotaKept` | `OccurrenceScheduler.cfg` with `Plans <- CronOnly`, both tasks editable, `MaxPerSession = 1`, `Limit <- Requests` | `update_task` enables a task without counting |
| `OneVerdictPerWindow` | two schedulers, one task, `CronOnly`, `Limit <- Quiet` | passes that straddle a window see different numbers of missed windows and record one as executed and as missed |
| `LatestIsCompensated` | `ScanLimit = 1`, `Horizon = 8` | the scan gives up at its limit and takes the last window it saw for the latest |
| `SiteShowsBaseline` | `ReleaseFailedApply.cfg` with it as the INVARIANT | a late call back about an older success puts the older version back on the site |
| `FailedDispatchIsNotDeployed` | the same | the hook's request timed out at the operation lock: recorded as "dispatch_failed", deployed later, while the hook's repetition is answered "duplicate" |
| `RollbackIsToDisplayed` | the same | another deployment succeeds between the display and the rollback, which goes to the newer release |
| `PendingIsDelivered` | the same, as the PROPERTY | a call back that failed is sent again only by a later deployment: `server.py` gives `RunnerHttpApi` no dispatcher |
| `PatchIsItsOwn` | `CodeRun.cfg` with it as the PROPERTY | the coding process of a crashed API process writes into the next run's Workspace |
| `PatchIsKept` | the same | the next run's `git checkout -f` throws away an earlier patch |
| `PatchHasItsEdits` | `CodeRun.cfg` with `MaxConcurrentRuns = 2` | the second run's baseline contains the first one's edits |
| `CodeRun!CancelledWasAsked` | the same, as the INVARIANT | `stop_chat` at the end of one run's background task reaches the next run, if it is bound by then |
| `AgentLoop!CancelledWasAsked`, `ActiveIsMarked` | `AgentLoop.cfg` | the end of one run lowers the flag of another, which takes it for a stop |

### Bounds, and why they are enough

- Two executors, schedulers and notifiers: every race of the code is between two parties that
  hold or want the same row, slot or key.
- Two runs or tasks: one that holds the session and one that wants it. The order of claims
  matters only between the first two candidates.
- `Lease` 2 or 3, `StaleAfter` 1, `MaxQueueAge` 1: what matters is which deadline comes first, and
  the configurations have the timeout above, at and below the lease. In production the timeout is
  above.
- `MaxAttempts` 2: a first failure that is retried and a last one that is not.
- `Horizon` 6 with cron at 1, 3, 5, 7 and `Stride` 2: a pass may find none, one, two or three
  windows due, and one more window lies beyond the clock. `ScanLimit` 4 is not reached.
- `Limit`: one crash, one start of another process and one request, each at any point. Creating
  tasks and running them off is not limited.
- `MaxCrashes` 1 in the outbox: each row has at most one copy more than attempts; the theorem
  has no such bound.
- Executors are a symmetry set in the two safety runs of `RunExecution`, and not where liveness is
  checked.
- Releases: one that becomes the baseline and one that fails, is late or follows; `MaxFaults` 2 so that
  a crash can follow the CLI's mark. The theorems have no such bounds.
- Code runs: the second run is the one that finds what the first left. One retry is a retry and an
  exhausted one. `code_runs_liveness` has a budget of two and one worker, so that a run waits in the
  queue when the process dies, and neither retries nor stops, which only add ends.
- Agent loop: a run that resumes or overlaps another; a budget of two rounds leaves room for a plan, a
  rejection and its repair, and the second run continues from the checkpoint. Every action of the loop
  and every exit is reached. The actions a gap card names are a symmetry set, and so are code runs
  in `code_runs`.
- `CHECK_DEADLOCK FALSE` where the bounded clock, limit or set of deliveries lets the system stop.

### Fairness

`RunExecution`: the clock advances; a live executor polls in a loop and brings a claimed run to a
verdict, because `wait_for` bounds the Agent and all else are database calls; the scheduler's loop
reaches its commit. Neither a crashed executor nor a user owes anything. `OccurrenceScheduler`: a
scheduler polls, ends its pass, and is restarted when it ends (`restart: unless-stopped` in
`deploy/docker-compose.prod.yml`). `NotificationOutbox`: the same for notifiers, and the clock
advances. `ReleaseDelivery`: the thread of a deployment goes on, because health checks and posts have
time limits; that Docker Compose returns is an assumption, `subprocess.run` has none. `CodeRun`: threads
go on (commands have deadlines), the janitor runs every minute, and a process that died is started
again. Nobody must ask, write or crash. `AgentLoop` is checked for safety only. All of it is weak
fairness.

## Proofs

All hold for every value of the constants that the named assumptions of the modules allow: sets of
any size, any timing.

| theorem | says | needs |
| --- | --- | --- |
| `TypeCorrectness`, `SingleHolder`, `TablesAgree`, `RetriesAreBounded`, `SlotsAreNotStolen` | the properties of `run_execution`, and that retries are bounded (`TablesAgree`: `RunningIsLeased`, `SlotNamesRunningRun` and `SuccessReportedOnce`, the last also as `SuccessesAreReported`) | |
| `SessionsAreExclusive`, `VerdictsAreFinal`, `NotificationsAreTrue` | the properties of `run_execution_timely` | `ExecTimeout < Lease` |
| `QueueIsImplemented` | `RunExecution` implements `SerialQueue` | `ExecTimeout < Lease` |
| `RowsLiveAsScheduled` | rows move only as `OccurrenceScheduler` assumes of executors | `ExecTimeout < Lease` |
| `SchedulerTypes`, `EndedRowsStay` | types, and that a row that ended is never queued again, with any number of schedulers | |
| `DowntimeIsNotReplayed` | a pass queues one run per task, for its latest window (`LatestIsCompensated`), with any number of schedulers | `ScanSuffices` |
| `OneRunPerSession` | a session has one automatic run at a time (`NoBacklog`) | one scheduler |
| `WindowsHaveOneVerdict` | a window of a steady cron task has one verdict (`OneVerdictPerWindow`) | one scheduler, `ClockMissesWindows` |
| `NoWindowIsLost` | without a restart none is missing (`NoGapWithoutRestart`) | both, and `ScanSuffices` |
| `OutboxTypes`, `RowsAreTrue`, `NoRowOverdrawn`, `SettlingIsFinal` | the safety properties of `notification_outbox`, types, and that a pending row has an attempt left, with any number of notifiers | |
| `DeliveryTypes`, `VerdictsTell`, `BaselineRuns`, `NoVerdictIsLost` | the invariants of `release_delivery` | |
| `VerdictsAgree`, `LogIsImplemented` | no release has two verdicts (`OneVerdict`); `ReleaseDelivery` implements `VerdictLog` | |
| `CodeRunTypes`, `JobsAreInQuota`, `BindingsAreLive`, `StopsAreHonoured`, `VerdictsStand` | the safety properties of `code_runs`, for any budget | |
| `PatchesHaveTheirEdits` | a delivered patch contains what its run wrote | `MaxConcurrentRuns = 1` |
| `LoopTypes`, `TheFlagIsLowered`, `CancelsHaveCauses`, `CheckpointsMatch`, `ProbesStayBounded`, `RepairsFreezePlans` | the properties of `agent_loop` | |
| `CopiesAreBounded` | a channel gets at most `MaxDeliveryAttempts` copies, and one more per death of the notifier | one notifier |

`RunExecutionProofs`. That no run has two holders is not inductive: a holder whose lease expired
must be known to keep its run out of the queue although the clean-up may have failed it.
`HeldNotQueued` says so: only a holder's own verdict puts a run back. `AttemptLeft` and
`DeliveredIsOver` do the same for retries and deliveries. One lemma per kind of verdict
(`SettleKeepsInv`, `FailureKeepsInv`, ...) serves all actions that end in it. With
`ExecTimeout < Lease`, `TimelyInv` adds that the time a run was held and the time its leases have
left add up to `Lease`; as the clock cannot pass `ExecTimeout` for a held run, its leases have not
expired, so no slot is taken over and no clean-up judges it. The assumption is the one the deployed
defaults violate (600 s against 5 min), which is what `two_agents_in_a_session` shows.

`RunExecutionRefinement`. A session serves the run its slot names while an executor holds it. Each
step of `RunExecution` is shown to be one step of `SerialQueue` or none: a claim serves, a verdict
concludes, a crash abandons, the clean-up gives up. As what a session serves is active, a run then only
moves from waiting to active and from there back or to its end, which is what `OccurrenceScheduler` takes
for granted of executors (`RowsLiveAsScheduled`).

`OccurrenceProofs`. `KeyInv` says that an uncommitted row has a key that neither the table nor
another pass has: `WaitsFor` keeps passes apart, and the commit makes rows visible at once. `TypeInv` is
`TypeOK` made inductive: a pass remembers tasks that exist and were due, and drafts rows only of those
it has come to. That the latest window exists, and the count of missed ones is a number, needs facts
about `Max`, `Min` and `Cardinality`: `ExtremesExist` has them from the well-founded order of the subsets
of a finite set, since an induction theorem cannot be cited.

`OccurrenceWindowProofs`. `PassInv` says what a pass has drafted: for each task it has handled, a summary of
the windows missed and one verdict on the latest, or the table has had them. This holds however many
schedulers race. `BacklogInv` adds, for one scheduler, that what is queued, drafted and about to be
drafted in a session is one run; executors and users may take it away between the check and the
commit, and only the scheduler adds one. The two theorems about windows rest on one lemma about
arithmetic, `MissedAreBeforeLatest`: a summary is a first time and a count, and the count covers exactly
the windows from that time to just before the latest one, whether or not the scan was cut short. Hence
the rows of a pass cover the windows from the `next_run_at` it read to the latest one (`DraftCovers`);
`WindowInv` says that all earlier rows lie before that time and before `next_run_at` itself, also when a
start of a process or a late commit has moved it, and `GapInv` that, unless a process starts or dies,
every window before `next_run_at` has a row.

What these theorems need is what the code needs. *One scheduler* is what is deployed; two break `NoBacklog`
and `OneVerdictPerWindow`. `ScanSuffices` says that fewer windows are missed than the scan's limit; beyond
it `LatestIsCompensated` fails, and the windows skipped are lost, but none has two verdicts.
`ClockMissesWindows` says that no pass begins at the very time of a window, since the clock counts
microseconds and cron minutes: the pass would write that time again as the next one. The three are
hypotheses of the theorems and hold in the instances of `occurrences`. And all of them are about executors
that live as `RowsLiveAsScheduled` says. `BoundsAssumption` says that the
bounds are numbers.

`OutboxProofs`. A stale pass can write only what its rows' attempts allowed when they were read
(`ReadWithAttemptLeft`), and remembers nothing between passes. For one notifier `Paid` accounts for
each copy: by an attempt, a death, or the outcome not yet committed.

`ReleaseProofs`. A release is reported only after its verdict is queued (`ReportsAreLate`), the file's phase
is active only while the operation has not come to a verdict (`PhaseFollowsStep`), and nobody but the
holder of the lock moves the baseline (`OpIsSound`, `BaseIsHealthy`). `AppliedIsRunning` says what Compose runs
at each step; it is needed because a rollback and a deployment both go through "apply" and "check".
For the refinement the log sees a deployment from the Runner's "received" to the moment its call back is
queued, which is its verdict (`PublishDecides`); a crash, or an error after the CLI marked the file, cuts
it off (`CutOff`); GAP's two commits are one step or two (`HandledIsTold`). A rollback is a stutter: it
records the baseline that was there. `VerdictsAgree` is a consequence that is proved on its own.

`CodeRunProofs`. The budget is checked by counting rows and bounds jobs: `JobsMatchRows` ties each job's
place to its row's status, so that the admission's count (`AdmittedInQuota`) is at least that of jobs.
`StopIsRemembered` follows a stop request from the table of reasons to the row. `PatchIsCommitted` says
that a run that ends its loop with a patch has it in its row, so that the clean-up writes nothing new
there. With a budget of one, `EditsAreThere` adds that the edits of the run that works are in the
Workspace and not in the baseline they are compared with.

`AgentLoopProofs`. Every action of a run in its loop has one of two shapes: it goes on with sound
work and a checkpoint that is the old one or the new work (`Advances`), or it leaves by an outcome with
the checkpoint that belongs to it (`Leaves`). `Shapes` shows it, with one lemma per group of actions,
and `TypeKept`, `WorkKept`, `FlagKept` and `RowKept` show that the shapes keep the invariant. `StopsHaveCause` (a run that is active while the flag is down was asked
or cleared) and `LastIsFinal` (what the last run left is what the row holds once the session is quiet)
make the properties inductive.

Only model-checked: all liveness (`QueueingEnds`, `AbandonedRunsEnd`, `DueIsHandled`,
`DeliveriesSettle`, `DeploymentsEnd`, `EveryRunEnds`, `EligibilityIsRevoked`), which needs ENABLED and is
beyond the prover. Every safety property that a passing run checks is proved.

## Plan

Done, most important first: `RunExecution` with `SerialQueue`, `OccurrenceScheduler`, `NotificationOutbox`,
`CodeRun`, `AgentLoop`, `ReleaseDelivery`.

Next:

1. What is left of the Code agent: manifest publication, snapshots and the storage watermark with
   its reclaim, the kill switch.
2. The batch executor inside `ToolBatch`, and the checkpoint's writes that fail.
3. The Runner's CLI as a process of its own that deploys and rolls back beside the server, which
   another lock guards; release notifications.
4. `RunExecution` and `OccurrenceScheduler` composed under the deployed timing, where
   `RowsLiveAsScheduled` does not hold.

## Not modelled, and why

The models stand for about a ninth of the lines of the implementation. Most of the rest formats,
validates, stores and displays, or prepares input for a language model and interprets its output.

- MCP and model clients, prompts, context compression, tool routing, the text of results: `AgentLoop` has
  their outcomes as choices.
- Authorization checks, result texts, log events: stateless.
- Deploy runner protocol (TLS, manifest validation, installation): input checks without state.
- Code agent: the legacy coding path, source scans and policies as such, publication and storage
  (planned; part of it is not called by the program).
- IM adapters, RAG, sandboxes, terminals, uploads, administration, front end: no protocol of their own
  among processes.
- Legacy ticks beyond what starts a run: superseded by scheduled tasks.

# Verification of hs-scheduler

hs-scheduler runs *projects*, ordered lists of scripts, on daily, weekly, interval or
one-time schedules. The same scheduling core runs in two settings: embedded in the desktop
UI, and inside an *engine* process that keeps a run ledger in SQLite, takes commands over
HTTP, and may share its projects with a standby node through a small control plane (a
Cloudflare D1 database). This directory holds TLA+ models of that code, TLC
configurations that check them on small instances, and TLAPS proofs of the facts
that hold on every instance.

Paths below are relative to `src/`. *Core* is `src/component/core`, *engine* is
`src/component/engine`, *distributed* is `src/component/distributed`.

## 1. Inventory

### The parts, what they keep and what they do

| Component | State | Operations |
|---|---|---|
| **Project launch and worker lifecycle**: `scheduler_core.py`, `stabilized_scheduler_core.py`, `engine/runtime.py`, hooks in `engine/service.py` | per project `execution_lock` (a plain `Lock`), `status`, `next_run`, `last_consumed_ticket`, `execution_id`; `semaphore`; `project_state_lock` (an `RLock`); `project_workers`; `active_processes`; `pending_queue`, `_pending_set`; in the engine `_active_run_ids` | `_scheduler_loop`, `try_consume_ticket_atomic`, `run_project`, `run_project_manual`, `_run_single_task_only`, `_launch_project_with_acquired_slot`, `_execute_wrapper`, `_process_pending`, `_recover_stale_project_state`, `_heal_ghost_running_projects`, `_reset_daily_state`, `on_project_launch`, `on_project_finish` |
| **Schedule**: `models.py` | `schedule_type`, `schedule_value`, `run_time`, `next_run`, `last_consumed_ticket` | `calculate_next_run`, `_get_ticket_block_reason` |
| **Task execution**: `_run_single_script`, `_execute_project_logic`, `stop_*` | task status, retries, `stop_requested`, `_requested_task_stops`, `active_processes` | run a step, retry, time out, stop a task or a project |
| **Persistence**: `save_data`, `load_data`, session state, schedule trace | two JSON files, written one after the other, and the trace of the day | save, load, restore the session of the day, reconcile with the trace |
| **Distributed control plane**: `control_plane.py`, `policies.py`, `service.py` | in D1: `scheduler_nodes`, `scheduler_leases`, `scheduled_runs`, `task_runs`; on a node: `_is_primary`, `_lease_owner`, `_last_ticket_reconcile_at`, `_active_distributed_runs` | `refresh_lease`, `release_lease`, `claim_project_run`, `heartbeat_run`, `finish_run`, `backfill_local_scheduled_runs`, `reconcile_consumed_tickets`, `sync_task_states` |
| **Engine store and command queue**: `engine/store.py`, `service.py` | SQLite tables `engine_commands`, `project_runs`, `project_state`, run tasks, events | enqueue, take, finish a command; start, finish, recover a run; sync the projects |
| **Engine process, its HTTP API and the desktop's bridge to it**: `scheduler_engine.py`, `engine/api.py`, `engine/client.py`, `app.py` | the lock file, the port, a process handle, `engine_mode`; two lists of the same projects in two processes and one file | start, find, recover, restart and shut down an engine; save an edit and have the engine merge it (`sync_from_legacy`) |
| **Telegram bot** | none of its own that matters | run, pause and stop projects by message |
| **Artifacts and archive** | spool directory, object store | store, archive, delete |
| **Data validation, UI, launcher, scripts** | none | see `PROJECT.json`, `components` |

### How they interact

One process has several threads on one heap. The *scheduler thread* runs
`_scheduler_loop`: it heals ghosts, resets the day, walks the waiting projects, consumes due
tickets and drains the pending queue. The *command thread* (or the UI thread in the embedded setting)
runs projects and single tasks on request, the *bot thread* runs a project for a Telegram message.
Each launch creates a *worker thread*, which executes the tasks in child processes, ends the
run, returns its lock and its permit, and then drains the pending queue itself, so that a
worker also launches. Launching calls back into the engine
(`on_project_launch`), which asks the control plane for a claim and registers the run in
`_active_run_ids`; ending a run calls `on_project_finish`. Nodes interact only through rows in D1.

Two processes share a directory: the *desktop program* keeps its own list of projects, writes `scheduler_data.json` after an edit and asks the
engine to read it; the engine writes the same file whenever it saves. The desktop program also starts and stops the engine process.

### What is hard here

* **The launch lock is not owned.** `execution_lock` is a plain `Lock` that *recovery code of any
  thread* may release when it sees no live worker. A launch that holds the lock and has not
  tracked its worker yet looks dead. So the lock does not exclude
  two launches, and everything that comes after must be right without it.
* **Check, then act.** Recovery and healing read the worker table, the process table,
  the status and the lock one after the other and act on what they saw.
* **A counter that anybody releases.** The semaphore is released by workers, by healing and by failed launches.
* **One lock across a launch.** The scheduler holds `project_state_lock` from
  the ticket check to the start of the worker, and the worker needs it to begin.
* **Tickets.** What prevents a second run of a day is `last_consumed_ticket`, written before the claim, by launches
  that recompute `next_run` between the check and the use.
* **Nodes.** A lease read two seconds ago decides whether a run may start now; a
  run row of a crashed node stays active; two statements on one row come in any order.
* **Crashes** between two files, between a command's mark and its effect, between a ticket and its run.
* **Objects with locks are replaced.** A merge of an edited file puts new `Project` objects, with new locks, in the list while
  threads hold the old ones.
* **One status, many writers.** A task's status is written by its thread, the worker, stop commands, healing and the daily reset;
  a run's row by the launch and finish hooks, the heartbeat and two syncs, each from values read before.
* **Who owns the engine.** Several programs may start, restart and shut down the engine of one directory.

### What makes each part correct

* Launch: no project is executed twice at a time; no ticket starts two runs; a project shown
  as Running has a worker that will end it; permits are conserved; a due ticket is used although a lock was leaked; every call returns.
* Schedule: no ticket runs twice, `next_run` skips no day it should run, and a day of the schedule is tried, over restarts.
* Task execution: a stop ends the run; steps run in order; a run shown as Done has succeeded; no process outlives its time limit.
* Control plane: one node executes a run key; a node executes only what it was granted; a standby takes over
  when the owner is gone, and not while the owner has runs.
* Commands and ledger: each command is carried out at most once and answered; the row of an active run is live, and its project points to no other run; after a restart no row of an earlier process is live.
* Persistence: what `load_data` reads after a crash allows no second run of a consumed ticket, and keeps no project from its next day.
* Desktop and engine: one engine per directory; an edit arrives and no project is lost from the shared file.

`PROJECT.json` lists each hazard under `hazards`, at its line, with the
properties that would catch it, or the reason there is none yet.

## 2. Plan

In this order, the behaviour that matters most first. Items 1 to 7 are done, and every safety and action property of the runs is proved.

1. `RunSlot`, `ProjectLaunch`: one process, all launch paths. `RunSlot` is the abstract promise,
   `ProjectLaunch` implements it.
2. `RunBoard`, `Failover`: nodes, the lease, the run rows, crash and restart. `RunBoard` is the
   abstract promise (a ticket is executed once, by one node).
3. `TaskExecution`: steps, conditions, retries, timeouts, stops of a task and of a project.
4. `RunLedger`: the command queue and the run rows of the SQLite store over a restart.
5. `Sessions`: all types of schedule, and what a process remembers of them over days, crashes and failed writes.
6. `LegacySync`: the shared file, and the merge that replaces `Project` objects while they are launched or run.
7. `EngineBridge`: the life of the engine process and the desktop programs that start and stop it.
8. Left: manual runs and the oracle role in `Failover`; pause and resume of the bot in `Sessions`.
9. Left, as proofs: `TicketsUsedInOrder` for behaviours in which the queue is used and empty again, and `TicketsExecutedOnce`
   with deaths over several days, where each needs an exception for the behaviour of section 4 that breaks it.

The modules stand beside each other rather than in one composition, each with what the others promise: `TaskExecution` takes
from `ProjectLaunch` that the runs of a project follow one another, `RunLedger` only that a launch needs a free entry of `_active_run_ids`, `Failover` that a node's launches of a project
are serial, `Sessions` that a launch that consumed its ticket reaches its worker. A product of them is far
beyond what TLC can explore, and the properties below do not need it.

## 3. What is modelled

### `ProjectLaunch`

A thread is where `pc` says; `job` and `kind` are the project and the entry of the call it
is in. One action per access to a lock, the semaphore or a table that
another thread reads, so the model interleaves as finely as the code's shared accesses.

| Code | Model |
|---|---|
| `project.execution_lock.locked()` | `locked[p]` (no owner, as in the code) |
| `semaphore` | `permits` |
| `project_state_lock` held over several steps | `project_state_lock`; sections that take and leave it in one step only test it |
| `project_workers[name]` | `project_workers[p]`, a worker; an entry with a dead thread reads like none |
| `_active_run_ids[name]` | `active_run_ids[p]`, the thread that made the entry, handed to its worker at `Spawn` |
| `run_id` of a worker entry | `run_id[w]` (the project's `execution_id` when the worker was created) |
| `status` Waiting, Running; Done, Error, Stopped | `"Waiting"`, `"Running"`; `"Ended"` |
| launch functions | entry actions `ConsiderScheduled`, `CommandRun(p, "manual")`, `CommandRun(p, "task")`, `BotRun`, then the steps of `LaunchStep` |
| a worker's `_execute_wrapper` | `RunStep`, then `Drain` |

`kind` tells the launch paths apart where they differ: `"scheduled"` holds `project_state_lock`;
only `"scheduled"` and `"pending"` consume a ticket; only `"scheduled"` and `"manual"` count `execution_id`;
`"task"` is neither tracked nor queued and rolls back when its thread does not start.

**Time** is counted in half days: an even `now` is before the daily run time, an odd one after it. A
ticket is the number of its day. That is enough to tell a due ticket from a future one, today's from yesterday's, and a
clock that passes midnight at any point of a launch.

**Abstractions.** `_has_live_project_runtime` is read in one step (worker first, processes second in the code).
`_reset_daily_state` is one step, since it holds `project_state_lock` and changes only
projects without a live runtime. The loop's time of day is taken as current at each step. The Done, Error and Stopped statuses are one. `max_concurrent_projects`
is a small constant where the code has 999, so that the pending queue is reached with few projects: what the runs
with one permit show about the queue needs that many projects in practice. A thread identity is used again once the thread is dead.

`next_run` is calculated in the last section of a run and once more after it (`scheduler_core.py:1186`), from the same inputs; the two are one step of `FinishLogic`.

**Faults** are chosen per instance: `"refused"` and `"claim_error"` (the claim says no, or raises), `"thread_error"` (a worker thread does not start), `"hook_error"`
(`begin_artifact_capture` raises after the registration, `service.py:287`, or `on_project_finish` after the pop, `service.py:387-422`; in the `finally` clause of `_single_task_worker` that skips
the release of lock and permit), `"script_error"` (`_run_single_script` raises in the worker: the worker of a project shows Error without a new `next_run`, the worker of a single task has no `except` and leaves Running).

**Bounds**, all in guards: `MaxNow` (half days), `MaxExecutions` (launches
by command or bot per project), `MaxQueued` (no *new* launch while the pending queue has that length), `PermitCap`
(saturation of the semaphore, above `MaxConcurrent` in the runs about permits so that a double release is visible), and the number of `Workers`.
`BoundsReached` is the stuttering step of an instance that has used them up; with it every other standstill
would be reported as a deadlock, and none is.

`Engine = FALSE` gives the embedded core, which has no `_active_run_ids`; the runs are about the engine (section 4 says what the embedded core does).

### `RunSlot`

The abstract specification: per project a slot that is free, reserved or executing. A run reserves it, begins, ends; a
launch that fails after the reservation abandons it. `ProjectLaunch` maps a slot to *executing* when a worker
executes the project, to *reserved* when an entry of `_active_run_ids` exists without one, else to *free*.

### `Failover`

The nodes that share one daily project. Each node has two threads that matter: the one that launches and runs the project
(`launch`) and the sync thread (`sync`). One action is one statement sent to D1 or one access to what the two
threads share without a lock (`last_consumed_ticket`, `next_run`, `_is_primary`), so every interleaving of two
nodes and of the two threads of one node is explored.

| Code | Model |
|---|---|
| row of `scheduler_leases` | `lease_owner` (`NoNode`: no row), `lease_live` (`lease_expires_at` not reached) |
| row of `scheduled_runs` | `scheduled_runs[ticket]`: the assigned node, and `"active"` (starting, running, finishing) or `"closed"` (completed, failed, cancelled) |
| `control_plane._is_primary` | `is_primary[n]` |
| `try_consume_ticket_atomic`, `claim_project_run` | `CheckTicket`, `ConsumeTicket`, `AskPolicy`, `InsertRun`, `LookupRun` |
| `on_project_finish`, `finish_run` | `FinishRun`, `CloseRun` |
| `_sync_loop`: `heartbeat`, i.e. `refresh_lease` | `UpsertLease`, `ReadLease`, `CheckOwner`, `ForceTakeover`, `RereadLease` |
| `_reconcile_control_plane_tickets` | `SkipReconcile` (15 seconds not over), or `Backfill`, `ReconcileRead`, `MarkConsumed` |
| `_heartbeat_active_runs` | `FindActiveRun`, `HeartbeatRun` |
| start, `stop`, process end | `Boot` (then one sync round in mode `"booting"`), `Stop`, `Exit` |
| a statement that raises | `LaunchFails`, `SyncFails`; a statement that takes effect and whose answer is lost is the statement followed by one of them |

**Abstractions.** A run key is its ticket. A lease expires by an action of its own, allowed when its owner is gone, or at any
time in an instance with `"stall"`. A node's launch is serial: overlapping launches of one project on one node are the
subject of `ProjectLaunch`. The ticket is saved in the same step as it is consumed, as `save_data` follows at
once; what a crash between the two files does belongs to `Sessions`. The `SELECT` of the backfill is merged with its
`INSERT`, which changes nothing for an existing row. Reading the lease and the priority of its owner is one step: priorities do
not change. The retention and the archive are beyond the days of an instance. A step of the tasks that raises (which leaves
`next_run` as it was) is not told apart.

**Faults** are chosen per instance: `"crash"` (a node exits at any point), `"stop"`, `"stall"` (a live owner does not renew in time),
`"d1_error"`, `"late_heartbeat"` (a heartbeat that the sync thread has decided on arrives after the run's `finish_run`). Nodes
may start at any time after an exit. The only bound is `MaxNow`, the last half day.

### `RunBoard`

The abstract specification: a set of used tickets and the executions under way. A node may execute a ticket that is not used, which
uses it; an execution ends. `Failover` maps `used` to the tickets any node has started (`started`), and `executing` to the nodes
whose tasks run, so an execution ends with its run or with its node.

### `TaskExecution`

One project and its runs, one after another. The worker of the run, one thread per task and run (`<<task, run>>`; in sequential mode it is the worker
itself), the command thread that stops, the sync thread that normalizes, healing and the daily reset interleave.

| Code | Model |
|---|---|
| `_execute_project_logic` | `BeginRun`, `BeginStep`, `BeginTask`, `WaitForTasks`, then `FinishRun`, `UserStop` or `RunFails`, and `EndRun`; `single` tells the worker of a single task apart |
| `_run_single_script` | `CheckCondition`, `StartAttempt`, `StartProcess`, `RegisterProcess`, `PollProcess`, `TimeOut`, `Classify`, `GiveUp`; `AttemptRaises` (outside the `try`), `StreamFails` (while the output is read) |
| `active_processes` | the set of threads whose process is registered |
| `stop_requested`, `SchedulerCore._requested_task_stops`, the service's set of the same name | `stop_requested`, `requested_stops`, `service_stops` |
| `stop_task`, `stop_project` | `StopTask`, `FindTask`, `RejectStop`; `StopProject`, `SnapshotProcesses`, `KillNext` |
| `_normalize_requested_task_stops`, `_heal_ghost_running_projects`, `_reset_daily_state` | `NormalizeStop`, `HealGhost`, `DailyReset` |
| a child process | `process[th]`: alive, or how it ended; `ProcessExits` is the process ending by itself |

**Abstractions.** What a condition finds in the file system is a free choice. An exit code is 0, 15, what a killed process returns, or another.
`_terminate_process_safely` is taken to succeed. A process that its thread drops after an exception (`StreamFails`) is no longer in the model, as it is no longer in the program: it goes on, no stop or time limit finds it, and the properties
about processes are about those that a thread still looks at. **Faults:** a process or a thread that does not start, an exception before the `try` of an attempt, one while its process runs.
`overlap` notes that threads of an earlier run were alive when a run was launched, the case the properties about a run's
result except. **Bounds:** `MaxRuns`, `MaxCommands`; the run that checks it has two tasks, in one step (sequential and parallel) under `prev_success`, and in
two steps with a retry and a file condition, two runs and one stop command, so that a thread left behind meets the next run.

### `RunLedger`

The store and the threads of one engine process that write it. One action per method of `EngineStore` (each is one transaction), and per
read of shared memory before it.

| Code | Model |
|---|---|
| `project_runs`, `project_state`, `engine_commands` | `project_runs`, `run_project`; `state_status`, `active_run_id`; `engine_commands`, `command_project` |
| `start`, `recover_interrupted_runtime`, a crash | `Start`, `Crash` |
| `submit_command`, `_process_command` | `Submit`; `TakeCommand`, `ExecuteCommand`, `AnswerCommand`; `carried_out` counts the effect |
| `on_project_launch` | `Register`, when `_active_run_ids` has no entry (`CanLaunch`, the only condition the code has) |
| `on_project_finish`, `_rollback_project_launch` | `PopRun`, then `FinishRun`; a next run may register in between |
| the worker of each run | `worker[r]`: created, executing, ended, finishing; `BeginRun`, `EndRun` write the status of the project |
| `_recover_stale_project_state`, healing | `Recover` |
| `_heartbeat_active_runs` | `BeginBeats`, `ReadStatus`, `Beat` |
| `sync_from_models` of the sync loop and of other threads | `TakeSnapshot(y)`, the names and statuses of the listed projects; then `Upsert(y)`, which deletes the rows of projects that the payload leaves out |
| `projects`, `core.projects` | `project_rows`, `listed` |
| `sync_from_legacy` without a live runtime, `load_data` | `CheckRuntime`, `ClearList`, `AppendProject`, `EndLoad`; a run whose object has left the list is `on_old` |

**Abstractions.** Task rows and events are left out. All live statuses count alike for liveness of a row. Whether a lock or a permit keeps a launch away is open: only `_active_run_ids` does for certain. Which projects the
file has, and with which statuses they are loaded, is open. **History variables:** `overtaking`, the runs registered while an earlier run of the project was still in its finish hook; `unlisted`, the registered runs whose
project a payload has left out. **Bounds:** `MaxRuns` rows, `MaxCrashes`, `MaxReloads`; `OtherSyncers` and `Outcomes` are chosen per instance.

### `Sessions`

One project of any type of schedule over several days. Time is counted in slots of more than five minutes; a ticket is the slot it
names, so `calculate_next_run` is translated for all four types.

| Code | Model |
|---|---|
| `calculate_next_run` | `daily_next_run`, `candidate` (weekly), `interval_next_run`, `onetime_next_run` |
| `_get_ticket_block_reason` | `TicketAllowed` |
| `scheduler_data.json`, `scheduler_session_state.json`, the schedule trace | `data_file`, `session_state`, `trace` |
| `save_data` on any thread | `DumpProjects` (before `persistence_lock`), `WriteDataFile`, `WriteSessionState` |
| `load_data` | `LoadData`: `InitialStatus`, `SessionStatus`, `StaleSessionStatus`, `TraceFinish` |
| the loop | `DailyReset`, `BeginPass` (with healing), `ConsumeTicket`, `TraceConsumed`, `LaunchScheduled` |
| a worker | `BeginRun`, `FinishRun`, `TraceFinished`, `EndRun` |

**Abstractions.** The loop makes its pass within a slot. Stopped counts as Error. Appending to the trace does not fail. The bot's pause is left out. **Faults:** a crash between any two steps, a write
of either file that fails. **Bounds:** `MaxNow` (four slots, two per day: two days and the start of a third), `MaxCrashes`, and `MaxEvents` for manual runs, saves by other
threads and failed writes together. `MCSessions` has six projects, of every type, at midnight and in the day, with and without `catch_up_missed`.

### `LegacySync`

The desktop program and the engine with one file of projects, and the engine's threads that hold `Project` objects.

| Code | Model |
|---|---|
| `scheduler_data.json`; the two lists | `file`; `ui`, `projects` |
| a `Project` object | `<<project, n>>` with `data`, `locked`, `run`; `projects[p]` is the one in the list |
| `HSSchedulerApp.save_data` and `_refresh_core_runtime_from_engine` | `Save`, `RefreshCore`, then `WriteFile` and the sync |
| `add_project`, `delete_project`, edits, a restart of the program | `AddProject`, `DeleteProject`, `EditProject`, `OpenAgain` |
| the API thread in `sync_from_legacy` | `HasLiveRuntime`, then `BeginLoad`, `AppendProject`, `EndLoad` (reload), or `LoadLegacyProjects`, `FindLiveNames`, `AssignMerged` (merge) |
| scheduler loop over the list it started with | `BeginRound`, `PassOver`, `ConsumeTicket` |
| `find_project`, `run_project_manual` | `FindProject`, `RunManual` |
| the worker | `FinishLogic`, `PopRun`, `EndWorker` |

**Abstractions.** All edited fields are one number, a ticket is used or not (so the desktop's copy, which takes any ticket a row has, even an older one (`app.py:454-455`), is never set back in the model: a row older than the copy counts among the
old rows that `TicketRunsOnce` excepts); the file and a dump of the list are written in one step (`Sessions` splits them). The queue, the
permits, statuses and `execution_id` are left to `ProjectLaunch`. A rename is a deletion and an addition; a project added under the name of one that a torn save has lost is another project (`kept`). The timeout of the client is left out. **History variables** name
the races that the properties except: `torn` (a save while `load_data` fills the list), `overwritten` (the engine saved between the
desktop's write and the sync's read), `forgotten` (a ticket missing from what the desktop saved). **Bounds:** two projects, two objects each, one edit, two launches per project; since edits and runs are
bounded, the instance may stop (`CHECK_DEADLOCK FALSE`).

### `EngineBridge`

Desktop programs and engine processes of one directory: the lock file, the port, the health check, the handle.

| Code | Model |
|---|---|
| `main()` of `scheduler_engine.py` | `AcquireLock`, `StartService`, `Bind`, `StopService`, `CloseServer`, `ReleaseLock` |
| what the operating system does with a process that ends | `Dies` |
| `POST /shutdown` in `api.py:75-80`: stop, reply, and only then the thread that closes the server | `StopService`, then `CloseServer`, or `ShutdownFails`, which leaves the process `"stranded"` |
| `_ensure_engine_bridge` | `FindEngine`, `SpawnEngine`, `SpawnFails` (`Popen` raises), `WaitForOwn`, `GiveUpOwn`, `GiveUpStart` |
| `poll_engine_bridge`, `_recover_engine_bridge`, `_submit_engine_command` | `Poll`, `Recover`, `ForceRestart` |
| `/shutdown`, quitting the program, its crash | `ShutdownEngine`, `CleanQuit`, `DesktopCrash` |

**Faults,** `MaxFaults` of them together: a crash, a health check without an answer in time, a start slower than the program waits or that raises, another program on the port, a shutdown that fails after the service has begun to stop (`stop()` outlasts the client's timeout of five seconds, `client.py:68`, so that
the reply cannot be written, or raises). The engine's script and its log directory are taken to be there (`app.py:799-800`). Scheduling begins before the
port is bound, as in the code, so `Schedules` includes a process that is about to fail. **Bounds:** two programs, three processes, two faults.

## 4. What the runs show

| Run | Instance | Shows |
|---|---|---|
| `engine_launch` | 1 project, 2 workers, scheduler + manual, a day and the next morning, claims refused or raising, threads that do not start; fair | `OneRunPerProject`, `RunningHasARun`, `TicketsUsedInOrder`, `RunsTakeTurns` (the code implements `RunSlot`), `RunsEnd`, `CallsReturn`, `DueTicketsConsumed` |
| `engine_single` | 1 project, 2 workers, manual + bot + single task, every fault, hooks and scripts that raise among them | `OneRunPerProject` where workers are untracked or share a `run_id` |
| `pending_queue` | 2 projects, 1 permit | `PermitsConserved` (only healing makes a permit), `LiveRunIsTracked` with launches by workers |
| `failover` | 2 nodes, one ticket; crash, stop, stall, D1 errors, late heartbeats; priorities of the sample files | `ExecutionIsRecorded`, `OneNodePerTicket`, `TicketsExecutedOnce` (the nodes implement `RunBoard`), `MainKeepsLease` |
| `failover_live` | 2 nodes, a day and the next morning; crashes, late heartbeats; fair | `StandbyTakesOver`, `MainReturns` |
| `ticket_lost` | 2 nodes, crashes, fair | *violated*: `DueTicketIsRun` |
| `tasks` | 2 tasks in three configurations, 2 runs, 1 stop command; processes and threads that do not start, exceptions before and after a start; fair | `StepsInOrder`, `DoneRunSucceeded`, `OrphansOnlyInParallelSteps`, `PrevSuccessHonoured`, `NotedStopIsShown`, `StoppedRunEndsStopped`, `StopEndsRun`, `TimeLimitsEnforced` |
| `ledger` | 1 project, 1 command, 2 runs, 1 crash, 1 reload | `ActiveRunIsRecorded`, `NoRunSurvivesRestart`, `CommandsAtMostOnce` |
| `ledger_live` | 1 project, 1 command, 1 run, 2 crashes, a second thread that syncs; fair | `CommandsAnswered`, and `EndShown` over payloads that are written in the other order |
| `sessions` | 6 kinds of project, two days and a morning, 1 crash, 1 other event | `NoSlotSkipped`, `TicketRunsOnce`, `DailyRunsDaily`, `ScheduledDayRuns` |
| `legacy_sync` | 2 projects, 1 edit, 2 launches each | `OneRunPerProject`, `NoProjectLost`, `EditsArrive`, `TicketRunsOnce` |
| `engine_bridge` | 2 desktop programs, 3 processes, 2 faults, a failing shutdown among them; fair | `OneEngine`, `NoEngineLeftBehind`, `EngineReturns` |

Type invariants are not among the properties of the runs: they are proved (section 5).

**Why these bounds suffice.** The races are between a launch, a recovery and a finishing
worker of *one* project, which two callers and two workers produce; a day and the next morning give a run that
spans midnight, a ticket left over from the day before, and a recovery that calculates the next day's ticket (the use of later tickets is left to the proof of `TicketsInOrder`); the queue needs two projects for one permit.
What a larger instance could add to `OneRunPerProject` is excluded by the proof.
The lease is contended by a main and a standby node, the setting the repository documents; the races of a claim are between two
nodes, or between the two threads of one, around one ticket. `MaxNow = 1` lets the ticket of the day become due, be executed, and
be met again by every restart on that day; `MaxNow = 2` adds the daily reset and a run that spans midnight; `MaxNow = 3` the second day's
run time, when a ticket claimed early comes due. The
theorems of `FailoverProofs` cover any number of nodes and days.
`tasks` needs a task left behind by a parallel step, which the second run then meets; the second task is what its condition and its step order are about.
`ledger` needs a row that a crash leaves live, and a second run of the same project that registers while the first is still finishing; its theorems cover more projects, commands, runs, syncing threads, crashes and
reloads. `EndShown` needs a payload or a heartbeat that is older than the end of the run, and a second thread whose older payload is written last: `ledger_live` has these with one run and without reloads.
`sessions` needs a day, the next, and the morning after, with the crash or the failed write anywhere in between. `legacy_sync` needs a project
that is live and one that is not for the merge to treat differently, and two objects of one. `engine_bridge` needs an engine that is going, one that is coming, and one started by another program.

**Fairness.** Every thread that can move is run by the operating system (weak fairness of each thread's steps).
Waiting for `project_state_lock` is under strong fairness: the scheduler takes it for a moment per
pass and sleeps in between, so a waiting thread gets it. Processes end, and a run
has finitely many tasks and retries, so a run reaches its last section (`SF` of `FinishLogic`). The scheduler loop looks at each project
again and again (`SF` of `ConsiderScheduled`). No fairness is assumed of the clock, the commands and the bot.
In `Failover`, the threads of a process that is up run (weak fairness of a node's launch and sync steps), a run ends, and a
lease that is not renewed expires. Nodes need not start, stop or crash, and the clock may stop.
`failover_live` leaves out D1 errors, stalls and stops: without end they keep a node from ever finishing a round of its sync thread as
owner. `MainReturns` excepts the case that the standby has left an active row behind, by a crash or a late heartbeat: such a row
keeps the lease from the main node as long as the standby renews it.
In `TaskExecution` the worker, the threads and the command thread run (weak fairness); no process ends by itself, no exception has to come, no stop has to be asked for: a run without one may hang, and `StopEndsRun`
and `TimeLimitsEnforced` say what ends it. In `RunLedger` the engine is started again, its loops and workers go on, and the sync loop, which comes around every two seconds, sometimes gets to take its payload
(`SF` of `TakeSnapshot` of the sync loop), and a thread that has taken a payload writes it; commands, reloads, launches and crashes are free. In `EngineBridge` a process goes on, a program that waits for or polls an engine does so, a quit is
finished, and another program gives the port back; nothing has to be opened, quit or started. `LegacySync` and the safety properties need no fairness.

### What the code does that its comments do not say

* `README.md:106` says "the standby node waits until it owns the lease". It does not wait: `try_consume_ticket_atomic` consumes the
  ticket, the claim is refused, and the standby's backfill writes a completed row for the ticket, so that no other node
  runs it (`ticket_lost`). The same happens to an owner whose sync thread backfills between consumption and claim.

The following have no run of their own; each was met while modelling and follows from the module named.

`ProjectLaunch`:

* `models.py:74` says `execution_lock` "is only used to prevent duplicate project launches". In the
  embedded core (`Engine = FALSE`) it does not prevent them: thread A holds the lock and has not
  tracked its worker; thread B finds the lock taken and no live runtime, releases it, takes it and launches
  too. In the engine `_active_run_ids` catches the second one.
* Recovery checks for a live worker first and releases the lock later, when
  a worker may execute the project under that lock (`scheduler_core.py:564`; `models.py:75` speaks of "stale locks"); it discards
  a project from `_pending_set` and leaves its queue entry, so it can be queued twice (`scheduler_core.py:583`).
* An entry of the pending queue is launched without another look at the ticket, so it may use the ticket of the following day or one already used
  (why `TicketsUsedInOrder` is checked without the queue); a recovery that passes midnight between
  the ticket check and the consumption makes the launch consume what `next_run` names then.
* Two overlapping launches of one project can get the same `run_id`, and the first to end untracks the other (why `LiveRunIsTracked` is
  checked with the scheduler and the queue as the only launchers, and says nothing of such a pair); healing reads the worker before the status,
  so a worker of the pending queue that starts in between is declared a ghost and its permit is returned
  twice (the exception in `PermitsConserved`).
* An exception out of the claim of a single task keeps the permit, and so does one out of its finish hook (`service.py:745`, before lock and permit are given back): the lock is recovered, the permit is not. `PermitsConserved` is checked
  and proved without these two (`NoLeaks`).
* A thread that does not start, and an artifact capture that raises after the registration (`service.py:287`), leave an entry in `_active_run_ids`
  that nothing removes, so the project is not launched again.
* A script that raises outside its `try` in the worker of a single task (`service.py:719`) leaves the project Running without a worker until healing finds it (why `RunningHasARun` is checked without `"script_error"`).
* A run that spans midnight is skipped by the daily reset, so its project is not waiting the next day.

`Failover`:

* `scheduler_core.py:261` restores the consumed ticket "to prevent duplicate reruns after restart". When `reconcile_consumed_tickets` moves
  `next_run` on while a launch is past its check, the launch claims and runs *tomorrow's* ticket, which `last_consumed_ticket` does
  not name. After a crash or a stop in that run, an error of its `finish_run` or a late heartbeat, the row is still active, and the next day the node claims it again and reruns the
  ticket. So `TicketsExecutedOnce` fails with `MaxNow` beyond one day, and is checked for the tickets of one day.
* `distributed_settings_dialog.py:264` gives the main PC priority 10 and the sub PC 100, while the control plane lets the
  greater number take the lease and the sample files have 200 and 100: configured by the dialog (`Settings = "dialog"`), the standby takes a
  live lease from the main node, and `MainKeepsLease` fails.
* A claim asks `_is_primary`, which is as old as the last heartbeat, so a node that has lost the lease still starts a run, which
  the row of the claim keeps from being executed twice.

`TaskExecution`:

* A stop that arrives between the accepted launch and the run's first section is lost, since the run clears `stop_requested`; healing and the daily
  reset clear it for a single-task run that is between two attempts.
* After `stop_task` the retries of the task go on (`scheduler_core.py:1089`). A second `stop_task` that comes when the process is already unregistered is rejected and discards
  the first one's note, so the stopped task is shown as Error (the exception in `NotedStopIsShown`).
* A thread left behind by a stopped parallel run writes its task's status into the next run, which may then report Done although its own task failed (`overlap`).
* In a parallel step `prev_success` may find the Done of an earlier run.
* An exception while the output of a process is read (`scheduler_core.py:999-1047`) shows the task as SystemError and drops the process, which goes on, in a sequential step too; the next attempt may run beside it. An exception before the `try`
  of an attempt (`scheduler_core.py:935`, `946`) ends a sequential run with Error, and in a parallel step only its thread, whose task stays shown as Running, which counts as a failure.

`RunLedger`:

* A heartbeat that has read its run before the finish hook makes the finished row live again until the next restart (`service.py:622`, `store.py:677`);
  `NoRunSurvivesRestart` says that the restart clears it.
* The finish hook takes the run out of `_active_run_ids` (`service.py:381`) before it finishes the row (`service.py:389`). When recovery has freed the lock of the single task that is finishing, a next run registers in between, and the late finish
  sets `active_run_id` of the project to NULL (`store.py:722-729`), although the next run is active: the exception `overtaking` of `ActiveRunIsRecorded`.
* A payload that a sync makes while `load_data` refills the list (`scheduler_core.py:170`) leaves projects out. Their rows are deleted (`store.py:263-272`), with the `active_run_id` of a run that was launched after the reload's look at the
  live runtime, and inserted again by the next sync without it: the exception `unlisted`.
* The result of a run is read from the status of the project (`service.py:387`), which may already be that of a later run: the row of a run that has ended may be finished as "running" or "waiting".
* A command is marked running before it is carried out, so a crash in between answers "failed" to a command that was, or was not, executed.
* Commands of the same second are taken in no particular order (`store.py:498`). A payload taken before a run's end may overwrite the row written at the end, until the next sync (`EndShown`).

`Sessions`:

* A weekly project at 00:00 never runs while the process is up across midnight: the daily reset of that minute moves `next_run` on by a week (`models.py:188-190`; the
  exception in `ScheduledDayRuns`).
* `save_data` dumps the projects before it takes `persistence_lock` (`scheduler_core.py:205-206`), so an older dump may be written last. A one-time project with `catch_up_missed` then runs again
  after a restart on a later day (the exception in `TicketRunsOnce`).
* An interval project runs at most once a day (only waiting projects are looked at, `scheduler_core.py:443`, and a run's status stays until midnight). A manual run that is Done before `run_time` keeps that day's scheduled run from happening. A crash between the
  consumption of a ticket and its launch loses the run of the day.

`LegacySync`:

* An edit of a *live* project does not survive: the merge keeps the engine's object, whose next save overwrites the file, and the answer is "ok". An edit of a project that is not
  live is lost as well when the engine saves between the desktop's write and the sync's read (`overwritten`), although `stage2_smoke_test.py:354` says "live sync should update
  non-running project state". Deleting a live project brings it back.
* A merge with the desktop's stale copy, or a save without a look at the engine's rows (`add_project`, `delete_project`), makes a consumed ticket due again
  (`forgotten`). The scheduler's round over a list that has been replaced may consume with the old object what the new object then consumes again.
* A save during `load_data` writes a partial list (`torn`).
* `stop_project` after a merge may set `stop_requested` on the new object while the old one runs.

`EngineBridge`:

* When the bridge fails as the program opens, the program schedules with its embedded core, and its later synchronization (`_sync_engine_state`, `_recover_engine_bridge`)
  may start an engine beside it: two schedulers on one directory. `OneEngine` is about engine processes only.
* The engine schedules before its port is bound, so with a port in use it may consume tickets and then exit.
* Quitting one desktop program shuts down the engine another one uses; `EngineReturns` says that the other gets one again. A forced restart terminates an engine that is merely busy,
  and leaves the processes of its tasks. A desktop program that crashes leaves its engine running.
* `POST /shutdown` closes the server after the reply (`api.py:75-80`). When `stop()` takes longer than the five seconds that the client waits, or raises, the server is never closed: the stopped engine keeps its port and its lock, answers
  `/health`, which `app.py:133-147` takes for an engine although the answer says `"running": false`, and nobody starts another. Commands sent to it are never carried out. This is the exception of `EngineReturns`.

## 5. What is proved

`ProjectLaunchProofs`, checked by TLAPS for every value of the constants that satisfies
`ThreadAssumption`, `ModeAssumption` and `BoundAssumption`:

* **`TypeCorrect`**: `Spec => []TypeOK`. `TypeOK` alone is not inductive: a step of a thread writes `status[job[t]]`, so `job[t]` must be a
  project. The invariant adds that a thread inside a call has a project, except `_process_pending` before it took one from the queue.
* **`OneRun`**: with `Engine = TRUE`, `Spec => []OneRunPerProject`. The locks play no part in it, rightly: recovery takes them away at any time. The inductive
  invariant `RunInv` says that every thread that has registered its run and has not ended it is *the one* named by
  `active_run_ids` of its project. A registration needs a free entry (the test and the write are one section under `_active_run_lock`), the entry
  is handed over at `Spawn`, and only its holder's `UnregisterRun`, `StartFails` or undo frees it: so two registered
  threads of one project are the same thread. A worker executes only while it is registered.

* **`RunningIsRun`**: `Spec => []RunningHasARun`, in both modes. Only the worker that has set Running leaves its run, and takes the status along (`StatusInv`: a project shown as Running has a
  worker in its run; a created worker is the launcher's own, and its launcher waits for it to start), so two workers of one project cannot strand a Running; recovery, healing and the reset change a status only to something else.

  The hypothesis `TasksEnd` leaves out the one fault that strands a Running, a script that raises in the worker of a single task.

These proofs have one step per action. `StateLockFree`, the other faults and the bounds are never needed.

`LaunchResourceProofs`, on the same assumptions and invariants:

* **`TurnsAreTaken`**: with `Engine = TRUE`, `Spec => RunsTakeTurns`, the refinement of `RunSlot`. A step of the code moves the slot of
  at most one project, along one edge of `RunSlot` (`SlotMoves`), and all others stutter; `RunInv` gives the edge, since only a registered worker executes.
* **`PermitsAddUp`**: `Spec => PermitsConserved`, from a finite set of workers and `NoLeaks`. Permits and the number of their holders are balanced step by step: a step takes one and gains a holder, gives one
  back and loses it, hands it on, or touches neither (`PermitTaken`, `PermitGiven`, ...). `NoLeaks` leaves out the leaks of section 4: a thread that does
  not start, and a claim or a hook that raises for a single task.
* **`TicketsInOrder`**: `Spec /\ [](pending_queue = << >>) => TicketsUsedInOrder`. The hypothesis is about behaviours and not about constants: a queued launch takes `next_run` without a look at the ticket (section 4), and in
  `engine_launch` none is ever queued. This is where the lock is needed: `LockInv` says that the scheduler holds `project_state_lock` from the check to the start, so no run ends and no reset comes in between, and what a
  recovery recalculates meanwhile is still unused and due (`TicketInv`).
* **`LiveIsTracked`**: with `Engine = TRUE` and without manual entries, `Spec => []LiveRunIsTracked`. A worker untracks whatever entry carries its own `run_id`, so `TrackInv` orders
  them: the `run_id` of a scheduled run is newer than that of every worker of the project that has ended and not yet untracked. A manual launch counts `execution_id` without the lock, and the invariant fails (section 4).

`FailoverProofs`, for any set of nodes, any faults, any number of days and either source of priorities, from `NodeAssumption` and
`BoundAssumption`:

* **`TypeCorrect`**: `Spec => []TypeOK`. Not inductive alone: `heartbeat_run` and `finish_run` update a row whatever it holds, so
  one must know that the row they name exists.
* **`RunsAreRecorded`**: `Spec => []ExecutionIsRecorded`, and **`OneNode`**: `Spec => []OneNodePerTicket`.

All three follow from one invariant, `Inv`. Its part `RowInv` says of the rows what each thread relies on after it has read them: the row
of a running execution is its node's and active; the row of a run being closed is still its node's; a heartbeat under way
has a row that is assigned; and the row of an *executed* ticket names the node that executed it. It is inductive because a statement
either inserts where there is no row (`InsertKeepsRows`) or updates a status and leaves the assignment (`UpdateKeepsAssigned`): no
statement of the code reassigns a row. The lease plays no part, rightly: what a node knows of it may be stale at any time. Only `CloseRun` by
another node could close the row of a running execution, and it closes a row of its own.

* **`MainKeeps`**: with `Settings = "samples"`, `Spec => MainKeepsLease`. No node has ever *seen* the main node as an owner of lower priority (`SeenInv`), and a takeover is of the owner that was seen.
* **`OnceInADay`**: with `MaxNow \in {0, 1}`, the hypothesis of the run, `Spec => TicketsExecutedOnce`: the nodes implement `RunBoard`, whatever crashes, stalls and errors there are. A node between its ticket check and its answer
  still has the project waiting, and a project waits only as long as its node has started nothing on that day (`DayInv`); another node's row refuses it (`RowInv`).
* **`OnceWithoutDeaths`**: the same for any number of days when `Faults \subseteq {"stall"}`. A node that has executed a ticket early meets the ticket again on its day; `OpenInv` says that its row is closed by then, so the claim is refused. With a crash the row is still active and
  the ticket runs again, which is the behaviour of section 4. With `MaxNow = 3` each of the faults left out (a crash, a stop, a D1 error, a late heartbeat) does that alone: TLC finds the second execution.

`TaskExecutionProofs`, for any tasks, steps, retries, faults and numbers of runs and stops, from `TaskAssumption`: **`TypeCorrect`**, **`NoOrphans`** (`OrphansOnlyInParallelSteps`),
**`StepsFollow`** (`StepsInOrder`), **`DoneMeansDone`** (`DoneRunSucceeded`), **`StopIsShown`** (`StoppedRunEndsStopped`). `SequentialInv` says that in sequential mode the worker waits for any thread that is alive, one of its own tasks, and that there is at most one: so an exception of that thread, which ends the wait, leaves none behind. The second
invariant, `RunInv`, which TLC checked first, relates what the worker reads to how the threads ended: while a run without `overlap` lasts, only its own threads are alive (`ThreadsInv`), a task whose thread ended badly, or may still raise, shows no success (`FailuresShown`), and the tasks of
the steps the worker has left have ended well (`ProgressInv`). It holds although stops, healing and resets write the same statuses, since they do not make a failure look like a success while the run can still look at it.
**`PrevSuccessHolds`** (`PrevSuccessHonoured`) rests on `SequenceInv`: in sequential mode a thread that is past its condition has every task of lower order shown as Done; stops leave
the Done of another task alone, and healing and the reset change a status only where no thread is live, or in a run of a single task, which has no condition to honour. **`StopsAreShown`** (`NotedStopIsShown`) goes through the actions that remove a note.

`RunLedgerProofs`, for any projects, commands, rows, syncing threads, crashes and reloads, from `LedgerAssumption`: **`TypeCorrect`**, **`RunsAreRecorded`** (`ActiveRunIsRecorded`), **`RestartsClearRuns`**
(`NoRunSurvivesRestart`), **`CommandsOnce`** (`CommandsAtMostOnce`). The invariant of the rows, `RowInv`, adds four parts to the two properties. `EntryInv`: the entry of `_active_run_ids` names a run exactly as long as its worker has not popped it, so a run
that registers finds at most *finishing* workers of its project beside it. `OvertakingInv`: if it finds one, it is in `overtaking`, which is what allows the late `FinishRun` of that worker to clear the pointer; without it the finish hook would seem to
clear the pointer of any run. `WorkerInv` and `ThreadInv`: workers and heartbeats write rows of this process, which exist, and heartbeats write live statuses only, so they
neither hide an active run nor revive one of an earlier process. A deleted row takes its pointer along, and puts the run in `unlisted` in the same step. `CommandInv` ties a command's mark to the position of the command loop.

`SessionsProofs`, for any projects, day length, faults and bounds, from `SessionAssumption`. Whatever crashes and failed writes leave in the files, the next run of every type of schedule is a slot or never; the
invariant adds to **`TypeCorrect`** that the files hold what a project may load (`FilesTyped`) and that a finished run shows how it ended (`EndIsFinal`). The rest needs the calendar, for a symbolic length of the day:
days and their slots are in the same order (`DaysInOrder`), a slot is that of its day (`SlotOfDay`, `DayOfDue`), the next day of a weekday is at most the one looked for (`DaysAhead`), the day changes after the last slot of a day (`NextDay`).

* **`NoneSkipped`**: `Spec => []NoSlotSkipped`. `NextRunCovers`: a calculated `next_run` is not after any scheduled slot that lies ahead; `CoverInv` says so of `next_run` and of the trace. The property looks a week ahead, the invariant has no horizon.
* **`OneRunPerTicket`**: `Spec => TicketRunsOnce`. The argument is not that the files name the last ticket, since they need not after a crash or a stale save. A ticket that was used is that of its day and not after `now` (`PastInv`), a calculated `next_run` is none
  that was used unless that one is of today (`NextRunIsNew`), and the one of today is named by the trace, which is written before the launch and read at every start (`TraceInv`). So `NextInv`: `next_run` is a used ticket only if
  `last_consumed_ticket` says so, which blocks it. `FinishInv` says the same of the `next_run` in the trace of a finished run, `ResetInv` of a run that spans midnight, `LoopInv` of the way from the ticket to the launch.
* **`DailyRuns`** and **`DaysRun`**: `Spec => DailyRunsDaily`, `Spec => ScheduledDayRuns`. `TriedInv` says that a ticket or a last run of today, in memory, in a file or in a dump on its way to one, and a Running session of today, are those of a project
  that was tried today: hence what a restart restores of an untried day is a waiting project (`DayInvNext`, step `Start`). `DayInv`: until it is tried, the project waits with the slot of the day as `next_run` (`SureNext`), and a pass after that slot has
  tried it; `DayEnds` puts that to the last slot of the day, in which a pass is made. `GhostInv` says that a pass leaves no Running without a worker.

`LegacySyncProofs`, for any projects, objects, edits and runs, from `SyncAssumption`: **`TypeCorrect`** and **`OneRun`** (`OneRunPerProject`): every run executing is registered under its project's name, and the registration,
unlike the lock, does not belong to the object a merge replaces.

* **`KeptProjects`**: `Spec => []NoProjectLost`. `KeepInv`: every list that is written to the file, or that the file is read into, has the projects nobody deleted; the list that `load_data` fills has not, and only a save in that time reaches the file, which is `torn`.
* **`EditsReachEngine`**: `Spec => []EditsArrive`. `EditInv` follows the settings from the desktop's write through the file and the list read from it to the answer, unless `overwritten`.
* **`TicketsOnce`**: `Spec => []TicketRunsOnce`. `TicketInv`: a used ticket is due in no list from which it can come back to the engine; in the desktop's own list it may be while nothing is saved, as the rows it reads before the next save name it, or else
  `forgotten` does.

`EngineBridgeProofs`, for any programs, processes and faults, from `BridgeAssumption`: **`TypeCorrect`**, **`SingleEngine`** (`OneEngine`), **`EnginesAreOwned`** (`NoEngineLeftBehind`). `LockInv`: a process past
`AcquireLock` holds the lock file, whatever ends beside it, and also when its server stays open after a shutdown that failed. `OwnerInv`: a process that runs is known to the program that started it.

**Only model-checked.** The liveness properties (`RunsEnd`, `CallsReturn`, `DueTicketsConsumed`, `StandbyTakesOver`, `MainReturns`, `StopEndsRun`, `TimeLimitsEnforced`, `CommandsAnswered`, `EndShown`, `EngineReturns`): the prover has no
rule for fairness and `ENABLED`. Every other property of a passing run is a theorem. Where a theorem has a hypothesis, its run satisfies it, and the behaviours that it leaves out are those of section 4, in which the property fails.

## 6. What is not modelled

* `SchedulerCore.shutdown`, the notification after the last run of a day, log streaming, the environment of a process, `save_history`, a corrupt data file and its backup.
* In the control plane: manual runs, the oracle role and its lanes, `task_runs`, the archive, a change of the settings while the engine runs.
* In the store: events, task rows, pruning of old rows. In the API: the routes that only read, or only put a command in the queue.
* The bot's polling, pause and resume. A pause between check and consumption can leave "Paused" as a ticket (`telegram_bot.py:293`).
* Artifacts and the archive store (sequential copying at the end of a run), data validation (a pure check covered by unit tests), widgets, launcher and
  packaging scripts: they keep no state that the properties above depend on.

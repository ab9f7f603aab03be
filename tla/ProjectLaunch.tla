--------------------------- MODULE ProjectLaunch ---------------------------
(***************************************************************************)
(* How one scheduler process launches and ends the runs of its projects:   *)
(* the launch functions of StabilizedSchedulerCore (embedded in the UI,    *)
(* Engine = FALSE) and of EngineRuntimeCore with the hooks of the engine   *)
(* service (Engine = TRUE).  Threads interleave at every access to a lock, *)
(* to the semaphore or to a shared table; a thread is where pc says.       *)
(*                                                                         *)
(* Time is counted in half days: now % 2 = 0 is before the daily run time  *)
(* of day now \div 2, now % 2 = 1 is after it.  A schedule ticket is the   *)
(* number of its day.                                                      *)
(***************************************************************************)
EXTENDS Integers, Sequences, FiniteSets

CONSTANTS
  Projects,       \* the projects of core.projects, one Project object per name
  Workers,        \* identities of worker threads, reused once a thread is dead
  NoThread, NoProject,
  Engine,         \* TRUE: EngineRuntimeCore + service hooks; FALSE: the core alone
  Entries,        \* the launch functions in use
  Faults,         \* answers of a claim, and errors, the instance allows
  CatchUp,        \* the projects with catch_up_missed
  MaxConcurrent,  \* max_concurrent_projects
  \* Bounds of the instance, not of the code:
  MaxNow,         \* last half day
  MaxExecutions,  \* launches counted by execution_id, per project
  PermitCap,      \* saturation of the semaphore counter
  MaxQueued       \* length of pending_queue at which no new launch begins

Callers == {"scheduler", "command", "bot"}
Threads == Callers \cup Workers
LaunchKinds == {"scheduled", "manual", "direct", "task"}

ASSUME ThreadAssumption == /\ Workers \cap Callers = {}
                           /\ NoThread \notin Threads
                           /\ NoProject \notin Projects
ASSUME ModeAssumption == /\ Engine \in BOOLEAN
                         /\ Entries \subseteq LaunchKinds
                         /\ Faults \subseteq {"refused", "claim_error", "thread_error", "hook_error", "script_error"}
                         /\ CatchUp \subseteq Projects
ASSUME BoundAssumption == /\ MaxConcurrent \in Nat \ {0}
                          /\ MaxNow \in Nat
                          /\ MaxExecutions \in Nat
                          /\ PermitCap \in Nat /\ PermitCap >= MaxConcurrent
                          /\ MaxQueued \in Nat

VARIABLES
  pc, job, kind,          \* per thread: position, project and entry of its call
  launcher, run_id,       \* per worker: the thread that created it, its run_id
  locked,                 \* execution_lock.locked()
  permits,                \* value of the semaphore
  project_state_lock,     \* the thread that holds the RLock across its steps
  project_workers,        \* the tracked worker of each project
  active_run_ids,         \* the thread whose run is registered for each project
  pending_queue, pending_set,
  status, next_run, last_consumed_ticket, execution_id,
  now, current_date

threads  == <<pc, job, kind, launcher, run_id>>
slot     == <<locked, permits>>
tracking == <<project_workers, active_run_ids>>
pending  == <<pending_queue, pending_set>>
ticket   == <<next_run, last_consumed_ticket, execution_id>>
clock    == <<now, current_date>>
vars == <<threads, slot, project_state_lock, tracking, pending, status, ticket, clock>>

LaunchPCs == {"acquire", "recover", "unlock", "repair", "reacquire", "permit", "ticket",
              "claim", "register", "undo", "undo_permit", "spawn", "start", "drain"}
SchedulerPCs == {"due", "look", "ghost", "ghost_unlock", "ghost_permit"}
WorkerPCs == {"created", "begin", "running", "process", "finished", "untrack",
              "release_lock", "release_permit"}
PCs == {"idle"} \cup LaunchPCs \cup SchedulerPCs \cup WorkerPCs

TypeOK ==
  /\ pc \in [Threads -> PCs]
  /\ job \in [Threads -> Projects \cup {NoProject}]
  /\ kind \in [Threads -> LaunchKinds \cup {"pending", "heal", "none"}]
  /\ launcher \in [Workers -> Threads \cup {NoThread}]
  /\ run_id \in [Workers -> Nat]
  /\ locked \in [Projects -> BOOLEAN]
  /\ permits \in 0 .. PermitCap
  /\ project_state_lock \in Threads \cup {NoThread}
  /\ project_workers \in [Projects -> Workers \cup {NoThread}]
  /\ active_run_ids \in [Projects -> Threads \cup {NoThread}]
  /\ pending_queue \in Seq(Projects)
  /\ pending_set \subseteq Projects
  /\ status \in [Projects -> {"Waiting", "Running", "Ended"}]
  /\ next_run \in [Projects -> Nat]
  /\ last_consumed_ticket \in [Projects -> Nat \cup {-1}]
  /\ execution_id \in [Projects -> Nat]
  /\ now \in Nat
  /\ current_date \in Nat

Today == now \div 2
DueAt(tk) == 2 * tk + 1

\* Project.calculate_next_run for schedule_type "daily".
calculate_next_run(p) ==
  IF now >= DueAt(Today) /\ last_consumed_ticket[p] = Today THEN Today + 1 ELSE Today

Init ==
  /\ pc = [t \in Threads |-> "idle"]
  /\ job = [t \in Threads |-> NoProject]
  /\ kind = [t \in Threads |-> "none"]
  /\ launcher = [w \in Workers |-> NoThread]
  /\ run_id = [w \in Workers |-> 0]
  /\ locked = [p \in Projects |-> FALSE]
  /\ permits = MaxConcurrent
  /\ project_state_lock = NoThread
  /\ project_workers = [p \in Projects |-> NoThread]
  /\ active_run_ids = [p \in Projects |-> NoThread]
  /\ pending_queue = << >>
  /\ pending_set = {}
  /\ status = [p \in Projects |-> "Waiting"]
  /\ next_run = [p \in Projects |-> 0]
  /\ last_consumed_ticket = [p \in Projects |-> -1]
  /\ execution_id = [p \in Projects |-> 0]
  /\ now = 0
  /\ current_date = 0
-----------------------------------------------------------------------------
(* Reads the code makes in several functions.                              *)

\* _has_live_project_runtime: the tracked worker is alive, or a process of the
\* project is registered in active_processes.
ThreadAlive(w) == w # NoThread /\ pc[w] \notin {"idle", "created"}
ActiveProcesses(p) == {w \in Workers : job[w] = p /\ pc[w] = "process"}
HasLiveRuntime(p) == ThreadAlive(project_workers[p]) \/ ActiveProcesses(p) # {}

\* Mutant: a ticket that is consumed already is allowed again.
TicketAllowedTwice(p) == now >= DueAt(next_run[p]) /\ (next_run[p] = Today \/ p \in CatchUp)

\* _get_ticket_block_reason returns None.  A ticket of an earlier day is past the
\* five minutes of grace.
TicketAllowed(p) ==
  /\ now >= DueAt(next_run[p])
  /\ next_run[p] # last_consumed_ticket[p]
  /\ next_run[p] = Today \/ p \in CatchUp

\* Mutant: project_state_lock is a plain Lock, not an RLock.
StateLockIsPlain(t) == project_state_lock = NoThread

StateLockFree(t) == project_state_lock \in {NoThread, t}

(* Steps of a thread.                                                      *)
Goto(t, l) == pc' = [pc EXCEPT ![t] = l]
Stay == UNCHANGED <<job, kind, launcher, run_id, project_state_lock>>
Call(t, p, k, l) ==
  /\ pc[t] = "idle"
  /\ Goto(t, l)
  /\ job' = [job EXCEPT ![t] = p]
  /\ kind' = [kind EXCEPT ![t] = k]
  /\ UNCHANGED <<launcher, run_id>>
\* The call ends: a caller goes back to its loop, a worker thread ends.  The
\* scheduler leaves `with self.project_state_lock`.
Return(t) ==
  /\ pc' = [pc EXCEPT ![t] = "idle"]
  /\ job' = [job EXCEPT ![t] = NoProject]
  /\ kind' = [kind EXCEPT ![t] = "none"]
  /\ project_state_lock' = IF project_state_lock = t THEN NoThread ELSE project_state_lock
  /\ UNCHANGED <<launcher, run_id>>

ReleasePermitOnce == permits' = IF permits < PermitCap THEN permits + 1 ELSE permits
-----------------------------------------------------------------------------
(* Entries: who calls a launch function, and the guard it passes first.    *)

\* Bounds: without the pending queue, a scheduled launch has at most MaxNow + 1
\* tickets to use.
MayLaunch(p, k) == /\ k \in Entries
                   /\ Len(pending_queue) < MaxQueued
                   /\ execution_id[p] < MaxExecutions + IF k = "scheduled" THEN MaxNow + 1 ELSE 0

\* _scheduler_loop: only enabled projects that are WAITING; the date change is
\* handled before.
ConsiderScheduled(p) ==
  /\ MayLaunch(p, "scheduled")
  /\ current_date = Today
  /\ status[p] = "Waiting"
  /\ Call("scheduler", p, "scheduled", "due")
  /\ UNCHANGED <<slot, project_state_lock, tracking, pending, status, ticket, clock>>

\* The head of try_consume_ticket_atomic: takes project_state_lock and keeps it
\* through the launch.
CheckTicket(t) ==
  /\ pc[t] = "due"
  /\ project_state_lock = NoThread
  /\ \/ /\ TicketAllowed(job[t])
        /\ Goto(t, "acquire")
        /\ project_state_lock' = t
        /\ UNCHANGED <<job, kind, launcher, run_id>>
     \/ /\ ~TicketAllowed(job[t])
        /\ Return(t)
  /\ UNCHANGED <<slot, tracking, pending, status, ticket, clock>>

\* run_project_manual and _run_single_task_only: rejected when already running.
CommandRun(p, k) ==
  /\ MayLaunch(p, k)
  /\ k = "manual" \/ (k = "task" /\ Engine)
  /\ ~(status[p] = "Running" /\ HasLiveRuntime(p))
  /\ Call("command", p, k, "acquire")
  /\ UNCHANGED <<slot, project_state_lock, tracking, pending, status, ticket, clock>>

\* TelegramBot._cmd_run_project calls run_project with trigger "manual".
BotRun(p) ==
  /\ MayLaunch(p, "direct")
  /\ status[p] # "Running"
  /\ Call("bot", p, "direct", "acquire")
  /\ UNCHANGED <<slot, project_state_lock, tracking, pending, status, ticket, clock>>
-----------------------------------------------------------------------------
(* The launch, on the thread t that called it.                             *)

AcquireLock(t) ==
  LET p == job[t] IN
  /\ pc[t] = "acquire"
  /\ Goto(t, IF locked[p] THEN "recover" ELSE "permit")
  /\ locked' = [locked EXCEPT ![p] = TRUE]
  /\ Stay
  /\ UNCHANGED <<permits, tracking, pending, status, ticket, clock>>

\* Mutant: a lock that is held is never taken for stale.
RecoverNever(t) ==
  /\ pc[t] = "recover"
  /\ Return(t)
  /\ UNCHANGED <<slot, tracking, pending, status, ticket, clock>>

\* _recover_stale_project_state reads the worker and the processes, later the
\* lock, and only then takes project_state_lock.
RecoverCheck(t) ==
  /\ pc[t] = "recover"
  /\ \/ HasLiveRuntime(job[t]) /\ Return(t)
     \/ ~HasLiveRuntime(job[t]) /\ Goto(t, "unlock") /\ Stay
  /\ UNCHANGED <<slot, tracking, pending, status, ticket, clock>>

RecoverUnlock(t) ==
  LET p == job[t] IN
  /\ pc[t] = "unlock"
  /\ \/ ~locked[p] /\ Return(t)
     \/ locked[p] /\ Goto(t, "repair") /\ Stay
  /\ locked' = [locked EXCEPT ![p] = FALSE]
  /\ UNCHANGED <<permits, tracking, pending, status, ticket, clock>>

RecoverRepair(t) ==
  LET p == job[t] IN
  /\ pc[t] = "repair"
  /\ StateLockFree(t)
  /\ status' = [status EXCEPT ![p] = IF @ = "Running" THEN "Ended" ELSE "Waiting"]
  /\ next_run' = [next_run EXCEPT ![p] = calculate_next_run(p)]
  /\ pending_set' = pending_set \ {p}
  /\ \/ kind[t] = "heal" /\ Return(t)
     \/ kind[t] # "heal" /\ Goto(t, "reacquire") /\ Stay
  /\ UNCHANGED <<slot, tracking, pending_queue, last_consumed_ticket, execution_id, clock>>

Reacquire(t) ==
  LET p == job[t] IN
  /\ pc[t] = "reacquire"
  /\ \/ locked[p] /\ Return(t)
     \/ ~locked[p] /\ Goto(t, "permit") /\ Stay
  /\ locked' = [locked EXCEPT ![p] = TRUE]
  /\ UNCHANGED <<permits, tracking, pending, status, ticket, clock>>

\* semaphore.acquire(blocking=False).  Releasing a lock that a recovery has
\* released already raises before the project is queued.
AcquirePermit(t) ==
  LET p == job[t]
      queues == locked[p] /\ kind[t] \in {"scheduled", "pending"} /\ p \notin pending_set
  IN
  /\ pc[t] = "permit"
  /\ \/ /\ permits > 0
        /\ permits' = permits - 1
        /\ Goto(t, "ticket") /\ Stay
        /\ UNCHANGED <<locked, pending>>
     \/ /\ permits = 0
        /\ locked' = [locked EXCEPT ![p] = FALSE]
        /\ pending_set' = IF queues THEN pending_set \cup {p} ELSE pending_set
        /\ pending_queue' = IF queues THEN Append(pending_queue, p) ELSE pending_queue
        /\ Return(t)
        /\ UNCHANGED permits
  /\ UNCHANGED <<tracking, status, ticket, clock>>

\* Ticket consumption and execution_id of each launch function.  Only
\* run_project (bot, pending queue) leaves execution_id as it is.
ConsumeTicket(t) ==
  LET p == job[t] IN
  /\ pc[t] = "ticket"
  /\ last_consumed_ticket' =
       [last_consumed_ticket EXCEPT ![p] = IF kind[t] \in {"scheduled", "pending"} THEN next_run[p] ELSE @]
  /\ execution_id' = [execution_id EXCEPT ![p] = IF kind[t] \in {"scheduled", "manual"} THEN @ + 1 ELSE @]
  /\ pending_set' = IF kind[t] \in {"scheduled", "pending", "direct"} THEN pending_set \ {p} ELSE pending_set
  /\ Goto(t, IF Engine THEN "claim" ELSE "spawn") /\ Stay
  /\ UNCHANGED <<slot, tracking, pending_queue, status, next_run, clock>>

\* on_project_launch: control_plane.claim_project_run.  An exception out of it
\* reaches _run_single_task_only before its lock and permit are given back.
ClaimRun(t) ==
  /\ pc[t] = "claim"
  /\ \/ Goto(t, "register") /\ Stay
     \/ "refused" \in Faults /\ Goto(t, "undo") /\ Stay
     \/ "claim_error" \in Faults /\ kind[t] # "task" /\ Goto(t, "undo") /\ Stay
     \/ "claim_error" \in Faults /\ kind[t] = "task" /\ Return(t)
  /\ UNCHANGED <<slot, tracking, pending, status, ticket, clock>>

\* Mutant: the new run is registered whether or not one is active.
RegisterRunUnchecked(t) ==
  /\ pc[t] = "register"
  /\ active_run_ids' = [active_run_ids EXCEPT ![job[t]] = t]
  /\ Goto(t, "spawn") /\ Stay
  /\ UNCHANGED <<slot, project_workers, pending, status, ticket, clock>>

\* on_project_launch, under _active_run_lock.  begin_artifact_capture may raise when the
\* entry is made: the launch is undone like one whose claim raises, and the entry stays.
RegisterRun(t) ==
  LET p == job[t]
      free == active_run_ids[p] = NoThread
      raises == free /\ "hook_error" \in Faults
  IN
  /\ pc[t] = "register"
  /\ active_run_ids' = IF free THEN [active_run_ids EXCEPT ![p] = t] ELSE active_run_ids
  /\ \/ free /\ Goto(t, "spawn") /\ Stay
     \/ ~free /\ Goto(t, "undo") /\ Stay
     \/ raises /\ kind[t] # "task" /\ Goto(t, "undo") /\ Stay
     \/ raises /\ kind[t] = "task" /\ Return(t)
  /\ UNCHANGED <<slot, project_workers, pending, status, ticket, clock>>

\* A refused launch gives back the lock, then the permit, and, unless it is a
\* single task, drains the pending queue before it returns False.
UndoLock(t) ==
  /\ pc[t] = "undo"
  /\ locked' = [locked EXCEPT ![job[t]] = FALSE]
  /\ Goto(t, "undo_permit") /\ Stay
  /\ UNCHANGED <<permits, tracking, pending, status, ticket, clock>>

UndoPermit(t) ==
  /\ pc[t] = "undo_permit"
  /\ ReleasePermitOnce
  /\ \/ kind[t] = "task" /\ Return(t)
     \/ kind[t] # "task" /\ Goto(t, "drain") /\ Stay
  /\ UNCHANGED <<locked, tracking, pending, status, ticket, clock>>

\* Mutant: the worker is not tracked.
UntrackedWorker(t, w) == project_workers[job[t]]

\* The entry _track_project_worker_start leaves; a single task is not tracked.
TrackedWorker(t, w) == IF kind[t] = "task" THEN project_workers[job[t]] ELSE w

\* Thread(...) and _track_project_worker_start.
Spawn(t) ==
  LET p == job[t] IN
  /\ pc[t] = "spawn"
  /\ \E w \in Workers :
       /\ pc[w] = "idle"
       /\ pc' = [pc EXCEPT ![t] = "start", ![w] = "created"]
       /\ job' = [job EXCEPT ![w] = p]
       /\ kind' = [kind EXCEPT ![w] = kind[t]]
       /\ launcher' = [launcher EXCEPT ![w] = t]
       /\ run_id' = [run_id EXCEPT ![w] = execution_id[p]]
       /\ active_run_ids' = [active_run_ids EXCEPT ![p] = IF Engine THEN w ELSE @]
       /\ project_workers' = [project_workers EXCEPT ![p] = TrackedWorker(t, w)]
  /\ pending_set' = IF kind[t] = "task" THEN pending_set ELSE pending_set \ {p}
  /\ UNCHANGED <<slot, project_state_lock, pending_queue, status, ticket, clock>>

\* worker.start(): the new thread w runs, its launcher t returns True.
StartThread(w) ==
  LET t == launcher[w]
      more == kind[t] = "pending"  \* _process_pending goes on
  IN
  /\ pc[w] = "created"
  /\ pc' = [pc EXCEPT ![w] = "begin", ![t] = IF more THEN "drain" ELSE "idle"]
  /\ job' = [job EXCEPT ![t] = IF more THEN @ ELSE NoProject]
  /\ kind' = [kind EXCEPT ![t] = IF more THEN @ ELSE "none"]
  /\ launcher' = [launcher EXCEPT ![w] = NoThread]
  /\ project_state_lock' = IF project_state_lock = t /\ ~more THEN NoThread ELSE project_state_lock
  /\ UNCHANGED <<run_id, slot, tracking, pending, status, ticket, clock>>

\* worker.start() raises.  _run_single_task_only rolls the launch back; the other
\* launches leave the lock, the permit and the registered run behind.
StartFails(w) ==
  LET t == launcher[w]
      p == job[w]
      rollback == kind[w] = "task"
  IN
  /\ "thread_error" \in Faults
  /\ pc[w] = "created"
  /\ pc' = [pc EXCEPT ![w] = "idle", ![t] = "idle"]
  /\ job' = [job EXCEPT ![w] = NoProject, ![t] = NoProject]
  /\ kind' = [kind EXCEPT ![w] = "none", ![t] = "none"]
  /\ launcher' = [launcher EXCEPT ![w] = NoThread]
  /\ project_state_lock' = IF project_state_lock = t THEN NoThread ELSE project_state_lock
  /\ IF rollback
     THEN /\ active_run_ids' = [active_run_ids EXCEPT ![p] = NoThread]
          /\ locked' = [locked EXCEPT ![p] = FALSE]
          /\ ReleasePermitOnce
          /\ UNCHANGED project_workers
     ELSE \* the entry holds a thread that is not alive, read like no entry
          /\ project_workers' = [project_workers EXCEPT ![p] = NoThread]
          /\ UNCHANGED <<active_run_ids, slot>>
  /\ UNCHANGED <<run_id, pending, status, ticket, clock>>
-----------------------------------------------------------------------------
(* The run, on the worker thread w.                                        *)

BeginRun(w) ==
  /\ pc[w] = "begin"
  /\ StateLockFree(w)
  /\ status' = [status EXCEPT ![job[w]] = "Running"]
  /\ Goto(w, "running") /\ Stay
  /\ UNCHANGED <<slot, tracking, pending, ticket, clock>>

\* One attempt of one task: the process enters and leaves active_processes.
StartProcess(w) ==
  /\ pc[w] = "running"
  /\ Goto(w, "process") /\ Stay
  /\ UNCHANGED <<slot, tracking, pending, status, ticket, clock>>

EndProcess(w) ==
  /\ pc[w] = "process"
  /\ Goto(w, "running") /\ Stay
  /\ UNCHANGED <<slot, tracking, pending, status, ticket, clock>>

\* Mutant: the last section forgets the status.
FinishKeepsStatus(w) ==
  /\ pc[w] = "running"
  /\ Goto(w, IF Engine THEN "finished" ELSE "untrack") /\ Stay
  /\ UNCHANGED <<slot, tracking, pending, status, ticket, clock>>

\* The last locked section of the run: Done, Error and Stopped are "Ended".  When
\* the thread of a task does not start, next_run is not calculated; when a single
\* task raises, its worker has no such section.
FinishLogic(w) ==
  LET p == job[w] IN
  /\ pc[w] = "running"
  /\ StateLockFree(w)
  /\ \/ /\ status' = [status EXCEPT ![p] = "Ended"]
        /\ \/ next_run' = [next_run EXCEPT ![p] = calculate_next_run(p)]
           \/ {"thread_error", "script_error"} \cap Faults # {} /\ kind[w] # "task" /\ UNCHANGED next_run
     \/ "script_error" \in Faults /\ kind[w] = "task" /\ UNCHANGED <<status, next_run>>
  /\ Goto(w, IF Engine THEN "finished" ELSE "untrack") /\ Stay
  /\ UNCHANGED <<slot, tracking, pending, last_consumed_ticket, execution_id, clock>>

\* Mutant: the entry stays.
KeepRegistered(w) ==
  /\ pc[w] = "finished"
  /\ Goto(w, IF kind[w] = "task" THEN "release_lock" ELSE "untrack") /\ Stay
  /\ UNCHANGED <<slot, tracking, pending, status, ticket, clock>>

\* on_project_finish pops the entry of the project's name.  What it does then may
\* raise: in _single_task_worker the lock and the permit are not given back.
UnregisterRun(w) ==
  /\ pc[w] = "finished"
  /\ active_run_ids' = [active_run_ids EXCEPT ![job[w]] = NoThread]
  /\ \/ Goto(w, IF kind[w] = "task" THEN "release_lock" ELSE "untrack") /\ Stay
     \/ "hook_error" \in Faults /\ kind[w] = "task" /\ Return(w)
  /\ UNCHANGED <<slot, project_workers, pending, status, ticket, clock>>

\* _track_project_worker_finish
UntrackWorker(w) ==
  LET tracked == project_workers[job[w]] IN
  /\ pc[w] = "untrack"
  /\ project_workers' = [project_workers EXCEPT ![job[w]] =
                           IF tracked # NoThread /\ run_id[tracked] = run_id[w] THEN NoThread ELSE @]
  /\ Goto(w, "release_lock") /\ Stay
  /\ UNCHANGED <<slot, active_run_ids, pending, status, ticket, clock>>

ReleaseLock(w) ==
  /\ pc[w] = "release_lock"
  /\ locked' = [locked EXCEPT ![job[w]] = FALSE]
  /\ Goto(w, "release_permit") /\ Stay
  /\ UNCHANGED <<permits, tracking, pending, status, ticket, clock>>

\* Mutant: the worker keeps its permit.
KeepPermit(w) ==
  /\ pc[w] = "release_permit"
  /\ \/ kind[w] = "task" /\ Return(w)
     \/ kind[w] # "task" /\ Goto(w, "drain") /\ Stay
  /\ UNCHANGED <<slot, tracking, pending, status, ticket, clock>>

ReleasePermit(w) ==
  /\ pc[w] = "release_permit"
  /\ ReleasePermitOnce
  /\ \/ kind[w] = "task" /\ Return(w)
     \/ kind[w] # "task" /\ Goto(w, "drain") /\ Stay
  /\ UNCHANGED <<locked, tracking, pending, status, ticket, clock>>

\* _process_pending: one turn of its loop, run_project included by "acquire".
Drain(t) ==
  /\ pc[t] = "drain"
  /\ \/ /\ pending_queue = << >>
        /\ Return(t)
        /\ UNCHANGED pending
     \/ /\ pending_queue # << >>
        /\ pending_queue' = Tail(pending_queue)
        /\ pending_set' = pending_set \ {Head(pending_queue)}
        /\ pc' = [pc EXCEPT ![t] = "acquire"]
        /\ job' = [job EXCEPT ![t] = Head(pending_queue)]
        /\ kind' = [kind EXCEPT ![t] = "pending"]
        /\ UNCHANGED <<launcher, run_id, project_state_lock>>
  /\ UNCHANGED <<slot, tracking, status, ticket, clock>>
-----------------------------------------------------------------------------
(* The rest of the scheduler loop.                                         *)

SchedulerDrain ==
  /\ pending_queue # << >>
  /\ Call("scheduler", NoProject, "pending", "drain")
  /\ UNCHANGED <<slot, project_state_lock, tracking, pending, status, ticket, clock>>

\* _heal_ghost_running_projects looks at the runtime of a project first and at its
\* status later.  A project with a live runtime can only take the second branch.
HealProject(p) ==
  /\ Call("scheduler", p, "heal", IF HasLiveRuntime(p) THEN "recover" ELSE "look")
  /\ HasLiveRuntime(p) => status[p] = "Waiting" /\ locked[p]
  /\ UNCHANGED <<slot, project_state_lock, tracking, pending, status, ticket, clock>>

HealBranch(t) ==
  LET p == job[t] IN
  /\ pc[t] = "look"
  /\ \/ status[p] = "Running" /\ Goto(t, "ghost") /\ Stay
     \/ status[p] = "Waiting" /\ locked[p] /\ Goto(t, "recover") /\ Stay
     \/ status[p] # "Running" /\ (status[p] = "Waiting" => ~locked[p]) /\ Return(t)
  /\ UNCHANGED <<slot, tracking, pending, status, ticket, clock>>

GhostStatus(t) ==
  LET p == job[t] IN
  /\ pc[t] = "ghost"
  /\ StateLockFree(t)
  /\ status' = [status EXCEPT ![p] = "Ended"]
  /\ next_run' = [next_run EXCEPT ![p] = calculate_next_run(p)]
  /\ Goto(t, "ghost_unlock") /\ Stay
  /\ UNCHANGED <<slot, tracking, pending, last_consumed_ticket, execution_id, clock>>

GhostUnlock(t) ==
  /\ pc[t] = "ghost_unlock"
  /\ locked' = [locked EXCEPT ![job[t]] = FALSE]
  /\ Goto(t, "ghost_permit") /\ Stay
  /\ UNCHANGED <<permits, tracking, pending, status, ticket, clock>>

GhostPermit(t) ==
  /\ pc[t] = "ghost_permit"
  /\ ReleasePermitOnce
  /\ Return(t)
  /\ UNCHANGED <<locked, tracking, pending, status, ticket, clock>>

\* _reset_daily_state, in one step: the lock it may release is free of a live
\* runtime, and it holds project_state_lock throughout.
DailyReset ==
  LET dead == {p \in Projects : ~HasLiveRuntime(p)} IN
  /\ pc["scheduler"] = "idle"
  /\ current_date # Today
  /\ project_state_lock = NoThread
  /\ current_date' = Today
  /\ status' = [p \in Projects |-> IF p \in dead THEN "Waiting" ELSE status[p]]
  /\ next_run' = [p \in Projects |-> IF p \in dead THEN calculate_next_run(p) ELSE next_run[p]]
  /\ locked' = [p \in Projects |-> IF p \in dead THEN FALSE ELSE locked[p]]
  /\ pending_set' = pending_set \ {p \in dead : locked[p]}
  /\ UNCHANGED <<threads, permits, project_state_lock, tracking, pending_queue,
                 last_consumed_ticket, execution_id, now>>

Tick == /\ now < MaxNow
        /\ now' = now + 1
        /\ UNCHANGED <<threads, slot, project_state_lock, tracking, pending, status, ticket, current_date>>

\* The bounds of the instance are used up, where the program would go on: the
\* clock has stopped, or a launch finds no free worker identity.
BoundsReached ==
  /\ \/ now = MaxNow /\ current_date = Today /\ \A t \in Threads : pc[t] = "idle"
     \/ (\E t \in Threads : pc[t] = "spawn") /\ \A w \in Workers : pc[w] # "idle"
  /\ UNCHANGED vars

LaunchStep(t) == \/ AcquireLock(t) \/ RecoverCheck(t) \/ RecoverUnlock(t) \/ RecoverRepair(t)
                 \/ Reacquire(t) \/ AcquirePermit(t) \/ ConsumeTicket(t) \/ ClaimRun(t)
                 \/ RegisterRun(t) \/ UndoLock(t) \/ UndoPermit(t) \/ Spawn(t) \/ Drain(t)
RunStep(w) == \/ BeginRun(w) \/ StartProcess(w) \/ EndProcess(w) \/ FinishLogic(w)
              \/ UnregisterRun(w) \/ UntrackWorker(w) \/ ReleaseLock(w) \/ ReleasePermit(w)
HealStep(t) == HealBranch(t) \/ GhostStatus(t) \/ GhostUnlock(t) \/ GhostPermit(t)

Next ==
  \/ \E p \in Projects : ConsiderScheduled(p)
  \/ \E p \in Projects, k \in {"manual", "task"} : CommandRun(p, k)
  \/ \E p \in Projects : BotRun(p)
  \/ \E t \in Threads : LaunchStep(t)
  \/ \E w \in Workers : StartThread(w) \/ StartFails(w) \/ RunStep(w)
  \/ \E p \in Projects : HealProject(p)
  \/ CheckTicket("scheduler") \/ HealStep("scheduler") \/ SchedulerDrain
  \/ DailyReset \/ Tick \/ BoundsReached

Spec == Init /\ [][Next]_vars

(* Every thread that can move is run; processes end, and a run has finitely  *)
(* many tasks and retries, so FinishLogic is reached.  The scheduler takes   *)
(* project_state_lock for a moment once a minute, so a thread that waits for *)
(* it gets it.  Its loop looks at every project.  The clock, the commands    *)
(* and the bot are under no fairness.                                        *)
Fairness ==
  /\ \A t \in Threads : WF_vars(LaunchStep(t))
  /\ SF_vars(\E t \in Threads : RecoverRepair(t) \/ BeginRun(t))
  /\ \A w \in Workers : /\ WF_vars(StartThread(w)) /\ WF_vars(EndProcess(w))
                        /\ WF_vars(UnregisterRun(w) \/ UntrackWorker(w) \/ ReleaseLock(w) \/ ReleasePermit(w))
                        /\ SF_vars(FinishLogic(w))
  /\ WF_vars(CheckTicket("scheduler")) /\ WF_vars(HealStep("scheduler")) /\ WF_vars(DailyReset)
  /\ \A p \in Projects : SF_vars(ConsiderScheduled(p))

FairSpec == Spec /\ Fairness
-----------------------------------------------------------------------------
(* Properties.                                                             *)

\* The worker executes the tasks of its project: from the thread's first step to
\* the one that takes its run out of active_run_ids.
Executing(w) == pc[w] \in {"begin", "running", "process", "finished"}

\* No project is executed by two workers at a time, although recovery takes the
\* execution_lock away from launches that have no tracked worker yet: the test of
\* _active_run_ids under _active_run_lock in on_project_launch.
OneRunPerProject ==
  \A v, w \in Workers : Executing(v) /\ Executing(w) /\ job[v] = job[w] => v = w

\* A project shown as Running has a worker that will end it: no recovery, healing
\* or reset in between leaves a Running that nobody takes back.
RunningHasARun ==
  \A p \in Projects : status[p] = "Running" => \E w \in Workers : job[w] = p /\ pc[w] \in {"running", "process"}

\* The worker of a run started by the scheduler or by run_project_manual is the
\* tracked one as long as it executes, so healing never takes it for a ghost.
LiveRunIsTracked ==
  \A w \in Workers : Executing(w) /\ kind[w] \in {"scheduled", "manual"} => project_workers[job[w]] = w

HoldsPermit(t) ==
  pc[t] \in {"ticket", "claim", "register", "undo", "undo_permit", "spawn", "start", "begin",
            "running", "process", "finished", "untrack", "release_lock", "release_permit"}

PermitsInUse == Cardinality({t \in Threads : HoldsPermit(t)})

\* Only healing makes a permit: launches, queued launches, recoveries and the ends
\* of runs each give back what they took, once.  So max_concurrent_projects is
\* exceeded only by runs that healing took for ghosts.  (At PermitCap the model no
\* longer counts.)
PermitsConserved ==
  [][pc["scheduler"] # "ghost_permit" /\ permits < PermitCap
       => permits' + PermitsInUse' = permits + PermitsInUse]_vars

\* A scheduled launch uses a ticket newer than any used before, and not one of a
\* day to come: no ticket starts two runs.
ScheduledLaunch(t) == pc[t] = "ticket" /\ pc'[t] # "ticket" /\ kind[t] \in {"scheduled", "pending"}
TicketsUsedInOrder ==
  [][\A t \in Threads : ScheduledLaunch(t) =>
       /\ last_consumed_ticket'[job[t]] > last_consumed_ticket[job[t]]
       /\ last_consumed_ticket'[job[t]] <= Today]_vars

\* The runs of a project follow one another: the slot of the project is reserved
\* by the registration, and free again when the run is taken out of the table.
SlotOf(p) == IF \E w \in Workers : Executing(w) /\ job[w] = p THEN "executing"
             ELSE IF active_run_ids[p] # NoThread THEN "reserved" ELSE "free"
Slots == INSTANCE RunSlot WITH slots <- [p \in Projects |-> SlotOf(p)]
RunsTakeTurns == Slots!Spec

\* A run that has begun is taken out of the table of active runs, whatever its
\* worker has to wait for: its project can be launched again.
RunsEnd ==
  \A p \in Projects, w \in Workers :
    (active_run_ids[p] = w /\ Executing(w)) ~> active_run_ids[p] = NoThread

\* A ticket that is due while its project waits is consumed, or the project stops
\* waiting for another reason (a manual run), or its day passes: a lock left
\* behind by a failed launch does not keep the project from running.
DueTicketsConsumed ==
  \A p \in Projects : \A d \in 0 .. MaxNow :
    (status[p] = "Waiting" /\ next_run[p] = d /\ d = Today /\ TicketAllowed(p))
      ~> (last_consumed_ticket[p] = d \/ status[p] # "Waiting" \/ Today # d)

\* Each call of a launch function returns, whoever holds project_state_lock.
CallsReturn == \A t \in Callers : pc[t] # "idle" ~> pc[t] = "idle"
=============================================================================

------------------------------ MODULE RunLedger ------------------------------
(***************************************************************************)
(* What the engine's store says about runs and commands: the tables        *)
(* project_runs, project_state and engine_commands, and the threads of one *)
(* engine process that write them: the command loop, the workers' launch   *)
(* and finish hooks, the sync loop with its heartbeats, the event loop.    *)
(* Each method of the store is one transaction, hence one step here; what  *)
(* a thread read before it is in its own variables.  The process may crash *)
(* between any two steps; the store survives.                              *)
(*                                                                         *)
(* Only _active_run_ids keeps two runs of a project apart: recovery may    *)
(* have given the execution_lock of a worker that is still finishing to a  *)
(* new launch, and a reload of the project file gives a project a new      *)
(* object with a new lock (ProjectLaunch and LegacySync have the details). *)
(***************************************************************************)
EXTENDS Integers, FiniteSets

CONSTANTS
  Projects, Commands,
  NoRun, NoCommand,
  OtherSyncers,  \* threads beside the sync loop that write the projects to the store
  Outcomes,      \* statuses that a run may end with
  \* Bounds of the instance, not of the code:
  MaxRuns,       \* rows of project_runs
  MaxCrashes,    \* crashes of the engine
  MaxReloads     \* reloads of the project file

ASSUME LedgerAssumption == /\ Projects # {} /\ MaxRuns \in Nat /\ MaxCrashes \in Nat /\ MaxReloads \in Nat
                           /\ Outcomes \subseteq {"Done", "Error", "Stopped"}
                           /\ NoRun \notin Nat /\ NoCommand \notin Commands

RunIds == 1 .. MaxRuns
Syncers == {"sync_loop"} \cup OtherSyncers

LiveRunStatuses == {"starting", "running", "stopping", "finishing"}
Results == {"completed", "error", "stopped"}
CoreStatuses == {"Waiting", "Running", "Done", "Error", "Stopped"}
RunStatuses == {"none", "waiting", "interrupted"} \cup LiveRunStatuses \cup Results
RowStatuses == CoreStatuses \cup RunStatuses \cup {"absent"}
WorkerAt == {"none", "created", "executing", "ended", "finishing", "rolled_back"}

VARIABLES
  \* the store
  project_runs,      \* status by run id, "none" before the row exists
  run_project,       \* project_name by run id
  project_rows,      \* the rows of projects
  state_status,      \* project_state: status, "absent" without a row ...
  active_run_id,     \* ... and active_run_id
  engine_commands,   \* status by command
  command_project,   \* project_name of a run_project command
  \* the process
  up,
  active_run_ids,    \* EngineService._active_run_ids
  worker,            \* position of the worker of a run
  status,            \* Project.status, of the object in the list
  listed,            \* names in core.projects
  load,              \* position of sync_from_legacy: "idle", "checked", "filling"
  old_objects,       \* projects that had another object in the list before
  on_old,            \* runs whose object is not the one in the list
  command,           \* the command in _process_command
  command_at,        \* its position there
  beats,             \* what the heartbeat pass still has to write: project, run, status
  snapshot,          \* the payload a sync has taken and not written yet
  \* history and bounds
  own_runs,          \* runs started by this process
  overtaking,        \* runs registered while an earlier run of the project was finishing
  unlisted,          \* registered runs whose project a payload has left out
  carried_out,       \* how often each command was carried out
  crashes, reloads

state_rows == <<project_rows, state_status, active_run_id>>
run_rows == <<project_runs, run_project, state_rows>>
command_rows == <<engine_commands, command_project>>
store == <<run_rows, command_rows>>
list == <<listed, load, old_objects>>
runtime == <<active_run_ids, worker, status, on_old>>
loop == <<command, command_at>>
races == <<overtaking, unlisted>>
history == <<own_runs, races, carried_out, crashes, reloads>>
vars == <<store, up, runtime, list, loop, beats, snapshot, history>>

TypeOK ==
  /\ project_runs \in [RunIds -> RunStatuses]
  /\ run_project \in [RunIds -> Projects]
  /\ project_rows \subseteq Projects
  /\ state_status \in [Projects -> RowStatuses]
  /\ active_run_id \in [Projects -> RunIds \cup {NoRun}]
  /\ engine_commands \in [Commands -> {"none", "pending", "running", "completed", "failed"}]
  /\ command_project \in [Commands -> Projects]
  /\ up \in BOOLEAN
  /\ active_run_ids \in [Projects -> RunIds \cup {NoRun}]
  /\ worker \in [RunIds -> WorkerAt]
  /\ status \in [Projects -> CoreStatuses]
  /\ listed \subseteq Projects /\ load \in {"idle", "checked", "filling"}
  /\ old_objects \subseteq Projects /\ on_old \subseteq RunIds
  /\ command \in Commands \cup {NoCommand}
  /\ command_at \in {"idle", "execute", "accepted", "rejected"}
  /\ beats \subseteq Projects \X RunIds \X {"unread", "running", "finishing"}
  /\ snapshot \in [Syncers -> {<< >>} \cup [Projects -> CoreStatuses \cup {"absent"}]]
  /\ own_runs \subseteq RunIds /\ overtaking \subseteq RunIds /\ unlisted \subseteq RunIds
  /\ carried_out \in [Commands -> Nat]
  /\ crashes \in 0 .. MaxCrashes /\ reloads \in 0 .. MaxReloads

Idle ==
  /\ up = FALSE
  /\ active_run_ids = [p \in Projects |-> NoRun] /\ worker = [r \in RunIds |-> "none"]
  /\ listed = {} /\ load = "idle" /\ old_objects = {} /\ on_old = {}
  /\ command = NoCommand /\ command_at = "idle"
  /\ beats = {} /\ snapshot = [y \in Syncers |-> << >>]

\* The first start of an engine, with an empty store.
Init ==
  /\ Idle
  /\ project_runs = [r \in RunIds |-> "none"]
  /\ run_project = [r \in RunIds |-> CHOOSE p \in Projects : TRUE]
  /\ project_rows = {} /\ state_status = [p \in Projects |-> "absent"]
  /\ active_run_id = [p \in Projects |-> NoRun]
  /\ engine_commands = [c \in Commands |-> "none"]
  /\ command_project = [c \in Commands |-> CHOOSE p \in Projects : TRUE]
  /\ status = [p \in Projects |-> "Waiting"]
  /\ own_runs = {} /\ overtaking = {} /\ unlisted = {}
  /\ carried_out = [c \in Commands |-> 0] /\ crashes = 0 /\ reloads = 0

IsLive(r) == project_runs[r] \in LiveRunStatuses

\* The runs of p whose worker has not returned from its finish hook.
InHand(p) == {r \in RunIds : run_project[r] = p /\ worker[r] # "none"}
-----------------------------------------------------------------------------
(* Start, crash and restart.                                               *)

\* Mutant: rows that wait for their first heartbeat are forgotten.
RecoverStarted(s) == IF s \in {"running", "finishing"} THEN "interrupted" ELSE s

\* UPDATE project_runs ... WHERE status IN (...)
RecoverRun(s) == IF s \in LiveRunStatuses THEN "interrupted" ELSE s

\* Mutant: commands are left as they are.
KeepCommand(s) == s

RecoverCommand(s) == IF s = "running" THEN "failed" ELSE s

\* The names and the statuses of the listed projects, as a payload holds them.
Payload(names, statuses) == [p \in Projects |-> IF p \in names THEN statuses[p] ELSE "absent"]

\* _upsert_projects_payload: the rows of a project that the payload leaves out are deleted;
\* a row of project_state that start_project_run has made without one of projects stays.
WriteStatuses(payload, rows) ==
  /\ project_rows' = {p \in Projects : payload[p] # "absent"}
  /\ state_status' = [p \in Projects |-> IF p \in project_rows \cup project_rows' THEN payload[p] ELSE rows[p]]

\* EngineService.start: recover_interrupted_runtime, then the projects of the
\* file are loaded, healed and synced.  A project that ran when the process
\* died is loaded with an earlier or a healed status.
Start ==
  /\ ~up /\ up' = TRUE
  /\ project_runs' = [r \in RunIds |-> RecoverRun(project_runs[r])]
  /\ active_run_id' = [p \in Projects |-> NoRun]
  /\ engine_commands' = [c \in Commands |-> RecoverCommand(engine_commands[c])]
  /\ listed' \in SUBSET Projects
  /\ \E loaded \in [Projects -> {"Waiting", "Error"}] :
       status' = [p \in Projects |-> IF status[p] = "Running" THEN loaded[p] ELSE status[p]]
  /\ WriteStatuses(Payload(listed', status'),
       [p \in Projects |-> IF state_status[p] \in LiveRunStatuses \/ active_run_id[p] # NoRun
                           THEN "interrupted" ELSE state_status[p]])
  /\ UNCHANGED <<run_project, command_project, active_run_ids, worker, on_old, load, old_objects,
                 loop, beats, snapshot, history>>

\* The process dies.  Project.status is what the session file will restore.
Crash ==
  /\ up /\ crashes < MaxCrashes /\ crashes' = crashes + 1
  /\ up' = FALSE
  /\ active_run_ids' = [p \in Projects |-> NoRun] /\ worker' = [r \in RunIds |-> "none"]
  /\ listed' = {} /\ load' = "idle" /\ old_objects' = {} /\ on_old' = {}
  /\ command' = NoCommand /\ command_at' = "idle"
  /\ beats' = {} /\ snapshot' = [y \in Syncers |-> << >>]
  /\ own_runs' = {}
  /\ overtaking' = {} /\ unlisted' = {}
  /\ UNCHANGED <<store, status, carried_out, reloads>>
-----------------------------------------------------------------------------
(* Commands.                                                               *)

\* submit_run_command
Submit(c, p) ==
  /\ up /\ engine_commands[c] = "none"
  /\ engine_commands' = [engine_commands EXCEPT ![c] = "pending"]
  /\ command_project' = [command_project EXCEPT ![c] = p]
  /\ UNCHANGED <<run_rows, up, runtime, list, loop, beats, snapshot, history>>

\* Mutant: the command is marked only when it has been carried out.
TakeUnmarked(c) ==
  /\ up /\ command_at = "idle" /\ engine_commands[c] = "pending"
  /\ command' = c /\ command_at' = "execute"
  /\ UNCHANGED <<store, up, runtime, list, beats, snapshot, history>>

\* The head of _process_command.
TakeCommand(c) ==
  /\ up /\ command_at = "idle" /\ engine_commands[c] = "pending"
  /\ engine_commands' = [engine_commands EXCEPT ![c] = "running"]
  /\ command' = c /\ command_at' = "execute"
  /\ UNCHANGED <<run_rows, command_project, up, runtime, list, beats, snapshot, history>>

\* on_project_launch under _active_run_lock, the only look at earlier runs.
CanLaunch(p) == active_run_ids[p] = NoRun

\* The row and the entry are made together.  The caller has found the project in the
\* list, now or before a reload.
Register(p) ==
  \E r \in RunIds :
    /\ project_runs[r] = "none" /\ \A q \in RunIds : project_runs[q] = "none" => r <= q
    /\ project_runs' = [project_runs EXCEPT ![r] = "starting"]
    /\ run_project' = [run_project EXCEPT ![r] = p]
    /\ state_status' = [state_status EXCEPT ![p] = "starting"]
    /\ active_run_id' = [active_run_id EXCEPT ![p] = r]
    /\ active_run_ids' = [active_run_ids EXCEPT ![p] = r]
    /\ worker' = [worker EXCEPT ![r] = "created"]
    /\ \/ p \in listed /\ UNCHANGED on_old
       \/ p \in old_objects /\ on_old' = on_old \cup {r}
    /\ own_runs' = own_runs \cup {r}
    /\ overtaking' = IF InHand(p) = {} THEN overtaking ELSE overtaking \cup {r}

\* run_project_manual and _run_single_task_only: accepted, or rejected for a run that is
\* under way, for want of a permit, by the distributed policy or for an unknown name.
ExecuteCommand ==
  LET p == command_project[command] IN
  /\ up /\ command_at = "execute"
  /\ carried_out' = [carried_out EXCEPT ![command] = @ + 1]
  /\ \/ CanLaunch(p) /\ Register(p) /\ command_at' = "accepted"
     \/ /\ command_at' = "rejected"
        /\ UNCHANGED <<project_runs, run_project, state_status, active_run_id, active_run_ids,
                       worker, on_old, own_runs, overtaking>>
  /\ UNCHANGED <<project_rows, command_rows, up, status, list, command, beats, snapshot, unlisted,
                 crashes, reloads>>

AnswerCommand ==
  /\ up /\ command_at \in {"accepted", "rejected"}
  /\ engine_commands' = [engine_commands EXCEPT ![command] =
                           IF command_at = "accepted" THEN "completed" ELSE "failed"]
  /\ command' = NoCommand /\ command_at' = "idle"
  /\ UNCHANGED <<run_rows, command_project, up, runtime, list, beats, snapshot, history>>
-----------------------------------------------------------------------------
(* Runs.                                                                   *)

\* The scheduler launches a project on its own.
ScheduledLaunch(p) ==
  /\ up /\ CanLaunch(p) /\ Register(p)
  /\ UNCHANGED <<project_rows, command_rows, up, status, list, loop, beats, snapshot, unlisted,
                 carried_out, crashes, reloads>>

\* The worker of a run goes from one position to the next, and may set the status of
\* its project; an object that is no longer in the list is read by nobody else.
WorkerGoes(r, from, to, statuses) ==
  /\ up /\ worker[r] = from
  /\ worker' = [worker EXCEPT ![r] = to]
  /\ IF r \in on_old THEN UNCHANGED status
                     ELSE \E s \in statuses : status' = [status EXCEPT ![run_project[r]] = s]
  /\ UNCHANGED <<store, up, active_run_ids, on_old, list, loop, beats, snapshot, history>>

BeginRun(r) == WorkerGoes(r, "created", "executing", {"Running"})
EndRun(r) == WorkerGoes(r, "executing", "ended", Outcomes)

\* _recover_stale_project_state, which takes the worker of a single task for dead when
\* its process has ended, and the healing of a project without a worker.
Recover(p) ==
  /\ up /\ p \in listed /\ status[p] # "Waiting"
  /\ status[p] = "Running" \/ InHand(p) \ on_old # {}
  /\ status' = [status EXCEPT ![p] = IF @ = "Running" THEN "Error" ELSE "Waiting"]
  /\ UNCHANGED <<store, up, active_run_ids, worker, on_old, list, loop, beats, snapshot, history>>

\* on_project_finish takes the run out of the table, as _rollback_project_launch does
\* for a single task whose thread did not start ...
PopRun(r) ==
  /\ up /\ active_run_ids[run_project[r]] = r
  /\ \/ worker[r] = "ended" /\ worker' = [worker EXCEPT ![r] = "finishing"]
     \/ worker[r] = "created" /\ worker' = [worker EXCEPT ![r] = "rolled_back"]
  /\ active_run_ids' = [active_run_ids EXCEPT ![run_project[r]] = NoRun]
  /\ overtaking' = overtaking \ {r} /\ unlisted' = unlisted \ {r}
  /\ UNCHANGED <<store, up, status, on_old, list, loop, beats, snapshot, own_runs, carried_out, crashes, reloads>>

\* _map_project_result, and the terminal status of finish_project_run.  A later run or
\* a recovery may have set the status by then.
TerminalStatus(s) == CASE s = "Done" -> "completed" [] s = "Error" -> "error" [] s = "Stopped" -> "stopped"
                       [] s = "Running" -> "running" [] OTHER -> "waiting"

\* Mutant: the row of the run that is registered now is finished.
FinishRegistered(r, s) ==
  LET p == run_project[r]
      q == IF active_run_ids[p] = NoRun THEN r ELSE active_run_ids[p] IN
  /\ project_runs' = [project_runs EXCEPT ![q] = s]
  /\ state_status' = [state_status EXCEPT ![p] = IF @ = "absent" THEN @ ELSE s]
  /\ active_run_id' = [active_run_id EXCEPT ![p] = NoRun]

\* finish_project_run: its own row, and the row of the project whatever that says.
FinishRows(r, s) ==
  LET p == run_project[r] IN
  /\ project_runs' = [project_runs EXCEPT ![r] = s]
  /\ state_status' = [state_status EXCEPT ![p] = IF @ = "absent" THEN @ ELSE s]
  /\ active_run_id' = [active_run_id EXCEPT ![p] = NoRun]

\* ... and then finishes its row.
FinishRun(r) ==
  /\ up
  /\ \/ worker[r] = "rolled_back" /\ FinishRows(r, "error")
     \/ worker[r] = "finishing" /\ r \notin on_old /\ FinishRows(r, TerminalStatus(status[run_project[r]]))
     \/ worker[r] = "finishing" /\ r \in on_old /\ \E s \in {"Waiting", "Running"} \cup Outcomes : FinishRows(r, TerminalStatus(s))
  /\ worker' = [worker EXCEPT ![r] = "none"]
  /\ UNCHANGED <<run_project, project_rows, command_rows, up, active_run_ids, status, on_old, list, loop,
                 beats, snapshot, history>>
-----------------------------------------------------------------------------
(* The reload of the project file: sync_from_legacy without a live runtime. *)

CheckRuntime ==
  /\ up /\ load = "idle" /\ reloads < MaxReloads /\ reloads' = reloads + 1
  /\ \A p \in Projects : active_run_ids[p] = NoRun
  /\ load' = "checked"
  /\ UNCHANGED <<store, up, runtime, listed, old_objects, loop, beats, snapshot, own_runs, races,
                 carried_out, crashes>>

\* load_data empties the list, although a run may have been launched meanwhile ...
ClearList ==
  /\ up /\ load = "checked" /\ load' = "filling"
  /\ listed' = {} /\ old_objects' = old_objects \cup listed
  /\ on_old' = on_old \cup {r \in RunIds : worker[r] # "none"}
  /\ UNCHANGED <<store, up, active_run_ids, worker, status, loop, beats, snapshot, history>>

\* ... appends a new object for each project of the file, with the status of the session ...
AppendProject(p) ==
  /\ up /\ load = "filling" /\ p \notin listed
  /\ listed' = listed \cup {p}
  /\ \E s \in {"Waiting", "Running"} \cup Outcomes : status' = [status EXCEPT ![p] = s]
  /\ UNCHANGED <<store, up, active_run_ids, worker, on_old, load, old_objects, loop, beats, snapshot, history>>

\* ... and the file may have lost projects.
EndLoad ==
  /\ up /\ load = "filling" /\ load' = "idle"
  /\ UNCHANGED <<store, up, runtime, listed, old_objects, loop, beats, snapshot, history>>
-----------------------------------------------------------------------------
(* The sync loop and the other threads that sync: event loop, API, workers. *)

\* _heartbeat_active_runs copies _active_run_ids under its lock ...
BeginBeats ==
  /\ up /\ beats = {} /\ snapshot["sync_loop"] = << >>
  /\ beats' = {<<p, active_run_ids[p], "unread">> : p \in {q \in Projects : active_run_ids[q] # NoRun}}
  /\ beats' # {}
  /\ UNCHANGED <<store, up, runtime, list, loop, snapshot, history>>

\* ... then, run by run, reads the status of the project ...
ReadStatus(p, r) ==
  /\ up /\ <<p, r, "unread">> \in beats /\ \A b \in beats : b[3] = "unread"
  /\ beats' = (beats \ {<<p, r, "unread">>})
                \cup {<<p, r, IF p \in listed /\ status[p] # "Running" THEN "finishing" ELSE "running">>}
  /\ UNCHANGED <<store, up, runtime, list, loop, snapshot, history>>

\* ... and writes it when it gets the write lock, whatever the rows say by then.
Beat(p, r, s) ==
  /\ up /\ <<p, r, s>> \in beats
  /\ beats' = beats \ {<<p, r, s>>}
  /\ project_runs' = [project_runs EXCEPT ![r] = s]
  /\ state_status' = [state_status EXCEPT ![p] = IF @ = "absent" THEN @ ELSE s]
  /\ UNCHANGED <<run_project, project_rows, active_run_id, command_rows, up, runtime, list, loop, snapshot, history>>

\* sync_from_models: the payload is made before the write lock is taken.
TakeSnapshot(y) ==
  /\ up /\ snapshot[y] = << >>
  /\ y = "sync_loop" => beats = {}
  /\ snapshot' = [snapshot EXCEPT ![y] = Payload(listed, status)]
  /\ UNCHANGED <<store, up, runtime, list, loop, beats, history>>

\* Mutant: the status of a row that is live in the store is not overwritten.
UpsertIdleRows(y) ==
  /\ up /\ snapshot[y] # << >> /\ snapshot' = [snapshot EXCEPT ![y] = << >>]
  /\ WriteStatuses([p \in Projects |-> IF state_status[p] \in LiveRunStatuses THEN state_status[p]
                                                                              ELSE snapshot[y][p]], state_status)
  /\ UNCHANGED <<project_runs, run_project, active_run_id, command_rows, up, runtime, list, loop, beats, history>>

\* _upsert_projects_payload: ON CONFLICT updates the status, not active_run_id; a
\* deleted row takes active_run_id with it, and is inserted again without one.
Upsert(y) ==
  LET deleted == project_rows \ project_rows' IN
  /\ up /\ snapshot[y] # << >> /\ snapshot' = [snapshot EXCEPT ![y] = << >>]
  /\ WriteStatuses(snapshot[y], state_status)
  /\ active_run_id' = [p \in Projects |-> IF p \in deleted THEN NoRun ELSE active_run_id[p]]
  /\ unlisted' = unlisted \cup {active_run_ids[p] : p \in {q \in deleted : active_run_ids[q] # NoRun}}
  /\ UNCHANGED <<project_runs, run_project, command_rows, up, runtime, list, loop, beats,
                 own_runs, overtaking, carried_out, crashes, reloads>>

\* Bound of the instance: no row is left for another run, where the store has one.
BoundsReached ==
  /\ (\A r \in RunIds : project_runs[r] # "none") \/ ~up
  /\ UNCHANGED vars
-----------------------------------------------------------------------------
CommandLoop == (\E c \in Commands : TakeCommand(c)) \/ ExecuteCommand \/ AnswerCommand
SyncLoop == \/ TakeSnapshot("sync_loop") \/ Upsert("sync_loop") \/ BeginBeats
            \/ \E p \in Projects, r \in RunIds :
                 ReadStatus(p, r) \/ \E s \in {"running", "finishing"} : Beat(p, r, s)
OtherSync(y) == TakeSnapshot(y) \/ Upsert(y)
Work(r) == BeginRun(r) \/ EndRun(r) \/ PopRun(r) \/ FinishRun(r)
Reload == CheckRuntime \/ ClearList \/ (\E p \in Projects : AppendProject(p)) \/ EndLoad

Next ==
  \/ Start \/ Crash
  \/ \E c \in Commands, p \in Projects : Submit(c, p)
  \/ CommandLoop
  \/ \E p \in Projects : ScheduledLaunch(p) \/ Recover(p)
  \/ \E r \in RunIds : Work(r)
  \/ SyncLoop
  \/ \E y \in OtherSyncers : OtherSync(y)
  \/ Reload
  \/ BoundsReached

Spec == Init /\ [][Next]_vars

(* The engine is started again after a crash, its threads are run, the sync   *)
(* loop makes a payload every two seconds, a run ends.                        *)
Fairness ==
  /\ WF_vars(Start) /\ WF_vars(CommandLoop)
  /\ WF_vars(SyncLoop) /\ SF_vars(TakeSnapshot("sync_loop")) /\ (\A y \in OtherSyncers : WF_vars(Upsert(y)))
  /\ \A r \in RunIds : WF_vars(Work(r))

FairSpec == Spec /\ Fairness
-----------------------------------------------------------------------------
(* Properties.                                                             *)

\* What the store says of a registered run is true: its row is live, although finish
\* hooks of earlier runs and heartbeats write such rows from what they read before, and
\* project_state points to it.  The pointer is lost, never wrong, in two cases: an
\* earlier run of the project was still finishing when the run was registered, or a
\* payload made while load_data refilled the list left the project out.
ActiveRunIsRecorded ==
  up => \A p \in Projects : LET r == active_run_ids[p] IN
          r # NoRun => /\ IsLive(r) /\ run_project[r] = p
                       /\ active_run_id[p] = r \/ (active_run_id[p] = NoRun /\ r \in overtaking \cup unlisted)

\* No run of an earlier process looks alive once the engine is up again, and
\* project_state points to runs that a worker of this process has in hand.
NoRunSurvivesRestart ==
  up => /\ \A r \in RunIds : IsLive(r) => r \in own_runs
        /\ \A p \in Projects : active_run_id[p] # NoRun => active_run_id[p] \in InHand(p)

\* A command is carried out at most once, whatever crashes and restarts there are,
\* and one that is answered with "completed" was carried out.
CommandsAtMostOnce ==
  \A c \in Commands : /\ carried_out[c] <= 1
                      /\ engine_commands[c] = "completed" => carried_out[c] = 1

\* Every command is answered.
CommandsAnswered ==
  \A c \in Commands : engine_commands[c] = "pending" ~> engine_commands[c] \in {"completed", "failed"}

\* The status of a project that has ended reaches the list of projects, although
\* heartbeats and payloads taken earlier overwrite it.
EndShown ==
  \A p \in Projects : status[p] = "Done" /\ InHand(p) = {} ~>
                        (state_status[p] = "Done" \/ status[p] # "Done" \/ p \notin listed)
=============================================================================

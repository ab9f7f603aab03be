--------------------------- MODULE TaskExecution ---------------------------
(***************************************************************************)
(* How a run executes the tasks of its project and how tasks are stopped:  *)
(* _execute_project_logic and _run_single_script of SchedulerCore, the     *)
(* single-task worker and the stop commands of the engine service.  The    *)
(* worker of the run, one thread per task, the command thread and the sync *)
(* thread interleave; the processes end when they like.                    *)
(*                                                                         *)
(* One project: its runs follow one another (ProjectLaunch!RunsTakeTurns). *)
(* A task is executed at most once per run, so <<task, run>> names the     *)
(* thread that executes it, in sequential mode the worker itself.          *)
(***************************************************************************)
EXTENDS Integers, FiniteSets

CONSTANTS
  Tasks, NoTask,
  Configs,           \* the configurations of the project to look at
  Checked,           \* the tasks a run with only_checked executes
  Faults,            \* "popen": a process cannot be started; "thread": a thread; "raise":
                     \* an attempt raises outside its try; "stream": reading the output does
  \* Bounds of the instance, not of the code:
  MaxRuns,           \* runs of the project
  MaxCommands        \* stop commands

ASSUME TaskAssumption ==
  /\ NoTask \notin Tasks
  /\ \A cf \in Configs :
       /\ cf.step_mode \in {"sequential", "parallel"}
       /\ cf.step \in [Tasks -> Nat] /\ cf.order \in [Tasks -> Nat]
       /\ cf.max_retries \in [Tasks -> Nat]
       /\ cf.condition \in [Tasks -> {"always", "file_exists", "prev_success"}]
       /\ cf.timeout \subseteq Tasks
  /\ Checked \subseteq Tasks
  /\ Faults \subseteq {"popen", "thread", "raise", "stream"}
  /\ MaxRuns \in Nat /\ MaxCommands \in Nat

VARIABLES
  config,                             \* step_mode and the fields of the tasks
  runner, run, actual, single, step,  \* the worker: position, number of its run,
                                      \* tasks to run, single task?, current step
  pc, attempt, process,               \* per thread
  active_processes,                   \* the threads whose process is registered
  status, project_status,
  stop_requested, requested_stops,    \* of the project; SchedulerCore._requested_task_stops
  command, target, to_kill,           \* the thread that stops tasks
  commands,                           \* bound: stop commands so far
  service_stops,                      \* EngineService._requested_task_stops
  overlap                             \* history: threads of earlier runs were alive
                                      \* when the run was launched

worker == <<runner, run, actual, single, step>>
thread == <<pc, attempt, process, active_processes>>
shown == <<status, project_status>>
stops == <<stop_requested, requested_stops>>
fixed == <<config, overlap>>
stopper == <<command, target, to_kill, commands, service_stops>>
vars == <<config, worker, thread, shown, stops, stopper, overlap>>

Runs == 1 .. MaxRuns
TaskThreads == Tasks \X Runs
Mine(t) == <<t, run>>
TaskOf(th) == th[1]
StepOf(t) == config.step[t]
OrderOf(t) == config.order[t]
Condition(t) == config.condition[t]

RunnerPCs == {"idle", "accepted", "step", "tasks", "wait", "finish",
              "user_stop", "exception", "finally"}
ThreadPCs == {"none", "condition", "attempt", "popen", "append", "poll", "classify", "last",
              "done", "skipped"}
\* stopped: terminated by a stop command, with an exit code other than 15.
ProcessStates == {"none", "alive", "ok", "failed", "stopped", "sigterm"}
TaskStatuses == {"Waiting", "Running", "Done", "Skipped", "Error", "Timeout", "Stopped",
                 "FinalFailed", "SystemError"}
NonFailure == {"Done", "Waiting", "Skipped"}

TypeOK ==
  /\ config \in Configs
  /\ runner \in RunnerPCs /\ run \in 0 .. MaxRuns /\ actual \subseteq Tasks
  /\ single \in BOOLEAN /\ step \in Nat \cup {-1}
  /\ pc \in [TaskThreads -> ThreadPCs]
  /\ attempt \in [TaskThreads -> Nat]
  /\ process \in [TaskThreads -> ProcessStates]
  /\ active_processes \subseteq TaskThreads
  /\ status \in [Tasks -> TaskStatuses]
  /\ project_status \in {"Waiting", "Running", "Done", "Error", "Stopped"}
  /\ stop_requested \in BOOLEAN
  /\ requested_stops \subseteq Tasks /\ service_stops \subseteq Tasks
  /\ command \in {"idle", "find", "discard", "snapshot", "kill"}
  /\ target \in Tasks \cup {NoTask} /\ to_kill \subseteq TaskThreads
  /\ commands \in 0 .. MaxCommands /\ overlap \in BOOLEAN

Init ==
  /\ config \in Configs
  /\ runner = "idle" /\ run = 0 /\ actual = {} /\ single = FALSE /\ step = -1
  /\ pc = [th \in TaskThreads |-> "none"]
  /\ attempt = [th \in TaskThreads |-> 0]
  /\ process = [th \in TaskThreads |-> "none"]
  /\ active_processes = {}
  /\ status = [t \in Tasks |-> "Waiting"] /\ project_status = "Waiting"
  /\ stop_requested = FALSE /\ requested_stops = {} /\ service_stops = {}
  /\ command = "idle" /\ target = NoTask /\ to_kill = {}
  /\ commands = 0 /\ overlap = FALSE

\* Alive: the process; Live: the thread.
Live(th) == pc[th] \notin {"none", "done", "skipped"}
Alive(th) == process[th] = "alive"
Ended(th) == pc[th] \in {"done", "skipped"}
Failing(ts) == \E t \in ts : status[t] \notin NonFailure
InStep(k) == {t \in actual : StepOf(t) = k}

\* Worker positions; what each step of the worker leaves alone is said there.
Walk(l) == runner' = l /\ UNCHANGED <<run, actual, single>>
Go(th, l) == pc' = [pc EXCEPT ![th] = l]
Show(t, s) == status' = [status EXCEPT ![t] = s]
\* Running tasks, and in `others` the waiting ones too, are shown as s.
ShowInterrupted(s, others) ==
  status' = [t \in Tasks |-> IF status[t] \in {"Running"} \cup others THEN s ELSE status[t]]
-----------------------------------------------------------------------------
(* The worker of the run.                                                  *)

\* A launch has been accepted: run_project, or _run_single_task_only.
Launch(ts, one) ==
  /\ runner = "idle" /\ run < MaxRuns
  /\ runner' = "accepted" /\ run' = run + 1 /\ actual' = ts /\ single' = one /\ step' = -1
  /\ overlap' = (\E th \in TaskThreads : Live(th))
  /\ UNCHANGED <<config, thread, shown, stops, stopper>>

\* The first locked section: a stop requested before is forgotten.
BeginRun ==
  /\ runner = "accepted"
  /\ project_status' = "Running" /\ stop_requested' = FALSE
  /\ \/ ~single /\ Walk("step") /\ UNCHANGED <<pc, status>>
     \/ single /\ \E t \in actual : /\ Show(t, "Waiting")
                                    /\ Go(Mine(t), "condition")
                                    /\ Walk("wait")
  /\ UNCHANGED <<fixed, step, attempt, process, active_processes, requested_stops, stopper>>

\* The loop over sorted(steps).  A step without a task to run is passed over.
BeginStep ==
  LET later == {k \in {StepOf(t) : t \in actual} : k > step} IN
  /\ runner = "step"
  /\ \/ later = {} /\ Walk("finish") /\ UNCHANGED step
     \/ later # {} /\ stop_requested /\ Walk("user_stop") /\ UNCHANGED step
     \/ ~stop_requested /\ \E k \in later : /\ \A j \in later : k <= j
                                            /\ step' = k /\ Walk("tasks")
  /\ UNCHANGED <<fixed, thread, shown, stops, stopper>>

\* Mutant: the next task is started at once in sequential mode too.
BeginTaskAtOnce ==
  LET left == {t \in InStep(step) : pc[Mine(t)] = "none"} IN
  /\ runner = "tasks"
  /\ \/ left = {} /\ Walk("wait") /\ UNCHANGED pc
     \/ left # {} /\ stop_requested /\ Walk("user_stop") /\ UNCHANGED pc
     \/ /\ ~stop_requested /\ Walk("tasks")
        /\ \E t \in left : Go(Mine(t), "condition")
  /\ UNCHANGED <<fixed, step, attempt, process, active_processes, shown, stops, stopper>>

\* One turn of `for task in tasks`: in sequential mode the worker runs the task
\* itself, in parallel mode it starts a thread and goes on to the next task.
BeginTask ==
  LET left == {t \in InStep(step) : pc[Mine(t)] = "none"} IN
  /\ runner = "tasks"
  /\ \/ left = {} /\ Walk("wait") /\ UNCHANGED pc
     \/ left # {} /\ stop_requested /\ Walk("user_stop") /\ UNCHANGED pc
     \/ /\ ~stop_requested
        /\ \E t \in left : /\ \A u \in left : OrderOf(t) <= OrderOf(u)
                           /\ Go(Mine(t), "condition")
        /\ Walk(IF config.step_mode = "sequential" THEN "wait" ELSE "tasks")
     \/ /\ left # {} /\ ~stop_requested
        /\ config.step_mode = "parallel" /\ "thread" \in Faults
        /\ Walk("exception") /\ UNCHANGED pc
  /\ UNCHANGED <<fixed, step, attempt, process, active_processes, shown, stops, stopper>>

\* Mutant: a failed step does not end the loop over the steps.
AfterStepAnyway == "step"

\* A failed step ends the loop over the steps.
AfterStep == IF Failing(InStep(step)) THEN "finish" ELSE "step"

\* The task of a sequential step has ended: go on to the next one unless it failed.
\* In parallel mode all threads are joined.
WaitForTasks ==
  /\ runner = "wait"
  /\ \A t \in actual : pc[Mine(t)] = "none" \/ Ended(Mine(t))
  /\ Walk(IF single THEN "finish"
          ELSE IF /\ config.step_mode = "sequential"
                  /\ \E t \in InStep(step) : pc[Mine(t)] = "none"
                  /\ ~Failing({t \in InStep(step) : Ended(Mine(t))})
          THEN "tasks" ELSE AfterStep)
  /\ UNCHANGED <<fixed, step, thread, shown, stops, stopper>>

\* Mutant: the last section looks at the last step only and not at stop_requested.
FinishLastStep ==
  /\ runner = "finish" /\ Walk("finally")
  /\ project_status' = IF ~single /\ Failing(InStep(step)) THEN "Error" ELSE "Done"
  /\ UNCHANGED <<fixed, step, thread, status, stops, stopper>>

\* The last locked section of _execute_project_logic and of _single_task_worker.
FinishRun ==
  /\ runner = "finish" /\ Walk("finally")
  /\ project_status' =
       IF single THEN LET s == status[CHOOSE t \in actual : TRUE]
                      IN IF s \in {"Done", "Skipped"} THEN "Done"
                         ELSE IF s = "Stopped" THEN "Stopped" ELSE "Error"
       ELSE IF stop_requested THEN "Stopped"
       ELSE IF Failing(actual) THEN "Error" ELSE "Done"
  /\ UNCHANGED <<fixed, step, thread, status, stops, stopper>>

\* except UserStopException: tasks that wait or run are shown as stopped, the ones
\* with a live thread too.
UserStop ==
  /\ runner = "user_stop" /\ Walk("finally")
  /\ project_status' = "Stopped" /\ ShowInterrupted("Stopped", {"Waiting"})
  /\ UNCHANGED <<fixed, step, thread, stops, stopper>>

\* except Exception
RunFails ==
  /\ runner = "exception" /\ Walk("finally")
  /\ project_status' = "Error" /\ ShowInterrupted("SystemError", {})
  /\ UNCHANGED <<fixed, step, thread, stops, stopper>>

\* The finally block; then the slot of the project is given back.
EndRun ==
  /\ runner = "finally" /\ Walk("idle")
  /\ stop_requested' = FALSE
  /\ project_status' = IF project_status = "Running" /\ ~single THEN "Error" ELSE project_status
  /\ UNCHANGED <<fixed, step, thread, status, requested_stops, stopper>>
-----------------------------------------------------------------------------
(* _run_single_script, on the thread th.                                   *)

\* Mutant: the condition looks at the tasks of higher order.
ConditionReversed(t) ==
  \/ Condition(t) \in {"always", "file_exists"}
  \/ Condition(t) = "prev_success" /\ \A u \in Tasks : StepOf(u) = StepOf(t) /\ OrderOf(u) > OrderOf(t) => status[u] = "Done"

\* _check_task_condition may answer True: whether the file exists is open.
ConditionMayHold(t) ==
  Condition(t) = "prev_success" =>
    \A u \in Tasks : StepOf(u) = StepOf(t) /\ OrderOf(u) < OrderOf(t) => status[u] = "Done"

CheckCondition(th) ==
  LET t == TaskOf(th) IN
  /\ pc[th] = "condition"
  /\ \/ ConditionMayHold(t) /\ Go(th, "attempt") /\ UNCHANGED status
     \/ /\ Condition(t) = "file_exists" \/ ~ConditionMayHold(t)
        /\ Show(t, "Skipped") /\ Go(th, "skipped")
  /\ UNCHANGED <<fixed, worker, attempt, process, active_processes, project_status, stops, stopper>>

StartAttempt(th) ==
  /\ pc[th] = "attempt"
  /\ attempt' = [attempt EXCEPT ![th] = @ + 1]
  /\ Show(TaskOf(th), "Running") /\ Go(th, "popen")
  /\ UNCHANGED <<fixed, worker, process, active_processes, project_status, stops, stopper>>

\* Where a failed attempt leads: to the next one, whatever made it fail.
AfterFailure(th) == IF attempt[th] < config.max_retries[TaskOf(th)] + 1 THEN "attempt" ELSE "last"

\* subprocess.Popen, or what comes before it inside the try, may raise.
StartProcess(th) ==
  /\ pc[th] = "popen"
  /\ \/ /\ process' = [process EXCEPT ![th] = "alive"] /\ Go(th, "append")
        /\ UNCHANGED status
     \/ /\ "popen" \in Faults
        /\ Show(TaskOf(th), "SystemError") /\ Go(th, AfterFailure(th))
        /\ UNCHANGED process
  /\ UNCHANGED <<fixed, worker, attempt, active_processes, project_status, stops, stopper>>

\* What prepares an attempt may raise before the try (the credentials put into the
\* arguments, the directory for the log).  The worker gets the exception where it
\* executes the task itself; in parallel mode the thread ends, and that is all.
AttemptRaises(th) ==
  /\ pc[th] = "popen" /\ "raise" \in Faults
  /\ Go(th, "done")
  /\ IF runner = "wait" /\ th[2] = run /\ (single \/ config.step_mode = "sequential")
     THEN Walk(IF single THEN "finally" ELSE "exception")
     ELSE UNCHANGED <<runner, run, actual, single>>
  /\ UNCHANGED <<fixed, step, attempt, process, active_processes, shown, stops, stopper>>

RegisterProcess(th) ==
  /\ pc[th] = "append" /\ Go(th, "poll")
  /\ active_processes' = active_processes \cup {th}
  /\ UNCHANGED <<fixed, worker, attempt, process, shown, stops, stopper>>

\* The process ends by itself.
ProcessExits(th) ==
  /\ Alive(th)
  /\ \E code \in {"ok", "failed"} : process' = [process EXCEPT ![th] = code]
  /\ UNCHANGED <<fixed, worker, pc, attempt, active_processes, shown, stops, stopper>>

\* _terminate_process_safely leaves a process that has ended alone.  The exit code
\* depends on the platform and on the script.
Terminated(th, codes) == IF Alive(th) THEN codes \cup {"sigterm"} ELSE {process[th]}

\* Mutant: the loop polls the process only.
PollProcessOnly(th) ==
  /\ pc[th] = "poll"
  /\ ~Alive(th) /\ Go(th, "classify") /\ UNCHANGED process
  /\ active_processes' = active_processes \ {th}
  /\ UNCHANGED <<fixed, worker, attempt, shown, stops, stopper>>

\* The turn of the polling loop that ends it; the process leaves active_processes.
PollProcess(th) ==
  /\ pc[th] = "poll"
  /\ ~Alive(th) \/ stop_requested
  /\ Go(th, "classify")
  /\ \E code \in Terminated(th, {"failed"}) : process' = [process EXCEPT ![th] = code]
  /\ active_processes' = active_processes \ {th}
  /\ UNCHANGED <<fixed, worker, attempt, shown, stops, stopper>>

\* Mutant: the process is left alone when its time is over.
TimeoutKeepsProcess(th) ==
  /\ pc[th] = "poll" /\ TaskOf(th) \in config.timeout
  /\ Show(TaskOf(th), "Timeout") /\ Go(th, AfterFailure(th))
  /\ active_processes' = active_processes \ {th}
  /\ UNCHANGED <<fixed, worker, attempt, process, project_status, stops, stopper>>

\* The time of the attempt is over: the process is terminated and dropped by the
\* except and the finally clause.
TimeOut(th) ==
  /\ pc[th] = "poll" /\ TaskOf(th) \in config.timeout
  /\ process' = [process EXCEPT ![th] = "none"]
  /\ Show(TaskOf(th), "Timeout") /\ Go(th, AfterFailure(th))
  /\ active_processes' = active_processes \ {th}
  /\ UNCHANGED <<fixed, worker, attempt, project_status, stops, stopper>>

\* Reading the output, or the progress in it, may raise: the process is left running,
\* and nobody knows of it any more.
StreamFails(th) ==
  /\ pc[th] = "poll" /\ "stream" \in Faults
  /\ process' = [process EXCEPT ![th] = "none"]
  /\ Show(TaskOf(th), "SystemError") /\ Go(th, AfterFailure(th))
  /\ active_processes' = active_processes \ {th}
  /\ UNCHANGED <<fixed, worker, attempt, project_status, stops, stopper>>

\* Mutant: the stop request is discarded before it is looked at.
ClassifyForgets(th) ==
  LET t == TaskOf(th) IN
  /\ pc[th] = "classify"
  /\ \/ /\ process[th] = "ok"
        /\ Show(t, "Done") /\ Go(th, "done") /\ UNCHANGED <<process, requested_stops>>
     \/ /\ process[th] # "ok"
        /\ Show(t, IF process[th] = "sigterm" THEN "Stopped" ELSE "Error")
        /\ requested_stops' = requested_stops \ {t}
        /\ process' = [process EXCEPT ![th] = "none"]
        /\ Go(th, AfterFailure(th))
  /\ UNCHANGED <<fixed, worker, attempt, active_processes, project_status, stop_requested, stopper>>

\* What the exit code means; a stop request for the task is used up by a failure.
Classify(th) ==
  LET t == TaskOf(th) IN
  /\ pc[th] = "classify"
  /\ \/ /\ process[th] = "ok"
        /\ Show(t, "Done") /\ Go(th, "done") /\ UNCHANGED <<process, requested_stops>>
     \/ /\ process[th] # "ok"
        /\ Show(t, IF t \in requested_stops \/ process[th] = "sigterm" THEN "Stopped" ELSE "Error")
        /\ requested_stops' = requested_stops \ {t}
        /\ process' = [process EXCEPT ![th] = "none"]
        /\ Go(th, AfterFailure(th))
  /\ UNCHANGED <<fixed, worker, attempt, active_processes, project_status, stop_requested, stopper>>

GiveUp(th) ==
  LET t == TaskOf(th) IN
  /\ pc[th] = "last" /\ Go(th, "done")
  /\ Show(t, IF status[t] \in {"Waiting", "Running"} THEN "FinalFailed" ELSE status[t])
  /\ UNCHANGED <<fixed, worker, attempt, process, active_processes, project_status, stops, stopper>>
-----------------------------------------------------------------------------
(* Stopping: the command thread, the sync thread and the scheduler.        *)

NextCommand(l) ==
  /\ command = "idle" /\ command' = l
  /\ commands < MaxCommands /\ commands' = commands + 1

\* _process_command stop_task, and the head of SchedulerCore.stop_task.
StopTask(t) ==
  /\ NextCommand("find") /\ target' = t
  /\ service_stops' = service_stops \cup {t}
  /\ requested_stops' = requested_stops \cup {t}
  /\ UNCHANGED <<fixed, worker, thread, shown, stop_requested, to_kill>>

Terminate(th) == \E code \in Terminated(th, {"stopped"}) : process' = [process EXCEPT ![th] = code]

\* A registered process of the task is terminated, if it has not ended.
FindTask ==
  LET found == {th \in active_processes : TaskOf(th) = target} IN
  /\ command = "find"
  /\ \/ \E th \in found : Terminate(th) /\ command' = "idle" /\ target' = NoTask
     \/ found = {} /\ command' = "discard" /\ UNCHANGED <<process, target>>
  /\ UNCHANGED <<fixed, worker, pc, attempt, active_processes, shown, stops, to_kill, commands, service_stops>>

RejectStop ==
  /\ command = "discard" /\ command' = "idle" /\ target' = NoTask
  /\ requested_stops' = requested_stops \ {target}
  /\ service_stops' = service_stops \ {target}
  /\ UNCHANGED <<fixed, worker, thread, shown, stop_requested, to_kill, commands>>

StopProject ==
  /\ NextCommand("snapshot")
  /\ stop_requested' = TRUE
  /\ UNCHANGED <<fixed, worker, thread, shown, requested_stops, target, to_kill, service_stops>>

SnapshotProcesses ==
  /\ command = "snapshot" /\ command' = "kill"
  /\ to_kill' = active_processes
  /\ UNCHANGED <<fixed, worker, thread, shown, stops, target, commands, service_stops>>

KillNext ==
  /\ command = "kill"
  /\ \/ \E th \in to_kill : /\ requested_stops' = requested_stops \cup {TaskOf(th)}
                            /\ Terminate(th)
                            /\ to_kill' = to_kill \ {th}
                            /\ UNCHANGED command
     \/ to_kill = {} /\ command' = "idle" /\ UNCHANGED <<requested_stops, process, to_kill>>
  /\ UNCHANGED <<fixed, worker, pc, attempt, active_processes, shown, stop_requested, target, commands, service_stops>>

\* _normalize_requested_task_stops, for one task of its list.
NormalizeStop(t) ==
  /\ t \in service_stops
  /\ status[t] \in {"Stopped", "FinalFailed", "Error", "SystemError"}
  /\ Show(t, "Stopped")
  /\ service_stops' = service_stops \ {t}
  /\ UNCHANGED <<fixed, worker, thread, project_status, stops, command, target, to_kill, commands>>

\* No tracked worker and no registered process: what healing and the daily reset
\* take for a dead runtime.  The worker of a single task is not tracked.
LooksDead == (runner = "idle" \/ single) /\ active_processes = {}

\* _heal_ghost_running_projects
HealGhost ==
  /\ LooksDead /\ project_status = "Running"
  /\ project_status' = "Error" /\ ShowInterrupted("SystemError", {})
  /\ stop_requested' = FALSE
  /\ UNCHANGED <<fixed, worker, thread, requested_stops, stopper>>

\* _reset_daily_state
DailyReset ==
  /\ LooksDead
  /\ project_status' = "Waiting" /\ status' = [t \in Tasks |-> "Waiting"]
  /\ stop_requested' = FALSE
  /\ UNCHANGED <<fixed, worker, thread, requested_stops, stopper>>

\* Bound of the instance: no further run.
BoundsReached == runner = "idle" /\ run = MaxRuns /\ UNCHANGED vars
-----------------------------------------------------------------------------
WorkerStep == \/ BeginRun \/ BeginStep \/ BeginTask \/ WaitForTasks \/ FinishRun
              \/ UserStop \/ RunFails \/ EndRun
ThreadGoes(th) == \/ CheckCondition(th) \/ StartAttempt(th) \/ StartProcess(th) \/ RegisterProcess(th)
                  \/ PollProcess(th) \/ TimeOut(th) \/ Classify(th) \/ GiveUp(th)
ThreadStep(th) == ThreadGoes(th) \/ AttemptRaises(th) \/ StreamFails(th)
CommandStep == FindTask \/ RejectStop \/ SnapshotProcesses \/ KillNext

Next ==
  \/ Launch(Tasks, FALSE) \/ Launch(Checked, FALSE) \/ \E t \in Tasks : Launch({t}, TRUE)
  \/ WorkerStep
  \/ \E th \in TaskThreads : ThreadStep(th) \/ ProcessExits(th)
  \/ \E t \in Tasks : StopTask(t) \/ NormalizeStop(t)
  \/ StopProject \/ CommandStep
  \/ HealGhost \/ DailyReset \/ BoundsReached

Spec == Init /\ [][Next]_vars

(* Threads run, a process that can be polled is polled once a second, and    *)
(* time passes.  Nothing makes a process end by itself or an exception come, *)
(* and commands, the sync thread and the scheduler are under no fairness.    *)
Fairness ==
  /\ WF_vars(WorkerStep) /\ WF_vars(CommandStep)
  /\ \A th \in TaskThreads : WF_vars(ThreadGoes(th))

FairSpec == Spec /\ Fairness
-----------------------------------------------------------------------------
(* Properties.                                                             *)

\* Threads of a run that has ended, still executing their task.
Orphans == {th \in TaskThreads : Live(th) /\ (th[2] # run \/ runner \in {"idle", "finally"})}
\* The task's own thread in this run ended well.
Succeeded(t) == pc[Mine(t)] = "skipped" \/ (pc[Mine(t)] = "done" /\ process[Mine(t)] = "ok")

\* While a task is executed, every task of an earlier step of the same run has
\* ended well: the worker reads statuses that its threads, and threads of earlier
\* runs, write.
StepsInOrder ==
  \A th \in TaskThreads : Live(th) /\ th[2] = run /\ ~single /\ ~overlap =>
    \A t \in actual : StepOf(t) < StepOf(TaskOf(th)) => Succeeded(t)

\* A run that is about to be shown as Done has executed every task it was to run,
\* and each ended with exit code 0 or was skipped by its condition.
DoneRunSucceeded ==
  runner = "finally" /\ project_status = "Done" /\ ~overlap => \A t \in actual : Succeeded(t)

\* No thread that executes a task outlives its run, but in parallel mode, where a stop
\* or a thread that does not start ends the loop before the threads are joined.  (The
\* process of StreamFails outlives any run: its thread has dropped it.)
OrphansOnlyInParallelSteps == Orphans # {} => config.step_mode = "parallel"

\* In a run in sequential mode a process of a task with prev_success that its thread
\* still looks at runs while all tasks of lower order in its step are shown as Done.
PrevSuccessHonoured ==
  \A th \in TaskThreads :
    Alive(th) /\ Condition(TaskOf(th)) = "prev_success" /\ config.step_mode = "sequential" /\ ~single =>
      \A u \in Tasks : StepOf(u) = StepOf(TaskOf(th)) /\ OrderOf(u) < OrderOf(TaskOf(th)) => status[u] = "Done"

\* A stop that ended a process and was noted makes the task Stopped, not Error; the
\* note is lost to nothing but a second stop of the task that comes after the
\* process is unregistered and is rejected.
NotedStopIsShown ==
  [][\A th \in TaskThreads : LET t == TaskOf(th) IN
       (process[th] = "stopped" /\ pc[th] \in {"poll", "classify"} /\ Orphans = {} /\ ~overlap
          /\ t \in requested_stops \ requested_stops')
         => (status'[t] = "Stopped" \/ (command = "discard" /\ target = t))]_vars

\* A stop of the project that comes before the last section of its run is what the
\* run ends with, wherever the worker and the threads are.
StoppedRunEndsStopped ==
  [][(/\ runner \in {"step", "tasks", "wait", "finish", "user_stop"}
      /\ stop_requested /\ ~single /\ runner' = "finally") => (project_status' = "Stopped")]_vars

\* A stop ends the run, also when processes do not end by themselves and tasks
\* have attempts left.
StopEndsRun ==
  (stop_requested /\ runner \notin {"idle", "accepted"} /\ ~single) ~> runner = "idle"

\* Processes of tasks with a time limit do not run for ever, if they can be terminated
\* and no thread has dropped them after an exception.
TimeLimitsEnforced ==
  LET Limited == {th \in TaskThreads : Alive(th) /\ TaskOf(th) \in config.timeout}
  IN  Limited # {} ~> Limited = {}
=============================================================================

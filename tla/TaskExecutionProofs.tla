-------------------------- MODULE TaskExecutionProofs --------------------------
(* Theorems about TaskExecution, for any tasks, configurations and runs.      *)
EXTENDS TaskExecution, TLAPS

LEMMA ThreadsOfTasks ==
  /\ \A th \in TaskThreads : TaskOf(th) \in Tasks
  /\ \A t \in Tasks : run \in Runs => Mine(t) \in TaskThreads
  BY DEF TaskThreads, TaskOf, Mine

\* In sequential mode the worker executes the task itself: it waits for the thread
\* of one of its tasks, and for no other thread.
SequentialInv ==
  config.step_mode = "sequential" =>
    /\ \A th \in TaskThreads : Live(th) => runner = "wait" /\ th[2] = run /\ TaskOf(th) \in actual
    /\ \A th, other \in TaskThreads : Live(th) /\ Live(other) => th = other

ConfigInv == config.step_mode \in {"sequential", "parallel"}

Inv == TypeOK /\ ConfigInv /\ SequentialInv

\* A thread that goes on is one that was live.
LEMMA ThreadGoesOn ==
  ASSUME TypeOK, SequentialInv, NEW th \in TaskThreads, Live(th), NEW l, Go(th, l), UNCHANGED <<worker, config>>
  PROVE  SequentialInv'
  BY DEF SequentialInv, Go, Live, worker, TypeOK, TaskOf

\* A step that moves no thread, while the worker does not wait or stays.
LEMMA NoThreadMoves ==
  ASSUME SequentialInv, UNCHANGED <<pc, config>>,
         UNCHANGED <<runner, run, actual>> \/ runner # "wait"
  PROVE  SequentialInv'
  BY DEF SequentialInv, Live, TaskOf

LEMMA InvInit == Init => Inv
<1>1. ASSUME Init PROVE TypeOK
  <2>1. run \in 0 .. MaxRuns /\ commands \in 0 .. MaxCommands /\ step \in Nat \cup {-1}
    BY <1>1, TaskAssumption DEF Init
  <2>2. /\ pc \in [TaskThreads -> ThreadPCs] /\ attempt \in [TaskThreads -> Nat]
        /\ process \in [TaskThreads -> ProcessStates] /\ status \in [Tasks -> TaskStatuses]
    BY <1>1 DEF Init, ThreadPCs, ProcessStates, TaskStatuses
  <2>3. runner \in RunnerPCs
    BY <1>1 DEF Init, RunnerPCs
  <2>4. QED BY <1>1, <2>1, <2>2, <2>3 DEF Init, TypeOK
<1>2. Init => ConfigInv
  BY TaskAssumption DEF Init, ConfigInv
<1>3. Init => SequentialInv
  BY DEF Init, SequentialInv, Live
<1>4. QED BY <1>1, <1>2, <1>3 DEF Inv
-----------------------------------------------------------------------------
LEMMA LaunchKeepsInv ==
  ASSUME Inv, NEW ts \in SUBSET Tasks, NEW one \in BOOLEAN, Launch(ts, one) PROVE Inv'
<1>1. TypeOK'
  BY TaskAssumption DEF Inv, TypeOK, Launch, RunnerPCs, thread, shown, stops, stopper
<1>2. SequentialInv'
  BY NoThreadMoves DEF Inv, Launch, thread
<1>3. ConfigInv'
  BY DEF Inv, ConfigInv, Launch
<1>4. QED BY <1>1, <1>2, <1>3 DEF Inv

LEMMA WorkerKeepsInv == ASSUME Inv, WorkerStep PROVE Inv'
<1> USE DEF Inv
<1>0. ConfigInv'
  BY DEF WorkerStep, ConfigInv, BeginRun, BeginStep, BeginTask, WaitForTasks, FinishRun, UserStop, RunFails, EndRun, fixed
<1>1. CASE BeginRun
  <2>1. runner' \in RunnerPCs /\ pc' \in [TaskThreads -> ThreadPCs] /\ status' \in [Tasks -> TaskStatuses]
    BY <1>1 DEF BeginRun, Walk, Go, Show, TypeOK, RunnerPCs, ThreadPCs, TaskStatuses
  <2>2. TypeOK'
    BY <1>1, <2>1 DEF BeginRun, Walk, TypeOK, fixed, stopper
  <2>3. ASSUME UNCHANGED pc PROVE SequentialInv'
    BY <1>1, <2>3, NoThreadMoves DEF BeginRun, fixed
  <2>4. ASSUME \E t \in actual : Go(Mine(t), "condition") /\ Walk("wait") PROVE SequentialInv'
    <3>1. PICK t \in actual : Go(Mine(t), "condition") /\ Walk("wait")
      BY <2>4
    <3>2. runner = "accepted" /\ t \in Tasks /\ UNCHANGED <<config, run, actual>> /\ runner' = "wait"
      BY <1>1, <3>1 DEF BeginRun, Walk, TypeOK, fixed
    <3>3. \A th \in TaskThreads : th # Mine(t) => pc'[th] = pc[th]
      BY <3>1 DEF Go, TypeOK
    <3>4. Mine(t)[2] = run /\ TaskOf(Mine(t)) \in actual
      BY DEF Mine, TaskOf
    <3>5. QED BY <3>2, <3>3, <3>4 DEF SequentialInv, Live, TaskOf
  <2>5. SequentialInv'
    BY <1>1, <2>3, <2>4 DEF BeginRun
  <2>6. QED BY <1>0, <2>2, <2>5
<1>2. CASE BeginStep
  <2>1. step' \in Nat \cup {-1}
    <3>1. \A t \in Tasks : StepOf(t) \in Nat
      BY TaskAssumption DEF TypeOK, StepOf
    <3>2. QED BY <1>2, <3>1 DEF BeginStep, TypeOK
  <2>2. TypeOK'
    BY <1>2, <2>1 DEF BeginStep, Walk, TypeOK, RunnerPCs, fixed, thread, shown, stops, stopper
  <2>3. SequentialInv'
    BY <1>2, NoThreadMoves DEF BeginStep, fixed, thread
  <2>4. QED BY <1>0, <2>2, <2>3
<1>3. CASE BeginTask
  <2>1. runner = "tasks" /\ UNCHANGED <<config, run, actual>>
    BY <1>3 DEF BeginTask, Walk, fixed
  <2>2. runner' \in RunnerPCs /\ pc' \in [TaskThreads -> ThreadPCs]
    BY <1>3 DEF BeginTask, Walk, Go, TypeOK, RunnerPCs, ThreadPCs
  <2>3. TypeOK'
    BY <1>3, <2>2 DEF BeginTask, Walk, TypeOK, fixed, shown, stops, stopper
  <2>4. ASSUME UNCHANGED pc PROVE SequentialInv'
    BY <2>1, <2>4, NoThreadMoves
  <2>5. ASSUME \E t \in InStep(step) : Go(Mine(t), "condition")
                                          /\ Walk(IF config.step_mode = "sequential" THEN "wait" ELSE "tasks")
        PROVE  SequentialInv'
    <3>1. PICK t \in InStep(step) : Go(Mine(t), "condition")
                                     /\ Walk(IF config.step_mode = "sequential" THEN "wait" ELSE "tasks")
      BY <2>5
    <3>2. t \in actual /\ (config.step_mode = "sequential" => runner' = "wait")
      BY <3>1 DEF InStep, Walk
    <3>3. \A th \in TaskThreads : th # Mine(t) => pc'[th] = pc[th]
      BY <3>1 DEF Go, TypeOK
    <3>4. Mine(t)[2] = run /\ TaskOf(Mine(t)) \in actual
      BY <3>2 DEF Mine, TaskOf
    <3>5. QED BY <2>1, <3>2, <3>3, <3>4 DEF SequentialInv, Live, TaskOf
  <2>6. QED BY <1>0, <1>3, <2>3, <2>4, <2>5 DEF BeginTask
<1>4. CASE WaitForTasks
  <2>1. /\ UNCHANGED <<config, run, actual, pc>> /\ runner = "wait"
        /\ \A t \in actual : pc[Mine(t)] = "none" \/ Ended(Mine(t))
    BY <1>4 DEF WaitForTasks, Walk, fixed, thread
  <2>2. TypeOK'
    BY <1>4 DEF WaitForTasks, Walk, AfterStep, TypeOK, RunnerPCs, fixed, thread, shown, stops, stopper
  <2>3. config.step_mode = "sequential" => \A th \in TaskThreads : ~Live(th)
    <3> SUFFICES ASSUME config.step_mode = "sequential", NEW th \in TaskThreads, Live(th) PROVE FALSE
      OBVIOUS
    <3>1. th[2] = run /\ TaskOf(th) \in actual
      BY DEF SequentialInv
    <3>2. th = Mine(TaskOf(th))
      BY <3>1 DEF TaskThreads, Mine, TaskOf
    <3>3. QED BY <2>1, <3>1, <3>2 DEF Live, Ended
  <2>4. SequentialInv'
    BY <2>1, <2>3 DEF SequentialInv, Live
  <2>5. QED BY <1>0, <2>2, <2>4
<1>5. CASE FinishRun \/ UserStop \/ RunFails \/ EndRun
  <2>1. TypeOK'
    BY <1>5 DEF FinishRun, UserStop, RunFails, EndRun, ShowInterrupted, Walk, TypeOK, RunnerPCs, TaskStatuses,
                fixed, thread, stops, stopper
  <2>2. SequentialInv'
    BY <1>5, NoThreadMoves DEF FinishRun, UserStop, RunFails, EndRun, Walk, fixed, thread
  <2>3. QED BY <1>0, <2>1, <2>2
<1>6. QED BY <1>1, <1>2, <1>3, <1>4, <1>5 DEF WorkerStep
-----------------------------------------------------------------------------
LEMMA ThreadKeepsInv ==
  ASSUME Inv, NEW th \in TaskThreads, ThreadStep(th) \/ ProcessExits(th) PROVE Inv'
<1> USE DEF Inv
<1>1. TaskOf(th) \in Tasks
  BY ThreadsOfTasks
<1>2. AfterFailure(th) \in {"attempt", "last"} /\ "attempt" \in ThreadPCs /\ "last" \in ThreadPCs
  BY DEF AfterFailure, ThreadPCs
<1>3. Terminated(th, {"failed"}) \subseteq ProcessStates
  BY DEF Terminated, TypeOK, ProcessStates
<1>4. ASSUME \/ CheckCondition(th) \/ StartAttempt(th) \/ StartProcess(th) \/ RegisterProcess(th) \/ PollProcess(th)
             \/ TimeOut(th) \/ StreamFails(th) \/ Classify(th) \/ GiveUp(th) \/ ProcessExits(th)
      PROVE  ConfigInv' /\ UNCHANGED <<worker, config>>
  BY <1>4 DEF ConfigInv, CheckCondition, StartAttempt, StartProcess, RegisterProcess, PollProcess, TimeOut,
         StreamFails, Classify, GiveUp, ProcessExits, fixed
<1>5. CASE CheckCondition(th)
  <2>0. ConfigInv' /\ UNCHANGED <<worker, config>> BY <1>4, <1>5
  <2>1. TypeOK'
    BY <1>1, <1>5 DEF CheckCondition, Go, Show, TypeOK, ThreadPCs, TaskStatuses, fixed, worker, stops, stopper
  <2>2. SequentialInv' BY <2>0, <1>5, ThreadGoesOn DEF CheckCondition, Live
  <2>3. QED BY <2>0, <2>1, <2>2
<1>6. CASE StartAttempt(th)
  <2>0. ConfigInv' /\ UNCHANGED <<worker, config>> BY <1>4, <1>6
  <2>1. attempt' \in [TaskThreads -> Nat]
    BY <1>6 DEF StartAttempt, TypeOK
  <2>2. TypeOK'
    BY <1>1, <1>6, <2>1 DEF StartAttempt, Go, Show, TypeOK, ThreadPCs, TaskStatuses, fixed, worker, stops, stopper
  <2>3. SequentialInv' BY <2>0, <1>6, ThreadGoesOn DEF StartAttempt, Live
  <2>4. QED BY <2>0, <2>2, <2>3
<1>7. CASE StartProcess(th)
  <2>0. ConfigInv' /\ UNCHANGED <<worker, config>> BY <1>4, <1>7
  <2>1. TypeOK'
    BY <1>1, <1>2, <1>7
      DEF StartProcess, Go, Show, TypeOK, ThreadPCs, ProcessStates, TaskStatuses, fixed, worker, stops, stopper
  <2>2. SequentialInv' BY <2>0, <1>7, ThreadGoesOn DEF StartProcess, Live
  <2>3. QED BY <2>0, <2>1, <2>2
<1>8. CASE RegisterProcess(th)
  <2>0. ConfigInv' /\ UNCHANGED <<worker, config>> BY <1>4, <1>8
  <2>1. TypeOK'
    BY <1>8 DEF RegisterProcess, Go, TypeOK, ThreadPCs, fixed, worker, shown, stops, stopper
  <2>2. SequentialInv' BY <2>0, <1>8, ThreadGoesOn DEF RegisterProcess, Live
  <2>3. QED BY <2>0, <2>1, <2>2
<1>9. CASE PollProcess(th)
  <2>0. ConfigInv' /\ UNCHANGED <<worker, config>> BY <1>4, <1>9
  <2>1. TypeOK'
    BY <1>3, <1>9 DEF PollProcess, Go, TypeOK, ThreadPCs, fixed, worker, shown, stops, stopper
  <2>2. SequentialInv' BY <2>0, <1>9, ThreadGoesOn DEF PollProcess, Live
  <2>3. QED BY <2>0, <2>1, <2>2
<1>10. CASE TimeOut(th)
  <2>0. ConfigInv' /\ UNCHANGED <<worker, config>> BY <1>4, <1>10
  <2>1. TypeOK'
    BY <1>1, <1>2, <1>10 DEF TimeOut, Go, Show, TypeOK, ProcessStates, TaskStatuses, fixed, worker, stops, stopper
  <2>2. SequentialInv' BY <2>0, <1>10, ThreadGoesOn DEF TimeOut, Live
  <2>3. QED BY <2>0, <2>1, <2>2
<1>11. CASE Classify(th)
  <2>0. ConfigInv' /\ UNCHANGED <<worker, config>> BY <1>4, <1>11
  <2>1. TypeOK'
    BY <1>1, <1>2, <1>11
      DEF Classify, Go, Show, TypeOK, ThreadPCs, ProcessStates, TaskStatuses, fixed, worker, stopper
  <2>2. SequentialInv' BY <2>0, <1>11, ThreadGoesOn DEF Classify, Live
  <2>3. QED BY <2>0, <2>1, <2>2
<1>12. CASE GiveUp(th)
  <2>0. ConfigInv' /\ UNCHANGED <<worker, config>> BY <1>4, <1>12
  <2>1. TypeOK'
    BY <1>1, <1>12 DEF GiveUp, Go, Show, TypeOK, ThreadPCs, TaskStatuses, fixed, worker, stops, stopper
  <2>2. SequentialInv' BY <2>0, <1>12, ThreadGoesOn DEF GiveUp, Live
  <2>3. QED BY <2>0, <2>1, <2>2
<1>13. CASE ProcessExits(th)
  <2>0. ConfigInv' /\ UNCHANGED <<worker, config>> BY <1>4, <1>13
  <2>1. TypeOK'
    BY <1>13 DEF ProcessExits, TypeOK, ProcessStates, fixed, worker, shown, stops, stopper
  <2>2. SequentialInv' BY <2>0, <1>13, NoThreadMoves DEF ProcessExits, worker
  <2>3. QED BY <2>0, <2>1, <2>2
<1>14. CASE StreamFails(th)
  <2>0. ConfigInv' /\ UNCHANGED <<worker, config>> BY <1>4, <1>14
  <2>1. TypeOK'
    BY <1>1, <1>2, <1>14 DEF StreamFails, Go, Show, TypeOK, ProcessStates, TaskStatuses, fixed, worker, stops, stopper
  <2>2. SequentialInv' BY <2>0, <1>14, ThreadGoesOn DEF StreamFails, Live
  <2>3. QED BY <2>0, <2>1, <2>2
<1>15. CASE AttemptRaises(th)
  <2>1. TypeOK'
    BY <1>15 DEF AttemptRaises, Go, Walk, TypeOK, RunnerPCs, ThreadPCs, fixed, shown, stops, stopper
  <2>2. /\ UNCHANGED <<config, run, actual>> /\ Live(th)
        /\ \A o \in TaskThreads : Live(o)' => Live(o) /\ o # th
    BY <1>15 DEF AttemptRaises, Go, Walk, Live, TypeOK, fixed
  <2>3. ASSUME config.step_mode = "sequential", NEW o \in TaskThreads, Live(o)' PROVE FALSE
    BY <2>2, <2>3 DEF SequentialInv
  <2>4. QED BY <2>1, <2>2, <2>3 DEF SequentialInv, ConfigInv
<1>16. QED BY <1>5, <1>6, <1>7, <1>8, <1>9, <1>10, <1>11, <1>12, <1>13, <1>14, <1>15 DEF ThreadStep, ThreadGoes
-----------------------------------------------------------------------------
\* The commands, the sync thread, healing and the reset move no thread.
Outside == \/ \E t \in Tasks : StopTask(t) \/ NormalizeStop(t)
           \/ StopProject \/ CommandStep \/ HealGhost \/ DailyReset \/ BoundsReached \/ UNCHANGED vars

LEMMA OutsideKeepsInv == ASSUME Inv, Outside PROVE Inv'
<1> USE DEF Inv
<1>1. UNCHANGED <<pc, config, worker>>
  BY DEF Outside, CommandStep, StopTask, NormalizeStop, StopProject, FindTask, RejectStop, SnapshotProcesses,
         KillNext, HealGhost, DailyReset, BoundsReached, vars, fixed, thread
<1>2. SequentialInv' /\ ConfigInv'
  BY <1>1, NoThreadMoves DEF ConfigInv, worker
<1>3. ASSUME NEW t \in Tasks, StopTask(t) \/ NormalizeStop(t) PROVE TypeOK'
  BY <1>3, TaskAssumption DEF StopTask, NextCommand, NormalizeStop, Show, TypeOK, TaskStatuses,
                              fixed, worker, thread, shown, stops
<1>4. ASSUME StopProject PROVE TypeOK'
  BY <1>4, TaskAssumption DEF StopProject, NextCommand, TypeOK, fixed, worker, thread, shown
<1>5. ASSUME NEW th \in TaskThreads, Terminate(th) PROVE process' \in [TaskThreads -> ProcessStates]
  BY <1>5 DEF Terminate, Terminated, TypeOK, ProcessStates
<1>6. ASSUME FindTask PROVE TypeOK'
  <2>1. process' \in [TaskThreads -> ProcessStates]
    BY <1>5, <1>6 DEF FindTask, TypeOK
  <2>2. QED BY <1>6, <2>1 DEF FindTask, TypeOK, fixed, worker, shown, stops
<1>7. ASSUME RejectStop PROVE TypeOK'
  BY <1>7 DEF RejectStop, TypeOK, fixed, worker, thread, shown
<1>8. ASSUME SnapshotProcesses PROVE TypeOK'
  BY <1>8 DEF SnapshotProcesses, TypeOK, fixed, worker, thread, shown, stops
<1>9. ASSUME KillNext PROVE TypeOK'
  <2>1. process' \in [TaskThreads -> ProcessStates]
    BY <1>5, <1>9 DEF KillNext, TypeOK
  <2>2. requested_stops' \subseteq Tasks
    BY <1>9, ThreadsOfTasks DEF KillNext, TypeOK
  <2>3. QED BY <1>9, <2>1, <2>2 DEF KillNext, TypeOK, fixed, worker, shown
<1>10. ASSUME HealGhost \/ DailyReset PROVE TypeOK'
  BY <1>10 DEF HealGhost, DailyReset, ShowInterrupted, TypeOK, TaskStatuses, fixed, worker, thread, stopper
<1>11. ASSUME BoundsReached \/ UNCHANGED vars PROVE TypeOK'
  BY <1>11 DEF BoundsReached, vars, TypeOK, worker, thread, shown, stops, stopper
<1>12. TypeOK'
  BY <1>3, <1>4, <1>6, <1>7, <1>8, <1>9, <1>10, <1>11 DEF Outside, CommandStep
<1>13. QED BY <1>2, <1>12

LEMMA InvHolds == Spec => []Inv
<1>1. Inv /\ [Next]_vars => Inv'
  <2>1. Tasks \in SUBSET Tasks /\ Checked \in SUBSET Tasks /\ \A t \in Tasks : {t} \in SUBSET Tasks
    BY TaskAssumption
  <2>2. QED
    BY <2>1, LaunchKeepsInv, WorkerKeepsInv, ThreadKeepsInv, OutsideKeepsInv DEF Next, Outside
<1>2. QED BY InvInit, <1>1, PTL DEF Spec

\* The worker, its threads, their processes and the commands stay in their sets.
THEOREM TypeCorrect == Spec => []TypeOK
<1>1. Inv => TypeOK  BY DEF Inv
<1>2. QED BY <1>1, InvHolds, PTL

\* In sequential mode no task outlives its run, whatever the tasks, their retries
\* and the commands that stop them.
THEOREM NoOrphans == Spec => []OrphansOnlyInParallelSteps
<1>1. Inv => OrphansOnlyInParallelSteps
  BY DEF Inv, ConfigInv, SequentialInv, OrphansOnlyInParallelSteps, Orphans
<1>2. QED BY <1>1, InvHolds, PTL
-----------------------------------------------------------------------------
(* The order of the steps, and what Done means.  The worker sees how a task    *)
(* ended only in its status, which threads and commands write as well; the     *)
(* argument relates the two while the run lasts.                               *)

Begun(t) == pc[Mine(t)] # "none"

\* Whose threads there are.
ThreadsInv ==
  /\ runner # "idle" => run \in Runs
  /\ single => \E t \in Tasks : actual = {t}
  /\ runner \in {"step", "tasks"} => ~single
  /\ runner \in {"step", "tasks", "wait"} => project_status # "Done"
  /\ runner = "accepted" => step = -1 /\ \A t \in Tasks : ~Begun(t)
  /\ \A th \in TaskThreads : th[2] > run => pc[th] = "none"
  /\ run \in Runs => \A t \in Tasks : Begun(t) => t \in actual /\ (single \/ StepOf(t) <= step)
  /\ ~overlap /\ runner # "idle" => \A th \in TaskThreads : Live(th) => th[2] = run

\* A task that has failed, or whose attempt may raise, is not shown as a success until
\* the run has looked at it.  In a run
\* of one task the status is read by another rule: Waiting counts as failed.
Good == IF single THEN {"Done", "Skipped"} ELSE NonFailure
FailuresShown ==
  ~overlap /\ runner \notin {"idle", "accepted", "finally"} =>
    \A t \in actual : /\ pc[Mine(t)] \in {"popen", "last"} => status[t] \notin Good
                      /\ pc[Mine(t)] = "done" => process[Mine(t)] = "ok" \/ status[t] \notin Good

\* What the worker has got through when it is where it is.
ProgressInv ==
  ~overlap =>
    /\ run \in Runs /\ ~single => \A t \in actual : StepOf(t) < step => Succeeded(t)
    /\ runner = "step" /\ ~single => \A t \in InStep(step) : Succeeded(t)
    /\ runner = "wait" /\ ~single /\ config.step_mode = "parallel" => \A t \in InStep(step) : Begun(t)
    /\ runner = "wait" /\ single => \A t \in actual : Begun(t)
    /\ runner = "finish" => \A t \in actual : ~Live(Mine(t))
    /\ runner = "finish" /\ single => \A t \in actual : Begun(t)
    /\ runner = "finish" /\ ~single => Failing(actual) \/ \A t \in actual : Succeeded(t)
    /\ runner = "finally" /\ project_status = "Done" => \A t \in actual : Succeeded(t)

RunInv == ThreadsInv /\ FailuresShown /\ ProgressInv

LEMMA MineFacts ==
  /\ \A t \in Tasks : run \in Runs => Mine(t) \in TaskThreads
  /\ \A t : Mine(t)[2] = run /\ TaskOf(Mine(t)) = t
  /\ \A th \in TaskThreads : th[2] = run => th = Mine(TaskOf(th))
  /\ \A th \in TaskThreads : TaskOf(th) \in Tasks /\ th[2] \in Runs
  BY DEF Mine, TaskOf, TaskThreads

LEMMA StepsAreNat == ASSUME TypeOK PROVE \A t \in Tasks : StepOf(t) \in Nat
  BY TaskAssumption DEF TypeOK, StepOf

LEMMA RunInvInit == Init => RunInv
  BY TaskAssumption, MineFacts DEF Init, RunInv, ThreadsInv, FailuresShown, ProgressInv, Live, Runs

LEMMA LaunchKeepsRun ==
  ASSUME Inv, RunInv, NEW ts \in SUBSET Tasks, NEW one \in BOOLEAN, one => \E t \in Tasks : ts = {t},
         Launch(ts, one)
  PROVE  RunInv'
<1>1. /\ runner' = "accepted" /\ run' = run + 1 /\ actual' = ts /\ single' = one /\ step' = -1
      /\ UNCHANGED <<config, pc>>
      /\ ~overlap' => \A th \in TaskThreads : ~Live(th)
      /\ run \in Nat /\ run' \in Runs
  BY TaskAssumption DEF Launch, thread, Inv, TypeOK, Runs
<1>2. \A t \in Tasks : <<t, run'>> \in TaskThreads /\ pc[<<t, run'>>] = "none"
  BY <1>1 DEF TaskThreads, RunInv, ThreadsInv
<1>3. ThreadsInv'
  BY <1>1, <1>2 DEF RunInv, ThreadsInv, Begun, Mine, Live, TaskThreads, Runs
<1>4. \A t \in Tasks : StepOf(t)' \in Nat
  BY <1>1, StepsAreNat DEF StepOf, Inv
<1>5. ProgressInv'
  BY <1>1, <1>4 DEF ProgressInv
<1>6. FailuresShown'
  BY <1>1 DEF FailuresShown
<1>7. QED BY <1>3, <1>5, <1>6 DEF RunInv
-----------------------------------------------------------------------------
LEMMA WorkerKeepsRun == ASSUME Inv, RunInv, WorkerStep PROVE RunInv'
<1> USE DEF Inv, RunInv
<1>1. ASSUME BeginRun PROVE RunInv'
  <2>1. /\ runner = "accepted" /\ step = -1 /\ run \in Runs /\ actual \subseteq Tasks
        /\ \A t \in Tasks : ~Begun(t)
        /\ UNCHANGED <<config, overlap, run, actual, single, step, process>> /\ project_status' = "Running"
    BY <1>1 DEF BeginRun, Walk, fixed, ThreadsInv, TypeOK
  <2>2. \A t \in Tasks : StepOf(t) \in Nat
    BY StepsAreNat
  <2>3. ASSUME ~single, UNCHANGED pc, runner' = "step" PROVE RunInv'
    <3>1. ThreadsInv'
      BY <2>1, <2>3 DEF ThreadsInv, Begun, Mine, Live
    <3>2. FailuresShown'
      BY <2>1, <2>3 DEF FailuresShown, Begun, Mine
    <3>3. ProgressInv'
      BY <2>1, <2>2, <2>3 DEF ProgressInv, InStep, StepOf
    <3>4. QED BY <3>1, <3>2, <3>3
  <2>4. ASSUME single, NEW t \in actual, Go(Mine(t), "condition"), runner' = "wait" PROVE RunInv'
    <3>1. /\ actual = {t} /\ t \in Tasks /\ Mine(t) \in TaskThreads /\ pc'[Mine(t)] = "condition"
          /\ \A th \in TaskThreads : th # Mine(t) => pc'[th] = pc[th]
      BY <2>1, <2>4, MineFacts DEF ThreadsInv, Go, TypeOK
    <3>2. ThreadsInv'
      BY <2>1, <2>4, <3>1, MineFacts DEF ThreadsInv, Begun, Mine, Live, Runs
    <3>3. FailuresShown'
      BY <2>1, <2>4, <3>1 DEF FailuresShown, Mine
    <3>4. ProgressInv'
      BY <2>1, <2>4, <3>1 DEF ProgressInv, Begun, Mine
    <3>5. QED BY <3>2, <3>3, <3>4
  <2>5. QED BY <1>1, <2>3, <2>4 DEF BeginRun, Walk
<1>2. ASSUME BeginStep PROVE RunInv'
  <2>1. /\ runner = "step" /\ ~single /\ run \in Runs /\ actual \subseteq Tasks
        /\ UNCHANGED <<config, overlap, run, actual, single, pc, process, status, project_status>>
    BY <1>2 DEF BeginStep, Walk, fixed, thread, shown, ThreadsInv, TypeOK
  <2>2. /\ \A t \in Tasks : StepOf(t) \in Nat
        /\ step \in Nat \cup {-1}
    BY StepsAreNat DEF TypeOK
  <2>3. /\ runner' \in {"finish", "user_stop", "tasks"} /\ step' \in Nat \cup {-1} /\ step <= step'
        /\ \A t \in actual : StepOf(t) < step' => StepOf(t) <= step
        /\ runner' = "finish" => \A t \in actual : StepOf(t) <= step
    <3>1. \A t \in actual : StepOf(t) \in Nat
      BY <2>1, <2>2
    <3>2. CASE runner' = "finish" /\ UNCHANGED step
      BY <1>2, <2>2, <3>1, <3>2 DEF BeginStep, Walk
    <3>3. CASE runner' = "user_stop" /\ UNCHANGED step
      BY <2>2, <3>1, <3>3
    <3>4. CASE runner' = "tasks"
      <4>1. PICK k \in {StepOf(t) : t \in actual} :
              k > step /\ step' = k /\ \A j \in {StepOf(t) : t \in actual} : j > step => k <= j
        BY <1>2, <3>4 DEF BeginStep, Walk
      <4>2. QED BY <2>2, <3>1, <3>4, <4>1
    <3>5. QED BY <1>2, <3>2, <3>3, <3>4 DEF BeginStep, Walk
  <2>4. \A t \in actual : StepOf(t)' = StepOf(t) /\ (Succeeded(t)' <=> Succeeded(t)) /\ (Live(Mine(t))' <=> Live(Mine(t)))
    BY <2>1 DEF StepOf, Succeeded, Mine, Live
  <2>5. ~overlap => \A t \in actual : StepOf(t) <= step => Succeeded(t)
    BY <2>1, <2>2 DEF ProgressInv, InStep
  <2>6. \A t \in Tasks : Begun(t) => t \in actual /\ StepOf(t) <= step'
    BY <2>1, <2>2, <2>3 DEF ThreadsInv
  <2>7. ThreadsInv'
    BY <2>1, <2>3, <2>6 DEF ThreadsInv, Begun, Mine, Live, StepOf
  <2>8. FailuresShown'
    BY <2>1, <2>3 DEF FailuresShown, Mine, Good
  <2>9. \A t \in actual : Succeeded(t) => ~Live(Mine(t))
    BY DEF Succeeded, Live
  <2>10. ProgressInv'
    BY <2>1, <2>3, <2>4, <2>5, <2>9 DEF ProgressInv
  <2>11. QED BY <2>7, <2>8, <2>10
<1>3. ASSUME BeginTask PROVE RunInv'
  <2>1. /\ runner = "tasks" /\ ~single /\ run \in Runs /\ actual \subseteq Tasks
        /\ UNCHANGED <<config, overlap, run, actual, single, step, process, status, project_status>>
        /\ runner' \in {"wait", "tasks", "user_stop", "exception"}
    BY <1>3 DEF BeginTask, Walk, fixed, shown, ThreadsInv, TypeOK
  <2>2. ASSUME UNCHANGED pc, runner' = "wait" => \A t \in InStep(step) : Begun(t) PROVE RunInv'
    <3>1. ThreadsInv'
      BY <2>1, <2>2 DEF ThreadsInv, Begun, Mine, Live, StepOf
    <3>2. FailuresShown'
      BY <2>1, <2>2 DEF FailuresShown, Mine, Good
    <3>3. ProgressInv'
      BY <2>1, <2>2 DEF ProgressInv, Begun, Mine, StepOf, InStep, Succeeded
    <3>4. QED BY <3>1, <3>2, <3>3
  <2>3. ASSUME NEW t \in InStep(step), pc[Mine(t)] = "none", Go(Mine(t), "condition"),
               runner' = IF config.step_mode = "sequential" THEN "wait" ELSE "tasks"
        PROVE  RunInv'
    <3>1. /\ t \in actual /\ t \in Tasks /\ StepOf(t) = step /\ Mine(t) \in TaskThreads
          /\ pc'[Mine(t)] = "condition" /\ \A th \in TaskThreads : th # Mine(t) => pc'[th] = pc[th]
      BY <2>1, <2>3, MineFacts DEF InStep, Go, TypeOK
    <3>2. \A u \in Tasks : u # t => Mine(u) \in TaskThreads /\ Mine(u) # Mine(t) /\ pc'[Mine(u)] = pc[Mine(u)]
      BY <2>1, <3>1, MineFacts
    <3>3. \A u : Mine(u)' = Mine(u)
      BY <2>1 DEF Mine
    <3>4. \A u \in Tasks : StepOf(u)' = StepOf(u) /\ StepOf(u) \in Nat /\ step \in Nat \cup {-1}
      BY <2>1, StepsAreNat DEF StepOf, TypeOK
    <3>5. ThreadsInv'
      <4>1. \A th \in TaskThreads : th[2] > run => th # Mine(t)
        BY <2>1, MineFacts DEF Runs
      <4>2. \A th \in TaskThreads : Live(th)' => th[2] = run \/ Live(th)
        BY <3>1, MineFacts DEF Live
      <4>3. \A u \in Tasks : Begun(u)' => u \in actual /\ StepOf(u) <= step
        BY <2>1, <3>1, <3>2, <3>3, <3>4 DEF Begun, ThreadsInv
      <4>4. runner' \in {"wait", "tasks"}
        BY <2>3
      <4>5. QED BY <2>1, <3>1, <3>4, <4>1, <4>2, <4>3, <4>4 DEF ThreadsInv
    <3>6. FailuresShown'
      BY <2>1, <2>3, <3>1, <3>2, <3>3 DEF FailuresShown, Good
    <3>7. \A u \in actual : StepOf(u) < step => (Succeeded(u)' <=> Succeeded(u))
      BY <2>1, <3>1, <3>2, <3>3, <3>4 DEF Succeeded
    <3>8. ProgressInv'
      BY <2>1, <2>3, <3>4, <3>7 DEF ProgressInv, ConfigInv
    <3>9. QED BY <3>5, <3>6, <3>8
  <2>4. QED BY <1>3, <2>2, <2>3 DEF BeginTask, Walk, Begun
<1>4. ASSUME WaitForTasks PROVE RunInv'
  <2>1. /\ runner = "wait" /\ run \in Runs /\ actual \subseteq Tasks
        /\ UNCHANGED <<config, overlap, run, actual, single, step, pc, process, status, project_status>>
        /\ runner' \in {"finish", "tasks", "step"} /\ (single => runner' = "finish")
        /\ \A t \in actual : pc[Mine(t)] = "none" \/ Ended(Mine(t))
    BY <1>4 DEF WaitForTasks, Walk, AfterStep, fixed, thread, shown, ThreadsInv, TypeOK
  <2>2. ThreadsInv'
    BY <2>1 DEF ThreadsInv, Begun, Mine, Live, StepOf
  <2>3. FailuresShown'
    BY <2>1 DEF FailuresShown, Mine, Good
  <2>4. /\ \A t : StepOf(t)' = StepOf(t) /\ (Succeeded(t)' <=> Succeeded(t)) /\ (Live(Mine(t))' <=> Live(Mine(t)))
        /\ \A t : Begun(t)' <=> Begun(t)
        /\ InStep(step)' = InStep(step) /\ (Failing(actual)' <=> Failing(actual))
    BY <2>1 DEF StepOf, Succeeded, Live, Mine, Begun, InStep, Failing
  <2>5. ~overlap /\ runner' = "step" => \A t \in InStep(step) : Succeeded(t)
    <3> SUFFICES ASSUME ~overlap, runner' = "step", NEW t \in InStep(step) PROVE Succeeded(t)
      OBVIOUS
    <3>1. ~single /\ ~Failing(InStep(step)) /\ t \in actual
      BY <1>4, <2>1 DEF WaitForTasks, Walk, AfterStep, InStep
    <3>2. \A u \in InStep(step) : Begun(u)
      <4>1. CASE config.step_mode = "parallel"
        BY <2>1, <3>1, <4>1 DEF ProgressInv
      <4>2. CASE config.step_mode = "sequential"
        <5>1. ~Failing({u \in InStep(step) : Ended(Mine(u))})
          BY <3>1 DEF Failing
        <5>2. ~ \E u \in InStep(step) : pc[Mine(u)] = "none"
          BY <1>4, <3>1, <4>2, <5>1 DEF WaitForTasks, Walk, AfterStep
        <5>3. QED BY <5>2 DEF Begun
      <4>3. QED BY <4>1, <4>2 DEF ConfigInv
    <3>3. Ended(Mine(t)) /\ status[t] \in NonFailure
      BY <2>1, <3>1, <3>2 DEF Begun, Failing
    <3>4. QED BY <2>1, <3>1, <3>3 DEF FailuresShown, Good, Ended, Succeeded
  <2>6. runner' = "finish" => \A t \in actual : ~Live(Mine(t))
    BY <2>1 DEF Live, Ended
  <2>7. runner' = "finish" /\ ~single => Failing(actual)
    BY <1>4, <2>1 DEF WaitForTasks, Walk, AfterStep, Failing, InStep
  <2>8. ProgressInv'
    BY <2>1, <2>4, <2>5, <2>6, <2>7 DEF ProgressInv
  <2>9. QED BY <2>2, <2>3, <2>8
<1>5. ASSUME FinishRun PROVE RunInv'
  <2>1. /\ runner = "finish" /\ runner' = "finally" /\ run \in Runs
        /\ UNCHANGED <<config, overlap, run, actual, single, step, pc, process, status>>
    BY <1>5 DEF FinishRun, Walk, fixed, thread, ThreadsInv
  <2>2. \A t : StepOf(t)' = StepOf(t) /\ (Succeeded(t)' <=> Succeeded(t))
    BY <2>1 DEF StepOf, Succeeded, Mine
  <2>3. ~overlap /\ project_status' = "Done" => \A t \in actual : Succeeded(t)
    <3> SUFFICES ASSUME ~overlap, project_status' = "Done" PROVE \A t \in actual : Succeeded(t)
      OBVIOUS
    <3>1. CASE single
      <4>1. PICK t \in Tasks : actual = {t}
        BY <3>1 DEF ThreadsInv
      <4>2. (CHOOSE u \in actual : TRUE) = t
        BY <4>1
      <4>3. status[t] \in Good
        BY <1>5, <3>1, <4>2 DEF FinishRun, Good
      <4>4. Ended(Mine(t))
        BY <2>1, <3>1, <4>1 DEF ProgressInv, Begun, Live, Ended
      <4>5. QED BY <2>1, <4>1, <4>3, <4>4 DEF FailuresShown, Ended, Succeeded
    <3>2. CASE ~single
      BY <1>5, <2>1, <3>2 DEF FinishRun, ProgressInv
    <3>3. QED BY <3>1, <3>2
  <2>4. ThreadsInv'
    BY <2>1 DEF ThreadsInv, Begun, Mine, Live, StepOf
  <2>5. FailuresShown'
    BY <2>1 DEF FailuresShown
  <2>6. ProgressInv'
    BY <2>1, <2>2, <2>3 DEF ProgressInv
  <2>7. QED BY <2>4, <2>5, <2>6
<1>6. ASSUME UserStop \/ RunFails \/ EndRun PROVE RunInv'
  <2>1. /\ runner \in {"user_stop", "exception", "finally"}
        /\ runner' = "idle" \/ (runner' = "finally" /\ project_status' # "Done")
        /\ UNCHANGED <<config, overlap, run, actual, single, step, pc, process>>
    BY <1>6 DEF UserStop, RunFails, EndRun, Walk, fixed, thread
  <2>2. \A t : StepOf(t)' = StepOf(t) /\ (Succeeded(t)' <=> Succeeded(t))
    BY <2>1 DEF StepOf, Succeeded, Mine
  <2>3. ThreadsInv'
    BY <2>1 DEF ThreadsInv, Begun, Mine, Live, StepOf
  <2>4. FailuresShown'
    BY <2>1 DEF FailuresShown
  <2>5. ProgressInv'
    BY <2>1, <2>2 DEF ProgressInv
  <2>6. QED BY <2>3, <2>4, <2>5
<1>7. QED BY <1>1, <1>2, <1>3, <1>4, <1>5, <1>6 DEF WorkerStep
-----------------------------------------------------------------------------
\* A thread goes on.  It becomes "done" with exit code 0 or after a failure that is
\* shown, which nobody else has changed since into a success.
LEMMA ThreadMoveKeepsRun ==
  ASSUME Inv, RunInv, NEW th \in TaskThreads, Live(th),
         UNCHANGED <<worker, config, overlap, project_status>>,
         pc'[th] # "none",
         \A o \in TaskThreads : o # th => pc'[o] = pc[o] /\ process'[o] = process[o],
         \A t \in Tasks : t # TaskOf(th) => status'[t] = status[t],
         pc'[th] \in {"popen", "last"} => status'[TaskOf(th)] \notin NonFailure,
         pc'[th] = "done" => \/ process'[th] = "ok"
                             \/ pc[th] \in {"popen", "last"} /\ status'[TaskOf(th)] \in {status[TaskOf(th)], "FinalFailed"}
  PROVE  RunInv'
<1> USE DEF Inv, RunInv
<1>1. /\ UNCHANGED <<runner, run, actual, single, step>> /\ actual \subseteq Tasks
      /\ \A t : Mine(t)' = Mine(t) /\ StepOf(t)' = StepOf(t)
      /\ Good' = Good /\ InStep(step)' = InStep(step) /\ Good \subseteq NonFailure /\ "FinalFailed" \notin Good
  BY DEF worker, Mine, StepOf, Good, InStep, NonFailure, TypeOK
<1>2. \A t \in Tasks : run \in Runs /\ Succeeded(t) => Succeeded(t)'
  BY <1>1, MineFacts DEF Succeeded, Live
<1>3. \A t \in Tasks : run \in Runs => (Begun(t)' <=> Begun(t))
  BY <1>1, MineFacts DEF Begun, Live
<1>4. ThreadsInv'
  <2>1. \A o \in TaskThreads : o[2] > run => pc'[o] = "none"
    BY DEF ThreadsInv, Live
  <2>2. \A o \in TaskThreads : Live(o)' => Live(o)
    BY DEF Live
  <2>3. QED BY <1>1, <1>3, <2>1, <2>2 DEF ThreadsInv
<1>5. ~overlap /\ runner # "idle" => run \in Runs /\ th = Mine(TaskOf(th)) /\ TaskOf(th) \in actual
  BY MineFacts DEF ThreadsInv, Begun, Live
<1>6. FailuresShown'
  <2> SUFFICES ASSUME ~overlap, runner \notin {"idle", "accepted", "finally"}, NEW t \in actual
               PROVE  /\ pc'[Mine(t)] \in {"popen", "last"} => status'[t] \notin Good
                      /\ pc'[Mine(t)] = "done" => process'[Mine(t)] = "ok" \/ status'[t] \notin Good
    BY <1>1 DEF FailuresShown
  <2>1. CASE t = TaskOf(th)
    BY <1>1, <1>5, <2>1 DEF FailuresShown
  <2>2. CASE t # TaskOf(th)
    <3>1. Mine(t) \in TaskThreads /\ Mine(t) # th /\ t \in Tasks
      BY <1>1, <1>5, <2>2, MineFacts
    <3>2. QED BY <2>2, <3>1 DEF FailuresShown
  <2>3. QED BY <2>1, <2>2
<1>7. runner = "finish" => overlap
  BY <1>5 DEF ProgressInv
<1>8. ProgressInv'
  <2>1. runner # "idle" => run \in Runs
    BY DEF ThreadsInv
  <2>2. InStep(step) \subseteq Tasks
    BY <1>1 DEF InStep
  <2>3. QED BY <1>1, <1>2, <1>3, <1>7, <2>1, <2>2 DEF ProgressInv
<1>9. QED BY <1>4, <1>6, <1>8

\* The exception of a thread reaches the worker, or it does not.
LEMMA RaiseKeepsRun ==
  ASSUME Inv, RunInv, NEW th \in TaskThreads, AttemptRaises(th) PROVE RunInv'
<1> USE DEF Inv, RunInv
<1>1. /\ UNCHANGED <<run, actual, single, step, config, overlap, status, project_status, process>>
      /\ pc[th] = "popen" /\ pc'[th] = "done" /\ TaskOf(th) \in Tasks
      /\ \A o \in TaskThreads : o # th => pc'[o] = pc[o]
  BY ThreadsOfTasks DEF AttemptRaises, Go, Walk, fixed, shown, TypeOK
<1>2. CASE UNCHANGED runner
  <2>1. UNCHANGED worker /\ Live(th)
    BY <1>1, <1>2 DEF worker, Live
  <2>2. QED BY <1>1, <2>1, ThreadMoveKeepsRun
<1>3. CASE runner = "wait" /\ th[2] = run /\ runner' = IF single THEN "finally" ELSE "exception"
  <2>1. /\ run \in Runs /\ th = Mine(TaskOf(th)) /\ actual \subseteq Tasks
        /\ \A t : Mine(t)' = Mine(t) /\ StepOf(t)' = StepOf(t)
        /\ Good' = Good /\ InStep(step)' = InStep(step)
    BY <1>1, <1>3, MineFacts DEF ThreadsInv, Mine, StepOf, Good, InStep, TypeOK
  <2>2. /\ \A t \in Tasks : Succeeded(t) => Succeeded(t)'
        /\ \A t \in Tasks : Begun(t)' <=> Begun(t)
        /\ \A o \in TaskThreads : Live(o)' => Live(o)
    BY <1>1, <2>1, MineFacts DEF Succeeded, Begun, Live
  <2>3. ThreadsInv'
    BY <1>1, <1>3, <2>1, <2>2 DEF ThreadsInv, Runs
  <2>4. FailuresShown'
    <3> SUFFICES ASSUME ~overlap, ~single, NEW t \in actual
                 PROVE  /\ pc'[Mine(t)] \in {"popen", "last"} => status[t] \notin Good
                        /\ pc'[Mine(t)] = "done" => process[Mine(t)] = "ok" \/ status[t] \notin Good
      BY <1>1, <1>3, <2>1 DEF FailuresShown
    <3>1. Mine(t) \in TaskThreads
      BY <2>1, MineFacts
    <3>2. QED BY <1>1, <1>3, <2>1, <3>1, MineFacts DEF FailuresShown
  <2>5. ProgressInv'
    BY <1>1, <1>3, <2>1, <2>2 DEF ProgressInv, ThreadsInv
  <2>6. QED BY <2>3, <2>4, <2>5
<1>4. QED BY <1>2, <1>3 DEF AttemptRaises, Walk

LEMMA ThreadKeepsRun ==
  ASSUME Inv, RunInv, NEW th \in TaskThreads, ThreadStep(th) PROVE RunInv'
<1> SUFFICES ASSUME ~AttemptRaises(th) PROVE RunInv'
  BY RaiseKeepsRun
<1>1. /\ UNCHANGED <<worker, config, overlap, project_status>> /\ Live(th) /\ TaskOf(th) \in Tasks
      /\ \A o \in TaskThreads : o # th => pc'[o] = pc[o] /\ process'[o] = process[o]
  BY ThreadsOfTasks
     DEF ThreadStep, ThreadGoes, CheckCondition, StartAttempt, StartProcess, RegisterProcess, PollProcess, TimeOut, StreamFails,
         Classify, GiveUp, Go, Live, fixed, shown, Inv, TypeOK
<1>2. \A t \in Tasks : t # TaskOf(th) => status'[t] = status[t]
  BY DEF ThreadStep, ThreadGoes, CheckCondition, StartAttempt, StartProcess, RegisterProcess, PollProcess, TimeOut, StreamFails,
         Classify, GiveUp, Show, shown, Inv, TypeOK
<1>3. AfterFailure(th) \in {"attempt", "last"}
  BY DEF AfterFailure
<1>4. pc'[th] # "none" /\ (pc'[th] \in {"popen", "last"} => status'[TaskOf(th)] \notin NonFailure)
  BY <1>1, <1>3
     DEF ThreadStep, ThreadGoes, CheckCondition, StartAttempt, StartProcess, RegisterProcess, PollProcess, TimeOut, StreamFails,
         Classify, GiveUp, Go, Show, NonFailure, Inv, TypeOK
<1>5. pc'[th] = "done" => \/ process'[th] = "ok"
                          \/ pc[th] \in {"popen", "last"} /\ status'[TaskOf(th)] \in {status[TaskOf(th)], "FinalFailed"}
  <2> SUFFICES ASSUME pc'[th] = "done"
               PROVE  \/ process'[th] = "ok"
                      \/ pc[th] \in {"popen", "last"} /\ status'[TaskOf(th)] \in {status[TaskOf(th)], "FinalFailed"}
    OBVIOUS
  <2>1. pc \in [TaskThreads -> ThreadPCs] /\ status \in [Tasks -> TaskStatuses]
    BY DEF Inv, TypeOK
  <2>2. Classify(th) \/ GiveUp(th)
    BY <1>3, <2>1
       DEF ThreadStep, ThreadGoes, CheckCondition, StartAttempt, StartProcess, RegisterProcess, PollProcess, TimeOut, StreamFails, Go
  <2>3. CASE Classify(th)
    BY <1>3, <2>1, <2>3 DEF Classify, Go
  <2>4. CASE GiveUp(th)
    BY <1>1, <2>1, <2>4 DEF GiveUp, Show
  <2>5. QED BY <2>2, <2>3, <2>4
<1>6. QED BY <1>1, <1>2, <1>4, <1>5, ThreadMoveKeepsRun
-----------------------------------------------------------------------------
\* Commands, the sync thread, healing and the reset show no failed task of a run that
\* is under way as a success.
LEMMA OutsideKeepsRun ==
  ASSUME Inv, RunInv, Outside \/ \E th \in TaskThreads : ProcessExits(th) PROVE RunInv'
<1> USE DEF Inv, RunInv
<1>1. /\ UNCHANGED <<pc, config, overlap, runner, run, actual, single, step>>
      /\ project_status' = "Done" => project_status = "Done"
  BY DEF Outside, CommandStep, StopTask, NormalizeStop, StopProject, FindTask, RejectStop, SnapshotProcesses,
         KillNext, HealGhost, DailyReset, BoundsReached, ProcessExits, vars, fixed, thread, worker, shown
<1>2. \A o \in TaskThreads : ~Alive(o) => process'[o] = process[o]
  BY DEF Outside, CommandStep, StopTask, NormalizeStop, StopProject, FindTask, RejectStop, SnapshotProcesses,
         KillNext, HealGhost, DailyReset, BoundsReached, ProcessExits, Terminate, Terminated, Alive, vars, thread, TypeOK
<1>3. \A t \in Tasks : \/ status'[t] = status[t]
                       \/ status'[t] = "Stopped" /\ status[t] \notin NonFailure
                       \/ (runner = "idle" \/ single) /\ status'[t] \in {"Waiting", "SystemError"}
  BY DEF Outside, CommandStep, StopTask, NormalizeStop, StopProject, FindTask, RejectStop, SnapshotProcesses,
         KillNext, HealGhost, DailyReset, BoundsReached, ProcessExits, ShowInterrupted, LooksDead, Show, NonFailure,
         vars, shown, TypeOK
<1>4. \A t : /\ Mine(t)' = Mine(t) /\ StepOf(t)' = StepOf(t) /\ (Begun(t)' <=> Begun(t))
             /\ Live(Mine(t))' <=> Live(Mine(t))
  BY <1>1 DEF Mine, StepOf, Begun, Live
<1>5. \A t \in Tasks : run \in Runs /\ Succeeded(t) => Succeeded(t)'
  BY <1>1, <1>2, <1>4, MineFacts DEF Succeeded, Alive
<1>6. ThreadsInv'
  BY <1>1, <1>4 DEF ThreadsInv, Live
<1>7. \A t \in Tasks : runner # "idle" /\ status[t] \notin Good => status'[t] \notin Good
  BY <1>3 DEF Good, NonFailure
<1>8. FailuresShown'
  <2> SUFFICES ASSUME ~overlap, runner \notin {"idle", "accepted", "finally"}, NEW t \in actual
               PROVE  /\ pc[Mine(t)] \in {"popen", "last"} => status'[t] \notin Good
                      /\ pc[Mine(t)] = "done" => process'[Mine(t)] = "ok" \/ status'[t] \notin Good
    BY <1>1, <1>4 DEF FailuresShown, Good
  <2>1. t \in Tasks /\ Mine(t) \in TaskThreads
    BY MineFacts DEF ThreadsInv, TypeOK
  <2>2. process[Mine(t)] = "ok" => process'[Mine(t)] = "ok"
    BY <1>2, <2>1 DEF Alive
  <2>3. QED BY <1>7, <2>1, <2>2 DEF FailuresShown
<1>9. ProgressInv'
  <2>1. /\ actual \subseteq Tasks /\ (runner # "idle" => run \in Runs)
        /\ InStep(step)' = InStep(step) /\ InStep(step) \subseteq Tasks
    BY <1>1 DEF ThreadsInv, InStep, StepOf, TypeOK
  <2>2. runner = "finish" /\ ~single /\ Failing(actual) => Failing(actual)'
    BY <1>1, <1>7, <2>1 DEF Failing, Good
  <2>3. QED BY <1>1, <1>4, <1>5, <2>1, <2>2 DEF ProgressInv
<1>10. QED BY <1>6, <1>8, <1>9

LEMMA RunInvHolds == Spec => [](Inv /\ RunInv)
<1>1. Inv /\ RunInv /\ [Next]_vars => (Inv /\ RunInv)'
  <2>1. Tasks \in SUBSET Tasks /\ Checked \in SUBSET Tasks /\ \A t \in Tasks : {t} \in SUBSET Tasks
    BY TaskAssumption
  <2>2. QED
    BY <2>1, LaunchKeepsInv, WorkerKeepsInv, ThreadKeepsInv, OutsideKeepsInv,
       LaunchKeepsRun, WorkerKeepsRun, ThreadKeepsRun, OutsideKeepsRun DEF Next, Outside
<1>2. QED BY InvInit, RunInvInit, <1>1, PTL DEF Spec

\* No task of a later step is executed before every task of the earlier steps has ended
\* well, for any number of tasks, steps, retries and commands, unless threads of an
\* earlier parallel run were still alive when the run was launched.
THEOREM StepsFollow == Spec => []StepsInOrder
<1>1. Inv /\ RunInv => StepsInOrder
  <2> SUFFICES ASSUME Inv, RunInv, NEW th \in TaskThreads, Live(th), th[2] = run, ~single, ~overlap,
                      NEW t \in actual, StepOf(t) < StepOf(TaskOf(th))
               PROVE  Succeeded(t)
    BY DEF StepsInOrder
  <2>1. run \in Runs /\ th = Mine(TaskOf(th)) /\ TaskOf(th) \in Tasks
    BY MineFacts
  <2>2. StepOf(TaskOf(th)) <= step
    BY <2>1 DEF RunInv, ThreadsInv, Begun, Live
  <2>3. /\ StepOf(t) \in Nat /\ StepOf(TaskOf(th)) \in Nat /\ step \in Nat \cup {-1}
    BY <2>1, StepsAreNat DEF Inv, TypeOK
  <2>4. QED BY <2>1, <2>2, <2>3 DEF RunInv, ProgressInv
<1>2. QED BY <1>1, RunInvHolds, PTL

\* A run that is shown as Done has executed all its tasks, each with exit code 0 or
\* skipped by its condition: the statuses the worker reads tell what the threads did.
THEOREM DoneMeansDone == Spec => []DoneRunSucceeded
<1>1. Inv /\ RunInv => DoneRunSucceeded
  BY DEF RunInv, ProgressInv, DoneRunSucceeded
<1>2. QED BY <1>1, RunInvHolds, PTL

\* Wherever the worker is when the project is stopped, a run that ends after the stop is
\* shown as Stopped and not as Done or Error.
THEOREM StopIsShown == Spec => StoppedRunEndsStopped
<1> DEFINE Step == (/\ runner \in {"step", "tasks", "wait", "finish", "user_stop"}
                    /\ stop_requested /\ ~single /\ runner' = "finally") => (project_status' = "Stopped")
<1>1. ASSUME [Next]_vars PROVE Step
  <2>1. CASE WorkerStep
    BY <2>1 DEF WorkerStep, BeginRun, BeginStep, BeginTask, WaitForTasks, AfterStep, FinishRun, UserStop, RunFails,
                EndRun, Walk
  <2>2. CASE \E ts \in SUBSET Tasks, one \in BOOLEAN : Launch(ts, one)
    BY <2>2 DEF Launch
  <2>3. CASE \E th \in TaskThreads : ThreadStep(th) \/ ProcessExits(th)
    <3>1. UNCHANGED runner \/ single \/ runner' = "exception"
      BY <2>3 DEF ThreadStep, ThreadGoes, CheckCondition, StartAttempt, StartProcess, AttemptRaises, RegisterProcess, PollProcess,
                  TimeOut, StreamFails, Classify, GiveUp, ProcessExits, Walk, worker
    <3>2. QED BY <3>1
  <2>4. CASE Outside
    <3>1. UNCHANGED runner
      BY <2>4 DEF Outside, CommandStep, StopTask, NormalizeStop, StopProject, FindTask, RejectStop, SnapshotProcesses,
                  KillNext, HealGhost, DailyReset, BoundsReached, vars, worker
    <3>2. QED BY <3>1
  <2>5. Tasks \in SUBSET Tasks /\ Checked \in SUBSET Tasks /\ \A t \in Tasks : {t} \in SUBSET Tasks
    BY TaskAssumption
  <2>6. QED BY <1>1, <2>1, <2>2, <2>3, <2>4, <2>5 DEF Next, Outside
<1>2. QED BY <1>1, PTL DEF Spec, StoppedRunEndsStopped
-----------------------------------------------------------------------------
(* prev_success.  In sequential mode one thread is live at a time, so between *)
(* the check of a task's condition and the end of its last attempt nobody    *)
(* writes the status of another task of the run.  A sync that normalizes      *)
(* stops leaves Done alone, and healing and reset find the run alive.         *)

CheckedPCs == {"attempt", "popen", "append", "poll", "classify", "last"}
LowerDone(t) == \A u \in Tasks : StepOf(u) = StepOf(t) /\ OrderOf(u) < OrderOf(t) => status[u] = "Done"

SequenceInv ==
  config.step_mode = "sequential" =>
    /\ \A th \in TaskThreads : Alive(th) => pc[th] \in {"append", "poll"}
    /\ \A th \in TaskThreads :
         pc[th] \in CheckedPCs /\ Condition(TaskOf(th)) = "prev_success" /\ ~single => LowerDone(TaskOf(th))

\* A step of the worker, a launch, healing or the reset, where no thread is live.
LEMMA NoThreadWasLive ==
  ASSUME TypeOK, SequenceInv, UNCHANGED <<config, process>>,
         config.step_mode = "sequential" => \A th \in TaskThreads : ~Live(th),
         UNCHANGED pc \/ \E th \in TaskThreads : Go(th, "condition")
  PROVE  SequenceInv'
<1> SUFFICES ASSUME config.step_mode = "sequential", \A th \in TaskThreads : ~Live(th) PROVE SequenceInv'
  BY DEF SequenceInv
<1>1. \A th \in TaskThreads : pc[th] \in {"none", "done", "skipped"} /\ ~Alive(th)
  BY DEF SequenceInv, Live
<1>2. CASE UNCHANGED pc
  BY <1>1, <1>2 DEF SequenceInv, Live, Alive, CheckedPCs
<1>3. ASSUME NEW th \in TaskThreads, Go(th, "condition") PROVE SequenceInv'
  <2>1. \A o \in TaskThreads : pc'[o] = IF o = th THEN "condition" ELSE pc[o]
    BY <1>3 DEF Go, TypeOK
  <2>2. QED BY <1>1, <2>1 DEF SequenceInv, Live, Alive, CheckedPCs
<1>4. QED BY <1>2, <1>3

LEMMA WorkerKeepsSequence ==
  ASSUME Inv, SequenceInv, WorkerStep \/ \E ts \in SUBSET Tasks, one \in BOOLEAN : Launch(ts, one)
  PROVE  SequenceInv'
<1>1. UNCHANGED <<config, process>>
  BY DEF WorkerStep, BeginRun, BeginStep, BeginTask, WaitForTasks, FinishRun, UserStop, RunFails, EndRun, Launch,
         fixed, thread
<1>2. config.step_mode = "sequential" => \A th \in TaskThreads : ~Live(th)
  <2>1. CASE runner = "wait"
    <3>1. \A t \in actual : pc[Mine(t)] = "none" \/ Ended(Mine(t))
      BY <2>1 DEF WorkerStep, BeginRun, BeginStep, BeginTask, WaitForTasks, FinishRun, UserStop, RunFails, EndRun, Launch
    <3>2. SUFFICES ASSUME config.step_mode = "sequential", NEW th \in TaskThreads, Live(th) PROVE FALSE
      OBVIOUS
    <3>3. th[2] = run /\ TaskOf(th) \in actual
      BY <3>2 DEF Inv, SequentialInv
    <3>4. th = Mine(TaskOf(th))
      BY <3>3 DEF TaskThreads, Mine, TaskOf
    <3>5. QED BY <3>1, <3>2, <3>3, <3>4 DEF Live, Ended
  <2>2. CASE runner # "wait"
    BY <2>2 DEF Inv, SequentialInv
  <2>3. QED BY <2>1, <2>2
<1>3. UNCHANGED pc \/ \E th \in TaskThreads : Go(th, "condition")
  <2>1. ASSUME NEW t \in actual, Go(Mine(t), "condition") PROVE UNCHANGED pc \/ \E th \in TaskThreads : Go(th, "condition")
    <3>1. CASE Mine(t) \in TaskThreads
      BY <2>1, <3>1
    <3>2. CASE Mine(t) \notin TaskThreads
      BY <2>1, <3>2 DEF Go, Inv, TypeOK
    <3>3. QED BY <3>1, <3>2
  <2>2. QED
    BY <2>1 DEF WorkerStep, BeginRun, BeginStep, BeginTask, WaitForTasks, FinishRun, UserStop, RunFails, EndRun, Launch,
         fixed, thread, InStep
<1>4. QED BY <1>1, <1>2, <1>3, NoThreadWasLive DEF Inv

LEMMA ThreadKeepsSequence ==
  ASSUME Inv, SequenceInv, NEW th \in TaskThreads, ThreadStep(th) PROVE SequenceInv'
<1> SUFFICES ASSUME config.step_mode = "sequential" PROVE SequenceInv'
  BY DEF ThreadStep, ThreadGoes, CheckCondition, StartAttempt, StartProcess, AttemptRaises,
         RegisterProcess, PollProcess, TimeOut, StreamFails, Classify,
         GiveUp, fixed, SequenceInv
<1>. DEFINE t == TaskOf(th)
<1>1. /\ UNCHANGED <<config, single>>
      /\ \A o \in TaskThreads : o # th => pc'[o] = pc[o] /\ process'[o] = process[o]
      /\ \A u \in Tasks : u # t => status'[u] = status[u]
      /\ Live(th)
  BY DEF Inv, TypeOK, ThreadStep, ThreadGoes, CheckCondition, StartAttempt, StartProcess, AttemptRaises,
         RegisterProcess, PollProcess, TimeOut, StreamFails, Classify, GiveUp, fixed, worker, Walk, Go, Show, Live, shown
<1>2. \A o \in TaskThreads : Live(o) => o = th
  BY <1>1 DEF Inv, SequentialInv
<1>3. \A o \in TaskThreads : Live(o)' => o = th
  BY <1>1, <1>2 DEF Live
<1>4. Alive(th)' => pc'[th] \in {"append", "poll"}
  <2>1. pc[th] \in {"append", "poll"} \/ ~Alive(th)
    BY DEF SequenceInv
  <2>2. QED
    BY <2>1 DEF Inv, TypeOK, ThreadStep, ThreadGoes, CheckCondition, StartAttempt, StartProcess, AttemptRaises,
         RegisterProcess, PollProcess, TimeOut, StreamFails, Classify, GiveUp, Terminated, Go, Alive, AfterFailure
<1>5. \A o \in TaskThreads : Alive(o)' => pc'[o] \in {"append", "poll"}
  BY <1>1, <1>4 DEF Alive, SequenceInv
<1>6. ASSUME pc'[th] \in CheckedPCs, Condition(t) = "prev_success", ~single PROVE LowerDone(t)'
  <2>1. CASE pc[th] = "condition"
    BY <1>1, <1>6, <2>1 DEF Inv, TypeOK, ThreadStep, ThreadGoes, CheckCondition, StartAttempt, StartProcess, AttemptRaises,
         RegisterProcess, PollProcess, TimeOut, StreamFails, Classify, GiveUp, Go, ConditionMayHold, LowerDone, CheckedPCs, StepOf, OrderOf
  <2>2. CASE pc[th] # "condition"
    <3>1. pc[th] \in CheckedPCs
      BY <1>1, <2>2 DEF Live, CheckedPCs, Inv, TypeOK, ThreadPCs
    <3>2. LowerDone(t)
      BY <1>6, <3>1 DEF SequenceInv
    <3>3. t \in Tasks /\ OrderOf(t) \in Nat
      BY ThreadsOfTasks, TaskAssumption DEF Inv, TypeOK, OrderOf
    <3>4. QED BY <1>1, <3>2, <3>3 DEF LowerDone, StepOf, OrderOf
  <2>3. QED BY <2>1, <2>2
<1>7. \A o \in TaskThreads :
        pc'[o] \in CheckedPCs /\ Condition(TaskOf(o)) = "prev_success" /\ ~single => LowerDone(TaskOf(o))'
  BY <1>3, <1>6 DEF Live, CheckedPCs
<1>8. QED BY <1>1, <1>3, <1>5, <1>7 DEF SequenceInv, Condition

LEMMA OutsideKeepsSequence ==
  ASSUME Inv, SequenceInv, Outside \/ \E th \in TaskThreads : ProcessExits(th) PROVE SequenceInv'
<1>1. UNCHANGED <<config, pc, worker>>
  BY DEF Outside, StopTask, NormalizeStop, StopProject, CommandStep, FindTask, RejectStop, SnapshotProcesses, KillNext,
     ProcessExits, HealGhost, DailyReset, BoundsReached, fixed, thread, worker, vars
<1>2. \A th \in TaskThreads : Alive(th)' => Alive(th)
  BY DEF Outside, StopTask, NormalizeStop, StopProject, CommandStep, FindTask, RejectStop, SnapshotProcesses, KillNext,
     ProcessExits, HealGhost, DailyReset, BoundsReached, thread, vars, Terminate, Terminated, Alive, Inv, TypeOK
<1>3. CASE LooksDead /\ (HealGhost \/ DailyReset)
  <2>1. CASE runner = "idle"
    <3>1. config.step_mode = "sequential" => \A th \in TaskThreads : ~Live(th)
      BY <2>1 DEF Inv, SequentialInv
    <3>2. UNCHANGED process
      BY <1>3 DEF HealGhost, DailyReset, thread
    <3>3. QED BY <1>1, <3>1, <3>2, NoThreadWasLive DEF Inv
  <2>2. CASE single
    BY <1>1, <1>2, <2>2 DEF SequenceInv, Live, worker
  <2>3. QED BY <1>3, <2>1, <2>2 DEF LooksDead
<1>4. CASE \A u \in Tasks : status[u] = "Done" => status'[u] = "Done"
  BY <1>1, <1>2, <1>4 DEF SequenceInv, Live, worker, Condition, LowerDone, StepOf, OrderOf
<1>5. CASE \E t \in Tasks : NormalizeStop(t)
  BY <1>4, <1>5 DEF NormalizeStop, Show, Inv, TypeOK
<1>6. QED
  BY <1>3, <1>4, <1>5 DEF Outside, StopTask, StopProject, CommandStep, FindTask, RejectStop, SnapshotProcesses, KillNext,
     ProcessExits, HealGhost, DailyReset, BoundsReached, shown, vars

\* In a run in sequential mode no process of a task under prev_success is alive while a
\* task of lower order in its step is shown as anything but Done, with any number of
\* tasks, retries, time limits and stop commands.
THEOREM PrevSuccessHolds == Spec => []PrevSuccessHonoured
<1>1. Init => SequenceInv
  BY DEF Init, SequenceInv, Alive, Live, CheckedPCs
<1>2. Inv /\ SequenceInv /\ [Next]_vars => SequenceInv'
  <2>1. ASSUME SequenceInv, UNCHANGED vars PROVE SequenceInv'
    BY <2>1 DEF SequenceInv, vars, worker, thread, shown, Alive, Live, Condition, LowerDone, StepOf, OrderOf
  <2>2. Next => \/ WorkerStep \/ (\E ts \in SUBSET Tasks, one \in BOOLEAN : Launch(ts, one))
                \/ (\E th \in TaskThreads : ThreadStep(th)) \/ (\E th \in TaskThreads : ProcessExits(th)) \/ Outside
    <3>1. Tasks \in SUBSET Tasks /\ Checked \in SUBSET Tasks /\ \A t \in Tasks : {t} \in SUBSET Tasks
      BY TaskAssumption
    <3>2. QED BY <3>1 DEF Next, Outside
  <2>3. QED BY <2>1, <2>2, WorkerKeepsSequence, ThreadKeepsSequence, OutsideKeepsSequence
<1>3. SequenceInv => PrevSuccessHonoured
  BY DEF SequenceInv, PrevSuccessHonoured, LowerDone, CheckedPCs
<1>4. QED BY <1>1, <1>2, <1>3, InvHolds, PTL DEF Spec

\* A noted stop of a task goes with the step that shows the task as Stopped, or with the
\* rejection of a stop of this task, whichever of its threads takes it.
THEOREM StopsAreShown == Spec => NotedStopIsShown
<1> DEFINE Step == \A th \in TaskThreads : LET t == TaskOf(th) IN
       (process[th] = "stopped" /\ pc[th] \in {"poll", "classify"} /\ Orphans = {} /\ ~overlap
          /\ t \in requested_stops \ requested_stops')
         => (status'[t] = "Stopped" \/ (command = "discard" /\ target = t))
<1>1. ASSUME Inv, [Next]_vars, NEW t \in requested_stops \ requested_stops'
      PROVE  status'[t] = "Stopped" \/ (command = "discard" /\ target = t)
  <2>1. (\E th \in TaskThreads : Classify(th)) \/ RejectStop
    BY <1>1 DEF Next, Launch, WorkerStep, BeginRun, BeginStep, BeginTask, WaitForTasks, FinishRun, UserStop, RunFails,
       EndRun, ThreadStep, ThreadGoes, CheckCondition, StartAttempt, StartProcess, AttemptRaises, RegisterProcess,
       PollProcess, TimeOut, StreamFails, GiveUp,
       ProcessExits, StopTask, NormalizeStop, StopProject, CommandStep, FindTask, SnapshotProcesses, KillNext,
       HealGhost, DailyReset, BoundsReached, stops, vars
  <2>2. ASSUME NEW th \in TaskThreads, Classify(th) PROVE status'[t] = "Stopped"
    <3>1. t = TaskOf(th) /\ Show(t, "Stopped")
      BY <1>1, <2>2 DEF Classify
    <3>2. QED BY <1>1, <3>1 DEF Show, Inv, TypeOK
  <2>3. RejectStop => command = "discard" /\ target = t
    BY <1>1 DEF RejectStop
  <2>4. QED BY <2>1, <2>2, <2>3
<1>2. ASSUME Inv, [Next]_vars PROVE Step
  BY <1>1, <1>2
<1>3. QED BY <1>2, InvHolds, PTL DEF Spec, NotedStopIsShown
=============================================================================

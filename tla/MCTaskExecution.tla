-------------------------- MODULE MCTaskExecution --------------------------
(* Projects of two tasks: in one step, the second under prev_success, and in *)
(* two steps, the first with a retry and the second under file_exists.       *)
EXTENDS TaskExecution, TLC
CONSTANTS a, b
AllTasks == {a, b}
OneStep(mode) ==
  [step_mode |-> mode, step |-> a :> 1 @@ b :> 1, order |-> a :> 0 @@ b :> 1,
   condition |-> a :> "always" @@ b :> "prev_success", max_retries |-> a :> 0 @@ b :> 0, timeout |-> {a}]
TwoSteps ==
  [step_mode |-> "sequential", step |-> a :> 1 @@ b :> 2, order |-> a :> 0 @@ b :> 0,
   condition |-> a :> "always" @@ b :> "file_exists", max_retries |-> a :> 1 @@ b :> 0, timeout |-> {b}]
MCConfigs == {OneStep("sequential"), OneStep("parallel"), TwoSteps}
=============================================================================

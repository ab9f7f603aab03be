---------------------------- MODULE RunLedgerProofs ----------------------------
(* Theorems about RunLedger, for any projects, commands, rows, crashes and      *)
(* reloads.                                                                     *)
EXTENDS RunLedger, TLAPS

Registered == {"created", "executing", "ended"}

\* A run is registered up to the pop of its worker ...
EntryInv == \A r \in RunIds : worker[r] \in Registered <=> active_run_ids[run_project[r]] = r

\* ... its row and its worker are of this process until the finish hook has returned ...
WorkerInv == \A r \in RunIds : worker[r] # "none" => project_runs[r] # "none" /\ r \in own_runs

\* ... and a registered run with the worker of another run of the project beside it has
\* overtaken that.
OvertakingInv ==
  \A q, r \in RunIds : (q # r /\ run_project[q] = run_project[r] /\ worker[q] # "none" /\ worker[r] \in Registered)
                        => r \in overtaking

\* Heartbeats are for rows of this process; a dead process has no threads.
ThreadInv ==
  /\ \A b \in beats : b[2] \in own_runs /\ project_runs[b[2]] # "none"
  /\ ~up => /\ beats = {} /\ \A r \in RunIds : worker[r] = "none"
            /\ \A p \in Projects : active_run_ids[p] = NoRun

RowInv == /\ EntryInv /\ WorkerInv /\ OvertakingInv /\ ThreadInv
          /\ ActiveRunIsRecorded /\ NoRunSurvivesRestart

\* A command is carried out between its marks "running" and "completed".
CommandInv ==
  /\ \A c \in Commands : carried_out[c] \in {0, 1}
  /\ \A c \in Commands : engine_commands[c] \in {"none", "pending"} => carried_out[c] = 0
  /\ \A c \in Commands : engine_commands[c] = "completed" => carried_out[c] = 1
  /\ command_at # "idle" => command \in Commands /\ engine_commands[command] = "running" /\ up
  /\ command_at = "execute" => carried_out[command] = 0
  /\ command_at \in {"accepted", "rejected"} => carried_out[command] = 1

Inv == TypeOK /\ RowInv /\ CommandInv

LEMMA NoRunIsNoRow == NoRun \notin RunIds
  BY LedgerAssumption DEF RunIds

\* A payload has a status of the core for each listed project.
LEMMA PayloadType ==
  ASSUME NEW names, NEW statuses \in [Projects -> CoreStatuses]
  PROVE  Payload(names, statuses) \in [Projects -> CoreStatuses \cup {"absent"}]
  BY DEF Payload

LEMMA InvInit == Init => Inv
<1> SUFFICES ASSUME Init PROVE Inv
  OBVIOUS
<1>1. PICK first \in Projects : first = CHOOSE q \in Projects : TRUE
  BY LedgerAssumption
<1>2. TypeOK
  <2>1. << >> \in {<< >>} \cup [Projects -> CoreStatuses \cup {"absent"}]
    OBVIOUS
  <2>2. snapshot \in [Syncers -> {<< >>} \cup [Projects -> CoreStatuses \cup {"absent"}]]
    BY <2>1 DEF Init, Idle
  <2>3. "Waiting" \in CoreStatuses /\ "absent" \in RowStatuses /\ "none" \in RunStatuses /\ "none" \in WorkerAt
    BY DEF RowStatuses, CoreStatuses, RunStatuses, WorkerAt
  <2>4. /\ run_project \in [RunIds -> Projects] /\ command_project \in [Commands -> Projects]
        /\ state_status \in [Projects -> RowStatuses] /\ status \in [Projects -> CoreStatuses]
        /\ project_runs \in [RunIds -> RunStatuses] /\ worker \in [RunIds -> WorkerAt]
    BY <1>1, <2>3 DEF Init, Idle
  <2>5. crashes \in 0 .. MaxCrashes /\ reloads \in 0 .. MaxReloads
    BY LedgerAssumption DEF Init
  <2>6. QED BY <2>2, <2>4, <2>5 DEF Init, Idle, TypeOK
<1>3. RowInv
  <2>1. \A r \in RunIds : active_run_ids[run_project[r]] # r
    BY <1>2, NoRunIsNoRow DEF Init, Idle, TypeOK
  <2>2. /\ beats = {} /\ \A r \in RunIds : worker[r] = "none"
        /\ \A p \in Projects : active_run_ids[p] = NoRun
        /\ ~up
    BY DEF Init, Idle
  <2>3. EntryInv
    BY <2>1, <2>2 DEF EntryInv, Registered
  <2>4. WorkerInv /\ OvertakingInv /\ ThreadInv
    BY <2>2 DEF WorkerInv, OvertakingInv, ThreadInv
  <2>5. QED BY <2>2, <2>3, <2>4 DEF RowInv, ActiveRunIsRecorded, NoRunSurvivesRestart
<1>4. CommandInv
  BY DEF Init, Idle, CommandInv
<1>5. QED BY <1>2, <1>3, <1>4 DEF Inv

\* A step that leaves the command loop and its table alone.
LEMMA CommandsStay ==
  ASSUME CommandInv, UNCHANGED <<command_rows, loop, carried_out, up>> PROVE CommandInv'
  BY DEF CommandInv, command_rows, loop

\* A step that leaves runs, their rows and the pointers to them alone.
LEMMA RowsStay ==
  ASSUME RowInv, UNCHANGED <<project_runs, run_project, active_run_id, up, active_run_ids, worker, beats, own_runs, races>>
  PROVE  RowInv'
  BY DEF RowInv, EntryInv, WorkerInv, OvertakingInv, ThreadInv, ActiveRunIsRecorded, NoRunSurvivesRestart,
         InHand, IsLive, races
-----------------------------------------------------------------------------
(* Start and crash.                                                           *)

\* What a write of a payload leaves in the rows of the projects.
LEMMA WriteStatusesType ==
  ASSUME NEW payload \in [Projects -> CoreStatuses \cup {"absent"}],
         NEW rows \in [Projects -> RowStatuses], WriteStatuses(payload, rows)
  PROVE  project_rows' \subseteq Projects /\ state_status' \in [Projects -> RowStatuses]
  BY DEF WriteStatuses, RowStatuses

LEMMA StartKeepsInv == ASSUME Inv, Start PROVE Inv'
<1> USE DEF Inv
<1>1. /\ ~up /\ up' = TRUE
      /\ project_runs' = [r \in RunIds |-> RecoverRun(project_runs[r])]
      /\ active_run_id' = [p \in Projects |-> NoRun]
      /\ engine_commands' = [c \in Commands |-> RecoverCommand(engine_commands[c])]
      /\ listed' \in SUBSET Projects
      /\ UNCHANGED <<run_project, command_project, active_run_ids, worker, on_old, load, old_objects,
                     loop, beats, snapshot, history>>
  BY DEF Start
<1>2. status' \in [Projects -> CoreStatuses]
  <2>1. PICK loaded \in [Projects -> {"Waiting", "Error"}] :
          status' = [p \in Projects |-> IF status[p] = "Running" THEN loaded[p] ELSE status[p]]
    BY DEF Start
  <2>2. QED BY <2>1 DEF TypeOK, CoreStatuses
<1>3. project_rows' \subseteq Projects /\ state_status' \in [Projects -> RowStatuses]
  <2> DEFINE rows == [p \in Projects |-> IF state_status[p] \in LiveRunStatuses \/ active_run_id[p] # NoRun
                                         THEN "interrupted" ELSE state_status[p]]
  <2>1. rows \in [Projects -> RowStatuses]
    BY DEF TypeOK, RowStatuses, RunStatuses
  <2>2. Payload(listed', status') \in [Projects -> CoreStatuses \cup {"absent"}]
    BY <1>2, PayloadType
  <2>3. WriteStatuses(Payload(listed', status'), rows)
    BY DEF Start
  <2> HIDE DEF rows
  <2>4. QED BY <2>1, <2>2, <2>3, WriteStatusesType
<1>4. project_runs' \in [RunIds -> RunStatuses]
      /\ \A r \in RunIds : project_runs'[r] \notin LiveRunStatuses
  BY <1>1 DEF RecoverRun, TypeOK, LiveRunStatuses, RunStatuses, Results
<1>5. engine_commands' \in [Commands -> {"none", "pending", "running", "completed", "failed"}]
      /\ \A c \in Commands : engine_commands'[c] \in {"none", "pending", "completed"}
                               => engine_commands[c] = engine_commands'[c]
  BY <1>1 DEF RecoverCommand, TypeOK
<1>6. TypeOK'
  BY <1>1, <1>2, <1>3, <1>4, <1>5 DEF TypeOK, loop, history, races
<1>7. RowInv'
  <2>1. /\ beats' = {} /\ \A r \in RunIds : worker'[r] = "none"
        /\ \A p \in Projects : active_run_ids'[p] = NoRun /\ active_run_id'[p] = NoRun
    BY <1>1 DEF RowInv, ThreadInv
  <2>2. \A r \in RunIds : active_run_ids'[run_project'[r]] # r
    BY <1>6, <2>1, NoRunIsNoRow DEF TypeOK
  <2>3. ActiveRunIsRecorded' /\ NoRunSurvivesRestart'
    BY <1>4, <2>1 DEF ActiveRunIsRecorded, NoRunSurvivesRestart, IsLive
  <2>4. up'
    BY <1>1
  <2>5. EntryInv'
    BY <2>1, <2>2 DEF EntryInv, Registered
  <2>6. WorkerInv' /\ OvertakingInv' /\ ThreadInv'
    BY <2>1, <2>4 DEF WorkerInv, OvertakingInv, ThreadInv
  <2>7. QED BY <2>3, <2>5, <2>6 DEF RowInv
<1>8. CommandInv'
  BY <1>1, <1>5 DEF CommandInv, loop, history
<1>9. QED BY <1>6, <1>7, <1>8

LEMMA CrashKeepsInv == ASSUME Inv, Crash PROVE Inv'
<1> USE DEF Inv
<1>1. TypeOK'
  <2>1. snapshot' \in [Syncers -> {<< >>} \cup [Projects -> CoreStatuses \cup {"absent"}]]
    <3>1. << >> \in {<< >>} \cup [Projects -> CoreStatuses \cup {"absent"}]
      OBVIOUS
    <3>2. QED BY <3>1 DEF Crash
  <2>2. crashes' \in 0 .. MaxCrashes
    BY LedgerAssumption DEF Crash, TypeOK
  <2>3. worker' \in [RunIds -> WorkerAt]
    BY DEF Crash, WorkerAt
  <2>4. QED BY <2>1, <2>2, <2>3 DEF Crash, TypeOK, store, run_rows, state_rows, command_rows
<1>2. RowInv'
  <2>1. /\ beats' = {} /\ \A r \in RunIds : worker'[r] = "none"
        /\ \A p \in Projects : active_run_ids'[p] = NoRun
        /\ ~up'
    BY DEF Crash
  <2>2. \A r \in RunIds : active_run_ids'[run_project'[r]] # r
    BY <1>1, <2>1, NoRunIsNoRow DEF TypeOK
  <2>3. EntryInv'
    BY <2>1, <2>2 DEF EntryInv, Registered
  <2>4. WorkerInv' /\ OvertakingInv' /\ ThreadInv'
    BY <2>1 DEF WorkerInv, OvertakingInv, ThreadInv
  <2>5. QED BY <2>1, <2>3, <2>4 DEF RowInv, ActiveRunIsRecorded, NoRunSurvivesRestart
<1>3. CommandInv'
  BY DEF Crash, CommandInv, store, command_rows
<1>4. QED BY <1>1, <1>2, <1>3
-----------------------------------------------------------------------------
(* Commands.                                                                  *)

\* A launch makes a row that no worker, heartbeat or pointer knows, for a project
\* without a registered run.
LEMMA RegisterKeepsRows ==
  ASSUME TypeOK, RowInv, NEW p \in Projects, up, CanLaunch(p), Register(p),
         UNCHANGED <<up, beats, unlisted>>
  PROVE  RowInv'
<1>1. PICK r \in RunIds :
        /\ project_runs[r] = "none"
        /\ project_runs' = [project_runs EXCEPT ![r] = "starting"]
        /\ run_project' = [run_project EXCEPT ![r] = p]
        /\ active_run_id' = [active_run_id EXCEPT ![p] = r]
        /\ active_run_ids' = [active_run_ids EXCEPT ![p] = r]
        /\ worker' = [worker EXCEPT ![r] = "created"]
        /\ own_runs' = own_runs \cup {r}
        /\ overtaking' = IF InHand(p) = {} THEN overtaking ELSE overtaking \cup {r}
  BY DEF Register
<1>2. r # NoRun /\ active_run_ids[p] = NoRun /\ worker[r] = "none"
  BY <1>1, NoRunIsNoRow DEF RowInv, WorkerInv, CanLaunch
<1>3. \A q \in Projects : active_run_ids[q] # r /\ active_run_id[q] # r
  BY <1>1, <1>2 DEF RowInv, ActiveRunIsRecorded, NoRunSurvivesRestart, InHand, IsLive, LiveRunStatuses
<1>4. \A k \in RunIds \ {r} : /\ project_runs'[k] = project_runs[k] /\ run_project'[k] = run_project[k]
                              /\ worker'[k] = worker[k]
  BY <1>1 DEF TypeOK
<1>5. \A q \in Projects \ {p} : active_run_id'[q] = active_run_id[q] /\ active_run_ids'[q] = active_run_ids[q]
  BY <1>1 DEF TypeOK
<1>6. /\ project_runs'[r] = "starting" /\ run_project'[r] = p /\ worker'[r] = "created"
      /\ active_run_id'[p] = r /\ active_run_ids'[p] = r
  BY <1>1 DEF TypeOK
<1>7. EntryInv'
  <2> SUFFICES ASSUME NEW k \in RunIds
               PROVE  worker'[k] \in Registered <=> active_run_ids'[run_project'[k]] = k
    BY DEF EntryInv
  <2>1. CASE k = r
    BY <1>6, <2>1 DEF Registered
  <2>2. CASE k # r /\ run_project[k] = p
    <3>1. active_run_ids[run_project[k]] # k
      BY <1>2, <2>2, NoRunIsNoRow
    <3>2. QED BY <1>4, <1>6, <2>2, <3>1 DEF RowInv, EntryInv
  <2>3. CASE k # r /\ run_project[k] # p
    <3>1. run_project[k] \in Projects \ {p}
      BY <2>3 DEF TypeOK
    <3>2. QED BY <1>4, <1>5, <2>3, <3>1 DEF RowInv, EntryInv
  <2>4. QED BY <2>1, <2>2, <2>3
<1>8. WorkerInv'
  <2>1. \A k \in RunIds \ {r} : worker'[k] # "none" => project_runs'[k] # "none" /\ k \in own_runs'
    BY <1>1, <1>4 DEF RowInv, WorkerInv
  <2>2. project_runs'[r] # "none" /\ r \in own_runs'
    BY <1>1, <1>6
  <2>3. QED BY <2>1, <2>2 DEF WorkerInv
<1>9. OvertakingInv'
  <2> SUFFICES ASSUME NEW q \in RunIds, NEW k \in RunIds, q # k, run_project'[q] = run_project'[k],
                      worker'[q] # "none", worker'[k] \in Registered
               PROVE  k \in overtaking'
    BY DEF OvertakingInv
  <2>1. CASE k = r
    <3>1. q \in InHand(p)
      BY <1>4, <1>6, <2>1 DEF InHand
    <3>2. QED BY <1>1, <2>1, <3>1
  <2>2. CASE q = r
    <3>1. worker[k] \in Registered /\ run_project[k] = p
      BY <1>4, <1>6, <2>2
    <3>2. active_run_ids[p] = k
      BY <3>1 DEF RowInv, EntryInv
    <3>3. QED BY <1>2, <3>2, NoRunIsNoRow
  <2>3. CASE k # r /\ q # r
    <3>1. k \in overtaking
      BY <1>4, <2>3 DEF RowInv, OvertakingInv
    <3>2. QED BY <1>1, <3>1
  <2>4. QED BY <2>1, <2>2, <2>3
<1>10. ThreadInv'
  <2>1. \A b \in beats : b[2] \in RunIds
    BY DEF TypeOK
  <2>2. \A b \in beats : b[2] \in own_runs' /\ project_runs'[b[2]] # "none"
    BY <1>1, <1>4, <1>6, <2>1 DEF RowInv, ThreadInv
  <2>3. QED BY <2>2 DEF ThreadInv
<1>11. ActiveRunIsRecorded'
  <2> SUFFICES ASSUME NEW q \in Projects, active_run_ids'[q] # NoRun
               PROVE  /\ project_runs'[active_run_ids'[q]] \in LiveRunStatuses /\ run_project'[active_run_ids'[q]] = q
                      /\ \/ active_run_id'[q] = active_run_ids'[q]
                         \/ active_run_id'[q] = NoRun /\ active_run_ids'[q] \in overtaking' \cup unlisted'
    BY DEF ActiveRunIsRecorded, IsLive
  <2>1. CASE q = p
    BY <1>6, <2>1 DEF LiveRunStatuses
  <2>2. CASE q # p
    <3>1. active_run_ids[q] \in RunIds \ {r} /\ active_run_ids'[q] = active_run_ids[q] /\ active_run_id'[q] = active_run_id[q]
      BY <1>3, <1>5, <2>2, NoRunIsNoRow DEF TypeOK
    <3>2. /\ project_runs'[active_run_ids[q]] = project_runs[active_run_ids[q]]
          /\ run_project'[active_run_ids[q]] = run_project[active_run_ids[q]]
      BY <1>4, <3>1
    <3>3. overtaking \subseteq overtaking'
      BY <1>1
    <3>4. QED BY <3>1, <3>2, <3>3 DEF RowInv, ActiveRunIsRecorded, IsLive
  <2>3. QED BY <2>1, <2>2
<1>12. NoRunSurvivesRestart'
  <2>1. \A k \in RunIds : project_runs'[k] \in LiveRunStatuses => k \in own_runs'
    BY <1>1, <1>4 DEF RowInv, NoRunSurvivesRestart, IsLive
  <2> SUFFICES ASSUME NEW q \in Projects, active_run_id'[q] # NoRun
               PROVE  active_run_id'[q] \in RunIds /\ run_project'[active_run_id'[q]] = q
                      /\ worker'[active_run_id'[q]] # "none"
    BY <2>1 DEF NoRunSurvivesRestart, IsLive, InHand
  <2>2. CASE q = p
    BY <1>6, <2>2
  <2>3. CASE q # p
    <3>1. active_run_id'[q] = active_run_id[q] /\ active_run_id[q] \in RunIds \ {r}
      BY <1>3, <1>5, <2>3 DEF TypeOK
    <3>2. QED BY <1>4, <3>1 DEF RowInv, NoRunSurvivesRestart, InHand
  <2>4. QED BY <2>2, <2>3
<1>13. QED BY <1>7, <1>8, <1>9, <1>10, <1>11, <1>12 DEF RowInv

LEMMA RegisterKeepsTypes ==
  ASSUME TypeOK, NEW p \in Projects, Register(p)
  PROVE  /\ project_runs' \in [RunIds -> RunStatuses]
         /\ run_project' \in [RunIds -> Projects]
         /\ state_status' \in [Projects -> RowStatuses]
         /\ active_run_id' \in [Projects -> RunIds \cup {NoRun}]
         /\ active_run_ids' \in [Projects -> RunIds \cup {NoRun}]
         /\ worker' \in [RunIds -> WorkerAt]
         /\ on_old' \subseteq RunIds /\ own_runs' \subseteq RunIds /\ overtaking' \subseteq RunIds
<1>1. "starting" \in RunStatuses /\ "starting" \in RowStatuses /\ "created" \in WorkerAt
  BY DEF LiveRunStatuses, RowStatuses, RunStatuses, WorkerAt
<1>2. QED BY <1>1 DEF Register, TypeOK

LEMMA CommandLoopKeepsInv ==
  ASSUME Inv, CommandLoop \/ \E c \in Commands, p \in Projects : Submit(c, p) PROVE Inv'
<1> USE DEF Inv
<1>1. ASSUME NEW c \in Commands, NEW p \in Projects, Submit(c, p) PROVE Inv'
  <2>1. TypeOK' BY <1>1 DEF Submit, TypeOK, run_rows, state_rows, runtime, list, loop, history, races
  <2>2. RowInv' BY <1>1, RowsStay DEF Submit, run_rows, state_rows, runtime, history
  <2>3. CommandInv' BY <1>1 DEF Submit, CommandInv, TypeOK, loop, history
  <2>4. QED BY <2>1, <2>2, <2>3
<1>2. ASSUME NEW c \in Commands, TakeCommand(c) PROVE Inv'
  <2>1. TypeOK' BY <1>2 DEF TakeCommand, TypeOK, run_rows, state_rows, runtime, list, history, races
  <2>2. RowInv' BY <1>2, RowsStay DEF TakeCommand, run_rows, state_rows, runtime, history
  <2>3. CommandInv' BY <1>2 DEF TakeCommand, CommandInv, TypeOK, history
  <2>4. QED BY <2>1, <2>2, <2>3
<1>3. CASE ExecuteCommand
  <2> DEFINE p == command_project[command]
  <2>1. command \in Commands /\ p \in Projects /\ engine_commands[command] = "running"
    BY <1>3 DEF ExecuteCommand, CommandInv, TypeOK
  <2>2. /\ up /\ command_at = "execute"
        /\ carried_out' = [carried_out EXCEPT ![command] = @ + 1]
        /\ command_at' \in {"accepted", "rejected"}
        /\ UNCHANGED <<project_rows, command_rows, up, status, list, command, beats, snapshot, unlisted,
                       crashes, reloads>>
    BY <1>3 DEF ExecuteCommand
  <2>3. CommandInv'
    BY <2>1, <2>2 DEF CommandInv, TypeOK, command_rows
  <2>4. carried_out' \in [Commands -> Nat]
    BY <2>1, <2>2 DEF TypeOK
  <2>5. CASE CanLaunch(p) /\ Register(p)
    <3>1. RowInv' BY <2>1, <2>2, <2>5, RegisterKeepsRows
    <3>2. TypeOK' BY <2>1, <2>2, <2>4, <2>5, RegisterKeepsTypes DEF TypeOK, command_rows, list
    <3>3. QED BY <2>3, <3>1, <3>2
  <2>6. CASE UNCHANGED <<project_runs, run_project, state_status, active_run_id, active_run_ids,
                         worker, on_old, own_runs, overtaking>>
    <3>1. RowInv' BY <2>2, <2>6, RowsStay DEF races
    <3>2. TypeOK' BY <2>2, <2>4, <2>6 DEF TypeOK, command_rows, list
    <3>3. QED BY <2>3, <3>1, <3>2
  <2>7. QED BY <1>3, <2>5, <2>6 DEF ExecuteCommand
<1>4. CASE AnswerCommand
  <2>1. TypeOK' BY <1>4 DEF AnswerCommand, TypeOK, run_rows, state_rows, runtime, list, history, races
  <2>2. RowInv' BY <1>4, RowsStay DEF AnswerCommand, run_rows, state_rows, runtime, history
  <2>3. CommandInv' BY <1>4 DEF AnswerCommand, CommandInv, TypeOK, history
  <2>4. QED BY <2>1, <2>2, <2>3
<1>5. QED BY <1>1, <1>2, <1>3, <1>4 DEF CommandLoop
-----------------------------------------------------------------------------
(* Runs.                                                                      *)

LEMMA WorkerGoesKeepsInv ==
  ASSUME Inv, NEW r \in RunIds, NEW from \in WorkerAt, NEW to \in WorkerAt, NEW statuses \in SUBSET CoreStatuses,
         from \in Registered, to \in Registered, WorkerGoes(r, from, to, statuses)
  PROVE  Inv'
<1> USE DEF Inv
<1>1. status' \in [Projects -> CoreStatuses]
  BY DEF WorkerGoes, TypeOK
<1>2. worker' \in [RunIds -> WorkerAt]
      /\ \A k \in RunIds : /\ worker'[k] \in Registered <=> worker[k] \in Registered
                           /\ worker'[k] = "none" <=> worker[k] = "none"
  BY DEF WorkerGoes, TypeOK, Registered
<1>3. /\ up /\ up'
      /\ UNCHANGED <<project_runs, run_project, active_run_id, active_run_ids, beats, own_runs, overtaking, unlisted>>
  BY DEF WorkerGoes, store, run_rows, state_rows, history, races
<1>4. TypeOK'
  BY <1>1, <1>2 DEF WorkerGoes, TypeOK, store, run_rows, state_rows, command_rows, list, loop, history, races
<1>5. RowInv'
  <2>1. EntryInv' /\ WorkerInv' /\ OvertakingInv' /\ ThreadInv'
    BY <1>2, <1>3 DEF RowInv, EntryInv, WorkerInv, OvertakingInv, ThreadInv
  <2>2. ActiveRunIsRecorded' /\ NoRunSurvivesRestart'
    BY <1>2, <1>3 DEF RowInv, ActiveRunIsRecorded, NoRunSurvivesRestart, InHand, IsLive
  <2>3. QED BY <2>1, <2>2 DEF RowInv
<1>6. CommandInv' BY CommandsStay DEF WorkerGoes, store, history
<1>7. QED BY <1>4, <1>5, <1>6

\* The pop takes the worker and the entry of the same run.
LEMMA PopRunKeepsInv == ASSUME Inv, NEW r \in RunIds, PopRun(r) PROVE Inv'
<1> USE DEF Inv
<1> DEFINE p == run_project[r]
<1>1. p \in Projects /\ active_run_ids[p] = r /\ worker[r] \in Registered
  BY DEF PopRun, TypeOK, Registered
<1>2. PICK w \in {"finishing", "rolled_back"} : worker' = [worker EXCEPT ![r] = w]
  BY DEF PopRun
<1>3. /\ active_run_ids' = [active_run_ids EXCEPT ![p] = NoRun]
      /\ overtaking' = overtaking \ {r} /\ unlisted' = unlisted \ {r}
      /\ up /\ up' /\ UNCHANGED <<project_runs, run_project, active_run_id, beats, own_runs>>
  BY DEF PopRun, store, run_rows, state_rows
<1>4. /\ worker'[r] = w /\ w \notin Registered /\ w \in WorkerAt
      /\ \A k \in RunIds \ {r} : worker'[k] = worker[k]
  BY <1>2 DEF TypeOK, Registered, WorkerAt
<1>5. active_run_ids'[p] = NoRun /\ \A q \in Projects \ {p} : active_run_ids'[q] = active_run_ids[q]
  BY <1>1, <1>3 DEF TypeOK
<1>6. TypeOK'
  BY <1>2, <1>3, <1>4 DEF PopRun, TypeOK, store, run_rows, state_rows, command_rows, list, loop
<1>7. EntryInv'
  <2> SUFFICES ASSUME NEW k \in RunIds
               PROVE  worker'[k] \in Registered <=> active_run_ids'[run_project[k]] = k
    BY <1>3 DEF EntryInv
  <2>1. CASE k = r
    BY <1>4, <1>5, <2>1, NoRunIsNoRow
  <2>2. CASE k # r /\ run_project[k] = p
    BY <1>1, <1>4, <1>5, <2>2, NoRunIsNoRow DEF RowInv, EntryInv
  <2>3. CASE k # r /\ run_project[k] # p
    <3>1. run_project[k] \in Projects \ {p}
      BY <2>3 DEF TypeOK
    <3>2. QED BY <1>4, <1>5, <2>3, <3>1 DEF RowInv, EntryInv
  <2>4. QED BY <2>1, <2>2, <2>3
<1>8. WorkerInv'
  <2>1. \A k \in RunIds : worker'[k] # "none" => worker[k] # "none"
    BY <1>1, <1>4 DEF Registered
  <2>2. QED BY <1>3, <2>1 DEF RowInv, WorkerInv
<1>9. OvertakingInv'
  <2> SUFFICES ASSUME NEW q \in RunIds, NEW k \in RunIds, q # k, run_project[q] = run_project[k],
                      worker'[q] # "none", worker'[k] \in Registered
               PROVE  k \in overtaking'
    BY <1>3 DEF OvertakingInv
  <2>1. k # r /\ worker[k] \in Registered /\ worker[q] # "none"
    BY <1>1, <1>4 DEF Registered
  <2>2. QED BY <1>3, <2>1 DEF RowInv, OvertakingInv
<1>10. ThreadInv'
  BY <1>3 DEF RowInv, ThreadInv
<1>11. ActiveRunIsRecorded'
  <2> SUFFICES ASSUME NEW q \in Projects, active_run_ids'[q] # NoRun
               PROVE  /\ project_runs[active_run_ids'[q]] \in LiveRunStatuses /\ run_project[active_run_ids'[q]] = q
                      /\ \/ active_run_id[q] = active_run_ids'[q]
                         \/ active_run_id[q] = NoRun /\ active_run_ids'[q] \in overtaking' \cup unlisted'
    BY <1>3 DEF ActiveRunIsRecorded, IsLive
  <2>1. q # p /\ active_run_ids'[q] = active_run_ids[q]
    BY <1>5
  <2>2. run_project[active_run_ids[q]] = q
    BY <1>3, <2>1 DEF RowInv, ActiveRunIsRecorded
  <2>3. active_run_ids[q] # r
    BY <2>1, <2>2
  <2>4. QED BY <1>3, <2>1, <2>3 DEF RowInv, ActiveRunIsRecorded, IsLive
<1>12. NoRunSurvivesRestart'
  <2>1. \A q \in Projects : InHand(q)' = InHand(q)
    BY <1>1, <1>3, <1>4 DEF InHand, Registered
  <2>2. QED BY <1>3, <2>1 DEF RowInv, NoRunSurvivesRestart, IsLive
<1>13. RowInv'
  BY <1>7, <1>8, <1>9, <1>10, <1>11, <1>12 DEF RowInv
<1>14. CommandInv' BY CommandsStay DEF PopRun, store
<1>15. QED BY <1>6, <1>13, <1>14

\* A finish hook clears the pointer of its project even when that is to a run that has
\* overtaken it.
LEMMA FinishRunKeepsInv == ASSUME Inv, NEW r \in RunIds, FinishRun(r) PROVE Inv'
<1> USE DEF Inv
<1> DEFINE p == run_project[r]
<1>1. p \in Projects /\ worker[r] \in {"finishing", "rolled_back"}
  BY DEF FinishRun, TypeOK
<1>2. PICK s \in Results \cup {"running", "waiting"} : FinishRows(r, s)
  BY DEF FinishRun, TerminalStatus, Results
<1>3. s \in RunStatuses /\ s \in RowStatuses /\ s # "none"
  BY DEF RunStatuses, RowStatuses, LiveRunStatuses, Results
<1>4. /\ project_runs' = [project_runs EXCEPT ![r] = s]
      /\ active_run_id' = [active_run_id EXCEPT ![p] = NoRun]
      /\ state_status' \in [Projects -> RowStatuses]
  BY <1>2, <1>3 DEF FinishRows, TypeOK
<1>5. /\ worker' = [worker EXCEPT ![r] = "none"] /\ up /\ up'
      /\ UNCHANGED <<run_project, active_run_ids, beats, own_runs, overtaking, unlisted>>
  BY DEF FinishRun, history, races
<1>6. /\ worker'[r] = "none" /\ project_runs'[r] = s
      /\ \A k \in RunIds \ {r} : worker'[k] = worker[k] /\ project_runs'[k] = project_runs[k]
  BY <1>4, <1>5 DEF TypeOK
<1>7. active_run_id'[p] = NoRun /\ \A q \in Projects \ {p} : active_run_id'[q] = active_run_id[q]
  BY <1>1, <1>4 DEF TypeOK
<1>8. TypeOK'
  <2>1. "none" \in WorkerAt
    BY DEF WorkerAt
  <2>2. QED BY <1>3, <1>4, <1>5, <2>1 DEF FinishRun, TypeOK, command_rows, list, loop, history, races
<1>9. worker[r] \notin Registered /\ "none" \notin Registered
  BY <1>1 DEF Registered
<1>10. EntryInv' /\ WorkerInv' /\ OvertakingInv'
  <2>1. EntryInv'
    BY <1>5, <1>6, <1>9 DEF RowInv, EntryInv
  <2>2. WorkerInv'
    BY <1>5, <1>6 DEF RowInv, WorkerInv
  <2>3. OvertakingInv'
    <3>1. \A k \in RunIds : worker'[k] # "none" => worker[k] # "none"
      BY <1>1, <1>6
    <3>2. \A k \in RunIds : worker'[k] \in Registered => worker[k] \in Registered
      BY <1>6, <1>9
    <3>3. QED BY <1>5, <3>1, <3>2 DEF RowInv, OvertakingInv
  <2>4. QED BY <2>1, <2>2, <2>3
<1>11. ThreadInv'
  <2>1. \A b \in beats : b[2] \in RunIds
    BY DEF TypeOK
  <2>2. \A b \in beats : b[2] \in own_runs /\ project_runs'[b[2]] # "none"
    BY <1>3, <1>6, <2>1 DEF RowInv, ThreadInv
  <2>3. QED BY <1>5, <2>2 DEF ThreadInv
<1>12. ActiveRunIsRecorded'
  <2> SUFFICES ASSUME NEW q \in Projects, active_run_ids[q] # NoRun
               PROVE  /\ project_runs'[active_run_ids[q]] \in LiveRunStatuses /\ run_project[active_run_ids[q]] = q
                      /\ \/ active_run_id'[q] = active_run_ids[q]
                         \/ active_run_id'[q] = NoRun /\ active_run_ids[q] \in overtaking \cup unlisted
    BY <1>5 DEF ActiveRunIsRecorded, IsLive
  <2> DEFINE k == active_run_ids[q]
  <2>1. k \in RunIds /\ run_project[k] = q /\ IsLive(k)
    BY <1>5 DEF RowInv, ActiveRunIsRecorded, TypeOK
  <2>2. worker[k] \in Registered
    BY <2>1 DEF RowInv, EntryInv
  <2>3. k # r /\ project_runs'[k] = project_runs[k]
    BY <1>6, <1>9, <2>1, <2>2
  <2>4. CASE q = p
    <3>1. k \in overtaking
      BY <1>1, <2>1, <2>2, <2>3, <2>4 DEF RowInv, OvertakingInv
    <3>2. QED BY <1>7, <2>1, <2>3, <2>4, <3>1 DEF IsLive
  <2>5. CASE q # p
    BY <1>5, <1>7, <2>1, <2>3, <2>5 DEF RowInv, ActiveRunIsRecorded, IsLive
  <2>6. QED BY <2>4, <2>5
<1>13. NoRunSurvivesRestart'
  <2>1. \A k \in RunIds : project_runs'[k] \in LiveRunStatuses => k \in own_runs
    <3>1. r \in own_runs
      BY <1>1 DEF RowInv, WorkerInv
    <3>2. QED BY <1>5, <1>6, <3>1 DEF RowInv, NoRunSurvivesRestart, IsLive
  <2>2. \A q \in Projects : active_run_id'[q] # NoRun => active_run_id'[q] \in InHand(q)'
    <3> SUFFICES ASSUME NEW q \in Projects, active_run_id'[q] # NoRun PROVE active_run_id'[q] \in InHand(q)'
      OBVIOUS
    <3>1. q # p /\ active_run_id'[q] = active_run_id[q]
      BY <1>7
    <3>2. active_run_id[q] \in RunIds /\ run_project[active_run_id[q]] = q /\ worker[active_run_id[q]] # "none"
      BY <1>5, <3>1 DEF RowInv, NoRunSurvivesRestart, InHand
    <3>3. active_run_id[q] # r
      BY <3>1, <3>2
    <3>4. QED BY <1>5, <1>6, <3>1, <3>2, <3>3 DEF InHand
  <2>3. QED BY <1>5, <2>1, <2>2 DEF NoRunSurvivesRestart, IsLive
<1>14. RowInv'
  BY <1>10, <1>11, <1>12, <1>13 DEF RowInv
<1>15. CommandInv' BY CommandsStay DEF FinishRun, history
<1>16. QED BY <1>8, <1>14, <1>15

LEMMA RunsKeepInv ==
  ASSUME Inv,
         \/ \E p \in Projects : ScheduledLaunch(p) \/ Recover(p)
         \/ \E r \in RunIds : Work(r)
  PROVE  Inv'
<1> USE DEF Inv
<1>1. ASSUME NEW p \in Projects, ScheduledLaunch(p) PROVE Inv'
  <2>1. RowInv' BY <1>1, RegisterKeepsRows DEF ScheduledLaunch
  <2>2. TypeOK' BY <1>1, RegisterKeepsTypes DEF ScheduledLaunch, TypeOK, command_rows, list, loop
  <2>3. CommandInv' BY <1>1, CommandsStay DEF ScheduledLaunch
  <2>4. QED BY <2>1, <2>2, <2>3
<1>2. ASSUME NEW p \in Projects, Recover(p) PROVE Inv'
  <2>1. status' \in [Projects -> CoreStatuses]
    BY <1>2 DEF Recover, TypeOK, CoreStatuses
  <2>2. TypeOK'
    BY <1>2, <2>1 DEF Recover, TypeOK, store, run_rows, state_rows, command_rows, list, loop, history, races
  <2>3. RowInv' BY <1>2, RowsStay DEF Recover, store, run_rows, state_rows, history
  <2>4. CommandInv' BY <1>2, CommandsStay DEF Recover, store, history
  <2>5. QED BY <2>2, <2>3, <2>4
<1>3. ASSUME NEW r \in RunIds, BeginRun(r) PROVE Inv'
  <2>1. {"created", "executing"} \subseteq WorkerAt \cap Registered /\ {"Running"} \in SUBSET CoreStatuses
    BY DEF WorkerAt, Registered, CoreStatuses
  <2>2. QED BY <1>3, <2>1, WorkerGoesKeepsInv DEF BeginRun
<1>4. ASSUME NEW r \in RunIds, EndRun(r) PROVE Inv'
  <2>1. {"ended", "executing"} \subseteq WorkerAt \cap Registered /\ Outcomes \in SUBSET CoreStatuses
    BY LedgerAssumption DEF WorkerAt, Registered, CoreStatuses
  <2>2. QED BY <1>4, <2>1, WorkerGoesKeepsInv DEF EndRun
<1>5. QED BY <1>1, <1>2, <1>3, <1>4, PopRunKeepsInv, FinishRunKeepsInv DEF Work
-----------------------------------------------------------------------------
(* The reload.                                                                *)

\* The list and the objects are not what the rows depend on.
LEMMA ReloadKeepsInv == ASSUME Inv, Reload PROVE Inv'
<1> USE DEF Inv
<1>1. CASE CheckRuntime
  <2>1. reloads' \in 0 .. MaxReloads
    BY <1>1, LedgerAssumption DEF CheckRuntime, TypeOK
  <2>2. TypeOK'
    BY <1>1, <2>1 DEF CheckRuntime, TypeOK, store, run_rows, state_rows, command_rows, runtime, loop, races
  <2>3. RowInv' BY <1>1, RowsStay DEF CheckRuntime, store, run_rows, state_rows, runtime
  <2>4. CommandInv' BY <1>1, CommandsStay DEF CheckRuntime, store
  <2>5. QED BY <2>2, <2>3, <2>4
<1>2. CASE ClearList
  <2>1. TypeOK'
    BY <1>2 DEF ClearList, TypeOK, store, run_rows, state_rows, command_rows, loop, history, races
  <2>2. RowInv' BY <1>2, RowsStay DEF ClearList, store, run_rows, state_rows, history
  <2>3. CommandInv' BY <1>2, CommandsStay DEF ClearList, store, history
  <2>4. QED BY <2>1, <2>2, <2>3
<1>3. ASSUME NEW p \in Projects, AppendProject(p) PROVE Inv'
  <2>1. status' \in [Projects -> CoreStatuses]
    <3>1. {"Waiting", "Running"} \cup Outcomes \subseteq CoreStatuses
      BY LedgerAssumption DEF CoreStatuses
    <3>2. QED BY <1>3, <3>1 DEF AppendProject, TypeOK
  <2>2. TypeOK'
    BY <1>3, <2>1 DEF AppendProject, TypeOK, store, run_rows, state_rows, command_rows, loop, history, races
  <2>3. RowInv' BY <1>3, RowsStay DEF AppendProject, store, run_rows, state_rows, history
  <2>4. CommandInv' BY <1>3, CommandsStay DEF AppendProject, store, history
  <2>5. QED BY <2>2, <2>3, <2>4
<1>4. CASE EndLoad
  <2>1. TypeOK'
    BY <1>4 DEF EndLoad, TypeOK, store, run_rows, state_rows, command_rows, runtime, loop, history, races
  <2>2. RowInv' BY <1>4, RowsStay DEF EndLoad, store, run_rows, state_rows, runtime, history
  <2>3. CommandInv' BY <1>4, CommandsStay DEF EndLoad, store, history
  <2>4. QED BY <2>1, <2>2, <2>3
<1>5. QED BY <1>1, <1>2, <1>3, <1>4 DEF Reload
-----------------------------------------------------------------------------
(* The syncs.                                                                 *)

\* A late heartbeat may revive a row, but one of a run of this process.
LEMMA BeatKeepsInv ==
  ASSUME Inv, NEW p \in Projects, NEW r \in RunIds, NEW s \in {"running", "finishing"}, Beat(p, r, s)
  PROVE  Inv'
<1> USE DEF Inv
<1>1. <<p, r, s>> \in beats /\ r \in own_runs /\ s \in LiveRunStatuses /\ up /\ up'
  BY DEF Beat, RowInv, ThreadInv, LiveRunStatuses
<1>2. TypeOK'
  <2>1. s \in RunStatuses /\ s \in RowStatuses
    BY DEF RunStatuses, RowStatuses, LiveRunStatuses
  <2>2. QED BY <1>1, <2>1 DEF Beat, TypeOK, command_rows, runtime, list, loop, history, races
<1>3. \A k \in RunIds : project_runs'[k] = IF k = r THEN s ELSE project_runs[k]
  BY DEF Beat, TypeOK
<1>4. \A k \in RunIds : (IsLive(k) => IsLive(k)') /\ (IsLive(k)' => k \in own_runs)
                        /\ (project_runs[k] # "none" => project_runs'[k] # "none")
  BY <1>1, <1>3 DEF RowInv, NoRunSurvivesRestart, IsLive, LiveRunStatuses
<1>5. beats' \subseteq beats
      /\ UNCHANGED <<run_project, active_run_id, up, active_run_ids, worker, own_runs, overtaking, unlisted>>
  BY DEF Beat, runtime, history, races
<1>6. EntryInv' /\ WorkerInv' /\ OvertakingInv'
  BY <1>4, <1>5 DEF RowInv, EntryInv, WorkerInv, OvertakingInv
<1>7. ThreadInv'
  <2>1. \A b \in beats : b[2] \in RunIds
    BY DEF TypeOK
  <2>2. \A b \in beats' : b[2] \in own_runs /\ project_runs'[b[2]] # "none"
    BY <1>4, <1>5, <2>1 DEF RowInv, ThreadInv
  <2>3. QED BY <1>1, <1>5, <2>2 DEF ThreadInv
<1>8. ActiveRunIsRecorded'
  <2> SUFFICES ASSUME NEW q \in Projects, active_run_ids[q] # NoRun
               PROVE  /\ project_runs'[active_run_ids[q]] \in LiveRunStatuses /\ run_project[active_run_ids[q]] = q
                      /\ \/ active_run_id[q] = active_run_ids[q]
                         \/ active_run_id[q] = NoRun /\ active_run_ids[q] \in overtaking \cup unlisted
    BY <1>5 DEF ActiveRunIsRecorded, IsLive
  <2>1. active_run_ids[q] \in RunIds
    BY DEF TypeOK
  <2>2. IsLive(active_run_ids[q]) => project_runs'[active_run_ids[q]] \in LiveRunStatuses
    BY <1>4, <2>1 DEF IsLive
  <2>3. QED BY <1>1, <2>2 DEF RowInv, ActiveRunIsRecorded
<1>9. NoRunSurvivesRestart'
  BY <1>1, <1>4, <1>5 DEF RowInv, NoRunSurvivesRestart, InHand
<1>10. RowInv'
  BY <1>6, <1>7, <1>8, <1>9 DEF RowInv
<1>11. CommandInv' BY CommandsStay DEF Beat, history
<1>12. QED BY <1>2, <1>10, <1>11

\* A payload that leaves a project out takes the pointer to its run away, and no other.
LEMMA UpsertKeepsInv == ASSUME Inv, NEW y \in Syncers, Upsert(y) PROVE Inv'
<1> USE DEF Inv
<1> DEFINE deleted == project_rows \ project_rows'
<1>1. /\ up /\ up' /\ UNCHANGED <<project_runs, run_project, active_run_ids, worker, beats, own_runs, overtaking>>
      /\ active_run_id' = [p \in Projects |-> IF p \in deleted THEN NoRun ELSE active_run_id[p]]
      /\ unlisted' = unlisted \cup {active_run_ids[p] : p \in {q \in deleted : active_run_ids[q] # NoRun}}
  BY DEF Upsert, runtime
<1>2. deleted \subseteq Projects
  BY DEF TypeOK
<1>3. TypeOK'
  <2>1. snapshot[y] \in [Projects -> CoreStatuses \cup {"absent"}]
    BY DEF Upsert, TypeOK
  <2>2. WriteStatuses(snapshot[y], state_status)
    BY DEF Upsert
  <2>3. project_rows' \subseteq Projects /\ state_status' \in [Projects -> RowStatuses]
    <3>1. state_status \in [Projects -> RowStatuses]
      BY DEF TypeOK
    <3>2. QED BY <2>1, <2>2, <3>1, WriteStatusesType
  <2>4. snapshot' \in [Syncers -> {<< >>} \cup [Projects -> CoreStatuses \cup {"absent"}]]
    <3>1. << >> \in {<< >>} \cup [Projects -> CoreStatuses \cup {"absent"}]
      OBVIOUS
    <3>2. QED BY <3>1 DEF Upsert, TypeOK
  <2>5. unlisted' \subseteq RunIds
    BY <1>1, <1>2 DEF TypeOK
  <2>6. active_run_id' \in [Projects -> RunIds \cup {NoRun}]
    BY <1>1 DEF TypeOK
  <2>7. QED BY <2>3, <2>4, <2>5, <2>6 DEF Upsert, TypeOK, command_rows, runtime, list, loop
<1>4. EntryInv' /\ WorkerInv' /\ OvertakingInv' /\ ThreadInv'
  BY <1>1 DEF RowInv, EntryInv, WorkerInv, OvertakingInv, ThreadInv
<1>5. ActiveRunIsRecorded'
  <2> SUFFICES ASSUME NEW q \in Projects, active_run_ids[q] # NoRun
               PROVE  /\ IsLive(active_run_ids[q]) /\ run_project[active_run_ids[q]] = q
                      /\ \/ active_run_id'[q] = active_run_ids[q]
                         \/ active_run_id'[q] = NoRun /\ active_run_ids[q] \in overtaking \cup unlisted'
    BY <1>1 DEF ActiveRunIsRecorded, IsLive
  <2>1. CASE q \in deleted
    BY <1>1, <2>1 DEF RowInv, ActiveRunIsRecorded
  <2>2. CASE q \notin deleted
    BY <1>1, <2>2 DEF RowInv, ActiveRunIsRecorded
  <2>3. QED BY <2>1, <2>2
<1>6. NoRunSurvivesRestart'
  <2>1. \A q \in Projects : active_run_id'[q] # NoRun => active_run_id'[q] = active_run_id[q]
    BY <1>1
  <2>2. QED BY <1>1, <2>1 DEF RowInv, NoRunSurvivesRestart, InHand, IsLive
<1>7. RowInv'
  BY <1>4, <1>5, <1>6 DEF RowInv
<1>8. CommandInv' BY CommandsStay DEF Upsert
<1>9. QED BY <1>3, <1>7, <1>8

LEMMA SyncsKeepInv == ASSUME Inv, SyncLoop \/ \E y \in OtherSyncers : OtherSync(y) PROVE Inv'
<1> USE DEF Inv
<1>1. CASE BeginBeats
  <2>1. \A b \in beats' : \E p \in Projects : b = <<p, active_run_ids[p], "unread">> /\ active_run_ids[p] # NoRun
    BY <1>1 DEF BeginBeats
  <2>2. TypeOK'
    BY <1>1, <2>1 DEF BeginBeats, TypeOK, store, run_rows, state_rows, command_rows, runtime, list, loop, history, races
  <2>3. /\ up /\ up'
        /\ UNCHANGED <<project_runs, run_project, active_run_id, active_run_ids, worker, own_runs, overtaking, unlisted>>
    BY <1>1 DEF BeginBeats, store, run_rows, state_rows, runtime, history, races
  <2>4. \A b \in beats' : b[2] \in own_runs /\ project_runs[b[2]] # "none"
    <3>1. \A p \in Projects : active_run_ids[p] # NoRun => active_run_ids[p] \in RunIds /\ IsLive(active_run_ids[p])
      BY <2>3 DEF RowInv, ActiveRunIsRecorded, TypeOK
    <3>2. \A r \in RunIds : IsLive(r) => r \in own_runs /\ project_runs[r] # "none"
      BY <2>3 DEF RowInv, NoRunSurvivesRestart, IsLive, LiveRunStatuses
    <3>3. QED BY <2>1, <3>1, <3>2
  <2>5. ThreadInv'
    BY <2>3, <2>4 DEF ThreadInv
  <2>6. EntryInv' /\ WorkerInv' /\ OvertakingInv' /\ ActiveRunIsRecorded' /\ NoRunSurvivesRestart'
    BY <2>3 DEF RowInv, EntryInv, WorkerInv, OvertakingInv, ActiveRunIsRecorded, NoRunSurvivesRestart, IsLive, InHand
  <2>7. CommandInv' BY <1>1, CommandsStay DEF BeginBeats, store, history
  <2>8. QED BY <2>2, <2>5, <2>6, <2>7 DEF RowInv
<1>2. ASSUME NEW p \in Projects, NEW r \in RunIds, ReadStatus(p, r) PROVE Inv'
  <2>1. PICK s \in {"running", "finishing"} : beats' = (beats \ {<<p, r, "unread">>}) \cup {<<p, r, s>>}
    BY <1>2 DEF ReadStatus
  <2>2. TypeOK'
    BY <1>2, <2>1 DEF ReadStatus, TypeOK, store, run_rows, state_rows, command_rows, runtime, list, loop, history, races
  <2>3. /\ up /\ up' /\ <<p, r, "unread">> \in beats
        /\ UNCHANGED <<project_runs, run_project, active_run_id, active_run_ids, worker, own_runs, overtaking, unlisted>>
    BY <1>2 DEF ReadStatus, store, run_rows, state_rows, runtime, history, races
  <2>4. \A b \in beats' : b[2] \in own_runs /\ project_runs[b[2]] # "none"
    BY <2>1, <2>3 DEF RowInv, ThreadInv
  <2>5. ThreadInv'
    BY <2>3, <2>4 DEF ThreadInv
  <2>6. EntryInv' /\ WorkerInv' /\ OvertakingInv' /\ ActiveRunIsRecorded' /\ NoRunSurvivesRestart'
    BY <2>3 DEF RowInv, EntryInv, WorkerInv, OvertakingInv, ActiveRunIsRecorded, NoRunSurvivesRestart, IsLive, InHand
  <2>7. CommandInv' BY <1>2, CommandsStay DEF ReadStatus, store, history
  <2>8. QED BY <2>2, <2>5, <2>6, <2>7 DEF RowInv
<1>3. ASSUME NEW y \in Syncers, TakeSnapshot(y) PROVE Inv'
  <2>1. TypeOK'
    <3>1. Payload(listed, status) \in {<< >>} \cup [Projects -> CoreStatuses \cup {"absent"}]
      BY PayloadType DEF TypeOK
    <3>2. snapshot' \in [Syncers -> {<< >>} \cup [Projects -> CoreStatuses \cup {"absent"}]]
      BY <1>3, <3>1 DEF TakeSnapshot, TypeOK
    <3>3. QED BY <1>3, <3>2 DEF TakeSnapshot, TypeOK, store, run_rows, state_rows, command_rows, runtime, list, loop,
                             history, races
  <2>2. RowInv' BY <1>3, RowsStay DEF TakeSnapshot, store, run_rows, state_rows, runtime, history
  <2>3. CommandInv' BY <1>3, CommandsStay DEF TakeSnapshot, store, history
  <2>4. QED BY <2>1, <2>2, <2>3
<1>4. QED BY <1>1, <1>2, <1>3, BeatKeepsInv, UpsertKeepsInv DEF SyncLoop, OtherSync, Syncers
-----------------------------------------------------------------------------
LEMMA InvNext == ASSUME Inv, [Next]_vars PROVE Inv'
<1>1. CASE BoundsReached \/ UNCHANGED vars
  <2>1. UNCHANGED vars BY <1>1 DEF BoundsReached
  <2>2. UNCHANGED <<project_runs, run_project, active_run_id, up, active_run_ids, worker, beats, own_runs, races>>
        /\ UNCHANGED <<command_rows, loop, carried_out, up>>
    BY <2>1 DEF vars, store, run_rows, state_rows, runtime, history
  <2>3. TypeOK'
    BY <2>1 DEF Inv, vars, store, run_rows, state_rows, command_rows, runtime, list, loop, history, races, TypeOK
  <2>4. QED BY <2>2, <2>3, RowsStay, CommandsStay DEF Inv
<1>2. QED BY <1>1, StartKeepsInv, CrashKeepsInv, CommandLoopKeepsInv, RunsKeepInv, ReloadKeepsInv, SyncsKeepInv DEF Next

LEMMA InvHolds == Spec => []Inv
<1>1. Init => Inv  BY InvInit
<1>2. Inv /\ [Next]_vars => Inv'  BY InvNext
<1>3. QED BY <1>1, <1>2, PTL DEF Spec

\* The rows, commands, positions and copies stay in their sets.
THEOREM TypeCorrect == Spec => []TypeOK
<1>1. Inv => TypeOK  BY DEF Inv
<1>2. QED BY <1>1, InvHolds, PTL

\* The row of a registered run is live, and project_state points to it or, once an
\* earlier run of the project finished late or a payload left the project out, to none:
\* whatever heartbeats, finish hooks and payloads are written late.
THEOREM RunsAreRecorded == Spec => []ActiveRunIsRecorded
<1>1. Inv => ActiveRunIsRecorded  BY DEF Inv, RowInv
<1>2. QED BY <1>1, InvHolds, PTL

\* After every restart, and for any number of them, no row of an earlier process
\* looks alive, and no pointer is to a run without a worker.
THEOREM RestartsClearRuns == Spec => []NoRunSurvivesRestart
<1>1. Inv => NoRunSurvivesRestart  BY DEF Inv, RowInv
<1>2. QED BY <1>1, InvHolds, PTL

\* No command is carried out twice, wherever the process crashes.
THEOREM CommandsOnce == Spec => []CommandsAtMostOnce
<1>1. Inv => CommandsAtMostOnce  BY DEF Inv, CommandInv, CommandsAtMostOnce
<1>2. QED BY <1>1, InvHolds, PTL
=============================================================================

------------------------------ MODULE LegacySync ------------------------------
(***************************************************************************)
(* The desktop program and the engine are two processes that each hold the *)
(* list of projects and both write it, whole, to scheduler_data.json.  An  *)
(* edit in the desktop program is written to the file and then announced   *)
(* with POST /sync; the engine's API thread reloads the file when nothing  *)
(* runs, and otherwise merges it into its list, replacing the Project      *)
(* objects, locks included, of the projects it finds idle.  Meanwhile the  *)
(* scheduler and the command loop launch the objects they picked.          *)
(*                                                                         *)
(* One day with one ticket per project.  The semaphore, the pending queue  *)
(* and the steps inside a launch are in ProjectLaunch, Project.status in   *)
(* Sessions: here a scheduler may pass over a project, for whatever reason.*)
(***************************************************************************)
EXTENDS Integers, FiniteSets

CONSTANTS
  Projects,
  Scheduled, Commanded,  \* the enabled ones; those that get run commands
  \* Bounds of the instance, not of the code:
  MaxObjects,     \* Project objects of one project that are in use at a time
  MaxEdits,       \* edits, additions, deletions and starts
  MaxRuns         \* tickets consumed of a project

ASSUME SyncAssumption == /\ Scheduled \cup Commanded \subseteq Projects
                         /\ MaxObjects \in Nat \ {0} /\ MaxEdits \in Nat /\ MaxRuns \in Nat

Launchers == {"scheduler", "commands"}
NoObject == << >>
Objects == Projects \X (1 .. MaxObjects)

\* What to_dict() writes of a project: `settings` for all that is edited in the
\* desktop program, and the ticket.
Data == [settings : 0 .. MaxEdits, last_consumed_ticket : {"none", "today"}]
Lists(S) == UNION {[D -> S] : D \in SUBSET Projects}

VARIABLES
  file,              \* scheduler_data.json: the data of the projects in it
  ui,                \* the desktop program's list
  ui_at,             \* its position in save_data
  projects,          \* SchedulerCore.projects: the object that stands for each project
  data, locked,      \* of every Project object: its fields, its execution_lock
  run,               \* of every object: where its worker is
  active_run_ids,    \* the projects registered by on_project_launch
  project_workers,   \* the object whose worker is tracked for each project, 0 if none
  at, pick,          \* per launcher: its position and the object it has in hand
  round,             \* the rest of the list the scheduler loop iterates over
  sync_at,           \* position of the API thread in sync_from_legacy
  incoming,          \* what it read from the file
  live_names,        \* the projects it found running
  \* history and bounds
  edits, kept, consumed, forgotten, torn, overwritten

core == <<projects, data, locked, run, active_run_ids, project_workers>>
launch == <<at, pick, round>>
sync == <<sync_at, incoming, live_names>>
history == <<edits, kept, consumed, forgotten, torn, overwritten>>
vars == <<file, ui, ui_at, core, launch, sync, history>>

Empty == [p \in {} |-> p]
New == [settings |-> 0, last_consumed_ticket |-> "none"]

TypeOK ==
  /\ file \in Lists(Data) /\ ui \in Lists(Data) /\ incoming \in Lists(Data)
  /\ ui_at \in {"idle", "write", "sync"}
  /\ projects \in Lists(1 .. MaxObjects) /\ round \in Lists(1 .. MaxObjects)
  /\ data \in [Objects -> Data] /\ locked \subseteq Objects
  /\ run \in [Objects -> {"none", "executing", "saved", "popped"}]
  /\ active_run_ids \subseteq Projects
  /\ project_workers \in [Projects -> 0 .. MaxObjects]
  /\ at \in [Launchers -> {"idle", "launch", "register"}]
  /\ pick \in [Launchers -> Objects \cup {NoObject}]
  /\ sync_at \in {"none", "check", "load", "append", "merge", "names", "assign", "answer"}
  /\ live_names \subseteq Projects
  /\ edits \in 0 .. MaxEdits /\ kept \subseteq Projects /\ forgotten \subseteq Projects
  /\ consumed \in [Projects -> 0 .. MaxRuns] /\ torn \in BOOLEAN /\ overwritten \in BOOLEAN

Init ==
  /\ kept \in SUBSET Projects \ {{}}
  /\ file = [p \in kept |-> New] /\ ui = file /\ ui_at = "idle"
  /\ projects = [p \in kept |-> 1] /\ data = [o \in Objects |-> New]
  /\ locked = {} /\ run = [o \in Objects |-> "none"]
  /\ active_run_ids = {} /\ project_workers = [p \in Projects |-> 0]
  /\ at = [l \in Launchers |-> "idle"] /\ pick = [l \in Launchers |-> NoObject]
  /\ round = Empty
  /\ sync_at = "none" /\ incoming = Empty /\ live_names = {}
  /\ edits = 0 /\ consumed = [p \in Projects |-> 0]
  /\ forgotten = {} /\ torn = FALSE /\ overwritten = FALSE

Listed == {<<p, projects[p]>> : p \in DOMAIN projects}
InUse(o) == \/ o \in Listed \cup locked \/ run[o] # "none"
            \/ \E l \in Launchers : pick[l] = o
            \/ o[1] \in DOMAIN round /\ round[o[1]] = o[2]
FreeObjects(p) == {n \in 1 .. MaxObjects : ~ InUse(<<p, n>>)}
FreeObject(p) == CHOOSE n \in FreeObjects(p) : TRUE
EngineUsed == {o[1] : o \in {l \in Listed : data[l].last_consumed_ticket = "today"}}
Traced == {p \in Projects : consumed[p] > 0}
-----------------------------------------------------------------------------
(* The desktop program.                                                    *)

\* Mutant: the ticket of the engine's row is not taken over.
RefreshStatusOnly(list, seen) == list
\* The store's rows of the engine give the tickets of the projects in `seen`.
RefreshCore(list, seen) ==
  [p \in DOMAIN list |-> IF p \in seen THEN [list[p] EXCEPT !.last_consumed_ticket = "today"]
                                       ELSE list[p]]

\* A row may be up to two seconds old: `forgotten` notes the tickets it misses.
Save(list, seen) ==
  /\ ui' = RefreshCore(list, seen)
  /\ forgotten' = forgotten \cup
       {p \in DOMAIN list \cap (EngineUsed \ seen) : list[p].last_consumed_ticket # "today"}
  /\ ui_at' = "write" /\ edits' = edits + 1
  /\ UNCHANGED <<file, core, launch, sync, consumed, torn, overwritten>>

\* edit_project; toggle_project_enabled and the dialogs for tasks do the same.
EditProject(p) ==
  /\ ui_at = "idle" /\ edits < MaxEdits /\ p \in DOMAIN ui
  /\ \E seen \in SUBSET EngineUsed : Save([ui EXCEPT ![p].settings = edits + 1], seen)
  /\ UNCHANGED kept

\* add_project and delete_project save the list without a look at the engine.
AddProject(p) ==
  /\ ui_at = "idle" /\ edits < MaxEdits /\ p \notin DOMAIN ui
  /\ Save([q \in DOMAIN ui \cup {p} |-> IF q = p THEN [New EXCEPT !.settings = edits + 1]
                                        ELSE ui[q]], {})
  /\ kept' = kept \ {p}   \* added under the name of a lost one, it is another project

DeleteProject(p) ==
  /\ ui_at = "idle" /\ edits < MaxEdits /\ p \in DOMAIN ui
  /\ Save([q \in DOMAIN ui \ {p} |-> ui[q]], {})
  /\ kept' = kept \ {p}

WriteFile ==
  /\ ui_at = "write" /\ ui_at' = "sync"
  /\ file' = ui /\ overwritten' = FALSE
  /\ sync_at' = "check"
  /\ UNCHANGED <<ui, core, launch, incoming, live_names, edits, kept, consumed, forgotten, torn>>

\* The answer of POST /sync.
Synced ==
  /\ ui_at = "sync" /\ sync_at = "answer"
  /\ ui_at' = "idle" /\ sync_at' = "none" /\ incoming' = Empty /\ live_names' = {}
  /\ UNCHANGED <<file, ui, core, launch, history>>

\* The desktop program is closed and opened again: it loads the file, takes
\* the tickets of the trace over and syncs.
OpenAgain ==
  /\ ui_at = "idle" /\ edits < MaxEdits
  /\ ui_at' = "sync" /\ edits' = edits + 1
  /\ ui' = RefreshCore(file, Traced)
  /\ sync_at' = "check" /\ overwritten' = FALSE
  /\ UNCHANGED <<file, core, launch, incoming, live_names, kept, consumed, forgotten, torn>>
-----------------------------------------------------------------------------
(* save_data of the engine: whatever is listed when it runs.               *)

EngineSave(d) ==
  /\ file' = [p \in DOMAIN projects |-> d[<<p, projects[p]>>]]
  /\ torn' = (torn \/ sync_at = "append")
  /\ overwritten' = (overwritten \/ sync_at \in {"check", "load", "merge"})
-----------------------------------------------------------------------------
(* Launching.                                                              *)

\* for proj in self.projects: the list of that moment
BeginRound ==
  /\ at["scheduler"] = "idle" /\ round = Empty /\ projects # Empty
  /\ round' = projects
  /\ UNCHANGED <<file, ui, ui_at, core, at, pick, sync, history>>

Rest(p) == [q \in DOMAIN round \ {p} |-> round[q]]

PassOver(p) ==
  /\ at["scheduler"] = "idle" /\ p \in DOMAIN round
  /\ round' = Rest(p)
  /\ UNCHANGED <<file, ui, ui_at, core, at, pick, sync, history>>

\* try_consume_ticket_atomic, up to the launch; project_state_lock is held on.
ConsumeTicket(p) ==
  LET o == <<p, round[p]>> IN
  /\ at["scheduler"] = "idle" /\ p \in DOMAIN round
  /\ p \in Scheduled /\ data[o].last_consumed_ticket # "today" /\ o \notin locked
  /\ consumed[p] < MaxRuns
  /\ round' = Rest(p)
  /\ locked' = locked \cup {o}
  /\ data' = [data EXCEPT ![o].last_consumed_ticket = "today"]
  /\ consumed' = [consumed EXCEPT ![p] = @ + 1]
  /\ forgotten' = IF ui_at # "idle" \/ o \notin Listed THEN forgotten \cup {p} ELSE forgotten
  /\ EngineSave(data')
  /\ at' = [at EXCEPT !["scheduler"] = "register"] /\ pick' = [pick EXCEPT !["scheduler"] = o]
  /\ UNCHANGED <<ui, ui_at, projects, run, active_run_ids, project_workers, sync, edits, kept>>

\* A run_project command: _find_project ...
FindProject(p) ==
  /\ at["commands"] = "idle" /\ p \in Commanded \cap DOMAIN projects
  /\ at' = [at EXCEPT !["commands"] = "launch"]
  /\ pick' = [pick EXCEPT !["commands"] = <<p, projects[p]>>]
  /\ UNCHANGED <<file, ui, ui_at, core, round, sync, history>>

\* ... and run_project_manual
RunManual ==
  LET o == pick["commands"] IN
  /\ at["commands"] = "launch"
  /\ \/ /\ o \notin locked
        /\ locked' = locked \cup {o}
        /\ at' = [at EXCEPT !["commands"] = "register"]
        /\ UNCHANGED pick
     \/ /\ o \in locked
        /\ at' = [at EXCEPT !["commands"] = "idle"] /\ pick' = [pick EXCEPT !["commands"] = NoObject]
        /\ UNCHANGED locked
  /\ UNCHANGED <<file, ui, ui_at, projects, data, run, active_run_ids, project_workers, round, sync, history>>

\* Mutant: the launch relies on the execution_lock alone.
RegisterAlways(p) == TRUE
MayRegister(p) == p \notin active_run_ids

\* on_project_launch; then the worker is tracked and started, or the lock given back.
Register(l) ==
  LET o == pick[l] p == o[1] IN
  /\ at[l] = "register"
  /\ \/ /\ MayRegister(p)
        /\ active_run_ids' = active_run_ids \cup {p}
        /\ project_workers' = [project_workers EXCEPT ![p] = o[2]]
        /\ run' = [run EXCEPT ![o] = "executing"]
        /\ UNCHANGED locked
     \/ /\ ~ MayRegister(p)
        /\ locked' = locked \ {o}
        /\ UNCHANGED <<active_run_ids, project_workers, run>>
  /\ at' = [at EXCEPT ![l] = "idle"] /\ pick' = [pick EXCEPT ![l] = NoObject]
  /\ UNCHANGED <<file, ui, ui_at, projects, data, round, sync, history>>

\* The end of _execute_project_logic saves the list ...
FinishLogic(o) ==
  /\ run[o] = "executing"
  /\ run' = [run EXCEPT ![o] = "saved"]
  /\ EngineSave(data)
  /\ UNCHANGED <<ui, ui_at, projects, data, locked, active_run_ids, project_workers, launch, sync,
                 edits, kept, consumed, forgotten>>

\* ... on_project_finish takes the run out of _active_run_ids ...
PopRun(o) ==
  /\ run[o] = "saved"
  /\ run' = [run EXCEPT ![o] = "popped"]
  /\ active_run_ids' = active_run_ids \ {o[1]}
  /\ UNCHANGED <<file, ui, ui_at, projects, data, locked, project_workers, launch, sync, history>>

\* ... and the end of _execute_wrapper untracks the worker and unlocks.  The
\* run_id it compares may be that of a worker of another object.
EndWorker(o) ==
  /\ run[o] = "popped"
  /\ run' = [run EXCEPT ![o] = "none"]
  /\ locked' = locked \ {o}
  /\ \/ project_workers' = [project_workers EXCEPT ![o[1]] = 0]
     \/ project_workers[o[1]] # o[2] /\ UNCHANGED project_workers
  /\ UNCHANGED <<file, ui, ui_at, projects, data, active_run_ids, launch, sync, history>>
-----------------------------------------------------------------------------
(* sync_from_legacy in the API thread.                                     *)

LiveProjects == active_run_ids \cup {p \in DOMAIN projects : project_workers[p] # 0}

HasLiveRuntime ==
  /\ sync_at = "check"
  /\ sync_at' = IF LiveProjects # {} THEN "merge" ELSE "load"
  /\ UNCHANGED <<file, ui, ui_at, core, launch, incoming, live_names, history>>

\* load_data: it reads the file and empties the list ...
BeginLoad ==
  /\ sync_at = "load" /\ sync_at' = "append"
  /\ incoming' = file /\ projects' = Empty
  /\ UNCHANGED <<file, ui, ui_at, data, locked, run, active_run_ids, project_workers, launch,
                 live_names, history>>

\* _reconcile_today_trace_state
LoadedData(d, p) == IF p \in Traced THEN [d EXCEPT !.last_consumed_ticket = "today"] ELSE d

\* ... fills it one project at a time ...
AppendProject(p) ==
  /\ sync_at = "append" /\ p \in DOMAIN incoming \ DOMAIN projects
  /\ FreeObjects(p) # {}
  /\ LET n == FreeObject(p) IN
     /\ projects' = [q \in DOMAIN projects \cup {p} |-> IF q = p THEN n ELSE projects[q]]
     /\ data' = [data EXCEPT ![<<p, n>>] = LoadedData(incoming[p], p)]
  /\ UNCHANGED <<file, ui, ui_at, locked, run, active_run_ids, project_workers, launch, sync, history>>

\* ... and is done.
EndLoad ==
  /\ sync_at = "append" /\ DOMAIN projects = DOMAIN incoming
  /\ sync_at' = "answer"
  /\ UNCHANGED <<file, ui, ui_at, core, launch, incoming, live_names, history>>

LoadLegacyProjects ==
  /\ sync_at = "merge" /\ sync_at' = "names"
  /\ incoming' = file
  /\ UNCHANGED <<file, ui, ui_at, core, launch, live_names, history>>

FindLiveNames ==
  /\ sync_at = "names" /\ sync_at' = "assign"
  /\ live_names' = LiveProjects
  /\ UNCHANGED <<file, ui, ui_at, core, launch, incoming, history>>

\* Mutant: the merge keeps every object it has.
KeepAll(p) == p \in DOMAIN projects
\* A live project keeps its object; the others get one made from the file.
KeepsObject(p) == p \in DOMAIN projects \cap live_names

\* Mutant: only the live projects are kept in the list.
MergedLive == {p \in Projects : KeepsObject(p)}
MergedNames == DOMAIN incoming \cup (DOMAIN projects \cap live_names)

AssignMerged ==
  LET fresh == {p \in MergedNames : ~ KeepsObject(p)} IN
  /\ sync_at = "assign" /\ sync_at' = "answer"
  /\ at["scheduler"] # "register"     \* project_state_lock
  /\ \A p \in fresh : FreeObjects(p) # {}
  /\ LET object == [p \in MergedNames |->
                      IF p \in fresh THEN FreeObject(p) ELSE projects[p]]
     IN /\ projects' = object
        /\ data' = [o \in Objects |-> IF o[1] \in fresh /\ object[o[1]] = o[2]
                                      THEN incoming[o[1]] ELSE data[o]]
  /\ UNCHANGED <<file, ui, ui_at, locked, run, active_run_ids, project_workers, launch,
                 incoming, live_names, history>>
-----------------------------------------------------------------------------
Desktop == \/ \E p \in Projects : EditProject(p) \/ AddProject(p) \/ DeleteProject(p)
           \/ WriteFile \/ Synced \/ OpenAgain
Launch == \/ BeginRound \/ RunManual
          \/ \E p \in Projects : PassOver(p) \/ ConsumeTicket(p) \/ FindProject(p)
          \/ \E l \in Launchers : Register(l)
Workers == \E o \in Objects : FinishLogic(o) \/ PopRun(o) \/ EndWorker(o)
ApiThread == \/ HasLiveRuntime
             \/ BeginLoad \/ (\E p \in Projects : AppendProject(p)) \/ EndLoad
             \/ LoadLegacyProjects \/ FindLiveNames \/ AssignMerged

Next == Desktop \/ Launch \/ Workers \/ ApiThread

Spec == Init /\ [][Next]_vars
-----------------------------------------------------------------------------
(* Properties.                                                             *)

\* A merge or a reload may replace a project's object, and with it the lock
\* that keeps its runs apart, while a launcher holds the old object or a run
\* executes it; still no project has two runs executing.
OneRunPerProject ==
  \A o1, o2 \in {o \in Objects : run[o] \in {"executing", "saved"}} :
    o1[1] = o2[1] => o1 = o2

\* Two processes overwrite one file, yet a project nobody deleted stays in
\* it, unless a run saved the list while load_data was filling it.
NoProjectLost == torn \/ kept \subseteq DOMAIN file

\* When the engine answers a sync, its list is the desktop program's for every
\* project that was not live, unless the engine saved over the file first.
EditsArrive ==
  sync_at = "answer" /\ ~ overwritten =>
    \A p \in Projects \ live_names :
      /\ (p \in DOMAIN ui) <=> (p \in DOMAIN projects)
      /\ p \in DOMAIN ui => data[<<p, projects[p]>>].settings = ui[p].settings

\* An edit does not make a ticket due again that has been consumed, unless the
\* desktop program had an old row, saved without a look at the engine (a
\* project added or deleted), was saving when the ticket was consumed, or the
\* scheduler consumed it with an object that a sync had replaced.
TicketRunsOnce ==
  \A p \in kept \ forgotten : consumed[p] <= 1
=============================================================================

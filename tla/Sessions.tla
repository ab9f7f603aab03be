------------------------------- MODULE Sessions -------------------------------
(***************************************************************************)
(* What a scheduler process remembers of a project over the days and over  *)
(* its restarts: Project.calculate_next_run for every type of schedule, the *)
(* daily reset, the ticket rules, and the three files the state is kept in: *)
(* scheduler_data.json and scheduler_session_state.json, which save_data   *)
(* writes one after the other, and the schedule trace of the day.  The     *)
(* scheduler, the worker of a run and other callers of save_data interleave; *)
(* the process may die between any two steps, and a write may fail.        *)
(*                                                                         *)
(* Time is counted in slots, more than five minutes apart; a ticket is the *)
(* slot it names.  The locks of a launch are the subject of ProjectLaunch.  *)
(***************************************************************************)
EXTENDS Integers, FiniteSetsExt

CONSTANTS
  Configs,           \* projects to look at
  SlotsPerDay,
  Faults,            \* "crash", "write": a JSON file cannot be written
  \* Bounds of the instance, not of the code:
  MaxNow,            \* the last slot
  MaxCrashes,
  MaxEvents          \* manual runs, saves of other threads and failed writes, together

None == -1           \* no ticket, no run yet, no file of the day
Never == -2          \* next_run is no date ("Expired")

ASSUME SessionAssumption ==
  /\ SlotsPerDay \in Nat \ {0} /\ MaxNow \in Nat
  /\ {MaxCrashes, MaxEvents} \subseteq Nat
  /\ Faults \subseteq {"crash", "write"}
  /\ \A cf \in Configs :
       /\ cf.schedule_type \in {"daily", "weekly", "interval", "onetime"}
       /\ cf.run_time \in 0 .. SlotsPerDay - 1     \* slot of the day
       /\ cf.days \subseteq 0 .. 6 /\ cf.days # {}
       /\ cf.interval \in Nat /\ cf.date \in Nat
       /\ cf.catch_up_missed \in BOOLEAN

Savers == {"scheduler", "worker", "other"}  \* threads that call save_data

VARIABLES
  config, now,
  \* files
  data_file, session_state, trace,
  \* the process and its project
  up, status, last_run, next_run, last_consumed_ticket,
  current_date, checked,         \* _current_date, _last_checked_minute
  loop, run,                     \* positions of the scheduler and of the worker
  save_at, payload,              \* save_data, per thread
  \* history and bounds
  used, attempted, up_since,
  crashes, events

files == <<data_file, session_state, trace>>
project == <<status, last_run, next_run, last_consumed_ticket>>
history == <<used, attempted, up_since>>
counts == <<crashes, events>>
vars == <<config, now, files, up, project, current_date, checked, loop, run, save_at, payload, history, counts>>

Final == {"Done", "Error"}    \* "Stopped" is treated like "Error"
Statuses == {"Waiting", "Running"} \cup Final
Times == Int

TypeOK ==
  /\ config \in Configs /\ now \in 0 .. MaxNow
  /\ data_file \in [status : Statuses, last_run : Times, ticket : Times]
  /\ session_state \in [date : Times, status : Statuses, ticket : Times]
  /\ trace \in [date : Times, ticket : Times, status : Final \cup {"none"}, last_run : Times, next_run : Times]
  /\ up \in BOOLEAN /\ status \in Statuses
  /\ last_run \in Nat \cup {None} /\ next_run \in Nat \cup {Never}
  /\ last_consumed_ticket \in Nat \cup {None}
  /\ current_date \in Times /\ checked \in Times
  /\ loop \in {"sleep", "consider", "trace", "launch"}
  /\ run \in {"none", "created", "running", "finished", "leaving"}
  /\ save_at \in [Savers -> {"none", "dump", "write", "session"}]
  /\ payload \in [Savers -> [status : Statuses, last_run : Times, ticket : Times]]
  /\ used \subseteq Int /\ attempted \in BOOLEAN /\ up_since \in Nat
  /\ crashes \in 0 .. MaxCrashes /\ events \in 0 .. MaxEvents

Day(t) == t \div SlotsPerDay
Today == Day(now)
Weekday(d) == d % 7
Due(d) == d * SlotsPerDay + config.run_time
-----------------------------------------------------------------------------
(* Project.calculate_next_run.                                             *)

daily_next_run(ticket) ==
  IF Due(Today) <= now /\ ticket = Due(Today) THEN Due(Today + 1) ELSE Due(Today)

\* Mutant: the present day is never a candidate.
CandidateAfterToday(wd) ==
  LET ahead == (wd - Weekday(Today)) % 7
  IN  IF ahead = 0 THEN Due(Today + 7) ELSE Due(Today + ahead)

\* The next run on one of the days of the week.
candidate(wd) ==
  LET ahead == (wd - Weekday(Today)) % 7
  IN  IF Due(Today + ahead) <= now THEN Due(Today + ahead + 7) ELSE Due(Today + ahead)

interval_next_run(last) == IF last = None \/ last + config.interval <= now THEN now ELSE last + config.interval

onetime_next_run(ticket) == IF config.date <= now /\ ticket = config.date THEN Never ELSE config.date

calculate_next_run(ticket, last) ==
  CASE config.schedule_type = "daily"    -> daily_next_run(ticket)
    [] config.schedule_type = "weekly"   -> Min({candidate(wd) : wd \in config.days})
    [] config.schedule_type = "interval" -> interval_next_run(last)
    [] config.schedule_type = "onetime"  -> onetime_next_run(ticket)

\* Mutant: a consumed ticket is allowed again.
TicketAllowedTwice ==
  /\ next_run # Never /\ now >= next_run
  /\ next_run = now \/ Day(next_run) = Today \/ config.catch_up_missed

\* _get_ticket_block_reason returns None.
TicketAllowed ==
  /\ next_run # Never /\ now >= next_run
  /\ next_run # last_consumed_ticket
  /\ next_run = now \/ Day(next_run) = Today \/ config.catch_up_missed
-----------------------------------------------------------------------------
(* Start.                                                                  *)

NoSession == [date |-> None, status |-> "Waiting", ticket |-> None]
NoTrace == [date |-> None, ticket |-> None, status |-> "none", last_run |-> None, next_run |-> None]
NoPayload == [status |-> "Waiting", last_run |-> None, ticket |-> None]

\* A project that has been set up and saved, and has not run yet.
Init ==
  /\ config \in Configs /\ now = 0
  /\ data_file = NoPayload /\ session_state = NoSession /\ trace = NoTrace
  /\ up = FALSE /\ status = "Waiting" /\ last_run = None /\ next_run = 0 /\ last_consumed_ticket = None
  /\ current_date = 0 /\ checked = None
  /\ loop = "sleep" /\ run = "none"
  /\ save_at = [th \in Savers |-> "none"] /\ payload = [th \in Savers |-> NoPayload]
  /\ used = {} /\ attempted = FALSE /\ up_since = 0
  /\ crashes = 0 /\ events = 0

\* Project.__init__: the status of an earlier day is dropped.
InitialStatus == IF data_file.last_run # None /\ Day(data_file.last_run) = Today THEN data_file.status ELSE "Waiting"

SessionOfToday == session_state.date = Today

\* The ticket of the session file comes first.
SavedTicket == IF session_state.ticket # None THEN session_state.ticket ELSE data_file.ticket

\* Mutant: a status of the session file is always kept.
KeepSessionStatus == FALSE

\* _is_stale_daily_session_status
StaleSessionStatus ==
  /\ config.schedule_type = "daily"
  /\ SavedTicket # Due(Today)
  /\ data_file.last_run = None \/ Day(data_file.last_run) # Today
  /\ session_state.status \in Final

\* _load_session_state
SessionStatus ==
  IF StaleSessionStatus THEN "Waiting"
  ELSE IF config.schedule_type = "daily" /\ session_state.status = "Done" /\ config.run_time > now % SlotsPerDay
  THEN "Waiting" ELSE session_state.status

\* _reconcile_today_trace_state
TraceTicket == IF trace.date = Today THEN trace.ticket ELSE None
TraceFinish == trace.date = Today /\ trace.status # "none" /\ trace.last_run # None /\ Day(trace.last_run) = Today

\* load_data; next_run is calculated before the session is read, and stays.
LoadData ==
  /\ last_consumed_ticket' = IF TraceTicket # None THEN TraceTicket
                             ELSE IF SessionOfToday THEN SavedTicket ELSE data_file.ticket
  /\ status' = IF TraceFinish THEN trace.status
               ELSE IF SessionOfToday THEN SessionStatus ELSE InitialStatus
  /\ last_run' = IF TraceFinish THEN trace.last_run ELSE data_file.last_run
  /\ next_run' = IF TraceFinish THEN trace.next_run
                 ELSE calculate_next_run(data_file.ticket, data_file.last_run)
  /\ session_state' = IF SessionOfToday THEN session_state ELSE NoSession

Start ==
  /\ ~up /\ up' = TRUE
  /\ LoadData
  /\ current_date' = Today /\ checked' = None /\ up_since' = now
  /\ UNCHANGED <<config, now, data_file, trace, loop, run, save_at, payload, used, attempted, counts>>

Event == events < MaxEvents /\ events' = events + 1 /\ UNCHANGED crashes

Crash ==
  /\ up /\ crashes < MaxCrashes /\ crashes' = crashes + 1 /\ UNCHANGED events
  /\ up' = FALSE /\ loop' = "sleep" /\ run' = "none"
  /\ save_at' = [th \in Savers |-> "none"] /\ payload' = [th \in Savers |-> NoPayload]
  /\ UNCHANGED <<config, now, files, project, current_date, checked, history>>
-----------------------------------------------------------------------------
(* save_data, on the thread th.                                            *)

CallSave(th) == save_at' = [save_at EXCEPT ![th] = "dump"]
Saving(th) == save_at[th] # "none"
SaveGoes(th, l) == save_at' = [save_at EXCEPT ![th] = l]
SaveKeeps == UNCHANGED <<config, now, up, project, current_date, checked, loop, run, history>>

\* [p.to_dict() for p in self.projects], before persistence_lock is taken.
DumpProjects(th) ==
  /\ save_at[th] = "dump" /\ SaveGoes(th, "write")
  /\ payload' = [payload EXCEPT ![th] = [status |-> status, last_run |-> last_run, ticket |-> last_consumed_ticket]]
  /\ SaveKeeps /\ UNCHANGED <<files, counts>>

\* Under persistence_lock, which is free while no thread is between the two files.
WriteDataFile(th) ==
  /\ save_at[th] = "write" /\ \A o \in Savers : save_at[o] # "session"
  /\ \/ data_file' = payload[th] /\ SaveGoes(th, "session") /\ UNCHANGED counts
     \/ /\ "write" \in Faults /\ Event
        /\ SaveGoes(th, "none") /\ UNCHANGED data_file
  /\ payload' = [payload EXCEPT ![th] = NoPayload]
  /\ SaveKeeps /\ UNCHANGED <<session_state, trace>>

\* _save_session_state looks at the projects again.
WriteSessionState(th) ==
  /\ save_at[th] = "session" /\ SaveGoes(th, "none")
  /\ \/ /\ session_state' = [date |-> Today, status |-> status, ticket |-> last_consumed_ticket]
        /\ UNCHANGED counts
     \/ /\ "write" \in Faults /\ Event
        /\ UNCHANGED session_state
  /\ SaveKeeps /\ UNCHANGED <<data_file, trace, payload>>

SaveStep(th) == up /\ (DumpProjects(th) \/ WriteDataFile(th) \/ WriteSessionState(th))

\* Another project's worker, the bot or a command saves all projects.
OtherSave ==
  /\ up /\ ~Saving("other") /\ Event
  /\ CallSave("other")
  /\ UNCHANGED <<config, now, files, up, project, current_date, checked, loop, run, payload, history>>
-----------------------------------------------------------------------------
(* The scheduler loop.                                                     *)

SchedulerReady(l) == up /\ loop = l /\ ~Saving("scheduler")

\* Mutant: the status stays.
ResetKeepsStatus ==
  /\ SchedulerReady("sleep") /\ current_date # Today /\ current_date' = Today
  /\ next_run' = IF run = "none" THEN calculate_next_run(last_consumed_ticket, last_run) ELSE next_run
  /\ CallSave("scheduler")
  /\ UNCHANGED <<config, now, files, up, status, last_run, last_consumed_ticket, checked, loop, run, payload, history, counts>>

\* _reset_daily_state
DailyReset ==
  /\ SchedulerReady("sleep") /\ current_date # Today /\ current_date' = Today
  /\ IF run = "none"
     THEN /\ status' = "Waiting"
          /\ next_run' = calculate_next_run(last_consumed_ticket, last_run)
     ELSE UNCHANGED <<status, next_run>>
  /\ CallSave("scheduler")
  /\ UNCHANGED <<config, now, files, up, last_run, last_consumed_ticket, checked, loop, run, payload, history, counts>>

\* The pass of a minute begins with _heal_ghost_running_projects.
BeginPass ==
  LET ghost == status = "Running" /\ run = "none" IN
  /\ SchedulerReady("sleep") /\ current_date = Today /\ checked # now
  /\ checked' = now /\ loop' = "consider"
  /\ IF ghost
     THEN /\ status' = "Error" /\ next_run' = calculate_next_run(last_consumed_ticket, last_run)
          /\ CallSave("scheduler")
     ELSE UNCHANGED <<status, next_run, save_at>>
  /\ UNCHANGED <<config, now, files, up, last_run, last_consumed_ticket, current_date, run, payload, history, counts>>

\* try_consume_ticket_atomic, to its save_data.
ConsumeTicket ==
  LET consumes == status = "Waiting" /\ run = "none" /\ TicketAllowed IN
  /\ SchedulerReady("consider")
  /\ IF consumes
     THEN /\ last_consumed_ticket' = next_run /\ attempted' = TRUE
          /\ CallSave("scheduler") /\ loop' = "trace"
     ELSE loop' = "sleep" /\ UNCHANGED <<last_consumed_ticket, attempted, save_at>>
  /\ UNCHANGED <<config, now, files, up, status, last_run, next_run, current_date, checked, run, payload,
                 used, up_since, counts>>

\* The trace of the day, whose ticket is used only if it is one of that day.
TraceOfToday == IF trace.date = Today THEN trace ELSE [NoTrace EXCEPT !.date = Today]

TraceConsumed ==
  /\ SchedulerReady("trace") /\ loop' = "launch"
  /\ trace' = IF Day(next_run) = Today THEN [TraceOfToday EXCEPT !.ticket = next_run] ELSE TraceOfToday
  /\ UNCHANGED <<config, now, data_file, session_state, up, project, current_date, checked, run,
                 save_at, payload, history, counts>>

LaunchScheduled ==
  /\ SchedulerReady("launch") /\ loop' = "sleep"
  /\ run' = "created" /\ used' = used \cup {last_consumed_ticket}
  /\ UNCHANGED <<config, now, files, up, project, current_date, checked, save_at, payload,
                 attempted, up_since, counts>>

\* run_project_manual; the execution_lock is taken while a run is under way.
LaunchManual ==
  /\ up /\ run = "none" /\ loop \notin {"trace", "launch"}
  /\ Event
  /\ run' = "created"
  /\ UNCHANGED <<config, now, files, up, project, current_date, checked, loop, save_at, payload, history>>
-----------------------------------------------------------------------------
(* The worker of a run.                                                    *)

WorkerReady(l) == up /\ run = l /\ ~Saving("worker")

BeginRun ==
  /\ WorkerReady("created") /\ run' = "running"
  /\ status' = "Running" /\ attempted' = TRUE
  /\ UNCHANGED <<config, now, files, up, last_run, next_run, last_consumed_ticket, current_date, checked,
                 loop, save_at, payload, used, up_since, counts>>

\* The last locked section; after an exception last_run and next_run stay.
FinishRun ==
  /\ WorkerReady("running") /\ run' = "finished"
  /\ \/ /\ status' \in Final
        /\ last_run' = now /\ next_run' = calculate_next_run(last_consumed_ticket, now)
        /\ CallSave("worker")
     \/ status' = "Error" /\ UNCHANGED <<last_run, next_run, save_at>>
  /\ UNCHANGED <<config, now, files, up, last_consumed_ticket, current_date, checked, loop, payload, history, counts>>

\* The finally block traces PROJECT_FINISH; then the core saves once more.
TraceFinished ==
  /\ WorkerReady("finished") /\ run' = "leaving"
  /\ trace' = [TraceOfToday EXCEPT !.status = status, !.last_run = last_run, !.next_run = next_run]
  /\ CallSave("worker")
  /\ UNCHANGED <<config, now, data_file, session_state, up, project, current_date, checked, loop,
                 payload, history, counts>>

EndRun ==
  /\ WorkerReady("leaving") /\ run' = "none"
  /\ UNCHANGED <<config, now, files, up, project, current_date, checked, loop, save_at, payload, history, counts>>

\* The loop makes its pass in every slot in which the process is up to the end.
Tick ==
  /\ now < MaxNow /\ now' = now + 1
  /\ up => /\ SchedulerReady("sleep") /\ current_date = Today /\ checked = now
           /\ run # "created" /\ (status \in Final => run # "running")
  /\ attempted' = IF Day(now + 1) # Today THEN run # "none" ELSE attempted
  /\ UNCHANGED <<config, files, up, project, current_date, checked, loop, run, save_at, payload,
                 used, up_since, counts>>

BoundsReached ==
  /\ now = MaxNow /\ (up => loop = "sleep" /\ checked = now /\ run = "none" /\ \A th \in Savers : ~Saving(th))
  /\ UNCHANGED vars
-----------------------------------------------------------------------------
Scheduler == DailyReset \/ BeginPass \/ ConsumeTicket \/ TraceConsumed \/ LaunchScheduled
Worker == BeginRun \/ FinishRun \/ TraceFinished \/ EndRun

Next ==
  \/ Start \/ ("crash" \in Faults /\ Crash)
  \/ \E th \in Savers : SaveStep(th)
  \/ OtherSave \/ Scheduler \/ LaunchManual \/ Worker
  \/ Tick \/ BoundsReached

Spec == Init /\ [][Next]_vars
-----------------------------------------------------------------------------
(* Properties.                                                             *)

\* A ticket starts one run, whatever crashes and failed writes there are between its
\* consumption and the restart that reads the files.  Only a one-time ticket of an
\* earlier day, which catch_up_missed allows, may be forgotten and used again: a
\* thread that saves what it has read before writes the old ticket to the data file.
TicketRunsOnce ==
  [][(LaunchScheduled /\ (config.schedule_type = "onetime" => Day(last_consumed_ticket) = Today))
       => last_consumed_ticket \notin used]_vars

\* The slots the schedule of the project names.
Scheduled(t) ==
  CASE config.schedule_type = "daily"   -> t % SlotsPerDay = config.run_time
    [] config.schedule_type = "weekly"  -> t % SlotsPerDay = config.run_time /\ Weekday(Day(t)) \in config.days
    [] config.schedule_type = "onetime" -> t = config.date
    [] OTHER -> FALSE

\* A process that is up at the end of a day has tried to run a daily project on that
\* day, whatever restarts, crashes and failed writes there were on the way: no status
\* and no ticket of an earlier day is restored that keeps the project from running.
DailyRunsDaily ==
  [][(up /\ Day(now') # Today /\ config.schedule_type = "daily") => attempted]_vars

\* A run on a day of the week, or at a date, is tried when the process is up from
\* midnight to the end of the day.  A weekly run at midnight never is: the daily
\* reset of that minute moves it on by a week.
ScheduledDayRuns ==
  [][(/\ ~(config.schedule_type = "weekly" /\ config.run_time = 0)
      /\ up /\ up_since < Today * SlotsPerDay /\ Day(now') # Today
      /\ \E t \in Today * SlotsPerDay .. now : Scheduled(t)) => attempted]_vars

\* next_run skips no slot of the schedule that lies ahead.
NoSlotSkipped ==
  up => \A t \in now + 1 .. now + 7 * SlotsPerDay : Scheduled(t) => next_run \in 0 .. t
=============================================================================

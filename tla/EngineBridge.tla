----------------------------- MODULE EngineBridge -----------------------------
(***************************************************************************)
(* How desktop programs find, start, lose and stop the engine process of   *)
(* their directory.  A desktop program asks the engine's port for its      *)
(* health; without an answer it starts scheduler_engine.py and waits.  The *)
(* engine takes the directory's lock file, starts scheduling, and only     *)
(* then binds its port.  The program polls: when the engine is gone it     *)
(* starts one again, and when it quits it shuts the engine down, whoever   *)
(* started it, and terminates the process it started itself.  A program    *)
(* that has no engine when it opens schedules with its embedded core.      *)
(***************************************************************************)
EXTENDS Naturals, FiniteSets

CONSTANTS
  Desktops, Processes,
  NoProcess,       \* no process: a free lock or port, no handle, no starter
  Foreign,         \* another program on the engine's port
  \* Bound of the instance, not of the code:
  MaxFaults        \* crashes, answers that time out or get lost, starts that fail, a port taken

ASSUME BridgeAssumption == /\ MaxFaults \in Nat /\ NoProcess # Foreign /\ NoProcess \notin Desktops
                           /\ {NoProcess, Foreign} \cap Processes = {}

VARIABLES
  process,         \* position of every process in main(), "none" if not running
  started_by,      \* the desktop program that started it
  engine_lock,     \* the process that holds scheduler_engine.lock
  port,            \* the process that listens
  at,              \* position of every desktop program
  engine_mode,     \* HSSchedulerApp.engine_mode
  engine_process,  \* its handle on the process it started
  faults           \* bound

engine == <<process, started_by, engine_lock, port>>
desktop == <<at, engine_mode, engine_process>>
vars == <<engine, desktop, faults>>

TypeOK ==
  /\ process \in [Processes -> {"none", "starting", "locked", "scheduling", "serving",
                                "stopping", "failed", "stopped", "stranded", "closed"}]
  /\ started_by \in [Processes -> Desktops \cup {NoProcess}]
  /\ engine_lock \in Processes \cup {NoProcess}
  /\ port \in Processes \cup {NoProcess, Foreign}
  /\ at \in [Desktops -> {"closed", "startup", "startup_wait", "startup_sync", "open",
                          "recover", "wait", "wait_own", "quitting"}]
  /\ engine_mode \in [Desktops -> BOOLEAN]
  /\ engine_process \in [Desktops -> Processes \cup {NoProcess}]
  /\ faults \in 0 .. MaxFaults
  \* what a process holds is held by a process that runs
  /\ \A e \in {engine_lock, port} \cap Processes : process[e] # "none"

Init ==
  /\ process = [e \in Processes |-> "none"] /\ started_by = [e \in Processes |-> NoProcess]
  /\ engine_lock = NoProcess /\ port = NoProcess
  /\ at = [d \in Desktops |-> "closed"] /\ engine_mode = [d \in Desktops |-> FALSE]
  /\ engine_process = [d \in Desktops |-> NoProcess]
  /\ faults = MaxFaults

Alive(e) == process[e] # "none"
Serving == \E e \in Processes : process[e] \in {"serving", "stopping", "stopped", "stranded"}
-----------------------------------------------------------------------------
(* The engine process: main() of scheduler_engine.py.                      *)

\* Mutant: the lock is not asked for, only the port.
PortFree == port = NoProcess
LockFree == engine_lock = NoProcess

\* The operating system takes the lock and the port of a process that ends.
Dies(E) ==
  /\ process' = [e \in Processes |-> IF e \in E THEN "none" ELSE process[e]]
  /\ started_by' = [e \in Processes |-> IF e \in E THEN NoProcess ELSE started_by[e]]
  /\ engine_lock' = IF engine_lock \in E THEN NoProcess ELSE engine_lock
  /\ port' = IF port \in E THEN NoProcess ELSE port

AcquireLock(e) ==
  /\ process[e] = "starting"
  /\ \/ /\ LockFree
        /\ engine_lock' = e /\ process' = [process EXCEPT ![e] = "locked"]
        /\ UNCHANGED <<started_by, port>>
     \/ ~ LockFree /\ Dies({e})     \* exit code 2
  /\ UNCHANGED <<desktop, faults>>

Goes(e, from, to) == process[e] = from /\ process' = [process EXCEPT ![e] = to]

StartService(e) ==
  /\ Goes(e, "locked", "scheduling")
  /\ UNCHANGED <<started_by, engine_lock, port, desktop, faults>>

\* LocalApiServer: with the port taken the exception ends in `finally`.
Bind(e) ==
  /\ \/ port = NoProcess /\ Goes(e, "scheduling", "serving") /\ port' = e
     \/ port # NoProcess /\ Goes(e, "scheduling", "failed") /\ UNCHANGED port
  /\ UNCHANGED <<started_by, engine_lock, desktop, faults>>

StopService(e) ==
  /\ Goes(e, "stopping", "stopped") \/ Goes(e, "failed", "closed")
  /\ UNCHANGED <<started_by, engine_lock, port, desktop, faults>>

\* POST /shutdown: the server is closed only when the reply has been written ...
CloseServer(e) ==
  /\ Goes(e, "stopped", "closed") /\ port' = NoProcess
  /\ UNCHANGED <<started_by, engine_lock, desktop, faults>>

\* ... which raises for a client that is gone, as after its timeout of five seconds, and
\* is not tried when the end of stop() raises: the server of a stopped engine stays open.
ShutdownFails(e) ==
  /\ Goes(e, "stopping", "stranded") \/ Goes(e, "stopped", "stranded")
  /\ faults > 0 /\ faults' = faults - 1
  /\ UNCHANGED <<started_by, engine_lock, port, desktop>>

ReleaseLock(e) ==
  /\ process[e] = "closed" /\ Dies({e})
  /\ UNCHANGED <<desktop, faults>>

Crash(e) ==
  /\ Alive(e) /\ faults > 0 /\ faults' = faults - 1
  /\ Dies({e}) /\ UNCHANGED desktop

\* python scheduler_engine.py from a console or at boot
StartByHand(e) ==
  /\ Goes(e, "none", "starting") /\ \A d \in Desktops : engine_process[d] # e
  /\ UNCHANGED <<started_by, engine_lock, port, desktop, faults>>

PortTaken ==
  /\ port = NoProcess /\ faults > 0
  /\ port' = Foreign /\ faults' = faults - 1
  /\ UNCHANGED <<process, started_by, engine_lock, desktop>>

PortReturned ==
  /\ port = Foreign /\ port' = NoProcess
  /\ UNCHANGED <<process, started_by, engine_lock, desktop, faults>>
-----------------------------------------------------------------------------
(* The desktop program.                                                    *)

\* _engine_available_for_base: a serving engine may still fail to answer in time.
Answered == Serving /\ UNCHANGED faults
NoAnswer == \/ ~ Serving /\ UNCHANGED faults
            \/ Serving /\ faults > 0 /\ faults' = faults - 1

\* Mutant: a process it has started once counts as alive.
HasHandle(d) == engine_process[d] # NoProcess
EngineProcessAlive(d) == engine_process[d] # NoProcess /\ Alive(engine_process[d])

\* Mutant: the handle goes before the process does.
ForgetOwned(d) == UNCHANGED engine
\* _stop_owned_engine_process
StopOwned(d) == IF EngineProcessAlive(d) THEN Dies({engine_process[d]}) ELSE UNCHANGED engine

Go(d, to) == at' = [at EXCEPT ![d] = to]

OpenDesktop(d) ==
  /\ at[d] = "closed" /\ Go(d, "startup")
  /\ UNCHANGED <<engine, engine_mode, engine_process, faults>>

\* _ensure_engine_bridge: the engine is there ...
FindEngine(d) ==
  /\ at[d] \in {"startup", "startup_wait", "startup_sync", "recover", "wait", "wait_own"}
  /\ Answered
  /\ engine_mode' = IF at[d] \in {"startup", "startup_wait"} THEN [engine_mode EXCEPT ![d] = TRUE]
                                                            ELSE engine_mode
  /\ Go(d, "open")
  /\ UNCHANGED <<engine, engine_process>>

\* ... or it has been started and is waited for ...
WaitForOwn(d) ==
  /\ at[d] \in {"startup", "startup_sync", "recover"} /\ NoAnswer
  /\ EngineProcessAlive(d)
  /\ Go(d, "wait_own")
  /\ UNCHANGED <<engine, engine_mode, engine_process>>

\* ... or it is started now.
SpawnEngine(d) ==
  /\ at[d] \in {"startup", "startup_sync", "recover"} /\ NoAnswer
  /\ ~ EngineProcessAlive(d)
  /\ \E e \in Processes :
       /\ ~ Alive(e) /\ \A o \in Desktops \ {d} : engine_process[o] # e
       /\ process' = [process EXCEPT ![e] = "starting"]
       /\ started_by' = [started_by EXCEPT ![e] = d]
       /\ engine_process' = [engine_process EXCEPT ![d] = e]
  /\ Go(d, IF at[d] = "startup" THEN "startup_wait" ELSE "wait")
  /\ UNCHANGED <<engine_lock, port, engine_mode>>

\* Popen raises.
SpawnFails(d) ==
  /\ at[d] \in {"startup", "startup_sync", "recover"} /\ ~ EngineProcessAlive(d)
  /\ faults > 0 /\ faults' = faults - 1
  /\ engine_process' = [engine_process EXCEPT ![d] = NoProcess]
  /\ Go(d, IF at[d] = "startup" THEN "startup_sync" ELSE "open")
  /\ UNCHANGED <<engine, engine_mode>>

\* Two seconds without an answer of its own process; it is left alone.
GiveUpOwn(d) ==
  /\ at[d] = "wait_own" /\ NoAnswer /\ Go(d, "open")
  /\ UNCHANGED <<engine, engine_mode, engine_process>>

\* Six seconds without an answer: what was started is terminated, and a
\* program that is opening starts its embedded core, then tries once more.
GiveUpStart(d) ==
  /\ at[d] \in {"startup_wait", "wait"}
  /\ IF Serving \/ EngineProcessAlive(d) THEN faults > 0 /\ faults' = faults - 1 ELSE UNCHANGED faults
  /\ StopOwned(d)
  /\ engine_process' = [engine_process EXCEPT ![d] = NoProcess]
  /\ Go(d, IF at[d] = "startup_wait" THEN "startup_sync" ELSE "open")
  /\ UNCHANGED engine_mode

\* _recover_engine_bridge, from the poll in engine mode or a save in any mode ...
Recover(d) ==
  /\ at[d] = "open" /\ NoAnswer
  /\ engine_process' = IF EngineProcessAlive(d) THEN engine_process
                       ELSE [engine_process EXCEPT ![d] = NoProcess]
  /\ Go(d, "recover")
  /\ UNCHANGED <<engine, engine_mode>>

\* ... and from a command, with force_restart.
ForceRestart(d) ==
  /\ at[d] = "open" /\ engine_mode[d] /\ NoAnswer
  /\ StopOwned(d)
  /\ engine_process' = [engine_process EXCEPT ![d] = NoProcess]
  /\ Go(d, "recover")
  /\ UNCHANGED engine_mode

\* clean_quit: POST /shutdown to the engine that answers ...
ShutdownEngine(d) ==
  /\ at[d] = "open" /\ Go(d, "quitting")
  /\ \/ /\ engine_mode[d] /\ Serving
        /\ process' = [e \in Processes |-> IF process[e] \in {"serving", "stranded"} THEN "stopping" ELSE process[e]]
        /\ UNCHANGED <<started_by, engine_lock, port, faults>>
     \/ ((~ engine_mode[d] /\ UNCHANGED faults) \/ NoAnswer) /\ UNCHANGED engine
  /\ UNCHANGED <<engine_mode, engine_process>>

\* ... then the process it started itself is terminated.
CleanQuit(d) ==
  /\ at[d] = "quitting" /\ Go(d, "closed")
  /\ StopOwned(d)
  /\ engine_process' = [engine_process EXCEPT ![d] = NoProcess]
  /\ engine_mode' = [engine_mode EXCEPT ![d] = FALSE]
  /\ UNCHANGED faults

\* The program crashes: nobody has the handle of its engine any more.
DesktopCrash(d) ==
  /\ at[d] # "closed" /\ faults > 0 /\ faults' = faults - 1
  /\ Go(d, "closed")
  /\ engine_process' = [engine_process EXCEPT ![d] = NoProcess]
  /\ engine_mode' = [engine_mode EXCEPT ![d] = FALSE]
  /\ started_by' = [e \in Processes |-> IF started_by[e] = d THEN NoProcess ELSE started_by[e]]
  /\ UNCHANGED <<process, engine_lock, port>>
-----------------------------------------------------------------------------
EngineStep(e) == \/ AcquireLock(e) \/ StartService(e) \/ Bind(e)
                 \/ StopService(e) \/ CloseServer(e) \/ ReleaseLock(e)
Ensure(d) == \/ FindEngine(d) \/ WaitForOwn(d) \/ SpawnEngine(d)
             \/ GiveUpOwn(d) \/ GiveUpStart(d)

\* poll_engine_bridge
Poll(d) == engine_mode[d] /\ Recover(d)

Next ==
  \/ \E e \in Processes : EngineStep(e) \/ ShutdownFails(e) \/ Crash(e) \/ StartByHand(e)
  \/ PortTaken \/ PortReturned
  \/ \E d \in Desktops : \/ OpenDesktop(d) \/ Ensure(d) \/ SpawnFails(d) \/ Recover(d) \/ ForceRestart(d)
                         \/ ShutdownEngine(d) \/ CleanQuit(d) \/ DesktopCrash(d)

\* Processes and the calls of a program go on; the poll repeats; whoever took
\* the port gives it back.  Nobody has to open, quit or click.
Fairness ==
  /\ \A e \in Processes : WF_vars(EngineStep(e))
  /\ \A d \in Desktops : WF_vars(Ensure(d)) /\ WF_vars(Poll(d)) /\ WF_vars(CleanQuit(d))
  /\ WF_vars(PortReturned)

Spec == Init /\ [][Next]_vars /\ Fairness
-----------------------------------------------------------------------------
(* Properties.                                                             *)

Schedules(e) == process[e] \in {"scheduling", "serving", "stopping", "failed"}

\* However many programs start, restart and stop engines, and however a start
\* ends, no two engines schedule the projects of the directory at a time.
OneEngine == \A e, f \in Processes : Schedules(e) /\ Schedules(f) => e = f

\* Through every restart a program has the handle of the one engine process it
\* has running, and none of its engines outlives it when it is closed.
NoEngineLeftBehind ==
  \A e \in Processes, d \in Desktops : Alive(e) /\ started_by[e] = d => engine_process[d] = e

\* A program in engine mode has an engine again sooner or later, after a crash, a
\* shutdown by another program, a start that is slow or fails, or a lost port.  The
\* exception is an engine whose shutdown has failed: it has stopped, but its answers to
\* /health pass for those of an engine, and nobody starts another.
EngineReturns ==
  \A d \in Desktops : engine_mode[d] ~> \/ at[d] = "closed"
                                           \/ \E e \in Processes : process[e] \in {"serving", "stranded"}
=============================================================================

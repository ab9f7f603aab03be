-------------------------- MODULE EngineBridgeProofs --------------------------
(* Theorems about EngineBridge, for any programs, processes and faults.     *)
EXTENDS EngineBridge, TLAPS

HoldingLock == {"locked", "scheduling", "serving", "stopping", "failed", "stopped", "stranded", "closed"}

\* A process past AcquireLock holds the lock file, whatever happens to the others.
LockInv == \A e \in Processes : process[e] \in HoldingLock => engine_lock = e

\* A process that does not run was started by nobody; one that runs is known to
\* the program that started it.
OwnerInv ==
  /\ \A e \in Processes : ~ Alive(e) => started_by[e] = NoProcess
  /\ NoEngineLeftBehind

Inv == TypeOK /\ LockInv /\ OwnerInv

LEMMA InvInit == Init => Inv
  BY BridgeAssumption DEF Init, Inv, TypeOK, LockInv, OwnerInv, NoEngineLeftBehind, Alive, HoldingLock

\* What the operating system leaves of the engines when some of them end.
LEMMA DiesKeepsInv ==
  ASSUME Inv, NEW E \in SUBSET Processes, Dies(E)
  PROVE  /\ process' \in [Processes -> {"none", "starting", "locked", "scheduling", "serving",
                                        "stopping", "failed", "stopped", "stranded", "closed"}]
         /\ started_by' \in [Processes -> Desktops \cup {NoProcess}]
         /\ engine_lock' \in Processes \cup {NoProcess}
         /\ port' \in Processes \cup {NoProcess, Foreign}
         /\ \A e \in {engine_lock', port'} \cap Processes : process'[e] # "none"
         /\ LockInv'
         /\ \A e \in Processes : ~ Alive(e)' => started_by'[e] = NoProcess
         /\ \A e \in Processes : Alive(e)' => /\ Alive(e) /\ e \notin E
                                              /\ started_by'[e] = started_by[e]
  BY BridgeAssumption DEF Inv, TypeOK, LockInv, OwnerInv, Dies, Alive, HoldingLock

\* A process that goes on from one position of main() to the next.
LEMMA GoesKeepsInv ==
  ASSUME Inv, NEW e \in Processes, NEW from \in HoldingLock, NEW to \in HoldingLock, Goes(e, from, to),
         UNCHANGED <<started_by, engine_lock, desktop, faults>>,
         port' \in {port, e, NoProcess}
  PROVE  Inv'
  BY BridgeAssumption DEF Inv, TypeOK, LockInv, OwnerInv, NoEngineLeftBehind, Goes, Alive, HoldingLock, desktop

\* The steps of an engine process.
LEMMA EngineStepKeepsInv == ASSUME Inv, NEW e \in Processes, EngineStep(e) PROVE Inv'
<1>1. CASE AcquireLock(e)
  <2>1. CASE LockFree /\ engine_lock' = e /\ process' = [process EXCEPT ![e] = "locked"]
             /\ UNCHANGED <<started_by, port>>
    BY <1>1, <2>1, BridgeAssumption
      DEF AcquireLock, LockFree, Inv, TypeOK, LockInv, OwnerInv, NoEngineLeftBehind, Alive, HoldingLock, desktop
  <2>2. CASE Dies({e})
    <3>1. UNCHANGED <<desktop, faults>>  BY <1>1 DEF AcquireLock
    <3>2. QED BY <2>2, <3>1, DiesKeepsInv DEF Inv, TypeOK, OwnerInv, NoEngineLeftBehind, desktop
  <2>3. QED BY <1>1, <2>1, <2>2 DEF AcquireLock
<1>2. CASE StartService(e)
  BY <1>2, GoesKeepsInv DEF StartService, HoldingLock
<1>3. CASE Bind(e)
  BY <1>3, GoesKeepsInv DEF Bind, HoldingLock
<1>4. CASE StopService(e)
  BY <1>4, GoesKeepsInv DEF StopService, HoldingLock
<1>5. CASE CloseServer(e)
  BY <1>5, GoesKeepsInv DEF CloseServer, HoldingLock
<1>6. CASE ReleaseLock(e)
  <2>1. Dies({e}) /\ UNCHANGED <<desktop, faults>>  BY <1>6 DEF ReleaseLock
  <2>2. QED BY <2>1, DiesKeepsInv DEF Inv, TypeOK, OwnerInv, NoEngineLeftBehind, desktop
<1>7. QED BY <1>1, <1>2, <1>3, <1>4, <1>5, <1>6 DEF EngineStep

\* Crashes, starts by hand and the port do not depend on a program.
LEMMA EnvironmentKeepsInv ==
  ASSUME Inv, \/ PortTaken \/ PortReturned
              \/ \E e \in Processes : ShutdownFails(e) \/ Crash(e) \/ StartByHand(e)
  PROVE  Inv'
<1>1. CASE PortTaken
  BY <1>1, BridgeAssumption
    DEF PortTaken, Inv, TypeOK, LockInv, OwnerInv, NoEngineLeftBehind, Alive, desktop
<1>2. CASE PortReturned
  BY <1>2, BridgeAssumption
    DEF PortReturned, Inv, TypeOK, LockInv, OwnerInv, NoEngineLeftBehind, Alive, desktop
<1>3. ASSUME NEW e \in Processes, Crash(e) PROVE Inv'
  <2>1. Dies({e}) /\ UNCHANGED desktop /\ faults' \in 0 .. MaxFaults
    BY <1>3, BridgeAssumption DEF Crash, Inv, TypeOK
  <2>2. QED BY <2>1, DiesKeepsInv DEF Inv, TypeOK, OwnerInv, NoEngineLeftBehind, desktop
<1>4. ASSUME NEW e \in Processes, StartByHand(e) PROVE Inv'
  BY <1>4, BridgeAssumption
    DEF StartByHand, Goes, Inv, TypeOK, LockInv, OwnerInv, NoEngineLeftBehind, Alive, HoldingLock, desktop
<1>5. ASSUME NEW e \in Processes, ShutdownFails(e) PROVE Inv'
  <2>1. faults' \in 0 .. MaxFaults
    BY <1>5, BridgeAssumption DEF ShutdownFails, Inv, TypeOK
  <2>2. QED BY <1>5, <2>1
    DEF ShutdownFails, Goes, Inv, TypeOK, LockInv, OwnerInv, NoEngineLeftBehind, Alive, HoldingLock, desktop
<1>6. QED BY <1>1, <1>2, <1>3, <1>4, <1>5

\* A program that stops the engine it started forgets it.
LEMMA StopKeepsInv ==
  ASSUME Inv, NEW d \in Desktops, StopOwned(d), faults' \in 0 .. MaxFaults,
         engine_process' = [engine_process EXCEPT ![d] = NoProcess],
         engine_mode' \in [Desktops -> BOOLEAN],
         at' \in [Desktops -> {"closed", "startup", "startup_wait", "startup_sync", "open",
                               "recover", "wait", "wait_own", "quitting"}]
  PROVE  Inv'
<1>1. CASE EngineProcessAlive(d)
  <2>1. engine_process[d] \in Processes
    BY <1>1, BridgeAssumption DEF EngineProcessAlive, Inv, TypeOK
  <2>2. Dies({engine_process[d]})
    BY <1>1 DEF StopOwned
  <2>3. /\ LockInv'
        /\ \A e \in Processes : ~ Alive(e)' => started_by'[e] = NoProcess
        /\ \A e \in Processes : Alive(e)' => /\ Alive(e) /\ e # engine_process[d]
                                             /\ started_by'[e] = started_by[e]
    BY <2>1, <2>2, DiesKeepsInv
  <2>4. TypeOK'
    BY <2>1, <2>2, DiesKeepsInv DEF Inv, TypeOK
  <2>5. NoEngineLeftBehind'
    BY <2>3, BridgeAssumption DEF Inv, TypeOK, OwnerInv, NoEngineLeftBehind
  <2>6. QED BY <2>3, <2>4, <2>5 DEF Inv, OwnerInv
<1>2. CASE ~ EngineProcessAlive(d)
  <2>1. UNCHANGED engine
    BY <1>2 DEF StopOwned
  <2>2. QED BY <1>2, <2>1, BridgeAssumption
    DEF EngineProcessAlive, Inv, TypeOK, LockInv, OwnerInv, NoEngineLeftBehind, Alive, engine
<1>3. QED BY <1>1, <1>2

\* A program that neither starts nor stops an engine keeps the invariant.
LEMMA WaitingKeepsInv ==
  ASSUME Inv, NEW d \in Desktops, UNCHANGED <<engine, engine_process>>,
         faults' \in 0 .. MaxFaults, engine_mode' \in [Desktops -> BOOLEAN],
         at' \in [Desktops -> {"closed", "startup", "startup_wait", "startup_sync", "open",
                               "recover", "wait", "wait_own", "quitting"}]
  PROVE  Inv'
  BY DEF Inv, TypeOK, LockInv, OwnerInv, NoEngineLeftBehind, Alive, engine

LEMMA FaultsStay ==
  ASSUME Inv, NoAnswer \/ Answered \/ UNCHANGED faults PROVE faults' \in 0 .. MaxFaults
  BY BridgeAssumption DEF Inv, TypeOK, NoAnswer, Answered

\* The steps of a desktop program.
LEMMA DesktopKeepsInv ==
  ASSUME Inv, NEW d \in Desktops,
         \/ OpenDesktop(d) \/ Ensure(d) \/ SpawnFails(d) \/ Recover(d) \/ ForceRestart(d)
         \/ ShutdownEngine(d) \/ CleanQuit(d) \/ DesktopCrash(d)
  PROVE  Inv'
<1>1. CASE OpenDesktop(d) \/ FindEngine(d) \/ WaitForOwn(d) \/ GiveUpOwn(d)
  BY <1>1, WaitingKeepsInv, FaultsStay DEF OpenDesktop, FindEngine, WaitForOwn, GiveUpOwn, Go, Inv, TypeOK
<1>2. CASE SpawnEngine(d)
  <2>1. faults' \in 0 .. MaxFaults
    BY <1>2, FaultsStay DEF SpawnEngine
  <2>2. at' \in [Desktops -> {"closed", "startup", "startup_wait", "startup_sync", "open",
                              "recover", "wait", "wait_own", "quitting"}]
    BY <1>2 DEF SpawnEngine, Go, Inv, TypeOK
  <2>3. PICK e \in Processes :
          /\ ~ Alive(e) /\ \A o \in Desktops \ {d} : engine_process[o] # e
          /\ process' = [process EXCEPT ![e] = "starting"]
          /\ started_by' = [started_by EXCEPT ![e] = d]
          /\ engine_process' = [engine_process EXCEPT ![d] = e]
    BY <1>2 DEF SpawnEngine
  <2>4. TypeOK' /\ LockInv'
    BY <1>2, <2>1, <2>2, <2>3, BridgeAssumption
      DEF SpawnEngine, Inv, TypeOK, LockInv, Alive, HoldingLock
  <2>5. \A f \in Processes : Alive(f) => started_by[f] # d
    BY <1>2, BridgeAssumption DEF SpawnEngine, EngineProcessAlive, Inv, TypeOK, OwnerInv, NoEngineLeftBehind
  <2>6. OwnerInv'
    BY <2>3, <2>5, BridgeAssumption DEF Inv, TypeOK, OwnerInv, NoEngineLeftBehind, Alive
  <2>7. QED BY <2>4, <2>6 DEF Inv
<1>3. CASE GiveUpStart(d)
  <2>1. faults' \in 0 .. MaxFaults
    BY <1>3, BridgeAssumption DEF GiveUpStart, Inv, TypeOK
  <2>2. QED BY <1>3, <2>1, StopKeepsInv DEF GiveUpStart, Go, Inv, TypeOK
<1>4. CASE Recover(d)
  <2>1. faults' \in 0 .. MaxFaults
    BY <1>4, FaultsStay DEF Recover
  <2>2. CASE EngineProcessAlive(d)
    BY <1>4, <2>1, <2>2, WaitingKeepsInv DEF Recover, Go, Inv, TypeOK
  <2>3. CASE ~ EngineProcessAlive(d)
    BY <1>4, <2>1, <2>3, StopKeepsInv DEF Recover, StopOwned, Go, Inv, TypeOK
  <2>4. QED BY <2>2, <2>3
<1>5. CASE ForceRestart(d)
  BY <1>5, StopKeepsInv, FaultsStay DEF ForceRestart, Go, Inv, TypeOK
<1>6. CASE ShutdownEngine(d)
  <2>1. faults' \in 0 .. MaxFaults
    BY <1>6, FaultsStay DEF ShutdownEngine
  <2>2. CASE UNCHANGED engine
    BY <1>6, <2>1, <2>2, WaitingKeepsInv DEF ShutdownEngine, Go, Inv, TypeOK
  <2>3. CASE /\ process' = [e \in Processes |-> IF process[e] \in {"serving", "stranded"} THEN "stopping" ELSE process[e]]
             /\ UNCHANGED <<started_by, engine_lock, port, faults>>
    BY <1>6, <2>1, <2>3
      DEF ShutdownEngine, Go, Inv, TypeOK, LockInv, OwnerInv, NoEngineLeftBehind, Alive, HoldingLock
  <2>4. QED BY <1>6, <2>2, <2>3 DEF ShutdownEngine
<1>7. CASE CleanQuit(d)
  BY <1>7, StopKeepsInv, FaultsStay DEF CleanQuit, Go, Inv, TypeOK
<1>8. CASE DesktopCrash(d)
  BY <1>8, BridgeAssumption
    DEF DesktopCrash, Go, Inv, TypeOK, LockInv, OwnerInv, NoEngineLeftBehind, Alive
<1>9. CASE SpawnFails(d)
  <2>1. faults' \in 0 .. MaxFaults
    BY <1>9, BridgeAssumption DEF SpawnFails, Inv, TypeOK
  <2>2. QED BY <1>9, <2>1, StopKeepsInv DEF SpawnFails, StopOwned, Go, Inv, TypeOK
<1>10. QED BY <1>1, <1>2, <1>3, <1>4, <1>5, <1>6, <1>7, <1>8, <1>9 DEF Ensure

LEMMA InvNext == ASSUME Inv, [Next]_vars PROVE Inv'
<1>1. CASE Next
  BY <1>1, EngineStepKeepsInv, EnvironmentKeepsInv, DesktopKeepsInv DEF Next
<1>2. CASE UNCHANGED vars
  BY <1>2 DEF vars, engine, desktop, Inv, TypeOK, LockInv, OwnerInv, NoEngineLeftBehind, Alive
<1>3. QED BY <1>1, <1>2

LEMMA InvHolds == Spec => []Inv
<1>1. Init => Inv  BY InvInit
<1>2. Inv /\ [Next]_vars => Inv'  BY InvNext
<1>3. QED BY <1>1, <1>2, PTL DEF Spec

\* Positions, handles, lock and port stay in their sets, and what a process holds
\* is held by a process that runs.
THEOREM TypeCorrect == Spec => []TypeOK
<1>1. Inv => TypeOK  BY DEF Inv
<1>2. QED BY <1>1, InvHolds, PTL

\* However many programs and processes there are, and whatever crashes, no two
\* engines schedule the projects of the directory at a time.
THEOREM SingleEngine == Spec => []OneEngine
<1>1. Inv => OneEngine
  BY DEF Inv, LockInv, HoldingLock, OneEngine, Schedules
<1>2. QED BY <1>1, InvHolds, PTL

\* An engine a program has started is the one it has the handle of, until one of
\* the two ends.
THEOREM EnginesAreOwned == Spec => []NoEngineLeftBehind
<1>1. Inv => NoEngineLeftBehind  BY DEF Inv, OwnerInv
<1>2. QED BY <1>1, InvHolds, PTL
=============================================================================
